------------------------------ MODULE PartsProofs ------------------------------
(***************************************************************************)
(* The parts that are machines, for every value of their constants: what   *)
(* MCParts checks for two requests or two batches of files.                *)
(***************************************************************************)
EXTENDS Parts, SequenceTheorems, FiniteSetTheorems, WellFoundedInduction, TLAPS

(***************************************************************************)
(* Induction, over sets: a set of naturals that is not empty has a least   *)
(* element.                                                                *)
(***************************************************************************)
Below == {p \in Nat \X Nat : p[1] < p[2]}

LEMMA Least ==
    ASSUME NEW T, T \subseteq Nat, T # {}
    PROVE  \E m \in T : \A k \in T : m <= k
<1>1. IsWellFoundedOn(Below, Nat)
    BY NatLessThanWellFounded DEF OpToRel, Below
<1>2. PICK m \in T : \A k \in T : <<k, m>> \notin Below
    BY <1>1, WFMin
<1>3. \A k \in T : m <= k
  <2> TAKE k \in T
  <2>1. k \in Nat /\ m \in Nat /\ <<k, m>> \notin Below
      BY <1>2
  <2> QED
      BY <2>1 DEF Below
<1> QED
    BY <1>3

LEMMA Greatest ==
    ASSUME NEW T, NEW n \in Nat, T \subseteq 0 .. n, T # {}
    PROVE  \E m \in T : \A k \in T : k <= m
<1> DEFINE D == {n - k : k \in T}
<1>1. D \subseteq Nat /\ D # {}
  <2>1. \A k \in T : n - k \in Nat
      OBVIOUS
  <2>2. PICK k \in T : TRUE
      OBVIOUS
  <2>3. n - k \in D
      OBVIOUS
  <2> QED
      BY <2>1, <2>3
<1>2. PICK d \in D : \A e \in D : d <= e
    BY <1>1, Least
<1>3. PICK m \in T : d = n - m
    OBVIOUS
<1>4. \A k \in T : k <= m
  <2> TAKE k \in T
  <2>1. n - m <= n - k
      BY <1>2, <1>3
  <2> QED
      BY <2>1
<1> QED
    BY <1>4

(* What holds at 0, and one further on from where it holds.                *)
LEMMA Induct ==
    ASSUME NEW S, 0 \in S, \A n \in Nat : n \in S => n + 1 \in S
    PROVE  Nat \subseteq S
<1> SUFFICES ASSUME Nat \ S # {} PROVE FALSE
    OBVIOUS
<1>1. PICK m \in Nat \ S : \A k \in Nat \ S : m <= k
    BY Least
<1>2. m # 0
    OBVIOUS
<1>3. m - 1 \in Nat /\ m - 1 \in S
    BY <1>1, <1>2
<1> QED
    BY <1>1, <1>3

(* The same up to n.                                                       *)
LEMMA InductTo ==
    ASSUME NEW N \in Nat, NEW S, 0 \in S, \A n \in 0 .. N - 1 : n \in S => n + 1 \in S
    PROVE  0 .. N \subseteq S
<1> DEFINE T == {n \in Nat : n <= N => n \in S}
<1>1. 0 \in T
    OBVIOUS
<1>2. \A n \in Nat : n \in T => n + 1 \in T
    OBVIOUS
<1>3. Nat \subseteq T
    BY <1>1, <1>2, Induct
<1> QED
    BY <1>3

(* The CHOOSE of a minimum and of a maximum.                               *)
LEMMA Chosen ==
    ASSUME NEW T, NEW n \in Nat, T \subseteq 0 .. n, T # {}
    PROVE  /\ (CHOOSE x \in T : \A y \in T : x <= y) \in T
           /\ \A y \in T : (CHOOSE x \in T : \A z \in T : x <= z) <= y
           /\ (CHOOSE x \in T : \A y \in T : x >= y) \in T
           /\ \A y \in T : (CHOOSE x \in T : \A z \in T : x >= z) >= y
<1>1. \E m \in T : \A k \in T : m <= k
  <2>1. T \subseteq Nat
      OBVIOUS
  <2> QED
      BY <2>1, Least
<1>2. \E m \in T : \A k \in T : k <= m
    BY Greatest
<1>3. \E m \in T : \A k \in T : m >= k
    BY <1>2
<1> QED
    BY <1>1, <1>3

(* A function that is defined from its value one earlier: there is one.    *)
Steps(n, V) == [1 .. n -> [V -> V]]
Unfolds(f, n, V, v, F) ==
    f \in [0 .. n -> V] /\ f[0] = v /\ \A k \in 1 .. n : f[k] = F[k][f[k - 1]]

LEMMA Recursion ==
    ASSUME NEW N \in Nat, NEW V, NEW v \in V, NEW F \in Steps(N, V)
    PROVE  \E f : Unfolds(f, N, V, v, F)
<1> DEFINE P(m, f) == f[0] = v /\ \A k \in 1 .. m : f[k] = F[k][f[k - 1]]
           S == {m \in Nat : m <= N => \E f \in [0 .. m -> V] : P(m, f)}
<1>1. 0 \in S
  <2>1. [k \in 0 .. 0 |-> v] \in [0 .. 0 -> V] /\ P(0, [k \in 0 .. 0 |-> v])
      OBVIOUS
  <2> QED
      BY <2>1
<1>2. \A m \in 0 .. N - 1 : m \in S => m + 1 \in S
  <2> SUFFICES ASSUME NEW m \in 0 .. N - 1, m \in S PROVE m + 1 \in S
      OBVIOUS
  <2>1. PICK f \in [0 .. m -> V] : P(m, f)
      OBVIOUS
  <2> DEFINE g == [k \in 0 .. m + 1 |-> IF k = m + 1 THEN F[m + 1][f[m]] ELSE f[k]]
  <2>2. F[m + 1][f[m]] \in V
    <3>1. F[m + 1] \in [V -> V] /\ f[m] \in V
        BY DEF Steps
    <3> QED
        BY <3>1
  <2>3. g \in [0 .. m + 1 -> V]
      BY <2>2
  <2>4. P(m + 1, g)
    <3>1. g[0] = v
        BY <2>1
    <3>2. \A k \in 1 .. m + 1 : g[k] = F[k][g[k - 1]]
      <4> TAKE k \in 1 .. m + 1
      <4>1. CASE k = m + 1
        <5>1. k - 1 = m /\ g[k - 1] = f[m] /\ g[k] = F[m + 1][f[m]]
            BY <4>1
        <5> QED
            BY <4>1, <5>1
      <4>2. CASE k # m + 1
          BY <4>2, <2>1
      <4> QED
          BY <4>1, <4>2
    <3> QED
        BY <3>1, <3>2
  <2> QED
    <3> HIDE DEF P, g
    <3>1. \E h \in [0 .. m + 1 -> V] : P(m + 1, h)
        BY <2>3, <2>4
    <3> QED
        BY <3>1
<1>3. 0 .. N \subseteq S
    BY <1>1, <1>2, InductTo
<1>4. \E f \in [0 .. N -> V] : P(N, f)
  <2>1. N \in 0 .. N /\ N <= N
      OBVIOUS
  <2>2. N \in S
      BY <1>3, <2>1
  <2> QED
      BY <2>1, <2>2
<1> QED
    BY <1>4 DEF Unfolds

-----------------------------------------------------------------------------
(* A machine counts as everyone does.                                      *)
LEMMA SameCardinality ==
    ASSUME NEW S
    PROVE  /\ Rate!Cardinality(S) = Cardinality(S) /\ (Rate!IsFiniteSet(S) <=> IsFiniteSet(S))
           /\ Card!Cardinality(S) = Cardinality(S)
<1>1. Rate!Cardinality(S) = Cardinality(S)
    BY DEF Rate!Cardinality, Cardinality
<1>2. Rate!IsFiniteSet(S) <=> IsFiniteSet(S)
    BY DEF Rate!IsFiniteSet, IsFiniteSet
<1>3. Card!Cardinality(S) = Cardinality(S)
    BY DEF Card!Cardinality, Cardinality
<1> QED
    BY <1>1, <1>2, <1>3

-----------------------------------------------------------------------------
(***************************************************************************)
(* The upload card.                                                        *)
(***************************************************************************)
AFile == [name: {"document", "image"}, content: Nat]
BatchPcs == Card!Over \cup {"creating", "next", "sending", "reading", "answering", "opening"}
BatchType == [pc: BatchPcs, left: Seq(AFile), chosen: Seq(AFile), mount: Nat]
CardType == [mount: Nat \ {0}, busy: BOOLEAN, sending: BOOLEAN, error: Batches \cup {None},
             latest: Batches \cup {None}, overlap: BOOLEAN]
CardTyped ==
    /\ card \in CardType /\ batch \in [Batches -> BatchType]
    /\ docs \in [Batches -> SUBSET Nat]
    /\ page \in Batches \cup {"landing", "elsewhere"}

(* Every file of a batch is stored or still to come.                       *)
BatchOK(b) ==
    /\ batch[b].mount <= card.mount
    /\ Len(batch[b].chosen) <= MaxFiles
    /\ batch[b].pc = "none" => batch[b].chosen = <<>>
    /\ docs[b] \subseteq Card!Contents(batch[b].chosen)
    /\ batch[b].pc \in BatchPcs \ {"none", "refused", "failed"} =>
          Card!Contents(batch[b].chosen) = docs[b] \cup Card!Contents(batch[b].left)
    /\ batch[b].pc \in {"sending", "reading", "answering"} => batch[b].left # <<>>
    /\ batch[b].pc = "answering" => Head(batch[b].left).content \in docs[b]
    /\ batch[b].pc \in {"opening", "opened"} => batch[b].left = <<>>
    /\ page = b => batch[b].pc = "opened"

(* At most one batch is under way on a card without overlap.               *)
CardOK ==
    /\ page = "landing" /\ ~card.overlap =>
          /\ card.busy <=> Card!Here # {}
          /\ \A b, c \in Card!Here : b = c
    /\ Card!FailureIsTold
    /\ Card!SaysWhatItSends

UploadInv == CardTyped /\ (\A b \in Batches : BatchOK(b)) /\ CardOK

LEMMA ContentsBounded ==
    ASSUME NEW s \in Seq(AFile)
    PROVE  /\ IsFiniteSet(Card!Contents(s)) /\ Cardinality(Card!Contents(s)) <= Len(s)
           /\ Card!Contents(s) \subseteq Nat
<1> DEFINE f == [k \in 1..Len(s) |-> s[k].content]
<1>1. f \in Surjection(1..Len(s), Card!Contents(s))
    BY DEF Surjection, Card!Contents, AFile
<1>2. IsFiniteSet(1..Len(s)) /\ Cardinality(1..Len(s)) = Len(s)
  <2>1. Len(s) \in Nat
    OBVIOUS
  <2>2. IsFiniteSet(1..Len(s)) /\ Cardinality(1..Len(s)) = IF 1 > Len(s) THEN 0 ELSE Len(s) - 1 + 1
    BY <2>1, FS_Interval
  <2> QED
    BY <2>1, <2>2
<1>3. Card!Contents(s) \subseteq Nat
  <2>1. \A k \in DOMAIN s : s[k] \in AFile
    OBVIOUS
  <2> QED
    BY <2>1 DEF Card!Contents, AFile
<1> QED
    BY <1>1, <1>2, <1>3, FS_Surjection

LEMMA ContentsOfRest ==
    ASSUME NEW s \in Seq(AFile), s # <<>>
    PROVE  Card!Contents(s) = {Head(s).content} \cup Card!Contents(Tail(s))
<1>1. \A k \in 1..Len(s) : k # 1 => k - 1 \in 1..Len(Tail(s)) /\ Tail(s)[k - 1] = s[k]
  <2> SUFFICES ASSUME NEW k \in 1..Len(s), k # 1
               PROVE  k - 1 \in 1..Len(Tail(s)) /\ Tail(s)[k - 1] = s[k]
    OBVIOUS
  <2>1. Len(s) \in Nat /\ Len(Tail(s)) = Len(s) - 1
        /\ \A i \in 1..Len(Tail(s)) : Tail(s)[i] = s[i + 1]
    BY HeadTailProperties
  <2>2. k - 1 \in 1..Len(Tail(s)) /\ (k - 1) + 1 = k
    BY <2>1
  <2> QED
    BY <2>1, <2>2
<1>2. \A k \in 1..Len(Tail(s)) : k + 1 \in 1..Len(s) /\ Tail(s)[k] = s[k + 1]
    BY HeadTailProperties
<1>3. 1 \in 1..Len(s) /\ Head(s) = s[1]
    OBVIOUS
<1>4. DOMAIN s = 1..Len(s) /\ DOMAIN Tail(s) = 1..Len(Tail(s))
    BY HeadTailProperties
<1>5. Card!Contents(s) \subseteq {Head(s).content} \cup Card!Contents(Tail(s))
  <2> SUFFICES ASSUME NEW k \in 1..Len(s)
               PROVE  s[k].content \in {Head(s).content} \cup Card!Contents(Tail(s))
    BY <1>4 DEF Card!Contents
  <2> QED
    BY <1>1, <1>3, <1>4 DEF Card!Contents
<1>6. {Head(s).content} \cup Card!Contents(Tail(s)) \subseteq Card!Contents(s)
    BY <1>2, <1>3, <1>4 DEF Card!Contents
<1> QED
    BY <1>5, <1>6

LEMMA UploadInit == Card!UploadsAssumption /\ Card!Init => UploadInv
<1> SUFFICES ASSUME Card!UploadsAssumption, Card!Init PROVE UploadInv
    OBVIOUS
<1>1. CardTyped
    BY DEF Card!Init, Card!Fresh, Card!Unsent, Card!UploadsAssumption, CardTyped, CardType,
           BatchType, BatchPcs, Card!Over
<1>2. ASSUME NEW b \in Batches PROVE BatchOK(b)
  <2>1. Card!Contents(<<>>) = {}
    BY DEF Card!Contents
  <2> QED
    BY <2>1 DEF Card!Init, Card!Fresh, Card!Unsent, Card!UploadsAssumption, BatchOK, BatchPcs, Card!Over
<1>3. CardOK
    BY DEF Card!Init, Card!Fresh, Card!Unsent, CardOK, Card!Here, Card!Running, Card!Over,
           Card!FailureIsTold, Card!SaysWhatItSends
<1> QED
    BY <1>1, <1>2, <1>3 DEF UploadInv

(* The files a batch is made of are some of those that were dropped.       *)
LEMMA ChosenIs ==
    ASSUME Card!UploadsAssumption, NEW files \in Files
    PROVE  Card!Chosen(files) \in Seq(AFile) /\ Len(Card!Chosen(files)) <= MaxFiles
<1> DEFINE n == IF Len(files) < MaxFiles THEN Len(files) ELSE MaxFiles
<1>1. files \in Seq(AFile) /\ Len(files) \in Nat
    BY DEF Card!UploadsAssumption, AFile
<1>2. n \in 0..Len(files) /\ n <= MaxFiles
    BY <1>1 DEF Card!UploadsAssumption
<1>3. SubSeq(files, 1, n) \in Seq(AFile) /\ Len(SubSeq(files, 1, n)) = n
    BY <1>1, <1>2, SubSeqProperties
<1> QED
    BY <1>2, <1>3 DEF Card!Chosen

(* A step of batch b that keeps the page and the contents of the card's    *)
(* mount leaves the other batches as they are.                             *)
Only(b) ==
    /\ card'.mount = card.mount /\ page' = page
    /\ \A c \in Batches \ {b} : batch'[c] = batch[c] /\ docs'[c] = docs[c]

LEMMA OthersKept ==
    ASSUME UploadInv, NEW b \in Batches, Only(b)
    PROVE  /\ \A c \in Batches \ {b} : BatchOK(c)'
           /\ \A c \in Batches \ {b} : c \in Card!Here' <=> c \in Card!Here
BY DEF UploadInv, Only, BatchOK, Card!Here, Card!OnCard, Card!Running

LEMMA SendKeeps ==
    ASSUME Card!UploadsAssumption, UploadInv, NEW b \in Batches, NEW files \in Files, Card!Send(b, files)
    PROVE  UploadInv'
<1> DEFINE chosen == Card!Chosen(files)
           to == IF (\E k \in DOMAIN chosen : ~Card!accepted(chosen[k])) \/ chosen = <<>>
                 THEN "refused" ELSE "creating"
<1>1. /\ page = "landing" /\ batch[b] = Card!Unsent /\ UNCHANGED <<docs, page>>
      /\ batch' = [batch EXCEPT ![b] = [pc |-> to, left |-> chosen, chosen |-> chosen,
                                        mount |-> card.mount]]
      /\ card'.mount = card.mount /\ card'.latest = b /\ card'.sending = card.sending
      /\ card' \in CardType
      /\ to = "refused" => card'.busy = card.busy /\ card'.overlap = card.overlap
      /\ to = "creating" => card'.busy /\ (card'.overlap <=> card.overlap \/ Card!Here # {})
  <2>1. card \in CardType
    BY DEF UploadInv, CardTyped
  <2> QED
    BY <2>1 DEF Card!Send, CardType
<1>2. chosen \in Seq(AFile) /\ Len(chosen) <= MaxFiles
    BY ChosenIs
<1>3. Only(b) /\ batch'[b] = [pc |-> to, left |-> chosen, chosen |-> chosen, mount |-> card.mount]
    BY <1>1 DEF Only, UploadInv, CardTyped
<1>4. CardTyped'
    BY <1>1, <1>2 DEF UploadInv, CardTyped, CardType, BatchType, BatchPcs, Card!Over
<1>5. BatchOK(b)'
  <2>1. docs[b] = {} /\ page # b
    BY <1>1 DEF UploadInv, BatchOK, Card!Unsent, Card!Contents, Card!UploadsAssumption
  <2> QED
    BY <1>1, <1>2, <1>3, <2>1 DEF BatchOK, BatchPcs, UploadInv, CardTyped, CardType
<1>6. b \notin Card!Here /\ (b \in Card!Here' <=> to = "creating")
    BY <1>1, <1>3 DEF Card!Here, Card!OnCard, Card!Running, Card!Over, Card!Unsent
<1>7. CardOK'
  <2>1. ~card'.overlap => (card'.busy <=> Card!Here' # {}) /\ \A c, d \in Card!Here' : c = d
    BY <1>1, <1>3, <1>6, OthersKept DEF UploadInv, CardOK, Card!Here, Card!Running
  <2>2. Card!FailureIsTold'
    BY <1>1, <1>3 DEF Card!FailureIsTold
  <2>3. Card!SaysWhatItSends'
    BY <1>1, <1>3, <1>6, OthersKept DEF UploadInv, CardOK, Card!SaysWhatItSends, Card!Unsent, Card!Here, Card!Running
  <2> QED
    BY <2>1, <2>2, <2>3 DEF CardOK
<1> QED
    BY <1>3, <1>4, <1>5, <1>7, OthersKept DEF UploadInv

(* Where a batch of the card goes on and the card does not change.         *)
LEMMA GoesOn ==
    ASSUME UploadInv, NEW b \in Batches, Only(b), card' = card, CardTyped',
           b \in Card!Running, b \in Card!Running', batch'[b].mount = batch[b].mount,
           batch[b].pc # "sending" \/ batch'[b].pc = "sending" \/ b \notin Card!Here
    PROVE  CardOK'
<1>1. b \in Card!Here' <=> b \in Card!Here
    BY DEF Card!Here, Card!OnCard, Only
<1>2. \A c \in Batches : c \in Card!Here' <=> c \in Card!Here
    BY <1>1, OthersKept
<1>3. Card!Here' = Card!Here
    BY <1>2 DEF Card!Here, Card!Running
<1>4. Card!FailureIsTold'
    BY DEF UploadInv, CardOK, Card!FailureIsTold, Only, Card!OnCard, Card!Running, Card!Over, CardTyped, CardType
<1>5. Card!SaysWhatItSends'
  <2>1. \A c \in Card!Here : batch[c].pc = "sending" => batch'[c].pc = "sending"
    BY DEF Only, Card!Here, Card!Running
  <2> QED
    BY <1>3, <2>1 DEF UploadInv, CardOK, Card!SaysWhatItSends, Only
<1> QED
    BY <1>3, <1>4, <1>5 DEF UploadInv, CardOK, Only

LEMMA CreateKeeps ==
    ASSUME UploadInv, NEW b \in Batches, Card!CreateCase(b) \/ Card!Invalidate(b) PROVE UploadInv'
<1>1. /\ UNCHANGED <<card, docs, page>> /\ batch[b].pc \in {"creating", "next"}
      /\ batch' = [batch EXCEPT ![b].pc = IF batch[b].pc = "creating" THEN "next" ELSE "opening"]
      /\ batch[b].pc = "next" => batch[b].left = <<>>
    BY DEF Card!CreateCase, Card!Invalidate, Card!Go
<1>2. Only(b) /\ batch'[b] = [batch[b] EXCEPT !.pc = IF @ = "creating" THEN "next" ELSE "opening"]
    BY <1>1 DEF Only, UploadInv, CardTyped
<1>3. CardTyped'
    BY <1>1 DEF UploadInv, CardTyped, BatchType, BatchPcs, Card!Over
<1>4. BatchOK(b)'
    BY <1>1, <1>2 DEF UploadInv, BatchOK, BatchPcs, Card!Over, CardTyped, BatchType
<1>5. CardOK'
    BY <1>1, <1>2, <1>3, GoesOn DEF Card!Running, Card!Over, UploadInv, CardTyped, BatchType
<1> QED
    BY <1>2, <1>3, <1>4, <1>5, OthersKept DEF UploadInv

(* The bytes of a file: on the card they set what it says, and clear it.   *)
LEMMA BytesKeep ==
    ASSUME UploadInv, NEW b \in Batches, Card!Start(b) \/ Card!BytesUp(b) PROVE UploadInv'
<1> DEFINE to == IF batch[b].pc = "next" THEN "sending" ELSE "reading"
<1>1. /\ UNCHANGED <<docs, page>> /\ batch[b].pc \in {"next", "sending"} /\ batch[b].left # <<>>
      /\ batch' = [batch EXCEPT ![b].pc = to]
      /\ card' = IF Card!OnCard(b) THEN [card EXCEPT !.sending = to = "sending"] ELSE card
    BY DEF Card!Start, Card!BytesUp, Card!Go, Card!Set, UploadInv, BatchOK
<1>2. Only(b) /\ batch'[b] = [batch[b] EXCEPT !.pc = to]
    BY <1>1 DEF Only, UploadInv, CardTyped, CardType
<1>t. to \in {"sending", "reading"}
    OBVIOUS
<1>3. CardTyped'
  <2>1. card' \in CardType
    BY <1>1 DEF UploadInv, CardTyped, CardType
  <2>2. batch' \in [Batches -> BatchType]
    <3> HIDE DEF to
    <3>1. to \in BatchPcs
      BY <1>t DEF BatchPcs
    <3> QED
      BY <1>1, <3>1 DEF UploadInv, CardTyped, BatchType
  <2> QED
    BY <1>1, <2>1, <2>2 DEF UploadInv, CardTyped
<1>4. BatchOK(b)'
  <2> HIDE DEF to
  <2>1. /\ batch'[b].pc = to /\ batch'[b].left = batch[b].left /\ batch'[b].chosen = batch[b].chosen
        /\ batch'[b].mount = batch[b].mount
    BY <1>2 DEF UploadInv, CardTyped, BatchType
  <2> QED
    BY <1>1, <1>2, <1>t, <2>1 DEF UploadInv, BatchOK, BatchPcs, Only
<1>5. CASE b \notin Card!Here
  <2>1. card' = card
    BY <1>1, <1>5 DEF Card!Here, Card!Running, Card!Over
  <2> QED
    BY <1>1, <1>2, <1>3, <1>4, <1>5, <2>1, GoesOn, OthersKept
    DEF UploadInv, Card!Running, Card!Over, CardTyped, BatchType
<1>6. CASE b \in Card!Here
  <2>1. card' = [card EXCEPT !.sending = to = "sending"]
    BY <1>1, <1>6 DEF Card!Here
  <2>2. Card!Here' = Card!Here
    BY <1>1, <1>2, <1>6, OthersKept
    DEF Card!Here, Card!Running, Card!Over, Card!OnCard, Only, UploadInv, CardTyped, BatchType
  <2>3. /\ card'.busy = card.busy /\ card'.overlap = card.overlap /\ card'.mount = card.mount
        /\ card'.latest = card.latest /\ card'.error = card.error
        /\ card'.sending = (to = "sending")
    BY <2>1 DEF UploadInv, CardTyped, CardType
  <2>4. Card!FailureIsTold'
    BY <1>1, <1>2, <2>3 DEF UploadInv, CardOK, Card!FailureIsTold, Only, Card!OnCard, CardTyped, CardType
  <2>5. Card!SaysWhatItSends'
    <3>1. batch'[b].pc = to
      BY <1>2 DEF UploadInv, CardTyped, BatchType
    <3>2. card'.sending => batch'[b].pc = "sending"
      BY <2>3, <3>1
    <3>3. b \in Card!Here'
      BY <1>6, <2>2
    <3> QED
      BY <3>2, <3>3 DEF Card!SaysWhatItSends
  <2>6. CardOK'
    BY <1>1, <2>2, <2>3, <2>4, <2>5 DEF UploadInv, CardOK
  <2> QED
    BY <1>2, <1>3, <1>4, <2>6, OthersKept DEF UploadInv
<1> QED
    BY <1>5, <1>6

LEMMA StoreKeeps ==
    ASSUME UploadInv, NEW b \in Batches, Card!Store(b) \/ Card!Answer(b) PROVE UploadInv'
<1>t. /\ batch[b].chosen \in Seq(AFile) /\ batch[b].left \in Seq(AFile) /\ batch[b].left # <<>>
      /\ batch[b].pc \in {"reading", "answering"}
    BY DEF Card!Store, Card!Answer, UploadInv, CardTyped, BatchType, BatchOK
<1>h. /\ Head(batch[b].left) \in AFile /\ Tail(batch[b].left) \in Seq(AFile)
      /\ Card!Contents(batch[b].left) = {Head(batch[b].left).content} \cup Card!Contents(Tail(batch[b].left))
    BY <1>t, HeadTailProperties, ContentsOfRest
<1>1. CASE Card!Store(b)
  <2>1. /\ UNCHANGED <<card, page>> /\ batch' = [batch EXCEPT ![b].pc = "answering"]
        /\ docs' = [docs EXCEPT ![b] = @ \cup {Head(batch[b].left).content}]
        /\ batch[b].pc = "reading"
    BY <1>1 DEF Card!Store, Card!Go
  <2>2. /\ Only(b) /\ batch'[b] = [batch[b] EXCEPT !.pc = "answering"]
        /\ docs'[b] = docs[b] \cup {Head(batch[b].left).content}
    BY <2>1 DEF Only, UploadInv, CardTyped
  <2>3. CardTyped'
    BY <1>h, <2>1 DEF UploadInv, CardTyped, BatchType, BatchPcs, Card!Over, AFile
  <2>4. BatchOK(b)'
    BY <1>t, <1>h, <2>1, <2>2 DEF UploadInv, BatchOK, BatchPcs, Card!Over, CardTyped, BatchType
  <2>5. CardOK'
    BY <2>1, <2>2, <2>3, GoesOn DEF Card!Running, Card!Over, UploadInv, CardTyped, BatchType
  <2> QED
    BY <2>2, <2>3, <2>4, <2>5, OthersKept DEF UploadInv
<1>2. CASE Card!Answer(b)
  <2>1. /\ UNCHANGED <<card, docs, page>> /\ batch[b].pc = "answering"
        /\ batch' = [batch EXCEPT ![b].pc = "next", ![b].left = Tail(@)]
    BY <1>2 DEF Card!Answer
  <2>2. /\ Only(b) /\ batch'[b] = [batch[b] EXCEPT !.pc = "next", !.left = Tail(@)]
    BY <2>1 DEF Only, UploadInv, CardTyped
  <2>3. CardTyped'
    BY <1>h, <2>1 DEF UploadInv, CardTyped, BatchType, BatchPcs, Card!Over
  <2>4. BatchOK(b)'
    BY <1>t, <1>h, <2>1, <2>2 DEF UploadInv, BatchOK, BatchPcs, Card!Over, CardTyped, BatchType
  <2>5. CardOK'
    BY <2>1, <2>2, <2>3, GoesOn DEF Card!Running, Card!Over, UploadInv, CardTyped, BatchType
  <2> QED
    BY <2>2, <2>3, <2>4, <2>5, OthersKept DEF UploadInv
<1> QED
    BY <1>1, <1>2

LEMMA FailKeeps ==
    ASSUME Card!UploadsAssumption, UploadInv, NEW b \in Batches, Card!Fail(b) PROVE UploadInv'
<1>1. /\ UNCHANGED <<docs, page>> /\ batch[b].pc \in BatchPcs \ Card!Over
      /\ batch' = [batch EXCEPT ![b].pc = "failed"]
      /\ card' = IF Card!OnCard(b) THEN [card EXCEPT !.error = b, !.busy = FALSE, !.sending = FALSE] ELSE card
  <2>1. Card!Finally(b, [card EXCEPT !.error = b]) = [card EXCEPT !.error = b, !.busy = FALSE, !.sending = FALSE]
    BY DEF UploadInv, CardTyped, CardType, Card!Finally
  <2> QED
    BY <2>1 DEF Card!Fail, Card!Go, Card!Set, BatchPcs, Card!Over
<1>2. Only(b) /\ batch'[b] = [batch[b] EXCEPT !.pc = "failed"]
    BY <1>1 DEF Only, UploadInv, CardTyped, CardType
<1>3. CardTyped'
    BY <1>1 DEF UploadInv, CardTyped, BatchType, BatchPcs, Card!Over, CardType
<1>4. BatchOK(b)'
    BY <1>1, <1>2 DEF UploadInv, BatchOK, BatchPcs, Card!Over, CardTyped, BatchType, Only
<1>5. Card!Here' = Card!Here \ {b} /\ (b \in Card!Here <=> Card!OnCard(b))
    BY <1>1, <1>2, OthersKept DEF Card!Here, Card!Running, Card!Over, UploadInv, CardTyped, BatchType, BatchPcs
<1>6. CASE b \notin Card!Here
  <2>1. card' = card /\ Card!Here' = Card!Here /\ ~Card!OnCard(b)'
    BY <1>1, <1>2, <1>5, <1>6 DEF Card!OnCard, Only, UploadInv, CardTyped, BatchType
  <2>2. \A c \in Batches \ {b} : batch'[c] = batch[c]
    BY <1>2 DEF Only
  <2>3. Card!FailureIsTold'
    BY <1>1, <1>2, <2>1, <2>2 DEF UploadInv, CardOK, Card!FailureIsTold, Card!OnCard, CardTyped, CardType
  <2>4. Card!SaysWhatItSends'
    BY <1>1, <1>6, <2>1, <2>2 DEF UploadInv, CardOK, Card!SaysWhatItSends, Card!Here, Card!Running
  <2>5. CardOK'
    BY <1>1, <2>1, <2>3, <2>4 DEF UploadInv, CardOK
  <2> QED
    BY <1>2, <1>3, <1>4, <2>5, OthersKept DEF UploadInv
<1>7. CASE b \in Card!Here
  <2>1. /\ card'.error = b /\ ~card'.busy /\ ~card'.sending /\ card'.overlap = card.overlap
    BY <1>1, <1>5, <1>7 DEF UploadInv, CardTyped, CardType
  <2>2. b # None
    BY DEF Card!UploadsAssumption
  <2>3. CardOK'
    BY <1>1, <1>5, <1>7, <2>1, <2>2 DEF UploadInv, CardOK, Card!FailureIsTold, Card!SaysWhatItSends
  <2> QED
    BY <1>2, <1>3, <1>4, <2>3, OthersKept DEF UploadInv
<1> QED
    BY <1>6, <1>7

(* Where the page goes, no card is left; a new one knows no batch.         *)
LEMMA PageKeeps ==
    ASSUME Card!UploadsAssumption, UploadInv, (\E b \in Batches : Card!Open(b)) \/ Card!Leave \/ Card!Enter
    PROVE  UploadInv'
<1>1. CASE \E b \in Batches : Card!Open(b)
  <2>1. PICK b \in Batches : Card!Open(b)
    BY <1>1
  <2>2. /\ UNCHANGED <<card, docs>> /\ page' = b /\ batch[b].pc = "opening"
        /\ batch' = [batch EXCEPT ![b].pc = "opened"] /\ batch'[b] = [batch[b] EXCEPT !.pc = "opened"]
        /\ b # "landing"
    BY <2>1 DEF Card!Open, Card!Go, UploadInv, CardTyped, Card!UploadsAssumption
  <2>3. CardTyped'
    BY <2>2 DEF UploadInv, CardTyped, BatchType, BatchPcs, Card!Over
  <2>4. ASSUME NEW c \in Batches PROVE BatchOK(c)'
    <3>1. CASE c = b
      <4>1. /\ batch'[b].pc = "opened" /\ batch'[b].left = batch[b].left
            /\ batch'[b].chosen = batch[b].chosen /\ batch'[b].mount = batch[b].mount
        BY <2>2 DEF UploadInv, CardTyped, BatchType
      <4>2. BatchOK(b)
        BY DEF UploadInv
      <4> QED
        BY <2>2, <3>1, <4>1, <4>2 DEF BatchOK, BatchPcs, Card!Over
    <3>2. CASE c # b
      BY <2>2, <3>2 DEF UploadInv, BatchOK, CardTyped
    <3> QED
      BY <3>1, <3>2
  <2> QED
    BY <2>2, <2>3, <2>4 DEF UploadInv, CardOK, Card!FailureIsTold, Card!SaysWhatItSends
<1>2. CASE Card!Leave
  <2>1. CardTyped' /\ \A c \in Batches : BatchOK(c)'
    BY <1>2 DEF Card!Leave, UploadInv, CardTyped, BatchOK, Card!UploadsAssumption
  <2> QED
    BY <1>2, <2>1 DEF Card!Leave, UploadInv, CardOK, Card!FailureIsTold, Card!SaysWhatItSends
<1>3. CASE Card!Enter
  <2>1. /\ UNCHANGED <<batch, docs>> /\ page' = "landing" /\ card'.mount = card.mount + 1
        /\ card'.latest = None /\ card'.busy = FALSE /\ card'.sending = FALSE
        /\ card' \in CardType
    <3>1. card.mount + 1 \in Nat \ {0}
      BY DEF UploadInv, CardTyped, CardType
    <3>2. card' = [mount |-> card.mount + 1, busy |-> FALSE, sending |-> FALSE, error |-> None,
                   latest |-> None, overlap |-> FALSE]
      BY <1>3 DEF Card!Enter, Card!Fresh
    <3>3. card' \in CardType
      BY <3>1, <3>2 DEF CardType
    <3>4. /\ card'.mount = card.mount + 1 /\ card'.latest = None
          /\ card'.busy = FALSE /\ card'.sending = FALSE
      BY <3>2
    <3> QED
      BY <1>3, <3>3, <3>4 DEF Card!Enter
  <2>2. CardTyped'
    BY <2>1 DEF UploadInv, CardTyped
  <2>3. ASSUME NEW c \in Batches PROVE BatchOK(c)' /\ ~Card!OnCard(c)'
    <3>1. batch[c].mount \in Nat /\ card.mount \in Nat /\ batch[c].mount <= card.mount
      BY DEF UploadInv, CardTyped, BatchType, CardType, BatchOK
    <3>2. ~Card!OnCard(c)'
      BY <2>1, <3>1 DEF Card!OnCard
    <3>3. page' # c
      BY <2>1 DEF Card!UploadsAssumption
    <3> QED
      BY <2>1, <3>1, <3>2, <3>3 DEF UploadInv, BatchOK
  <2>4. Card!Here' = {}
    BY <2>3 DEF Card!Here, Card!Running
  <2> QED
    BY <2>1, <2>2, <2>3, <2>4 DEF UploadInv, CardOK, Card!FailureIsTold, Card!SaysWhatItSends
<1> QED
    BY <1>1, <1>2, <1>3

LEMMA UploadStep == Card!UploadsAssumption /\ UploadInv /\ [Card!Next]_Card!uploadVars => UploadInv'
<1> SUFFICES ASSUME Card!UploadsAssumption, UploadInv, [Card!Next]_Card!uploadVars PROVE UploadInv'
    OBVIOUS
<1>1. ASSUME NEW b \in Batches, NEW files \in Files, Card!Drop(b, files) \/ Card!Choose(b, files) PROVE UploadInv'
    BY <1>1, SendKeeps DEF Card!Drop, Card!Choose
<1>2. CASE UNCHANGED Card!uploadVars
    BY <1>2 DEF Card!uploadVars, UploadInv, CardTyped, BatchOK, CardOK, Card!Here, Card!Running, Card!OnCard,
                Card!FailureIsTold, Card!SaysWhatItSends
<1> QED
    BY <1>1, <1>2, CreateKeeps, BytesKeep, StoreKeeps, FailKeeps, PageKeeps DEF Card!Next

(* A file that is still to be read is not stored, so the case has room.    *)
LEMMA RoomLeft ==
    ASSUME Card!UploadsAssumption, UploadInv, NEW b \in Batches, batch[b].pc = "reading" PROVE ~Card!Full(b)
<1> DEFINE s == batch[b].chosen
           file == Head(batch[b].left)
<1>1. SUFFICES ASSUME file.content \notin docs[b] PROVE ~(Cardinality(docs[b]) >= Cap)
    BY SameCardinality DEF Card!Full
<1>2. s \in Seq(AFile) /\ batch[b].left \in Seq(AFile) /\ batch[b].left # <<>> /\ Len(s) <= MaxFiles
    BY DEF UploadInv, CardTyped, BatchType, BatchOK
<1>3. file.content \in Card!Contents(s) /\ docs[b] \subseteq Card!Contents(s)
  <2>1. file.content \in Card!Contents(batch[b].left)
    BY <1>2, ContentsOfRest
  <2> QED
    BY <2>1 DEF UploadInv, BatchOK, BatchPcs, Card!Over
<1>4. IsFiniteSet(Card!Contents(s)) /\ Cardinality(Card!Contents(s)) <= Len(s)
    BY <1>2, ContentsBounded
<1>5. Cardinality(docs[b]) <= Cardinality(Card!Contents(s)) /\ Cardinality(docs[b]) # Cardinality(Card!Contents(s))
      /\ IsFiniteSet(docs[b])
    BY <1>1, <1>3, <1>4, FS_Subset
<1>6. Cardinality(docs[b]) \in Nat /\ Cardinality(Card!Contents(s)) \in Nat /\ Len(s) \in Nat
    BY <1>2, <1>4, <1>5, FS_CardinalityType
<1> QED
    BY <1>2, <1>4, <1>5, <1>6 DEF Card!UploadsAssumption

LEMMA UploadsWhole == Card!UploadsAssumption /\ UploadInv => Card!BatchIsWhole
<1> SUFFICES ASSUME Card!UploadsAssumption, UploadInv PROVE Card!BatchIsWhole
    OBVIOUS
<1>1. Card!OpenedIsWhole
  <2>1. Card!Contents(<<>>) = {}
    BY DEF Card!Contents
  <2> QED
    BY <2>1 DEF Card!OpenedIsWhole, UploadInv, BatchOK, BatchPcs, Card!Over
<1>2. Card!NeverFull
    BY RoomLeft DEF Card!NeverFull
<1> QED
    BY <1>1, <1>2 DEF Card!BatchIsWhole, UploadInv, CardOK, Card!BusyIsHonest

(* However many batches are dropped beside each other, fail, and end on    *)
(* cards that are no longer there: the page opens a case only with all of  *)
(* its batch, no upload meets the cap, and the card is busy, says that it  *)
(* sends, and shows a failure, only and always when it should.             *)
THEOREM UploadsAreWhole == Card!UploadsAssumption /\ Card!Spec => []BatchIsWhole
<1> SUFFICES ASSUME Card!UploadsAssumption PROVE Card!Spec => []BatchIsWhole
    OBVIOUS
<1>1. Card!Init => UploadInv
    BY UploadInit
<1>2. UploadInv /\ [Card!Next]_Card!uploadVars => UploadInv'
    BY UploadStep
<1>3. UploadInv => BatchIsWhole
    BY UploadsWhole DEF BatchIsWhole
<1> QED
    BY <1>1, <1>2, <1>3, PTL DEF Card!Spec

-----------------------------------------------------------------------------
(***************************************************************************)
(* A session.                                                              *)
(***************************************************************************)
Token == [iat: Int, exp: Int]
RequestPcs == {"verify", "insert", "row", "update", "sign", "answer"}
Request == [pc: RequestPcs, since: Nat, token: Token, expiresAt: Nat]
At(q, pcs) == req[q].pc \in pcs
SessionTyped ==
    /\ clock \in Nat /\ cookie \in Token /\ last \in [at: Int, exp: Int]
    /\ row \in [state: {"none", "live", "gone"}, expiresAt: Nat]
    /\ req \in [Requests -> {Sess!Idle} \cup Request]
    /\ purge \in Nat \cup {Sess!NotSelected}

TokenOK(t) == t # Sess!NoToken => 0 <= t.iat /\ t.iat <= clock /\ t.exp = t.iat + Ttl

(* A request is not older than Latency, and what it will write or has      *)
(* signed is as late as its own beginning.                                 *)
RequestOK(q) ==
    At(q, RequestPcs) =>
        /\ req[q].since <= clock /\ clock <= req[q].since + Latency
        /\ TokenOK(req[q].token)
        /\ At(q, {"update", "insert"}) =>
              req[q].since + Ttl <= req[q].expiresAt /\ req[q].expiresAt <= clock + Ttl
        /\ At(q, {"answer"}) => req[q].since + Ttl <= req[q].token.exp
        /\ At(q, {"row"}) => req[q].token # Sess!NoToken
        /\ At(q, {"insert"}) => row.state = "none"
        /\ row.state = "none" => At(q, {"verify", "insert"}) /\ req[q].token = Sess!NoToken
        /\ row.state = "live" =>
              /\ req[q].token.exp <= row.expiresAt + 2 * Latency
              /\ At(q, {"sign"}) => req[q].since + Ttl <= row.expiresAt + Latency

(* Why the purge will not select an active visitor too early: the row      *)
(* tells when the last request came, or that request is about to write it. *)
Spared ==
    \/ last.exp - last.at <= 3 * Latency
    \/ 2 * (row.expiresAt - last.at) >= Ttl - 4 * Latency
    \/ /\ row.expiresAt > last.at + Latency
       /\ \E q \in Requests : At(q, {"update"}) /\ req[q].expiresAt = last.at + Ttl

RowOK ==
    /\ row.state = "none" => cookie = Sess!NoToken /\ last.at = -1
    /\ row.state = "live" =>
          /\ row.expiresAt <= clock + Ttl
          /\ cookie.exp <= row.expiresAt + 2 * Latency
          /\ row.expiresAt <= cookie.exp + Latency \/ \E q \in Requests : At(q, {"sign", "answer"})
    /\ purge # Sess!NotSelected => row.state = "live" /\ purge <= clock

LastOK ==
    /\ -1 <= last.at /\ last.at <= clock
    /\ row.state = "live" /\ purge = Sess!NotSelected /\ last.at >= 0 => Spared
    /\ Sess!ActiveIsNotSelected

SessionInv ==
    /\ SessionTyped /\ TokenOK(cookie) /\ RowOK /\ LastOK
    /\ \A q \in Requests : RequestOK(q)
    /\ \A p, q \in Requests : At(p, {"insert"}) /\ At(q, {"insert"}) => p = q

LEMMA SessionInit == Sess!SessionsAssumption /\ Sess!Init => SessionInv
<1> SUFFICES ASSUME Sess!SessionsAssumption, Sess!Init PROVE SessionInv
    OBVIOUS
<1>1. \A q \in Requests : req[q].pc = "idle"
    BY DEF Sess!Init, Sess!Idle
<1>2. SessionTyped
    BY DEF Sess!Init, SessionTyped, Sess!NoToken, Sess!NotSelected, Token
<1> QED
    BY <1>1, <1>2 DEF Sess!Init, SessionInv, TokenOK, RowOK, LastOK, RequestOK, At, RequestPcs,
       Sess!ActiveIsNotSelected, Sess!NoToken, Sess!NotSelected

LEMMA RequestTyped ==
    ASSUME SessionTyped, NEW q \in Requests, ~Sess!Is(q, "idle")
    PROVE  req[q] \in Request /\ At(q, RequestPcs)
<1>1. req[q] \in {Sess!Idle} \cup Request
    BY DEF SessionTyped
<1>2. req[q] # Sess!Idle
    BY DEF Sess!Is, Sess!Idle
<1> QED
    BY <1>1, <1>2 DEF Request, At

(* A step of one request leaves the clock, the purge and the others.       *)
Alone(q) ==
    /\ UNCHANGED <<clock, purge>>
    /\ req' \in [Requests -> {Sess!Idle} \cup Request]
    /\ \A p \in Requests \ {q} : req'[p] = req[p]

LEMMA GoIsAlone ==
    ASSUME SessionTyped, NEW q \in Requests, NEW r \in {Sess!Idle} \cup Request, Sess!Go(q, r),
           UNCHANGED <<clock, purge>>
    PROVE  Alone(q) /\ req'[q] = r
BY DEF SessionTyped, Alone, Sess!Go

(* Where a step of one request writes neither row nor cookie nor last, and *)
(* that request is as it should be, the session is.                        *)
LEMMA QuietKeeps ==
    ASSUME Sess!SessionsAssumption, SessionInv, NEW q \in Requests, Alone(q), UNCHANGED <<row, cookie, last>>,
           RequestOK(q)', ~At(q, {"update"}), At(q, {"sign", "answer"}) => At(q, {"sign", "answer"})',
           At(q, {"insert"})' => At(q, {"insert"}) \/ \A p \in Requests : ~At(p, {"insert"})
    PROVE  SessionInv'
<1>1. \A p \in Requests \ {q} : RequestOK(p)'
    BY DEF Alone, SessionInv, RequestOK, At, TokenOK
<1>2. SessionTyped' /\ TokenOK(cookie)'
    BY DEF Alone, SessionInv, SessionTyped, TokenOK
<1>3. RowOK'
    BY DEF Alone, SessionInv, RowOK, At
<1>4. LastOK'
    BY DEF Alone, SessionInv, LastOK, Spared, At, Sess!ActiveIsNotSelected
<1>5. \A p, r \in Requests : At(p, {"insert"})' /\ At(r, {"insert"})' => p = r
    BY DEF Alone, SessionInv, At
<1> QED
    BY <1>1, <1>2, <1>3, <1>4, <1>5 DEF SessionInv

LEMMA QuietSteps ==
    ASSUME Sess!SessionsAssumption, SessionInv, NEW q \in Requests,
           Sess!Arrive(q) \/ Sess!Mint(q) \/ Sess!Refuse(q) \/ Sess!Verify(q) \/ Sess!Sign(q)
    PROVE  SessionInv'
<1>t. SessionTyped /\ RequestOK(q) /\ TokenOK(cookie) /\ RowOK
    BY DEF SessionInv
<1>c. clock \in Nat /\ Ttl \in Nat /\ Latency \in Nat /\ cookie \in Token
    BY <1>t DEF SessionTyped, Sess!SessionsAssumption
<1>1. CASE Sess!Arrive(q)
  <2> DEFINE r == [pc |-> "verify", since |-> clock, token |-> cookie, expiresAt |-> 0]
  <2>1. Alone(q) /\ req'[q] = r /\ UNCHANGED <<clock, row, cookie, last>> /\ Sess!Is(q, "idle")
    <3>1. r \in Request
      BY <1>c DEF Request, RequestPcs
    <3> QED
      BY <1>t, <1>1, <3>1, GoIsAlone DEF Sess!Arrive
  <2>2. RequestOK(q)'
    BY <1>t, <1>c, <2>1 DEF RequestOK, At, TokenOK, RowOK, Token, Sess!NoToken
  <2> QED
    BY <2>1, <2>2, QuietKeeps DEF At, Sess!Is
<1>2. CASE Sess!Mint(q)
  <2> DEFINE r == [req[q] EXCEPT !.pc = "insert", !.expiresAt = clock + Ttl]
  <2>r. req[q] \in Request /\ At(q, RequestPcs)
    BY <1>t, <1>2, RequestTyped DEF Sess!Mint, Sess!Is
  <2>1. Alone(q) /\ req'[q] = r /\ UNCHANGED <<clock, row, cookie, last>>
    <3>0. clock + Ttl \in Nat
      BY <1>c
    <3>1. r \in Request
      BY <2>r, <3>0 DEF Request, RequestPcs
    <3> QED
      BY <1>t, <1>2, <3>1, GoIsAlone DEF Sess!Mint
  <2>3. /\ req'[q].pc = "insert" /\ req'[q].since = req[q].since /\ req'[q].token = req[q].token
        /\ req'[q].expiresAt = clock + Ttl
    BY <2>1, <2>r DEF Request
  <2>4. req[q].token = Sess!NoToken /\ row.state = "none" /\ req[q].since \in Nat
    BY <1>2, <2>r DEF Sess!Mint, Request
  <2>2. RequestOK(q)'
    BY <1>t, <1>c, <2>r, <2>1, <2>3, <2>4 DEF RequestOK, At, TokenOK
  <2> QED
    BY <1>2, <2>1, <2>2, QuietKeeps DEF At, Sess!Is, Sess!Mint
<1>3. CASE Sess!Refuse(q)
  <2>1. Alone(q) /\ req'[q] = Sess!Idle /\ UNCHANGED <<clock, row, cookie, last>>
    BY <1>t, <1>3, GoIsAlone DEF Sess!Refuse
  <2>2. RequestOK(q)' /\ ~At(q, {"insert"})'
    BY <2>1 DEF RequestOK, At, RequestPcs, Sess!Idle
  <2> QED
    BY <1>3, <2>1, <2>2, QuietKeeps DEF At, Sess!Is, Sess!Refuse
<1>4. CASE Sess!Verify(q)
  <2> DEFINE r == [req[q] EXCEPT !.pc = "row"]
  <2>r. req[q] \in Request /\ At(q, RequestPcs)
    BY <1>t, <1>4, RequestTyped DEF Sess!Verify, Sess!Is
  <2>1. Alone(q) /\ req'[q] = r /\ UNCHANGED <<clock, row, cookie, last>>
    <3>1. r \in Request
      BY <1>c, <2>r DEF Request, RequestPcs
    <3> QED
      BY <1>t, <1>4, <3>1, GoIsAlone DEF Sess!Verify
  <2>3. req'[q].pc = "row" /\ req'[q].since = req[q].since /\ req'[q].token = req[q].token
    BY <2>1, <2>r DEF Request
  <2>4. req[q].token # Sess!NoToken
    BY <1>c, <1>4 DEF Sess!Verify, Sess!NoToken
  <2>2. RequestOK(q)'
    BY <1>t, <1>c, <2>r, <2>1, <2>3, <2>4 DEF RequestOK, At, TokenOK
  <2> QED
    BY <1>4, <2>1, <2>2, <2>3, QuietKeeps DEF At, Sess!Is, Sess!Verify
<1>5. CASE Sess!Sign(q)
  <2> DEFINE r == [req[q] EXCEPT !.pc = "answer", !.token = Sess!Signed]
  <2>r. req[q] \in Request /\ At(q, RequestPcs)
    BY <1>t, <1>5, RequestTyped DEF Sess!Sign, Sess!Is
  <2>1. Alone(q) /\ req'[q] = r /\ UNCHANGED <<clock, row, cookie, last>>
    <3>0. Sess!Signed \in Token
      BY <1>c DEF Token, Sess!Signed
    <3>1. r \in Request
      BY <2>r, <3>0 DEF Request, RequestPcs
    <3> QED
      BY <1>t, <1>5, <3>1, GoIsAlone DEF Sess!Sign
  <2>3. /\ req'[q].pc = "answer" /\ req'[q].since = req[q].since
        /\ req'[q].token = [iat |-> clock, exp |-> clock + Ttl] /\ req[q].since \in Nat
        /\ req'[q].token.iat = clock /\ req'[q].token.exp = clock + Ttl
    BY <2>1, <2>r DEF Request, Sess!Signed
  <2>4. req[q].pc = "sign" /\ row.expiresAt \in Nat
    BY <1>5, <1>t DEF Sess!Sign, Sess!Is, SessionTyped
  <2>2. RequestOK(q)'
    BY <1>t, <1>c, <2>r, <2>1, <2>3, <2>4 DEF RequestOK, At, TokenOK
  <2> QED
    BY <1>5, <2>1, <2>2, <2>3, <2>4, QuietKeeps DEF At
<1> QED
    BY <1>1, <1>2, <1>3, <1>4, <1>5

(* The statements that write: the row, the cookie, when the last came.     *)
LEMMA InsertKeeps ==
    ASSUME Sess!SessionsAssumption, SessionInv, NEW q \in Requests, Sess!Insert(q)
    PROVE  SessionInv'
<1> DEFINE r == [req[q] EXCEPT !.pc = "sign"]
<1>t. SessionTyped /\ RequestOK(q) /\ RowOK
    BY DEF SessionInv
<1>c. clock \in Nat /\ Ttl \in Nat /\ Latency \in Nat /\ cookie \in Token
    BY <1>t DEF SessionTyped, Sess!SessionsAssumption
<1>r. req[q] \in Request /\ At(q, RequestPcs) /\ req[q].pc = "insert"
    BY <1>t, RequestTyped DEF Sess!Insert, Sess!Is
<1>1. Alone(q) /\ req'[q] = r /\ UNCHANGED <<clock, cookie, purge, last>>
    /\ row' = [state |-> "live", expiresAt |-> req[q].expiresAt]
  <2>1. r \in Request
    BY <1>r DEF Request, RequestPcs
  <2> QED
    BY <1>t, <2>1, GoIsAlone DEF Sess!Insert
<1>2. /\ req'[q].pc = "sign" /\ req'[q].since = req[q].since /\ req'[q].token = req[q].token
      /\ req[q].since \in Nat /\ req[q].expiresAt \in Nat /\ row.state = "none"
      /\ req[q].token = Sess!NoToken /\ cookie = Sess!NoToken /\ last.at = -1
      /\ row'.state = "live" /\ row'.expiresAt = req[q].expiresAt
    BY <1>t, <1>1, <1>r DEF Request, RequestOK, At, RowOK
<1>3. RequestOK(q)'
    BY <1>t, <1>c, <1>1, <1>2, <1>r DEF RequestOK, At, TokenOK, Sess!NoToken
<1>4. ASSUME NEW p \in Requests \ {q} PROVE RequestOK(p)'
  <2>1. req'[p] = req[p] /\ RequestOK(p) /\ ~At(p, {"insert"})
    BY <1>1, <1>r DEF Alone, SessionInv, At
  <2> QED
    BY <1>c, <1>1, <1>2, <2>1 DEF RequestOK, At, TokenOK, Sess!NoToken
<1>5. SessionTyped' /\ TokenOK(cookie)'
    BY <1>1, <1>2 DEF SessionTyped, Alone, SessionInv, TokenOK
<1>6. RowOK'
  <2>1. req[q].expiresAt <= clock + Ttl
    BY <1>t, <1>r DEF RequestOK, At
  <2>2. cookie'.exp = -1
    BY <1>1, <1>2 DEF Sess!NoToken
  <2>3. At(q, {"sign", "answer"})'
    BY <1>2 DEF At
  <2> QED
    BY <1>t, <1>c, <1>1, <1>2, <2>1, <2>2, <2>3 DEF RowOK
<1>7. LastOK'
    BY <1>1, <1>2 DEF LastOK, SessionInv, Sess!ActiveIsNotSelected
<1>8. \A p, u \in Requests : At(p, {"insert"})' /\ At(u, {"insert"})' => p = u
    BY <1>1, <1>2 DEF Alone, SessionInv, At
<1> QED
    BY <1>3, <1>4, <1>5, <1>6, <1>7, <1>8 DEF SessionInv

LEMMA UpdateKeeps ==
    ASSUME Sess!SessionsAssumption, SessionInv, NEW q \in Requests, Sess!Update(q)
    PROVE  SessionInv'
<1> DEFINE r == [req[q] EXCEPT !.pc = "sign"]
<1>t. SessionTyped /\ RequestOK(q) /\ RowOK /\ LastOK
    BY DEF SessionInv
<1>c. /\ clock \in Nat /\ Ttl \in Nat /\ Latency \in Nat /\ cookie \in Token
      /\ last.at \in Int /\ last.exp \in Int /\ row.state \in {"none", "live", "gone"}
      /\ cookie.exp \in Int /\ cookie.iat \in Int
    BY <1>t DEF SessionTyped, Sess!SessionsAssumption, Token
<1>r. req[q] \in Request /\ At(q, RequestPcs) /\ req[q].pc = "update"
    BY <1>t, RequestTyped DEF Sess!Update, Sess!Is
<1>1. Alone(q) /\ req'[q] = r /\ UNCHANGED <<clock, cookie, purge, last>>
    /\ row' = IF row.state = "live" THEN [row EXCEPT !.expiresAt = req[q].expiresAt] ELSE row
  <2>1. r \in Request
    BY <1>r DEF Request, RequestPcs
  <2> QED
    BY <1>t, <2>1, GoIsAlone DEF Sess!Update
<1>2. /\ req'[q].pc = "sign" /\ req'[q].since = req[q].since /\ req'[q].token = req[q].token
      /\ req[q].since \in Nat /\ req[q].expiresAt \in Nat /\ req[q].token \in Token
      /\ req[q].since <= clock /\ clock <= req[q].since + Latency
      /\ req[q].since + Ttl <= req[q].expiresAt /\ req[q].expiresAt <= clock + Ttl
      /\ row.state # "none"
    BY <1>t, <1>1, <1>r DEF Request, RequestOK, At, RequestPcs
<1>3. /\ row'.state = row.state
      /\ row.state = "live" => row'.expiresAt = req[q].expiresAt
    BY <1>t, <1>1 DEF SessionTyped
(* No token that is there is later than what is written.                   *)
<1>4. \A t \in Token : TokenOK(t) => t.exp <= req[q].expiresAt + 2 * Latency
    BY <1>c, <1>2 DEF TokenOK, Sess!NoToken, Token
<1>5. RequestOK(q)'
    BY <1>t, <1>c, <1>1, <1>2, <1>3, <1>4, <1>r DEF RequestOK, At, TokenOK
<1>6. ASSUME NEW p \in Requests \ {q} PROVE RequestOK(p)'
  <2>1. req'[p] = req[p] /\ RequestOK(p)
    BY <1>1 DEF Alone, SessionInv
  <2>2. CASE ~Sess!Is(p, "idle")
    <3>1. req[p] \in Request /\ At(p, RequestPcs)
      BY <1>t, <2>2, RequestTyped
    <3>2. req[p].token \in Token /\ req[p].since \in Nat /\ req[p].token.exp \in Int
      BY <3>1 DEF Request, Token
    <3>3. TokenOK(req[p].token) /\ req[p].since <= clock
      BY <2>1, <3>1 DEF RequestOK
    <3> QED
      BY <1>c, <1>1, <1>2, <1>3, <1>4, <2>1, <3>2, <3>3 DEF RequestOK, At, TokenOK
  <2>3. CASE Sess!Is(p, "idle")
    BY <2>1, <2>3 DEF RequestOK, At, RequestPcs, Sess!Is
  <2> QED
    BY <2>2, <2>3
<1>7. SessionTyped' /\ TokenOK(cookie)'
    BY <1>1, <1>2, <1>t DEF SessionTyped, Alone, SessionInv, TokenOK
<1>8. RowOK'
  <2>1. TokenOK(cookie)
    BY DEF SessionInv
  <2> QED
    BY <1>t, <1>c, <1>1, <1>2, <1>3, <1>4, <2>1 DEF RowOK, At
<1>9. LastOK'
  <2>1. ASSUME row.state = "live", last.at >= 0
        PROVE  2 * (row'.expiresAt - last'.at) >= Ttl - 4 * Latency
    BY <1>t, <1>c, <1>1, <1>2, <1>3, <2>1 DEF LastOK
  <2> QED
    BY <1>t, <1>c, <1>1, <1>3, <2>1 DEF LastOK, Spared, Sess!ActiveIsNotSelected
<1>10. \A p, u \in Requests : At(p, {"insert"})' /\ At(u, {"insert"})' => p = u
    BY <1>1, <1>2 DEF Alone, SessionInv, At
<1> QED
    BY <1>5, <1>6, <1>7, <1>8, <1>9, <1>10 DEF SessionInv

LEMMA SetCookieKeeps ==
    ASSUME Sess!SessionsAssumption, SessionInv, NEW q \in Requests, Sess!SetCookie(q)
    PROVE  SessionInv'
<1>t. SessionTyped /\ RequestOK(q) /\ RowOK /\ LastOK
    BY DEF SessionInv
<1>c. clock \in Nat /\ Ttl \in Nat /\ Latency \in Nat /\ row.expiresAt \in Nat
    BY <1>t DEF SessionTyped, Sess!SessionsAssumption
<1>r. req[q] \in Request /\ At(q, RequestPcs) /\ req[q].pc = "answer"
    BY <1>t, RequestTyped DEF Sess!SetCookie, Sess!Is
<1>1. Alone(q) /\ req'[q] = Sess!Idle /\ UNCHANGED <<clock, row, purge, last>> /\ cookie' = req[q].token
    BY <1>t, GoIsAlone DEF Sess!SetCookie
<1>2. /\ req'[q].pc = "idle" /\ req[q].since \in Nat /\ req[q].token \in Token
      /\ req[q].token.exp \in Int /\ TokenOK(req[q].token)
      /\ clock <= req[q].since + Latency /\ req[q].since + Ttl <= req[q].token.exp
      /\ row.state # "none"
      /\ row.state = "live" => req[q].token.exp <= row.expiresAt + 2 * Latency
    BY <1>r, <1>t, <1>1 DEF Request, Token, RequestOK, At, Sess!Idle
<1>3. RequestOK(q)'
    BY <1>2 DEF RequestOK, At, RequestPcs
<1>4. ASSUME NEW p \in Requests \ {q} PROVE RequestOK(p)'
    BY <1>1 DEF Alone, SessionInv, RequestOK, At, TokenOK
<1>5. SessionTyped' /\ TokenOK(cookie)'
    BY <1>1, <1>2, <1>t DEF SessionTyped, Alone, TokenOK
<1>6. RowOK'
    BY <1>t, <1>c, <1>1, <1>2 DEF RowOK
<1>7. LastOK'
    BY <1>t, <1>1, <1>r DEF LastOK, Spared, Alone, At, Sess!ActiveIsNotSelected
<1>8. \A p, u \in Requests : At(p, {"insert"})' /\ At(u, {"insert"})' => p = u
    BY <1>1, <1>2 DEF Alone, SessionInv, At
<1> QED
    BY <1>3, <1>4, <1>5, <1>6, <1>7, <1>8 DEF SessionInv

LEMMA ReadRowKeeps ==
    ASSUME Sess!SessionsAssumption, SessionInv, NEW q \in Requests, Sess!ReadRow(q)
    PROVE  SessionInv'
<1> DEFINE u == [req[q] EXCEPT !.pc = "update", !.expiresAt = clock + Ttl]
           token == req[q].token
<1>t. SessionTyped /\ RequestOK(q) /\ RowOK /\ LastOK
    BY DEF SessionInv
<1>c. /\ clock \in Nat /\ Ttl \in Nat /\ Latency \in Nat /\ row.expiresAt \in Nat
      /\ last.at \in Int /\ last.exp \in Int
    BY <1>t DEF SessionTyped, Sess!SessionsAssumption
<1>r. req[q] \in Request /\ At(q, RequestPcs) /\ req[q].pc = "row"
    BY <1>t, RequestTyped DEF Sess!ReadRow, Sess!Is
<1>2. /\ req[q].since \in Nat /\ token \in Token /\ token.exp \in Int /\ token.iat \in Int
      /\ token # Sess!NoToken /\ TokenOK(token) /\ req[q].since <= clock /\ clock <= req[q].since + Latency
      /\ row.state # "none"
      /\ row.state = "live" => token.exp <= row.expiresAt + 2 * Latency
    BY <1>r, <1>t DEF Request, Token, RequestOK, At
<1>3. token.exp = token.iat + Ttl
    BY <1>2 DEF TokenOK
<1>4. u \in Request
  <2>1. clock + Ttl \in Nat
    BY <1>c
  <2> QED
    BY <1>r, <2>1 DEF Request, RequestPcs
<1>5. \/ row.state # "live" /\ Sess!Go(q, Sess!Idle) /\ last' = last
      \/ /\ row.state = "live"
         /\ last' = IF purge = Sess!NotSelected THEN [at |-> clock, exp |-> token.exp] ELSE last
         /\ \/ 2 * clock >= token.iat + token.exp /\ Sess!Go(q, u)
            \/ ~(2 * clock >= token.iat + token.exp) /\ Sess!Go(q, Sess!Idle)
    BY DEF Sess!ReadRow, Sess!shouldRefresh
<1>6. /\ Alone(q) /\ UNCHANGED <<clock, row, cookie, purge>>
      /\ Sess!Go(q, u) => req'[q] = u
      /\ Sess!Go(q, Sess!Idle) => req'[q] = Sess!Idle
  <2>1. UNCHANGED <<clock, row, cookie, purge>>
    BY DEF Sess!ReadRow
  <2>2. Sess!Go(q, u) => Alone(q) /\ req'[q] = u
    BY <1>t, <1>4, <2>1, GoIsAlone
  <2>3. Sess!Go(q, Sess!Idle) => Alone(q) /\ req'[q] = Sess!Idle
    BY <1>t, <2>1, GoIsAlone
  <2> QED
    BY <1>5, <2>1, <2>2, <2>3
<1>7. /\ u.pc = "update" /\ u.since = req[q].since /\ u.token = token /\ u.expiresAt = clock + Ttl
      /\ Sess!Idle.pc = "idle"
    BY <1>r DEF Request, Sess!Idle
<1>8. req'[q].pc \in {"update", "idle"}
    BY <1>5, <1>6, <1>7
<1>9. RequestOK(q)'
  <2>1. CASE req'[q] = u
    BY <1>c, <1>2, <1>6, <1>7, <2>1 DEF RequestOK, At, TokenOK
  <2>2. CASE req'[q] = Sess!Idle
    BY <1>7, <2>2 DEF RequestOK, At, RequestPcs
  <2> QED
    BY <1>5, <1>6, <2>1, <2>2
<1>10. ASSUME NEW p \in Requests \ {q} PROVE RequestOK(p)'
    BY <1>6 DEF Alone, SessionInv, RequestOK, At, TokenOK
<1>11. SessionTyped' /\ TokenOK(cookie)'
    BY <1>t, <1>c, <1>2, <1>5, <1>6 DEF SessionTyped, Alone, SessionInv, TokenOK
<1>12. RowOK'
    BY <1>t, <1>2, <1>6, <1>r DEF RowOK, Alone, At
<1>13. LastOK'
  <2>1. CASE last' = last /\ (row.state # "live" \/ purge # Sess!NotSelected)
    BY <1>t, <1>6, <2>1 DEF LastOK, Sess!ActiveIsNotSelected
  <2>2. CASE row.state = "live" /\ purge = Sess!NotSelected
    <3>1. last'.at = clock /\ last'.exp = token.exp
      BY <1>5, <2>2
    <3>2. Spared'
      <4>1. CASE ~(2 * clock >= token.iat + token.exp)
        BY <1>c, <1>2, <1>3, <1>6, <2>2, <3>1, <4>1 DEF Spared
      <4>2. CASE req'[q] = u /\ token.exp - clock > 3 * Latency
        <5>1. row'.expiresAt > last'.at + Latency
          BY <1>c, <1>2, <1>6, <2>2, <3>1, <4>2
        <5>2. At(q, {"update"})' /\ req'[q].expiresAt = last'.at + Ttl
          BY <1>7, <3>1, <4>2 DEF At
        <5> QED
          BY <5>1, <5>2 DEF Spared
      <4>3. CASE ~(token.exp - clock > 3 * Latency)
        BY <1>c, <1>2, <3>1, <4>3 DEF Spared
      <4> QED
        BY <1>5, <1>6, <2>2, <4>1, <4>2, <4>3
    <3> QED
      BY <1>c, <1>6, <2>2, <3>1, <3>2 DEF LastOK, Sess!ActiveIsNotSelected
  <2> QED
    BY <1>5, <2>1, <2>2
<1>14. \A p, v \in Requests : At(p, {"insert"})' /\ At(v, {"insert"})' => p = v
    BY <1>6, <1>8 DEF Alone, SessionInv, At
<1> QED
    BY <1>9, <1>10, <1>11, <1>12, <1>13, <1>14 DEF SessionInv

(* The purge, and the passing of time.                                     *)
LEMMA SelectKeeps ==
    ASSUME Sess!SessionsAssumption, SessionInv, Sess!Select
    PROVE  SessionInv'
<1>t. SessionTyped /\ RowOK /\ LastOK /\ \A q \in Requests : RequestOK(q)
    BY DEF SessionInv
<1>c. /\ clock \in Nat /\ Ttl \in Nat /\ Latency \in Nat /\ row.expiresAt \in Nat
      /\ last.at \in Int /\ last.exp \in Int
    BY <1>t DEF SessionTyped, Sess!SessionsAssumption
<1>1. /\ UNCHANGED <<clock, row, cookie, req, last>> /\ row.state = "live" /\ row.expiresAt <= clock
      /\ purge = Sess!NotSelected /\ purge' = clock
    BY DEF Sess!Select
<1>2. Sess!ActiveIsNotSelected'
  <2>1. SUFFICES ASSUME last.at >= 0, ~(last.exp - last.at <= 3 * Latency)
                 PROVE  2 * (clock - last.at) >= Ttl - 4 * Latency
    BY <1>1 DEF Sess!ActiveIsNotSelected
  <2>2. CASE 2 * (row.expiresAt - last.at) >= Ttl - 4 * Latency
    BY <1>c, <1>1, <2>2
  <2>3. ASSUME row.expiresAt > last.at + Latency,
               NEW q \in Requests, At(q, {"update"}), req[q].expiresAt = last.at + Ttl
        PROVE  FALSE
    <3>1. req[q] \in Request /\ At(q, RequestPcs)
      BY <1>t, <2>3, RequestTyped DEF At, Sess!Is
    <3>2. req[q].since \in Nat /\ clock <= req[q].since + Latency /\ req[q].since + Ttl <= req[q].expiresAt
      BY <1>t, <2>3, <3>1 DEF RequestOK, Request, At
    <3> QED
      BY <1>c, <1>1, <2>3, <3>2
  <2> QED
    BY <1>t, <1>1, <2>1, <2>2, <2>3 DEF LastOK, Spared
<1>3. SessionTyped' /\ RowOK' /\ TokenOK(cookie)' /\ \A q \in Requests : RequestOK(q)'
    BY <1>t, <1>c, <1>1 DEF SessionInv, SessionTyped, RowOK, TokenOK, RequestOK, At
<1>4. LastOK'
    BY <1>t, <1>c, <1>1, <1>2 DEF LastOK, Sess!NotSelected
<1> QED
    BY <1>1, <1>3, <1>4 DEF SessionInv, At

LEMMA DeleteKeeps ==
    ASSUME Sess!SessionsAssumption, SessionInv, Sess!Delete
    PROVE  SessionInv'
<1>t. SessionTyped /\ RowOK /\ LastOK /\ \A q \in Requests : RequestOK(q)
    BY DEF SessionInv
<1>1. /\ UNCHANGED <<clock, cookie, req, last>> /\ row'.state = "gone" /\ row.state = "live"
      /\ row' \in [state: {"none", "live", "gone"}, expiresAt: Nat] /\ purge' = Sess!NotSelected
    BY <1>t DEF Sess!Delete, RowOK, SessionTyped
<1>2. SessionTyped' /\ RowOK' /\ TokenOK(cookie)' /\ LastOK'
    BY <1>t, <1>1 DEF SessionInv, SessionTyped, RowOK, TokenOK, LastOK, Sess!ActiveIsNotSelected
<1>3. \A q \in Requests : RequestOK(q)'
    BY <1>t, <1>1 DEF RequestOK, At, TokenOK
<1> QED
    BY <1>1, <1>2, <1>3 DEF SessionInv, At

LEMMA TickKeeps ==
    ASSUME Sess!SessionsAssumption, SessionInv, Sess!Tick
    PROVE  SessionInv'
<1>t. SessionTyped /\ RowOK /\ LastOK /\ TokenOK(cookie) /\ \A q \in Requests : RequestOK(q)
    BY DEF SessionInv
<1>c. /\ clock \in Nat /\ Ttl \in Nat /\ Latency \in Nat /\ row.expiresAt \in Nat
      /\ last.at \in Int /\ last.exp \in Int /\ cookie \in Token
    BY <1>t DEF SessionTyped, Sess!SessionsAssumption
<1>1. /\ UNCHANGED <<row, cookie, req, purge, last>> /\ clock' = clock + 1
      /\ \A q \in Requests : ~Sess!Is(q, "idle") => clock - req[q].since < Latency
    BY DEF Sess!Tick
<1>2. \A t \in Token : TokenOK(t) => TokenOK(t)'
    BY <1>c, <1>1 DEF TokenOK, Token
<1>3. ASSUME NEW q \in Requests PROVE RequestOK(q)'
  <2>1. CASE ~Sess!Is(q, "idle")
    <3>1. /\ req[q] \in Request /\ At(q, RequestPcs) /\ req[q].since \in Nat /\ req[q].expiresAt \in Nat
          /\ req[q].token \in Token /\ RequestOK(q) /\ clock - req[q].since < Latency
      BY <1>t, <1>1, <2>1, RequestTyped DEF Request
    <3>2. req'[q] = req[q] /\ TokenOK(req[q].token)'
      BY <1>1, <1>2, <3>1 DEF RequestOK
    <3> QED
      BY <1>c, <1>1, <3>1, <3>2 DEF RequestOK, At
  <2>2. CASE Sess!Is(q, "idle")
    BY <1>1, <2>2 DEF RequestOK, At, RequestPcs, Sess!Is
  <2> QED
    BY <2>1, <2>2
<1>4. SessionTyped' /\ RowOK' /\ LastOK'
  <2>1. SessionTyped'
    BY <1>t, <1>c, <1>1 DEF SessionTyped
  <2>2. RowOK'
    BY <1>t, <1>c, <1>1 DEF RowOK, At, SessionTyped, Sess!NotSelected
  <2>3. LastOK'
    BY <1>t, <1>c, <1>1 DEF LastOK, Spared, At, Sess!ActiveIsNotSelected
  <2> QED
    BY <2>1, <2>2, <2>3
<1> QED
    BY <1>t, <1>c, <1>1, <1>2, <1>3, <1>4 DEF SessionInv, At

LEMMA SessionStep == Sess!SessionsAssumption /\ SessionInv /\ [Sess!Next]_Sess!sessionVars => SessionInv'
<1> SUFFICES ASSUME Sess!SessionsAssumption, SessionInv, [Sess!Next]_Sess!sessionVars PROVE SessionInv'
    OBVIOUS
<1>1. CASE UNCHANGED Sess!sessionVars
    BY <1>1 DEF Sess!sessionVars, SessionInv, SessionTyped, TokenOK, RowOK, LastOK, Spared, RequestOK, At,
                Sess!ActiveIsNotSelected
<1> QED
    BY <1>1, QuietSteps, InsertKeeps, UpdateKeeps, SetCookieKeeps, ReadRowKeeps, SelectKeeps, DeleteKeeps, TickKeeps
    DEF Sess!Next, Sess!Handle

LEMMA SessionKept == Sess!SessionsAssumption /\ SessionInv => Sess!EnforcersAgree /\ Sess!ActiveIsNotSelected
<1> SUFFICES ASSUME Sess!SessionsAssumption, SessionInv PROVE Sess!EnforcersAgree
    BY DEF SessionInv, LastOK
<1>1. SUFFICES ASSUME row.state = "live" PROVE
        /\ \A t \in Sess!Tokens : t.exp <= row.expiresAt + 2 * Latency
        /\ (\A q \in Requests : Sess!Is(q, "idle")) => row.expiresAt <= cookie.exp + Latency
    BY DEF Sess!EnforcersAgree
<1>2. ASSUME NEW q \in Requests, ~Sess!Is(q, "idle") PROVE req[q].token.exp <= row.expiresAt + 2 * Latency
    BY <1>1, <1>2, RequestTyped DEF SessionInv, RequestOK
<1> QED
    BY <1>1, <1>2 DEF SessionInv, RowOK, Sess!Tokens, At, Sess!Is

(* However long a lifetime and a request may be, and however requests,     *)
(* refreshes and the purge interleave: no token outlives its tenant's row  *)
(* by more than two requests take, the browser's cookie is no shorter than *)
(* the row by more than one, and an active visitor is not selected.        *)
THEOREM SessionsHold ==
    Sess!SessionsAssumption /\ Sess!Spec => [](Sess!EnforcersAgree /\ Sess!ActiveIsNotSelected)
<1> SUFFICES ASSUME Sess!SessionsAssumption PROVE Sess!Spec => [](Sess!EnforcersAgree /\ Sess!ActiveIsNotSelected)
    OBVIOUS
<1>1. Sess!Init => SessionInv
    BY SessionInit
<1>2. SessionInv /\ [Sess!Next]_Sess!sessionVars => SessionInv'
    BY SessionStep
<1>3. SessionInv => Sess!EnforcersAgree /\ Sess!ActiveIsNotSelected
    BY SessionKept
<1> QED
    BY <1>1, <1>2, <1>3, PTL DEF Sess!Spec
-----------------------------------------------------------------------------
(***************************************************************************)
(* The rate limiter.                                                       *)
(***************************************************************************)
Key == [count: Nat, began: Nat, expires: Nat]
Accepted == [at: Nat, began: Nat, nth: Nat]
Promise == [at: Nat, until: Nat]
HistoryType ==
    [arrived: Nat, accepted: SUBSET Accepted, others: Nat, inHour: Nat,
     promise: [{"hour", "burst"} -> Promise]]
RateTyped ==
    /\ now \in 0 .. Horizon /\ keys \in [{"hour", "burst"} -> Key]
    /\ pc \in [Callers -> {"idle", "hour", "burst"}] /\ history \in HistoryType

(* A counter that counts expires a window after it began; what a refusal   *)
(* promised is not before its counter expires, or that has begun since.    *)
KeyOK(r) ==
    /\ keys[r].began <= now
    /\ keys[r].count = 0 => keys[r].expires = 0
    /\ keys[r].count > 0 => keys[r].expires = keys[r].began + Window[r]
PromiseOK(r) ==
    \/ history.promise[r].until > Horizon
    \/ /\ history.promise[r].at < keys[r].expires
       /\ keys[r].expires <= history.promise[r].until \/ keys[r].began > history.promise[r].at

(* Whom the burst rule let in: numbered within their window, and no two    *)
(* windows overlap.                                                        *)
AcceptedOK ==
    /\ \A a \in history.accepted :
          /\ a.nth >= 1 /\ a.nth <= Limit["burst"]
          /\ a.began <= a.at /\ a.at < a.began + Window["burst"] /\ keys["burst"].count > 0
          /\ a.began = keys["burst"].began => a.nth <= keys["burst"].count
          /\ a.began # keys["burst"].began => a.began + Window["burst"] <= keys["burst"].began
    /\ \A a, b \in history.accepted :
          /\ a.began = b.began /\ a.nth = b.nth => a = b
          /\ a.began < b.began => a.began + Window["burst"] <= b.began

(* The burst rule let in whom it counted, up to its limit.                 *)
BurstOK ==
    \A n \in 1 .. Limit["burst"] : n <= keys["burst"].count =>
       \E a \in history.accepted : a.began = keys["burst"].began /\ a.nth = n

(* What an hour's counter counted is accounted for, up to its limit.       *)
Between == {q \in Callers : pc[q] = "burst"}
Accounted == history.inHour + history.others + Cardinality(Between)
HourOK == Accounted >= keys["hour"].count \/ Accounted >= Limit["hour"]

RateInv ==
    /\ RateTyped /\ AcceptedOK /\ BurstOK /\ HourOK
    /\ \A r \in {"hour", "burst"} : KeyOK(r) /\ PromiseOK(r)

LEMMA RateInit == Rate!RateAssumption /\ Rate!Init => RateInv
<1> SUFFICES ASSUME Rate!RateAssumption, Rate!Init PROVE RateInv
    OBVIOUS
<1>1. /\ now = 0 /\ keys = [r \in {"hour", "burst"} |-> [count |-> 0, began |-> 0, expires |-> 0]]
      /\ pc = [q \in Callers |-> "idle"]
      /\ history = [arrived |-> 0, accepted |-> {}, others |-> 0, inHour |-> 0,
                    promise |-> [r \in {"hour", "burst"} |-> [at |-> 0, until |-> Horizon + 1]]]
      /\ Horizon \in Nat
    BY DEF Rate!Init, Rate!RuleNames, Rate!NoKey, Rate!RateAssumption
<1>2. RateTyped
  <2>1. Horizon + 1 \in Nat
    BY <1>1
  <2> QED
    BY <1>1, <2>1 DEF RateTyped, Key, HistoryType, Promise
<1>3. AcceptedOK /\ \A r \in {"hour", "burst"} : KeyOK(r) /\ PromiseOK(r)
    BY <1>1 DEF AcceptedOK, KeyOK, PromiseOK
<1>5. BurstOK
    BY <1>1 DEF BurstOK, Rate!RateAssumption, Rate!RuleNames
<1>4. HourOK
  <2>1. Between = {}
    BY <1>1 DEF Between
  <2> QED
    BY <1>1, <2>1, FS_EmptySet DEF HourOK, Accounted
<1> QED
    BY <1>2, <1>3, <1>4, <1>5 DEF RateInv

(* What the script leaves in a counter: the window goes on, or a new one   *)
(* begins when the former is over.                                         *)
LEMMA Incremented ==
    ASSUME Rate!RateAssumption, RateInv, NEW r \in {"hour", "burst"}
    PROVE  /\ Rate!Incr(r) \in Key /\ Rate!Incr(r).count > 0 /\ Rate!Incr(r).began <= now
           /\ Rate!Incr(r).expires = Rate!Incr(r).began + Window[r] /\ now < Rate!Incr(r).expires
           /\ \/ /\ keys[r].count > 0 /\ Rate!Incr(r).count = keys[r].count + 1
                 /\ Rate!Incr(r).began = keys[r].began /\ Rate!Incr(r).expires = keys[r].expires
              \/ Rate!Incr(r).count = 1 /\ Rate!Incr(r).began = now /\ keys[r].expires <= now
<1>1. now \in Nat /\ Window[r] \in Nat \ {0} /\ keys[r] \in Key /\ KeyOK(r)
    BY DEF RateInv, RateTyped, Rate!RateAssumption, Rate!RuleNames
<1>2. keys[r].count \in Nat /\ keys[r].began \in Nat /\ keys[r].expires \in Nat
    BY <1>1 DEF Key
<1>3. CASE keys[r].expires > now
  <2>1. keys[r].count > 0
    BY <1>1, <1>2, <1>3 DEF KeyOK
  <2>2. Rate!Incr(r) = [keys[r] EXCEPT !.count = keys[r].count + 1]
    BY <1>2, <1>3, <2>1 DEF Rate!Incr, Rate!Live
  <2>3. /\ Rate!Incr(r) \in Key /\ Rate!Incr(r).count = keys[r].count + 1
        /\ Rate!Incr(r).began = keys[r].began /\ Rate!Incr(r).expires = keys[r].expires
    BY <1>1, <1>2, <2>2 DEF Key
  <2> QED
    BY <1>1, <1>2, <1>3, <2>1, <2>3 DEF KeyOK
<1>4. CASE ~(keys[r].expires > now)
  <2>1. Rate!Incr(r) = [count |-> 1, began |-> now, expires |-> now + Window[r]]
    BY <1>4 DEF Rate!Incr, Rate!Live, Rate!NoKey
  <2>2. now + Window[r] \in Nat
    BY <1>1
  <2> QED
    BY <1>1, <1>2, <1>4, <2>1, <2>2 DEF Key
<1> QED
    BY <1>3, <1>4

(* ... and what a refusal then promises.                                   *)
LEMMA PromisedLate ==
    ASSUME Rate!RateAssumption, RateInv, NEW r \in {"hour", "burst"}
    PROVE  /\ now + 2 * Rate!resetSec(Rate!Incr(r)) \in Nat
           /\ now + 2 * Rate!resetSec(Rate!Incr(r)) >= Rate!Incr(r).expires
<1> DEFINE n == (Rate!Incr(r).expires - now + 1) \div 2
           m == Rate!resetSec(Rate!Incr(r))
<1>1. now \in Nat /\ Rate!Incr(r).expires \in Nat
    BY Incremented DEF RateInv, RateTyped, Key
<1>2. n \in Int /\ 2 * n >= Rate!Incr(r).expires - now
    BY <1>1
<1>3. m \in {1, n} /\ m >= 1 /\ m >= n
    BY <1>2 DEF Rate!resetSec, Rate!Max
<1> QED
    BY <1>1, <1>2, <1>3

LEMMA CountedKeeps ==
    ASSUME Rate!RateAssumption, RateInv, NEW r \in {"hour", "burst"}, now' = now,
           keys' = [keys EXCEPT ![r] = Rate!Incr(r)],
           history'.promise \in {history.promise, Rate!Promised(r, Rate!Incr(r))}
    PROVE  /\ keys' \in [{"hour", "burst"} -> Key]
           /\ history'.promise \in [{"hour", "burst"} -> Promise]
           /\ \A x \in {"hour", "burst"} : KeyOK(x)' /\ PromiseOK(x)'
<1> DEFINE key == Rate!Incr(r)
           p == [at |-> now, until |-> now + 2 * Rate!resetSec(key)]
<1>t. /\ now \in Nat /\ Horizon \in Nat /\ keys \in [{"hour", "burst"} -> Key]
      /\ history.promise \in [{"hour", "burst"} -> Promise]
    BY DEF RateInv, RateTyped, HistoryType, Rate!RateAssumption
<1>1. /\ key \in Key /\ key.count \in Nat /\ key.began \in Nat /\ key.expires \in Nat
      /\ key.count > 0 /\ key.began <= now /\ key.expires = key.began + Window[r] /\ now < key.expires
    BY Incremented DEF Key
<1>2. /\ keys[r].expires \in Nat /\ keys[r].began \in Nat
      /\ \/ key.began = keys[r].began /\ key.expires = keys[r].expires
         \/ key.began = now /\ keys[r].expires <= now
    BY <1>t, Incremented DEF Key
<1>3. p \in Promise /\ p.at = now /\ p.until >= key.expires /\ p.until \in Nat
    BY <1>t, PromisedLate DEF Promise
<1>4. Rate!Promised(r, key) = [history.promise EXCEPT ![r] = p]
    BY DEF Rate!Promised
<1>5. /\ keys' \in [{"hour", "burst"} -> Key]
      /\ history'.promise \in [{"hour", "burst"} -> Promise]
    BY <1>t, <1>1, <1>3, <1>4
<1>6. ASSUME NEW x \in {"hour", "burst"}, x # r PROVE KeyOK(x)' /\ PromiseOK(x)'
  <2>1. keys'[x] = keys[x] /\ history'.promise[x] = history.promise[x]
    BY <1>t, <1>4, <1>6
  <2> QED
    BY <1>6, <2>1 DEF RateInv, KeyOK, PromiseOK
<1>7. keys'[r] = key /\ KeyOK(r)'
    BY <1>t, <1>1 DEF KeyOK
<1>8. PromiseOK(r)'
  <2>1. CASE history'.promise[r] = p
    BY <1>1, <1>3, <1>7, <2>1 DEF PromiseOK
  <2>2. CASE history'.promise[r] = history.promise[r]
    <3>1. PromiseOK(r) /\ history.promise[r].at \in Nat /\ history.promise[r].until \in Nat
      BY <1>t DEF RateInv, Promise
    <3> QED
      BY <1>t, <1>1, <1>2, <1>7, <2>2, <3>1 DEF PromiseOK
  <2> QED
    BY <1>t, <1>4, <2>1, <2>2
<1> QED
    BY <1>5, <1>6, <1>7, <1>8

LEMMA BetweenMoves ==
    ASSUME Rate!RateAssumption, RateTyped, NEW q \in Callers, NEW x \in {"idle", "hour", "burst"},
           pc' = [pc EXCEPT ![q] = x]
    PROVE  /\ Cardinality(Between) \in Nat
           /\ Cardinality(Between') = Cardinality(Between) + (IF x = "burst" THEN 1 ELSE 0)
                                        - (IF pc[q] = "burst" THEN 1 ELSE 0)
<1>1. IsFiniteSet(Callers)
    BY SameCardinality DEF Rate!RateAssumption
<1>2. Between \subseteq Callers /\ (q \in Between <=> pc[q] = "burst")
    BY DEF Between
<1>3. IsFiniteSet(Between) /\ Cardinality(Between) \in Nat
    BY <1>1, <1>2, FS_Subset, FS_CardinalityType
<1>4. CASE x = "burst"
  <2>1. Between' = Between \cup {q}
    BY <1>4 DEF Between, RateTyped
  <2>2. Cardinality(Between') = IF q \in Between THEN Cardinality(Between) ELSE Cardinality(Between) + 1
    BY <1>3, <2>1, FS_AddElement
  <2> QED
    BY <1>2, <1>3, <1>4, <2>2
<1>5. CASE x # "burst"
  <2>1. Between' = Between \ {q}
    BY <1>5 DEF Between, RateTyped
  <2>2. Cardinality(Between') = IF q \in Between THEN Cardinality(Between) - 1 ELSE Cardinality(Between)
    BY <1>3, <2>1, FS_RemoveElement
  <2> QED
    BY <1>2, <1>3, <1>5, <2>2
<1> QED
    BY <1>4, <1>5

LEMMA CheckHourKeeps ==
    ASSUME Rate!RateAssumption, RateInv, NEW q \in Callers, Rate!CheckHour(q)
    PROVE  RateInv'
<1> DEFINE key == Rate!Incr("hour")
           h == IF key.count = 1 THEN [history EXCEPT !.others = 0, !.inHour = 0] ELSE history
<1>t. RateTyped /\ history \in HistoryType /\ Limit["hour"] \in Nat /\ keys["hour"].count \in Nat
    BY DEF RateInv, RateTyped, Rate!RateAssumption, Rate!RuleNames, Key
<1>1. /\ pc[q] = "hour" /\ keys' = [keys EXCEPT !["hour"] = key] /\ now' = now
      /\ \/ key.count <= Limit["hour"] /\ pc' = [pc EXCEPT ![q] = "burst"] /\ history' = h
         \/ /\ ~(key.count <= Limit["hour"]) /\ pc' = [pc EXCEPT ![q] = "idle"]
            /\ history' = [h EXCEPT !.promise = Rate!Promised("hour", key)]
    BY DEF Rate!CheckHour, Rate!allowed, Rate!Answered
<1>2. /\ h \in HistoryType /\ h.accepted = history.accepted /\ h.promise = history.promise
      /\ h.others = (IF key.count = 1 THEN 0 ELSE history.others)
      /\ h.inHour = (IF key.count = 1 THEN 0 ELSE history.inHour)
    BY <1>t DEF HistoryType
<1>3. /\ history'.accepted = history.accepted /\ history'.others = h.others /\ history'.inHour = h.inHour
      /\ history'.promise \in {history.promise, Rate!Promised("hour", key)}
    BY <1>1, <1>2 DEF HistoryType
<1>4. /\ keys' \in [{"hour", "burst"} -> Key] /\ history'.promise \in [{"hour", "burst"} -> Promise]
      /\ \A x \in {"hour", "burst"} : KeyOK(x)' /\ PromiseOK(x)'
    BY <1>1, <1>3, CountedKeeps
<1>5. RateTyped'
  <2>1. history' \in HistoryType
    BY <1>1, <1>2, <1>4 DEF HistoryType
  <2> QED
    BY <1>t, <1>1, <1>4, <2>1 DEF RateTyped
<1>6. AcceptedOK' /\ BurstOK'
  <2>1. keys'["burst"] = keys["burst"]
    BY <1>t, <1>1 DEF RateTyped
  <2> QED
    BY <1>3, <2>1 DEF RateInv, AcceptedOK, BurstOK
<1>7. HourOK'
  <2>1. keys'["hour"].count = key.count /\ key.count \in Nat
    BY <1>t, <1>1, Incremented DEF RateTyped, Key
  <2>2. key.count = 1 \/ key.count = keys["hour"].count + 1
    BY Incremented
  <2>3. /\ Cardinality(Between) \in Nat
        /\ Cardinality(Between') = Cardinality(Between) + (IF key.count <= Limit["hour"] THEN 1 ELSE 0)
    BY <1>t, <1>1, BetweenMoves
  <2>4. history.others \in Nat /\ history.inHour \in Nat
    BY <1>t DEF HistoryType
  <2>5. HourOK
    BY DEF RateInv
  <2> QED
    BY <1>t, <1>2, <1>3, <2>1, <2>2, <2>3, <2>4, <2>5 DEF HourOK, Accounted
<1> QED
    BY <1>4, <1>5, <1>6, <1>7 DEF RateInv

LEMMA CheckBurstKeeps ==
    ASSUME Rate!RateAssumption, RateInv, NEW q \in Callers, Rate!CheckBurst(q)
    PROVE  RateInv'
<1> DEFINE key == Rate!Incr("burst")
           a == [at |-> now, began |-> key.began, nth |-> key.count]
<1>t. /\ RateTyped /\ history \in HistoryType /\ Limit["burst"] \in Nat /\ Window["burst"] \in Nat
      /\ keys["burst"] \in Key /\ now \in Nat
      /\ history.others \in Nat /\ history.inHour \in Nat /\ history.accepted \in SUBSET Accepted
    BY DEF RateInv, RateTyped, Rate!RateAssumption, Rate!RuleNames, HistoryType
<1>1. /\ pc[q] = "burst" /\ keys' = [keys EXCEPT !["burst"] = key] /\ now' = now
      /\ pc' = [pc EXCEPT ![q] = "idle"]
      /\ \/ /\ key.count <= Limit["burst"]
            /\ history' = [history EXCEPT !.inHour = @ + 1, !.accepted = @ \cup {a}]
         \/ /\ ~(key.count <= Limit["burst"])
            /\ history' = [history EXCEPT !.others = @ + 1, !.promise = Rate!Promised("burst", key)]
    BY DEF Rate!CheckBurst, Rate!allowed, Rate!Answered
<1>2. /\ key \in Key /\ key.count \in Nat /\ key.began \in Nat /\ a \in Accepted
      /\ a.at = now /\ a.began = key.began /\ a.nth = key.count
    BY <1>t, Incremented DEF Key, Accepted
<1>3. /\ \/ key.count <= Limit["burst"] /\ history'.accepted = history.accepted \cup {a}
         \/ ~(key.count <= Limit["burst"]) /\ history'.accepted = history.accepted
      /\ history'.others + history'.inHour = history.others + history.inHour + 1
      /\ history'.others \in Nat /\ history'.inHour \in Nat
      /\ history'.promise \in {history.promise, Rate!Promised("burst", key)}
  <2>1. CASE history' = [history EXCEPT !.inHour = @ + 1, !.accepted = @ \cup {a}] /\ key.count <= Limit["burst"]
    <3>1. /\ history'.accepted = history.accepted \cup {a} /\ history'.promise = history.promise
          /\ history'.inHour = history.inHour + 1 /\ history'.others = history.others
      BY <1>t, <2>1 DEF HistoryType
    <3> QED
      BY <1>t, <2>1, <3>1
  <2>2. CASE /\ ~(key.count <= Limit["burst"])
             /\ history' = [history EXCEPT !.others = @ + 1, !.promise = Rate!Promised("burst", key)]
    <3>1. /\ history'.accepted = history.accepted /\ history'.promise = Rate!Promised("burst", key)
          /\ history'.inHour = history.inHour /\ history'.others = history.others + 1
      BY <1>t, <2>2 DEF HistoryType
    <3> QED
      BY <1>t, <2>2, <3>1
  <2> QED
    BY <1>1, <2>1, <2>2
<1>4. /\ keys' \in [{"hour", "burst"} -> Key] /\ history'.promise \in [{"hour", "burst"} -> Promise]
      /\ \A x \in {"hour", "burst"} : KeyOK(x)' /\ PromiseOK(x)'
    BY <1>1, <1>3, CountedKeeps
<1>5. RateTyped'
  <2>1. history' \in HistoryType
    BY <1>t, <1>1, <1>2, <1>3, <1>4 DEF HistoryType
  <2> QED
    BY <1>t, <1>1, <1>4, <2>1 DEF RateTyped
<1>6. HourOK'
  <2>1. keys'["hour"] = keys["hour"] /\ keys["hour"].count \in Nat
    BY <1>t, <1>1 DEF RateTyped, Key
  <2>2. Cardinality(Between) \in Nat /\ Cardinality(Between') = Cardinality(Between) - 1
    <3>1. /\ Cardinality(Between) \in Nat
          /\ Cardinality(Between') = Cardinality(Between) + (IF "idle" = "burst" THEN 1 ELSE 0)
                                      - (IF pc[q] = "burst" THEN 1 ELSE 0)
      BY <1>t, <1>1, BetweenMoves
    <3> QED
      BY <1>1, <3>1
  <2>3. Accounted' = Accounted
    BY <1>t, <1>3, <2>2 DEF Accounted
  <2> QED
    BY <2>1, <2>3 DEF RateInv, HourOK
<1>7. AcceptedOK'
  <2>1. keys'["burst"] = key
    BY <1>t, <1>1 DEF RateTyped
  <2>2. \A b \in history.accepted : b.at \in Nat /\ b.began \in Nat /\ b.nth \in Nat
    BY <1>t DEF Accepted
  <2>3. /\ keys["burst"].count \in Nat /\ keys["burst"].began \in Nat /\ keys["burst"].expires \in Nat
        /\ KeyOK("burst") /\ AcceptedOK
    BY <1>t DEF Key, RateInv
  <2>4. /\ key.count > 0 /\ key.began <= now
        /\ key.expires = key.began + Window["burst"] /\ now < key.expires
        /\ \/ key.count = keys["burst"].count + 1 /\ key.began = keys["burst"].began
           \/ key.count = 1 /\ key.began = now /\ keys["burst"].expires <= now
    BY Incremented
  <2>5. ASSUME NEW b \in history.accepted
        PROVE  /\ b.nth >= 1 /\ b.nth <= Limit["burst"] /\ b.began <= b.at /\ b.at < b.began + Window["burst"]
               /\ b.began = key.began => b.nth < key.count
               /\ b.began # key.began => b.began + Window["burst"] <= key.began
    BY <1>t, <1>2, <2>2, <2>3, <2>4, <2>5 DEF AcceptedOK, KeyOK, Rate!RateAssumption, Rate!RuleNames
  <2>6. \A b \in history'.accepted :
          /\ b.nth >= 1 /\ b.nth <= Limit["burst"] /\ b.began <= b.at /\ b.at < b.began + Window["burst"]
          /\ b.began = key.began => b.nth <= key.count
          /\ b.began # key.began => b.began + Window["burst"] <= key.began
    BY <1>t, <1>2, <1>3, <2>2, <2>4, <2>5
  <2>7. \A b, c \in history'.accepted :
          /\ b.began = c.began /\ b.nth = c.nth => b = c
          /\ b.began < c.began => b.began + Window["burst"] <= c.began
    BY <1>t, <1>2, <1>3, <2>2, <2>3, <2>5 DEF AcceptedOK
  <2> QED
    BY <2>1, <2>4, <2>6, <2>7 DEF AcceptedOK
<1>8. BurstOK'
  <2>1. keys'["burst"] = key /\ keys["burst"].count \in Nat
    BY <1>t, <1>1 DEF RateTyped, Key
  <2>2. \/ key.count = keys["burst"].count + 1 /\ key.began = keys["burst"].began
        \/ key.count = 1 /\ key.began = now
    BY Incremented
  <2>3. SUFFICES ASSUME NEW n \in 1 .. Limit["burst"], n <= key.count
                 PROVE  \E b \in history'.accepted : b.began = key.began /\ b.nth = n
    BY <2>1 DEF BurstOK
  <2>4. CASE n = key.count
    <3>1. history'.accepted = history.accepted \cup {a}
      BY <1>t, <1>2, <1>3, <2>3, <2>4
    <3>2. a \in history'.accepted
      BY <3>1
    <3> QED
      BY <1>2, <2>4, <3>2
  <2>5. CASE n # key.count
    <3>1. n <= keys["burst"].count /\ key.began = keys["burst"].began
      BY <1>t, <1>2, <2>1, <2>2, <2>3, <2>5
    <3>2. PICK b \in history.accepted : b.began = keys["burst"].began /\ b.nth = n
      BY <3>1 DEF RateInv, BurstOK
    <3>3. b \in history'.accepted
      BY <1>3
    <3> QED
      BY <3>1, <3>2, <3>3
  <2> QED
    BY <2>4, <2>5
<1> QED
    BY <1>4, <1>5, <1>6, <1>7, <1>8 DEF RateInv

LEMMA QuietRate ==
    ASSUME Rate!RateAssumption, RateInv, NEW q \in Callers, Rate!Arrive(q) \/ Rate!FailOpen(q)
    PROVE  RateInv'
<1> DEFINE x == IF pc[q] = "hour" THEN "burst" ELSE IF pc[q] = "burst" THEN "idle" ELSE "hour"
<1>t. /\ RateTyped /\ history \in HistoryType /\ Limit["hour"] \in Nat /\ keys["hour"].count \in Nat
      /\ pc[q] \in {"idle", "hour", "burst"}
      /\ history.others \in Nat /\ history.inHour \in Nat /\ history.arrived \in Nat
    BY DEF RateInv, RateTyped, HistoryType, Rate!RateAssumption, Rate!RuleNames, Key
<1>1. /\ UNCHANGED <<now, keys>> /\ pc' = [pc EXCEPT ![q] = x]
      /\ \/ pc[q] = "idle" /\ history' = [history EXCEPT !.arrived = @ + 1]
         \/ pc[q] = "hour" /\ history' = history
         \/ pc[q] = "burst" /\ history' = [history EXCEPT !.others = @ + 1]
    BY <1>t DEF Rate!Arrive, Rate!FailOpen, Rate!RuleNames
<1>2. /\ history' \in HistoryType /\ history'.accepted = history.accepted
      /\ history'.promise = history.promise /\ history'.inHour = history.inHour
      /\ history'.others = history.others + (IF pc[q] = "burst" THEN 1 ELSE 0)
    BY <1>t, <1>1 DEF HistoryType
<1>3. RateTyped'
    BY <1>t, <1>1, <1>2 DEF RateTyped
<1>4. AcceptedOK' /\ BurstOK' /\ \A r \in {"hour", "burst"} : KeyOK(r)' /\ PromiseOK(r)'
    BY <1>1, <1>2 DEF RateInv, AcceptedOK, BurstOK, KeyOK, PromiseOK
<1>5. HourOK'
  <2>1. /\ Cardinality(Between) \in Nat
        /\ Cardinality(Between') = Cardinality(Between) + (IF x = "burst" THEN 1 ELSE 0)
                                     - (IF pc[q] = "burst" THEN 1 ELSE 0)
    BY <1>t, <1>1, BetweenMoves
  <2>2. Accounted' >= Accounted
    BY <1>t, <1>1, <1>2, <2>1 DEF Accounted
  <2>3. Accounted \in Int /\ Accounted' \in Int
    BY <1>t, <1>1, <1>2, <2>1 DEF Accounted
  <2> QED
    BY <1>t, <1>1, <2>2, <2>3 DEF RateInv, HourOK
<1> QED
    BY <1>3, <1>4, <1>5 DEF RateInv

LEMMA RateStep == Rate!RateAssumption /\ RateInv /\ [Rate!Next]_Rate!rateVars => RateInv'
<1> SUFFICES ASSUME Rate!RateAssumption, RateInv, [Rate!Next]_Rate!rateVars PROVE RateInv'
    OBVIOUS
<1>1. CASE UNCHANGED Rate!rateVars
    BY <1>1 DEF Rate!rateVars, RateInv, RateTyped, AcceptedOK, BurstOK, KeyOK, PromiseOK, HourOK, Accounted, Between
<1>2. CASE Rate!Tick
  <2>1. /\ UNCHANGED <<keys, pc, history>> /\ now \in Nat /\ now' = now + 1 /\ now < Horizon
        /\ Horizon \in Nat /\ keys["hour"].began \in Nat /\ keys["burst"].began \in Nat
    BY <1>2 DEF Rate!Tick, RateInv, RateTyped, Rate!RateAssumption, Key
  <2>2. now' \in 0 .. Horizon
    BY <2>1
  <2>3. \A r \in {"hour", "burst"} : KeyOK(r)' /\ PromiseOK(r)'
    BY <2>1 DEF RateInv, KeyOK, PromiseOK
  <2> QED
    BY <2>1, <2>2, <2>3 DEF RateInv, RateTyped, AcceptedOK, BurstOK, HourOK, Accounted, Between
<1> QED
    BY <1>1, <1>2, CheckHourKeeps, CheckBurstKeeps, QuietRate DEF Rate!Next

(* A stretch as long as a window meets two windows at most, and each       *)
(* window lets in its limit at most.                                       *)
LEMMA WindowIsBounded ==
    ASSUME Rate!RateAssumption, RateInv, NEW S \in SUBSET history.accepted, \A a, b \in S : a.began = b.began
    PROVE  IsFiniteSet(S) /\ Cardinality(S) \in Nat /\ Cardinality(S) <= Limit["burst"]
<1> DEFINE n == Limit["burst"]
           f == [a \in S |-> a.nth]
<1>1. n \in Nat
    BY DEF Rate!RateAssumption, Rate!RuleNames
<1>2. \A a \in S : a.nth \in 1 .. n
    BY <1>1 DEF RateInv, RateTyped, HistoryType, Accepted, AcceptedOK
<1>3. f \in Injection(S, 1 .. n)
  <2>1. \A a, b \in S : a.nth = b.nth => a = b
    BY DEF RateInv, AcceptedOK
  <2> QED
    BY <1>2, <2>1 DEF Injection, IsInjective
<1>4. IsFiniteSet(1 .. n) /\ Cardinality(1 .. n) = n
    BY <1>1, FS_Interval
<1> DEFINE T == 1 .. n
<1>5. f \in Injection(S, T) /\ IsFiniteSet(T)
    BY <1>3, <1>4
<1> HIDE DEF f, T
<1>6. IsFiniteSet(S) /\ Cardinality(S) <= Cardinality(T)
    BY <1>5, FS_Injection
<1> USE DEF T
<1> QED
    BY <1>1, <1>4, <1>6, FS_CardinalityType

LEMMA BurstBounded == Rate!RateAssumption /\ RateInv => Rate!BurstIsBounded
<1> SUFFICES ASSUME Rate!RateAssumption, RateInv, NEW t \in 0 .. now
             PROVE  Cardinality({a \in history.accepted : a.at \in t .. t + Window["burst"] - 1}) <= 2 * Limit["burst"]
    BY SameCardinality DEF Rate!BurstIsBounded
<1> DEFINE S == {a \in history.accepted : a.at \in t .. t + Window["burst"] - 1}
<1>1. Limit["burst"] \in Nat /\ Window["burst"] \in Nat \ {0} /\ t \in Nat
    BY DEF Rate!RateAssumption, Rate!RuleNames
<1>2. \A a \in S : a.began \in Nat /\ a.at \in Nat /\ a.at >= t /\ a.at <= t + Window["burst"] - 1
                     /\ a.began <= a.at /\ a.at < a.began + Window["burst"]
    BY <1>1 DEF RateInv, RateTyped, HistoryType, Accepted, AcceptedOK
<1>3. \A a, b \in S : a.began < b.began => a.began + Window["burst"] <= b.began
    BY DEF RateInv, AcceptedOK
<1>4. CASE S = {}
  <2>1. Cardinality(S) = 0
    BY <1>4, FS_EmptySet
  <2> QED
    BY <1>1, <2>1
<1>5. ASSUME NEW a \in S PROVE Cardinality(S) <= 2 * Limit["burst"]
  <2> DEFINE A == {x \in S : x.began = a.began}
             B == {x \in S : x.began # a.began}
  <2>1. \A x, y \in B : x.began = y.began
    <3> SUFFICES ASSUME NEW x \in B, NEW y \in B, x.began # y.began PROVE FALSE
      OBVIOUS
    <3>1. \A u, v, w \in S : ~(u.began < v.began /\ v.began < w.began)
      BY <1>1, <1>2, <1>3
    <3>2. x.began \in Nat /\ y.began \in Nat /\ a.began \in Nat
      BY <1>2
    <3> QED
      BY <3>1, <3>2
  <2>2. /\ IsFiniteSet(A) /\ Cardinality(A) \in Nat /\ Cardinality(A) <= Limit["burst"]
        /\ IsFiniteSet(B) /\ Cardinality(B) \in Nat /\ Cardinality(B) <= Limit["burst"]
    BY <2>1, WindowIsBounded
  <2>3. S = A \cup B /\ A \cap B = {}
    OBVIOUS
  <2>4. Cardinality(A \cup B) = Cardinality(A) + Cardinality(B) - Cardinality(A \cap B)
    BY <2>2, FS_Union
  <2>5. Cardinality(S) = Cardinality(A) + Cardinality(B)
    <3>1. Cardinality(A \cap B) = 0
      BY <2>3, FS_EmptySet
    <3>2. Cardinality(S) = Cardinality(A) + Cardinality(B) - 0
      BY <2>3, <2>4, <3>1
    <3> HIDE DEF A, B, S
    <3> QED
      BY <2>2, <3>2
  <2> QED
    BY <1>1, <2>2, <2>5
<1> QED
    BY <1>4, <1>5

LEMMA RateHolds ==
    Rate!RateAssumption /\ RateInv => Rate!BurstIsBounded /\ Rate!RefusalIsEarned /\ Rate!RetryAfterIsHonest
<1> SUFFICES ASSUME Rate!RateAssumption, RateInv PROVE Rate!RefusalIsEarned /\ Rate!RetryAfterIsHonest
    BY BurstBounded
<1>3. ASSUME Rate!Live("burst").count > Limit["burst"], NEW n \in 1 .. Limit["burst"]
      PROVE  \E a \in history.accepted : a.began = Rate!Live("burst").began /\ a.nth = n
  <2>1. Limit["burst"] \in Nat /\ keys["burst"].count \in Nat
    BY DEF RateInv, RateTyped, Rate!RateAssumption, Rate!RuleNames, Key
  <2>2. Rate!Live("burst") = keys["burst"]
    BY <1>3, <2>1 DEF Rate!Live, Rate!NoKey
  <2> QED
    BY <1>3, <2>1, <2>2 DEF RateInv, BurstOK
<1>1. Rate!RefusalIsEarned
  <2>1. SUFFICES ASSUME Rate!Live("hour").count > Limit["hour"] PROVE Accounted >= Limit["hour"]
    BY <1>3, SameCardinality DEF Rate!RefusalIsEarned, Accounted, Between
  <2>2. Limit["hour"] \in Nat /\ keys["hour"].count \in Nat /\ HourOK /\ Accounted \in Int
    <3>1. IsFiniteSet(Callers) /\ Between \subseteq Callers
      BY SameCardinality DEF Rate!RateAssumption, Between
    <3>2. Cardinality(Between) \in Nat
      BY <3>1, FS_Subset, FS_CardinalityType
    <3> QED
      BY <3>2 DEF RateInv, RateTyped, Rate!RateAssumption, Rate!RuleNames, Key, HistoryType, Accounted
  <2>3. keys["hour"].count > Limit["hour"]
    BY <2>1, <2>2 DEF Rate!Live, Rate!NoKey
  <2> QED
    BY <2>2, <2>3 DEF HourOK
<1>2. Rate!RetryAfterIsHonest
  <2>1. SUFFICES ASSUME NEW r \in {"hour", "burst"}, now >= history.promise[r].until, Rate!Live(r).count > 0
                 PROVE  Rate!Live(r).began > history.promise[r].at
    BY DEF Rate!RetryAfterIsHonest, Rate!RuleNames
  <2>2. Rate!Live(r) = keys[r] /\ keys[r].expires > now
    BY <2>1 DEF Rate!Live, Rate!NoKey
  <2>3. /\ now \in Nat /\ now <= Horizon /\ Horizon \in Nat /\ history.promise[r].until \in Nat
        /\ keys[r].expires \in Nat /\ PromiseOK(r)
    BY DEF RateInv, RateTyped, HistoryType, Promise, Key, Rate!RateAssumption
  <2> QED
    BY <2>1, <2>2, <2>3 DEF PromiseOK
<1> QED
    BY <1>1, <1>2

(* For every limit and window, any number of requests next to each other,  *)
(* and a Redis that fails at any check: no stretch of time as long as the  *)
(* burst's window lets in more than twice its limit; the burst rule        *)
(* refuses only behind as many as it let in, the hourly budget only behind *)
(* as many as were counted, the refused ones included; and Retry-After is  *)
(* never too short.                                                        *)
THEOREM RateLimitHolds ==
    Rate!RateAssumption /\ Rate!Spec =>
        [](Rate!BurstIsBounded /\ Rate!RefusalIsEarned /\ Rate!RetryAfterIsHonest)
<1> SUFFICES ASSUME Rate!RateAssumption
             PROVE  Rate!Spec => [](Rate!BurstIsBounded /\ Rate!RefusalIsEarned /\ Rate!RetryAfterIsHonest)
    OBVIOUS
<1>1. Rate!Init => RateInv
    BY RateInit
<1>2. RateInv /\ [Rate!Next]_Rate!rateVars => RateInv'
    BY RateStep
<1>3. RateInv => Rate!BurstIsBounded /\ Rate!RefusalIsEarned /\ Rate!RetryAfterIsHonest
    BY RateHolds
<1> QED
    BY <1>1, <1>2, <1>3, PTL DEF Rate!Spec

-----------------------------------------------------------------------------
(***************************************************************************)
(* A call of an agent tool.                                                *)
(***************************************************************************)
TableType == [Tool!Documents -> [gen: Nat, field: Nat, flag: Nat]]
ByDocumentPcs == {"start", "rows", "citations", "clauses", "done"}
ToolType ==
    [tool: {"search_clauses", "get_clause", "get_clause_context"} \cup Tool!ByDocument,
     pc: ByDocumentPcs \cup {"owner", "anchor", "neighbours"},
     docs: SUBSET Tool!Documents, id: Tool!Ids \cup {Tool!NoCall}, owned: SUBSET Tool!Documents,
     rows: SUBSET [doc: Tool!Documents, run: Nat],
     cites: SUBSET [doc: Tool!Documents, place: Int, gen: Nat], before: TableType,
     shown: SUBSET [doc: Tool!Documents, place: Int],
     clauses: SUBSET [doc: Tool!Documents, place: Int, gen: Nat], said: SUBSET Tool!Documents]
InCase(d) == d \in Home /\ Tool!Mine(d)

(* What was read while the call ran is of no ingest before it.             *)
During(c) == tool.before[c.doc].gen <= c.gen /\ c.gen <= table[c.doc].gen

(* Where the call stands: what it has found so far is of the case, as far  *)
(* as that has been checked.                                               *)
Stands ==
    /\ \A d \in Tool!Documents : tool.before[d].gen <= table[d].gen
    /\ tool.pc \in {"start", "rows"} => tool.rows = {} /\ tool.cites = {}
    /\ tool.pc \in {"rows", "citations"} => tool.tool \in Tool!ByDocument
    /\ tool.tool \in Tool!ByDocument /\ tool.pc \in {"rows", "citations", "clauses"} =>
          /\ tool.owned = {d \in tool.docs : InCase(d)}
          /\ \A r \in tool.rows : r.doc \in tool.owned
          /\ \A c \in tool.cites : c.doc \in tool.owned
    /\ tool.tool = "search_clauses" /\ tool.pc = "clauses" =>
          \A c \in tool.cites : InCase(c.doc) /\ During(c) /\ c.place \in 1 .. Places
    /\ tool.pc \in {"owner", "anchor", "neighbours"} =>
          /\ tool.tool \in Tool!ByClause
          /\ \A c, d \in tool.cites : c.doc = d.doc /\ c.gen = d.gen
          /\ \A c \in tool.cites : Tool!Mine(c.doc) /\ During(c)
    /\ tool.pc \in {"anchor", "neighbours"} =>
          tool.tool = "get_clause_context" /\ \A c \in tool.cites : InCase(c.doc)

ToolHolds == Tool!StaysInCase /\ Tool!ShownIsCitable /\ Tool!OneGeneration /\ Tool!ComparedIsNamed
ToolInv ==
    /\ table \in TableType
    /\ \/ tool = Tool!NoCall
       \/ tool \in ToolType /\ Stands
    /\ ToolHolds

LEMMA ToolInit == Tool!Init => ToolInv
<1> SUFFICES ASSUME Tool!Init PROVE ToolInv
    OBVIOUS
<1>1. table \in TableType /\ tool = Tool!NoCall
    BY DEF Tool!Init, TableType
<1>2. tool.pc # "done"
    BY <1>1 DEF Tool!NoCall
<1> QED
    BY <1>1, <1>2 DEF ToolInv, ToolHolds, Tool!Done, Tool!StaysInCase, Tool!ShownIsCitable,
                      Tool!OneGeneration, Tool!ComparedIsNamed

(* What the ingests and analyses next to the call do.                      *)
LEMMA TableMoves ==
    ASSUME ToolInv, NEW d \in Tool!Documents, Tool!ReIngest(d) \/ Tool!Analyze(d)
    PROVE  ToolInv'
<1>1. /\ tool' = tool /\ tool.pc # "done" /\ table' \in TableType
      /\ \A e \in Tool!Documents : table[e].gen <= table'[e].gen
  <2>1. CASE Tool!ReIngest(d)
    BY <2>1 DEF Tool!ReIngest, ToolInv, TableType
  <2>2. CASE Tool!Analyze(d)
    <3>1. PICK g \in 1 .. table[d].gen :
            table' = [table EXCEPT ![d].field = table[d].gen, ![d].flag = g]
      BY <2>2 DEF Tool!Analyze
    <3>2. table[d].gen \in Nat /\ g \in Nat /\ table \in TableType
      BY <3>1 DEF ToolInv, TableType
    <3>3. table' = [table EXCEPT ![d] = [table[d] EXCEPT !.field = table[d].gen, !.flag = g]]
      BY <3>1, <3>2 DEF TableType
    <3>4. /\ [table[d] EXCEPT !.field = table[d].gen, !.flag = g] \in [gen: Nat, field: Nat, flag: Nat]
          /\ [table[d] EXCEPT !.field = table[d].gen, !.flag = g].gen = table[d].gen
      BY <3>2 DEF TableType
    <3>5. table' \in TableType /\ \A e \in Tool!Documents : table'[e].gen = table[e].gen
      BY <3>2, <3>3, <3>4 DEF TableType
    <3>6. \A e \in Tool!Documents : table[e].gen \in Nat
      BY <3>2 DEF TableType
    <3>7. tool' = tool /\ tool.pc # "done"
      BY <2>2 DEF Tool!Analyze
    <3>8. \A e \in Tool!Documents : table[e].gen <= table'[e].gen
      BY <3>5, <3>6
    <3> QED
      BY <3>5, <3>7, <3>8
  <2> QED
    BY <2>1, <2>2
<1>2. ToolHolds'
    BY <1>1 DEF ToolHolds, Tool!Done, Tool!StaysInCase, Tool!ShownIsCitable,
                Tool!OneGeneration, Tool!ComparedIsNamed
<1>3. CASE tool \in ToolType /\ Stands
  <2>1. \A c \in tool.cites : During(c) => During(c)'
    <3> SUFFICES ASSUME NEW c \in tool.cites, During(c) PROVE During(c)'
      OBVIOUS
    <3>1. c.doc \in Tool!Documents /\ c.gen \in Nat
      BY <1>3 DEF ToolType
    <3>2. table[c.doc].gen \in Nat /\ table'[c.doc].gen \in Nat /\ table[c.doc].gen <= table'[c.doc].gen
      BY <1>1, <3>1 DEF ToolInv, TableType
    <3> QED
      BY <1>1, <3>1, <3>2 DEF During
  <2>2. \A e \in Tool!Documents : tool.before[e].gen <= table'[e].gen
    <3> TAKE e \in Tool!Documents
    <3>1. /\ tool.before[e].gen \in Nat /\ table[e].gen \in Nat /\ table'[e].gen \in Nat
          /\ tool.before[e].gen <= table[e].gen /\ table[e].gen <= table'[e].gen
      BY <1>1, <1>3 DEF ToolInv, ToolType, TableType, Stands
    <3> QED
      BY <3>1
  <2> QED
    BY <1>1, <1>2, <1>3, <2>1, <2>2 DEF ToolInv, Stands, InCase
<1> QED
    BY <1>1, <1>2, <1>3 DEF ToolInv

(* A step of the call that does not end it.                                *)
LEMMA CallGoesOn ==
    ASSUME ToolInv, table' = table, tool' \in ToolType, tool'.pc # "done", Stands'
    PROVE  ToolInv'
BY DEF ToolInv, ToolHolds, Tool!Done, Tool!StaysInCase, Tool!ShownIsCitable,
       Tool!OneGeneration, Tool!ComparedIsNamed

(* ... and one that does, with clauses of the case.                        *)
LEMMA Ends ==
    ASSUME ToolInv, tool # Tool!NoCall, NEW shown, NEW clauses, NEW names, Tool!Return(shown, clauses, names),
           shown \subseteq [doc: Tool!Documents, place: Int],
           clauses \subseteq [doc: Tool!Documents, place: Int, gen: Nat], names \subseteq Tool!Documents,
           \A c \in clauses : InCase(c.doc) /\ During(c),
           \A c, d \in clauses : c.doc = d.doc /\ c.gen # d.gen => tool.tool = "get_clause_context",
           \A s \in shown : \/ s \in {Tool!Serialized(c) : c \in clauses}
                            \/ tool.tool = "search_clauses" /\ s.doc \in Tool!Changed,
           tool.tool = "compare_documents" /\ names # {} => names = {d \in tool.docs : InCase(d)}
    PROVE  ToolInv'
<1>1. tool \in ToolType /\ Stands /\ table' = table
    BY DEF ToolInv, Tool!Return, Tool!To
<1>2. /\ tool' = [tool EXCEPT !.pc = "done", !.shown = shown, !.clauses = clauses, !.said = names]
    BY DEF Tool!Return, Tool!To
<1>3. /\ tool' \in ToolType /\ tool'.pc = "done" /\ tool'.shown = shown /\ tool'.clauses = clauses
      /\ tool'.said = names /\ tool'.before = tool.before /\ tool'.tool = tool.tool /\ tool'.docs = tool.docs
    BY <1>1, <1>2 DEF ToolType, ByDocumentPcs
<1>4. Stands'
    BY <1>1, <1>3 DEF Stands
<1>5. Tool!Changed' = Tool!Changed
    BY <1>1, <1>3 DEF Tool!Changed
<1>6. Tool!StaysInCase' /\ Tool!ShownIsCitable' /\ Tool!ComparedIsNamed'
    BY <1>3, <1>5 DEF Tool!Done, Tool!StaysInCase, Tool!ShownIsCitable, Tool!ComparedIsNamed, InCase, Tool!Mine
<1>7. Tool!OneGeneration'
  <2>1. SUFFICES ASSUME NEW c \in clauses, NEW d \in clauses
                 PROVE  /\ tool.before[c.doc].gen <= c.gen
                        /\ c.doc = d.doc /\ c.gen # d.gen =>
                              tool.tool = "get_clause_context" /\ c.doc \in Tool!Changed
    BY <1>3, <1>5 DEF Tool!OneGeneration, Tool!Done
  <2>2. c.doc \in Tool!Documents /\ d.doc \in Tool!Documents /\ c.gen \in Nat /\ d.gen \in Nat
    BY <2>1
  <2>3. /\ tool.before[c.doc].gen \in Nat /\ table[c.doc].gen \in Nat
        /\ tool.before[d.doc].gen \in Nat /\ table[d.doc].gen \in Nat
    BY <1>1, <2>2 DEF ToolInv, ToolType, TableType
  <2>4. During(c) /\ During(d)
    BY <2>1
  <2> QED
    BY <2>1, <2>2, <2>3, <2>4 DEF During, Tool!Changed
<1> QED
    BY <1>1, <1>3, <1>4, <1>6, <1>7 DEF ToolInv, ToolHolds

LEMMA CallKeeps == ToolInv /\ Tool!Call => ToolInv'
<1> SUFFICES ASSUME ToolInv, NEW name \in {"search_clauses", "get_clause", "get_clause_context"} \cup Tool!ByDocument,
                    NEW asked \in SUBSET Tool!Documents, NEW id \in Tool!Ids \cup {Tool!NoCall},
                    Tool!Started(name, asked, id)
             PROVE  ToolInv'
    BY DEF Tool!Call, Tool!ByDocument
<1> DEFINE t == [tool |-> name, pc |-> "start", docs |-> asked, id |-> id, owned |-> {}, rows |-> {},
                 cites |-> {}, before |-> table, shown |-> {}, clauses |-> {}, said |-> {}]
<1>1. tool' = t /\ table' = table /\ table \in TableType
    BY DEF Tool!Started, ToolInv
<1>2. t \in ToolType
    BY <1>1 DEF ToolType, ByDocumentPcs
<1>3. \A d \in Tool!Documents : table[d].gen \in Nat
    BY <1>1 DEF TableType
<1>4. Stands'
    BY <1>1, <1>3 DEF Stands
<1> QED
    BY <1>1, <1>2, <1>4, CallGoesOn

(* A call that was started, at a step of its own.                          *)
LEMMA CallIs ==
    ASSUME ToolInv, tool.pc # "idle"
    PROVE  /\ tool \in ToolType /\ Stands /\ tool # Tool!NoCall /\ table \in TableType
           /\ \A d \in Tool!Documents : table[d].gen \in Nat /\ tool.before[d].gen \in Nat
                                       /\ tool.before[d].gen <= table[d].gen
<1>1. tool # Tool!NoCall
    BY DEF Tool!NoCall
<1>2. tool \in ToolType /\ Stands /\ table \in TableType
    BY <1>1 DEF ToolInv
<1> QED
    BY <1>1, <1>2 DEF TableType, ToolType, Stands

LEMMA NothingFound == ASSUME ToolInv, tool.pc # "idle", Tool!NotFound PROVE ToolInv'
BY CallIs, Ends DEF Tool!NotFound

(* What is loaded of the rows that are there now.                          *)
LEMMA LoadedIs ==
    ASSUME ToolInv, tool.pc # "idle"
    PROVE  /\ Tool!Loaded \subseteq tool.cites
           /\ Tool!Loaded \subseteq [doc: Tool!Documents, place: Int, gen: Nat]
           /\ \A c \in Tool!Loaded : c.gen = table[c.doc].gen /\ During(c) /\ c.doc \in Tool!Documents
           /\ \A c \in tool.cites :
                 Tool!Mine(c.doc) /\ c.gen = table[c.doc].gen /\ c.place \in 1 .. Places => c \in Tool!Loaded
<1>1. tool.cites \in SUBSET [doc: Tool!Documents, place: Int, gen: Nat]
    BY CallIs DEF ToolType
<1>2. \A c \in Tool!TenantClauses : c.gen = table[c.doc].gen
    BY DEF Tool!TenantClauses, Tool!Clauses, Tool!Clause
<1>3. ASSUME NEW c \in tool.cites, Tool!Mine(c.doc), c.gen = table[c.doc].gen, c.place \in 1 .. Places
      PROVE  c \in Tool!TenantClauses
  <2>1. c = Tool!Clause(c.doc, c.place, table[c.doc].gen) /\ c.doc \in Tool!Documents
    BY <1>1, <1>3 DEF Tool!Clause
  <2> QED
    BY <1>3, <2>1 DEF Tool!TenantClauses, Tool!Clauses
<1>4. \A c \in Tool!Loaded : c.doc \in Tool!Documents /\ c.gen = table[c.doc].gen
    BY <1>1, <1>2 DEF Tool!Loaded
<1> QED
    BY <1>1, <1>3, <1>4, CallIs DEF Tool!Loaded, During

LEMMA ByDocumentKeeps ==
    ASSUME Tool!ToolAssumption, ToolInv, Tool!CheckDocuments \/ Tool!ReadFields \/ Tool!ReadFlags \/ Tool!ReadCitations
    PROVE  ToolInv'
<1>0. tool.pc # "idle"
    BY DEF Tool!CheckDocuments, Tool!ReadFields, Tool!ReadFlags, Tool!ReadCitations, Tool!At
<1>t. tool \in ToolType /\ Stands /\ table \in TableType
    BY <1>0, CallIs
<1>1. CASE Tool!CheckDocuments
  <2> DEFINE owned == Tool!ownedDocumentIds(tool.docs)
  <2>1. CASE owned = {}
    BY <1>0, <1>1, <2>1, NothingFound DEF Tool!CheckDocuments
  <2>2. CASE owned # {}
    <3>1. /\ tool.tool \in Tool!ByDocument /\ tool.pc = "start"
          /\ tool' = [tool EXCEPT !.pc = "rows", !.owned = owned] /\ table' = table
      BY <1>1, <2>2 DEF Tool!CheckDocuments, Tool!At, Tool!To
    <3>2. owned \subseteq Tool!Documents /\ owned = {d \in tool.docs : InCase(d)}
      BY <1>t DEF ToolType, Tool!ownedDocumentIds, InCase
    <3>3. /\ tool' \in ToolType /\ tool'.pc = "rows" /\ tool'.tool = tool.tool /\ tool'.owned = owned
          /\ tool'.docs = tool.docs /\ tool'.rows = tool.rows /\ tool'.cites = tool.cites
          /\ tool'.before = tool.before
      BY <1>t, <3>1, <3>2 DEF ToolType, ByDocumentPcs
    <3>4. Stands'
      BY <1>t, <3>1, <3>2, <3>3 DEF Stands, Tool!ByDocument, InCase, Tool!Mine
    <3> QED
      BY <3>1, <3>3, <3>4, CallGoesOn
  <2> QED
    BY <2>1, <2>2
<1>2. CASE Tool!ReadFields
  <2> DEFINE rows == {[doc |-> d, run |-> table[d].field] : d \in {e \in tool.owned : table[e].field > 0}}
  <2>1. /\ tool.tool \in Tool!ByDocument /\ tool.pc = "rows" /\ table' = table
        /\ tool' = [tool EXCEPT !.pc = "citations", !.rows = rows]
    BY <1>2 DEF Tool!ReadFields, Tool!At, Tool!To, Tool!ByDocument
  <2>2. rows \subseteq [doc: Tool!Documents, run: Nat] /\ \A r \in rows : r.doc \in tool.owned
    BY <1>t DEF ToolType, TableType
  <2>3. /\ tool' \in ToolType /\ tool'.pc = "citations" /\ tool'.tool = tool.tool /\ tool'.owned = tool.owned
        /\ tool'.docs = tool.docs /\ tool'.rows = rows /\ tool'.cites = tool.cites
        /\ tool'.before = tool.before
    BY <1>t, <2>1, <2>2 DEF ToolType, ByDocumentPcs
  <2>4. Stands'
    BY <1>t, <2>1, <2>2, <2>3 DEF Stands, InCase, Tool!Mine
  <2> QED
    BY <2>1, <2>3, <2>4, CallGoesOn
<1>3. CASE Tool!ReadFlags \/ Tool!ReadCitations
  <2>1. PICK cites \in SUBSET [doc: Tool!Documents, place: Int, gen: Nat] :
          /\ tool.tool \in Tool!ByDocument /\ tool.pc \in {"rows", "citations"} /\ table' = table
          /\ tool.tool # "search_clauses"
          /\ tool' = [tool EXCEPT !.pc = "clauses", !.cites = cites]
          /\ \A c \in cites : c.doc \in tool.owned
    <3>1. CASE Tool!ReadFlags
      <4> DEFINE cites == {Tool!Clause(d, Places, table[d].flag) : d \in {e \in tool.owned : table[e].flag > 0}}
      <4>1. cites \subseteq [doc: Tool!Documents, place: Int, gen: Nat] /\ \A c \in cites : c.doc \in tool.owned
        BY <1>t DEF ToolType, TableType, Tool!Clause, Tool!ToolAssumption
      <4> QED
        BY <3>1, <4>1 DEF Tool!ReadFlags, Tool!At, Tool!To, Tool!ByDocument
    <3>2. CASE Tool!ReadCitations
      <4> DEFINE cites == {Tool!Clause(r.doc, 1, r.run) : r \in {x \in tool.rows : table[x.doc].field = x.run}}
      <4>1. cites \subseteq [doc: Tool!Documents, place: Int, gen: Nat]
        BY <1>t DEF ToolType, TableType, Tool!Clause
      <4>2. \A c \in cites : c.doc \in tool.owned
        BY <1>t, <3>2 DEF Tool!ReadCitations, Tool!At, Stands, Tool!ByDocument, Tool!Clause
      <4> QED
        BY <3>2, <4>1, <4>2 DEF Tool!ReadCitations, Tool!At, Tool!To, Tool!ByDocument
    <3> QED
      BY <1>3, <3>1, <3>2
  <2>2. /\ tool' \in ToolType /\ tool'.pc = "clauses" /\ tool'.tool = tool.tool /\ tool'.owned = tool.owned
        /\ tool'.docs = tool.docs /\ tool'.rows = tool.rows /\ tool'.cites = cites
        /\ tool'.before = tool.before
    BY <1>t, <2>1 DEF ToolType, ByDocumentPcs
  <2>3. Stands'
    BY <1>t, <2>1, <2>2 DEF Stands, InCase, Tool!Mine
  <2> QED
    BY <2>1, <2>2, <2>3, CallGoesOn
<1> QED
    BY <1>1, <1>2, <1>3

LEMMA ReadClausesKeeps == ASSUME ToolInv, Tool!ReadClauses PROVE ToolInv'
<1> DEFINE shown == {Tool!Serialized(c) : c \in Tool!Loaded}
<1>0. tool.tool \in Tool!ByDocument /\ tool.pc = "clauses" /\ tool.tool # "search_clauses"
    BY DEF Tool!ReadClauses, Tool!At, Tool!ByDocument
<1>t. tool \in ToolType /\ Stands /\ tool # Tool!NoCall /\ tool.pc # "idle"
    BY <1>0, CallIs
<1>1. Tool!Return(shown, Tool!Loaded, Tool!Compared)
    BY DEF Tool!ReadClauses
<1>2. shown \subseteq [doc: Tool!Documents, place: Int]
    BY <1>t, LoadedIs DEF Tool!Serialized
<1>3. \A c \in Tool!Loaded : InCase(c.doc) /\ During(c)
    BY <1>0, <1>t, LoadedIs DEF Stands, InCase
<1>4. \A c, d \in Tool!Loaded : c.doc = d.doc => c.gen = d.gen
    BY <1>t, LoadedIs
<1>5. Tool!Compared \subseteq Tool!Documents
    BY <1>t DEF ToolType, Tool!Compared
<1>6. tool.tool = "compare_documents" => Tool!Compared = {d \in tool.docs : InCase(d)}
    BY <1>0, <1>t DEF Tool!Compared, Stands
<1> QED
    BY <1>t, <1>1, <1>2, <1>3, <1>4, <1>5, <1>6, LoadedIs, Ends

LEMMA SearchKeeps == ASSUME Tool!ToolAssumption, ToolInv, Tool!Search \/ Tool!LoadFound PROVE ToolInv'
<1>0. tool.tool = "search_clauses" /\ tool.tool \notin Tool!ByDocument /\ tool.pc # "idle"
    BY DEF Tool!Search, Tool!LoadFound, Tool!At, Tool!ByDocument
<1>t. /\ tool \in ToolType /\ Stands /\ tool # Tool!NoCall /\ table \in TableType
      /\ \A d \in Tool!Documents : table[d].gen \in Nat /\ tool.before[d].gen \in Nat
                                  /\ tool.before[d].gen <= table[d].gen
    BY <1>0, CallIs
<1>1. CASE Tool!Search
  <2>1. PICK found \in SUBSET Tool!Candidates :
          tool' = [tool EXCEPT !.pc = "clauses", !.cites = found] /\ table' = table
    BY <1>1 DEF Tool!Search, Tool!To
  <2>2. ASSUME NEW c \in found
        PROVE  /\ c \in [doc: Tool!Documents, place: Int, gen: Nat] /\ InCase(c.doc) /\ During(c)
               /\ c.place \in 1 .. Places
    <3>1. PICK d \in Tool!Documents, p \in 1 .. Places : Tool!Mine(d) /\ c = Tool!Clause(d, p, table[d].gen)
      BY <2>1 DEF Tool!Candidates, Tool!TenantClauses, Tool!Clauses
    <3>2. c.doc = d /\ c.place = p /\ c.gen = table[d].gen /\ c \in [doc: Tool!Documents, place: Int, gen: Nat]
      BY <1>t, <3>1 DEF Tool!Clause, Tool!ToolAssumption
    <3> QED
      BY <1>t, <2>1, <3>1, <3>2 DEF Tool!Candidates, InCase, During
  <2>3. /\ tool' \in ToolType /\ tool'.pc = "clauses" /\ tool'.tool = tool.tool /\ tool'.cites = found
        /\ tool'.before = tool.before
    BY <1>t, <2>1, <2>2 DEF ToolType, ByDocumentPcs
  <2>4. Stands'
    BY <1>0, <1>t, <2>1, <2>2, <2>3 DEF Stands, InCase, Tool!Mine, During
  <2> QED
    BY <2>1, <2>3, <2>4, CallGoesOn
<1>2. CASE Tool!LoadFound
  <2> DEFINE shown == {Tool!Serialized(c) : c \in tool.cites}
  <2>1. Tool!Return(shown, Tool!Loaded, {}) /\ tool.pc = "clauses"
    BY <1>2 DEF Tool!LoadFound, Tool!At
  <2>2. shown \subseteq [doc: Tool!Documents, place: Int]
    BY <1>t DEF ToolType, Tool!Serialized
  <2>3. \A c \in tool.cites : InCase(c.doc) /\ During(c) /\ c.place \in 1 .. Places
    BY <1>0, <1>t, <2>1 DEF Stands
  <2>4. ASSUME NEW c \in tool.cites, c \notin Tool!Loaded PROVE c.doc \in Tool!Changed
    <3>1. c.doc \in Tool!Documents /\ c.gen \in Nat /\ c.gen # table[c.doc].gen
      BY <1>0, <1>t, <2>3, <2>4, LoadedIs DEF ToolType, InCase
    <3> QED
      BY <1>t, <2>3, <3>1 DEF During, Tool!Changed
  <2>5. \A s \in shown : s \in {Tool!Serialized(c) : c \in Tool!Loaded} \/ s.doc \in Tool!Changed
    BY <2>4 DEF Tool!Serialized
  <2>6. \A c, d \in Tool!Loaded : c.doc = d.doc => c.gen = d.gen
    BY <1>0, LoadedIs
  <2> QED
    BY <1>0, <1>t, <2>1, <2>2, <2>3, <2>5, <2>6, LoadedIs, Ends
<1> QED
    BY <1>1, <1>2

LEMMA ByClauseKeeps ==
    ASSUME Tool!ToolAssumption, ToolInv, Tool!Resolve \/ Tool!CheckOwner \/ Tool!ReadAnchor
    PROVE  ToolInv'
<1>0. tool.tool \in Tool!ByClause /\ tool.pc \in {"start", "owner", "anchor"} /\ tool.tool \notin Tool!ByDocument
      /\ tool.tool # "search_clauses"
    BY DEF Tool!Resolve, Tool!CheckOwner, Tool!ReadAnchor, Tool!At, Tool!ByClause, Tool!ByDocument
<1>t. /\ tool \in ToolType /\ Stands /\ tool # Tool!NoCall /\ table \in TableType /\ tool.pc # "idle"
      /\ \A d \in Tool!Documents : table[d].gen \in Nat /\ tool.before[d].gen \in Nat
                                  /\ tool.before[d].gen <= table[d].gen
    BY <1>0, CallIs
<1>1. CASE Tool!Resolve
  <2> DEFINE found == Tool!Resolved(tool.id)
  <2>1. CASE found = {}
    BY <1>t, <1>1, <2>1, NothingFound DEF Tool!Resolve
  <2>2. CASE found # {}
    <3>1. tool' = [tool EXCEPT !.pc = "owner", !.cites = found] /\ table' = table
      BY <1>1, <2>2 DEF Tool!Resolve, Tool!To
    <3>2. \A c \in found : c \in Tool!TenantClauses /\ c.doc = tool.id.doc
      BY DEF Tool!Resolved, Tool!getClause, Tool!getClausesBySerializedId, Tool!Serialized
    <3>3. ASSUME NEW c \in found
          PROVE  /\ c \in [doc: Tool!Documents, place: Int, gen: Nat] /\ Tool!Mine(c.doc) /\ During(c)
                 /\ c.gen = table[c.doc].gen
      <4>1. PICK d \in Tool!Documents, p \in 1 .. Places : Tool!Mine(d) /\ c = Tool!Clause(d, p, table[d].gen)
        BY <3>2 DEF Tool!TenantClauses, Tool!Clauses
      <4>2. c.doc = d /\ c.gen = table[d].gen /\ c \in [doc: Tool!Documents, place: Int, gen: Nat]
        BY <1>t, <4>1 DEF Tool!Clause, Tool!ToolAssumption
      <4> QED
        BY <1>t, <4>1, <4>2 DEF During
    <3>4. /\ tool' \in ToolType /\ tool'.pc = "owner" /\ tool'.tool = tool.tool /\ tool'.cites = found
          /\ tool'.before = tool.before
      BY <1>t, <3>1, <3>3 DEF ToolType, ByDocumentPcs
    <3>5. \A c, d \in found : c.doc = d.doc /\ c.gen = d.gen
      BY <3>2, <3>3
    <3>6. Stands'
      BY <1>0, <1>t, <3>1, <3>3, <3>4, <3>5 DEF Stands, Tool!ByClause, Tool!Mine, During
    <3> QED
      BY <3>1, <3>4, <3>6, CallGoesOn
  <2> QED
    BY <2>1, <2>2
<1>2. CASE Tool!CheckOwner
  <2>p. tool.pc = "owner"
    BY <1>2 DEF Tool!CheckOwner, Tool!At
  <2>1. CASE Tool!ownedDocumentIds({c.doc : c \in tool.cites}) = {}
    BY <1>t, <1>2, <2>1, NothingFound DEF Tool!CheckOwner
  <2>2. CASE Tool!ownedDocumentIds({c.doc : c \in tool.cites}) # {}
    <3>1. \A c \in tool.cites : InCase(c.doc)
      BY <1>t, <2>p, <2>2 DEF Stands, Tool!ownedDocumentIds, InCase
    <3>2. CASE tool.tool = "get_clause"
      <4> DEFINE shown == {Tool!Serialized(c) : c \in tool.cites}
      <4>1. Tool!Return(shown, tool.cites, {})
        BY <1>2, <2>2, <3>2 DEF Tool!CheckOwner
      <4>2. shown \subseteq [doc: Tool!Documents, place: Int]
            /\ tool.cites \subseteq [doc: Tool!Documents, place: Int, gen: Nat]
        BY <1>t DEF ToolType, Tool!Serialized
      <4>3. /\ \A c, d \in tool.cites : c.gen = d.gen
            /\ \A c \in tool.cites : During(c)
        BY <1>t, <2>p DEF Stands
      <4> QED
        BY <1>t, <3>1, <3>2, <4>1, <4>2, <4>3, Ends
    <3>3. CASE tool.tool # "get_clause"
      <4>1. tool' = [tool EXCEPT !.pc = "anchor"] /\ table' = table
        BY <1>2, <2>2, <3>3 DEF Tool!CheckOwner, Tool!To
      <4>2. tool.tool = "get_clause_context"
        BY <1>0, <3>3 DEF Tool!ByClause
      <4>3. /\ tool' \in ToolType /\ tool'.pc = "anchor" /\ tool'.tool = tool.tool /\ tool'.cites = tool.cites
            /\ tool'.before = tool.before
        BY <1>t, <4>1 DEF ToolType, ByDocumentPcs
      <4>4. Stands'
        BY <1>0, <1>t, <2>p, <3>1, <4>1, <4>2, <4>3 DEF Stands, Tool!Mine, InCase, During
      <4> QED
        BY <4>1, <4>3, <4>4, CallGoesOn
    <3> QED
      BY <3>2, <3>3
  <2> QED
    BY <2>1, <2>2
<1>3. CASE Tool!ReadAnchor
  <2>p. tool.pc = "anchor"
    BY <1>3 DEF Tool!ReadAnchor, Tool!At
  <2>1. CASE tool.cites \cap Tool!TenantClauses = {}
    BY <1>t, <1>3, <2>1, NothingFound DEF Tool!ReadAnchor
  <2>2. CASE tool.cites \cap Tool!TenantClauses # {}
    <3>1. tool' = [tool EXCEPT !.pc = "neighbours"] /\ table' = table
      BY <1>3, <2>2 DEF Tool!ReadAnchor, Tool!To
    <3>2. /\ tool' \in ToolType /\ tool'.pc = "neighbours" /\ tool'.tool = tool.tool /\ tool'.cites = tool.cites
          /\ tool'.before = tool.before
      BY <1>t, <3>1 DEF ToolType, ByDocumentPcs
    <3>3. Stands'
      BY <1>0, <1>t, <2>p, <3>1, <3>2 DEF Stands, Tool!Mine, InCase, During
    <3> QED
      BY <3>1, <3>2, <3>3, CallGoesOn
  <2> QED
    BY <2>1, <2>2
<1> QED
    BY <1>1, <1>2, <1>3

LEMMA ReadNeighboursKeeps == ASSUME Tool!ToolAssumption, ToolInv, Tool!ReadNeighbours PROVE ToolInv'
<1> DEFINE all == UNION {Tool!ContextOf(c) : c \in tool.cites}
           shown == {Tool!Serialized(c) : c \in all}
<1>0. tool.pc = "neighbours" /\ tool.pc # "idle"
    BY DEF Tool!ReadNeighbours, Tool!At
<1>t. /\ tool \in ToolType /\ Stands /\ tool # Tool!NoCall /\ table \in TableType
      /\ \A d \in Tool!Documents : table[d].gen \in Nat /\ tool.before[d].gen \in Nat
                                  /\ tool.before[d].gen <= table[d].gen
    BY <1>0, CallIs
<1>1. Tool!Return(shown, all, {})
    BY DEF Tool!ReadNeighbours
<1>2. /\ tool.tool = "get_clause_context" /\ \A c \in tool.cites : InCase(c.doc) /\ During(c)
    BY <1>0, <1>t DEF Stands
<1>3. ASSUME NEW c \in all
      PROVE  c \in [doc: Tool!Documents, place: Int, gen: Nat] /\ InCase(c.doc) /\ During(c)
  <2>1. PICK b \in tool.cites : c \in Tool!ContextOf(b)
    OBVIOUS
  <2>2. b \in [doc: Tool!Documents, place: Int, gen: Nat] /\ b.doc \in Tool!Documents /\ InCase(b.doc)
    BY <1>t, <1>2 DEF ToolType
  <2>3. CASE c = b
    BY <1>2, <2>2, <2>3
  <2>4. CASE c \in Tool!Clauses(b.doc)
    <3>1. PICK p \in 1 .. Places : c = Tool!Clause(b.doc, p, table[b.doc].gen)
      BY <2>4 DEF Tool!Clauses
    <3>2. c.doc = b.doc /\ c.gen = table[b.doc].gen /\ c \in [doc: Tool!Documents, place: Int, gen: Nat]
      BY <1>t, <2>2, <3>1 DEF Tool!Clause, Tool!ToolAssumption
    <3> QED
      BY <1>t, <2>2, <3>2 DEF During
  <2> QED
    BY <2>1, <2>3, <2>4 DEF Tool!ContextOf
<1>4. shown \subseteq [doc: Tool!Documents, place: Int]
    BY <1>3 DEF Tool!Serialized
<1> QED
    BY <1>t, <1>1, <1>2, <1>3, <1>4, Ends

LEMMA ToolStep == Tool!ToolAssumption /\ ToolInv /\ [Tool!Next]_Tool!toolVars => ToolInv'
<1> SUFFICES ASSUME Tool!ToolAssumption, ToolInv, [Tool!Next]_Tool!toolVars PROVE ToolInv'
    OBVIOUS
<1>1. CASE UNCHANGED Tool!toolVars
    BY <1>1 DEF Tool!toolVars, ToolInv, Stands, InCase, During, ToolHolds, Tool!Done, Tool!StaysInCase,
                Tool!ShownIsCitable, Tool!OneGeneration, Tool!ComparedIsNamed, Tool!Changed, Tool!Mine
<1> QED
    BY <1>1, TableMoves, CallKeeps, ByDocumentKeeps, ReadClausesKeeps, SearchKeeps, ByClauseKeeps, ReadNeighboursKeeps
    DEF Tool!Next

(* Whatever ids and documents a model asks for, and however its statements *)
(* fall between the ingests and analyses of any number of documents: what  *)
(* a tool returns is of the case and the tenant, may be cited where it is  *)
(* shown, is of one ingest, and names what was compared.                   *)
THEOREM ToolsStayInCase ==
    Tool!ToolAssumption /\ Tool!Spec =>
        [](Tool!StaysInCase /\ Tool!ShownIsCitable /\ Tool!OneGeneration /\ Tool!ComparedIsNamed)
<1> SUFFICES ASSUME Tool!ToolAssumption PROVE Tool!Spec => []ToolHolds
    BY DEF ToolHolds
<1>1. Tool!Init => ToolInv
    BY ToolInit
<1>2. ToolInv /\ [Tool!Next]_Tool!toolVars => ToolInv'
    BY ToolStep
<1>3. ToolInv => ToolHolds
    BY DEF ToolInv
<1> QED
    BY <1>1, <1>2, <1>3, PTL DEF Tool!Spec

-----------------------------------------------------------------------------
(***************************************************************************)
(* The report of a case.                                                   *)
(***************************************************************************)
(* The ids of the clauses there have been; a fresh ingest takes a new one. *)
Used == {<<"first", d>> : d \in Docs} \cup {<<"ingest", k>> : k \in 0 .. ids - 1}
Citation(x) == x = [doc |-> x.doc, field |-> x.field, clause |-> x.clause]

(* The rows: a document that is there has a clause, and a citation is of a *)
(* clause of its document, by the last analysis of all that made it.       *)
DbOK ==
    /\ ids \in Nat /\ db = [t \in Read!Rows!Tables |-> db[t]]
    /\ \A r \in db.documents : r.doc \in Docs
    /\ \A c \in db.clauses : c.doc \in Docs /\ c.id \in Used
    /\ \A d \in Docs : Read!Exists(d) => Read!Index(d) # {}
    /\ \A x \in db.citations : Citation(x) /\ x.doc \in Docs /\ x.clause \in Read!Index(x.doc)
    /\ db.citations \subseteq cited
    /\ \A f, g \in db.fields : f.doc = g.doc /\ f.ver = g.ver => f = g

(* A report under way: what was read is of the index it began with, or     *)
(* that index has been replaced for good.                                  *)
ReadingOK ==
    report.pc \in {"fields", "citations", "flags", "clauses"} =>
        /\ report.doc \in Docs /\ report.began # {} /\ report.began \subseteq Used
        /\ report.pc # "fields" => \A f, g \in report.fields : f.ver = g.ver => f = g
        /\ report.pc \in {"flags", "clauses"} =>
              /\ \A x \in report.cites : Citation(x) /\ x.doc = report.doc /\ x \in cited
              /\ \/ Read!Index(report.doc) # report.began
                 \/ \A x \in report.cites : x.clause \in report.began

(* What is put together of a case, a document at a time.                   *)
ReportShape ==
    \/ report = Read!NoReport
    \/ /\ report.pc \in {"document", "fields", "citations", "flags", "clauses", "done"}
       /\ report = [pc |-> report.pc, todo |-> report.todo, doc |-> report.doc, out |-> report.out,
                    fields |-> report.fields, cites |-> report.cites, flags |-> report.flags,
                    began |-> report.began]

ReportInv ==
    /\ DbOK /\ ReportShape /\ ReadingOK /\ Read!ChipsResolve /\ Read!ChipsOfOneRun

(* What one transaction or statement next to the report may do: an index   *)
(* stays, goes, or is replaced by one that is new.                         *)
Moves ==
    /\ ids \in Nat /\ ids' \in {ids, ids + 1} /\ report' = report /\ cited \subseteq cited'
    /\ \A d \in Docs : \/ Read!Index(d)' = Read!Index(d)
                       \/ Read!Index(d)' = {}
                       \/ Read!Index(d)' = {<<"ingest", ids>>}

LEMMA MovesKeep == ASSUME ReportInv, Moves, DbOK' PROVE ReportInv'
<1>1. Used \subseteq Used'
  <2>1. CASE ids' = ids
    BY <2>1 DEF Used
  <2>2. CASE ids' = ids + 1
    <3>1. \A k \in 0 .. ids - 1 : k \in 0 .. ids' - 1
      BY <2>2 DEF Moves
    <3> QED
      BY <3>1 DEF Used
  <2> QED
    BY <2>1, <2>2 DEF Moves
<1>2. <<"ingest", ids>> \notin Used
    BY DEF Moves, Used
<1>3. ReadingOK'
  <2> SUFFICES ASSUME report.pc \in {"fields", "citations", "flags", "clauses"}
               PROVE  /\ report.began \subseteq Used'
                      /\ Read!Index(report.doc) # report.began => Read!Index(report.doc)' # report.began
                      /\ Read!Index(report.doc)' = Read!Index(report.doc) \/ Read!Index(report.doc)' # report.began
    BY DEF ReportInv, ReadingOK, Moves
  <2>1. report.began \subseteq Used /\ report.began # {} /\ report.doc \in Docs
    BY DEF ReportInv, ReadingOK
  <2> QED
    BY <1>1, <1>2, <2>1 DEF Moves
<1>4. Read!ChipsResolve'
    BY DEF ReportInv, Moves, Read!ChipsResolve, Read!Reports, Read!SameIndex
<1>5. Read!ChipsOfOneRun'
    BY DEF ReportInv, Moves, Read!ChipsOfOneRun, Read!Reports
<1> QED
    BY <1>3, <1>4, <1>5 DEF ReportInv, ReportShape, Moves

LEMMA ReportInit == Read!ReportAssumption /\ Read!Init => ReportInv
<1> SUFFICES ASSUME Read!ReportAssumption, Read!Init PROVE ReportInv
    OBVIOUS
<1>0. PICK d \in Docs, ver \in Versions :
        db = Read!Rows!Benchmarked(Read!Rows!Extracted(Read!Ingested, d, ver, <<"first run", d>>), d,
                                   Read!Rows!Extracted(Read!Ingested, d, ver, <<"first run", d>>).fields)
    BY DEF Read!Init
<1> DEFINE analyzed == Read!Rows!Extracted(Read!Ingested, d, ver, <<"first run", d>>)
<1>1. db = Read!Rows!Benchmarked(analyzed, d, analyzed.fields)
    BY <1>0
<1>e. Read!Ingested.fields = {} /\ Read!Ingested.citations = {}
    BY DEF Read!Ingested, Read!Rows!NoRows, Read!Rows!Tables
<1>a. /\ analyzed = [t \in Read!Rows!Tables |-> analyzed[t]]
      /\ analyzed.documents = {[doc |-> e, status |-> "ready"] : e \in Docs}
      /\ analyzed.clauses = {[id |-> <<"first", e>>, doc |-> e] : e \in Docs}
      /\ analyzed.fields = {[id |-> <<"first run", d>>, doc |-> d, ver |-> ver]}
      /\ analyzed.citations = {[doc |-> d, field |-> <<"first run", d>>, clause |-> c] :
                                  c \in Read!Rows!Ids(Read!Rows!Of(analyzed.clauses, d))}
    BY <1>e DEF Read!Rows!Extracted, Read!Rows!OfVersion, Read!Rows!Of, Read!Ingested, Read!Rows!NoRows, Read!Rows!Tables
<1> HIDE DEF analyzed
<1>2. ids = 0 /\ report.pc = "idle" /\ cited = db.citations /\ report = Read!NoReport
    BY DEF Read!Init, Read!NoReport
<1>3. /\ db = [t \in Read!Rows!Tables |-> db[t]]
      /\ db.documents = {[doc |-> e, status |-> "ready"] : e \in Docs}
      /\ db.clauses = {[id |-> <<"first", e>>, doc |-> e] : e \in Docs}
      /\ db.citations = {[doc |-> d, field |-> <<"first run", d>>, clause |-> c] :
                            c \in Read!Rows!Ids(Read!Rows!Of(db.clauses, d))}
      /\ db.fields = {[id |-> <<"first run", d>>, doc |-> d, ver |-> ver]}
    BY <1>1, <1>a DEF Read!Rows!Benchmarked, Read!Rows!Tables
<1>4. DbOK
  <2> DEFINE first(e) == [id |-> <<"first", e>>, doc |-> e]
  <2>c. \A c : c \in db.clauses <=> \E e \in Docs : c = first(e)
    BY <1>3
  <2>f. \A e \in Docs : first(e).id = <<"first", e>> /\ first(e).doc = e
    OBVIOUS
  <2> HIDE DEF first
  <2>1. ASSUME NEW e \in Docs PROVE Read!Index(e) = {<<"first", e>>}
    <3>1. {x \in db.clauses : x.doc = e} = {first(e)}
      BY <2>c, <2>f
    <3>2. Read!Index(e) = {r.id : r \in {x \in db.clauses : x.doc = e}}
      BY DEF Read!Index, Read!Rows!Ids, Read!Rows!Of
    <3>3. first(e).id = <<"first", e>>
      BY <2>f
    <3> QED
      BY <3>1, <3>2, <3>3
  <2>2. ASSUME NEW c \in db.clauses PROVE c.doc \in Docs /\ c.id \in Used
    <3>1. PICK e \in Docs : c = first(e)
      BY <2>c
    <3>2. c.doc = e /\ c.id = <<"first", e>>
      BY <2>f, <3>1
    <3> QED
      BY <3>2 DEF Used
  <2>3. \A x \in db.citations : Citation(x) /\ x.doc \in Docs /\ x.clause \in Read!Index(x.doc)
    <3> TAKE x \in db.citations
    <3>1. PICK c \in Read!Rows!Ids(Read!Rows!Of(db.clauses, d)) :
            x = [doc |-> d, field |-> <<"first run", d>>, clause |-> c]
      BY <1>3
    <3> QED
      BY <3>1 DEF Citation, Read!Index
  <2>4. \A r \in db.documents : r.doc \in Docs
    <3> TAKE r \in db.documents
    <3>1. PICK e \in Docs : r = [doc |-> e, status |-> "ready"]
      BY <1>3
    <3> QED
      BY <3>1
  <2> QED
    BY <1>2, <1>3, <2>1, <2>2, <2>3, <2>4 DEF DbOK
<1> QED
    BY <1>2, <1>4 DEF ReportInv, ReportShape, ReadingOK, Read!ChipsResolve, Read!ChipsOfOneRun, Read!Reports

LEMMA WritersKeep ==
    ASSUME Read!ReportAssumption, ReportInv, NEW d \in Docs,
           Read!ReIngest(d) \/ (\E ver \in Versions : Read!Extract(d, ver)) \/ Read!Delete(d)
    PROVE  ReportInv'
<1>d. /\ DbOK /\ ids \in Nat /\ db = [t \in Read!Rows!Tables |-> db[t]]
      /\ {"documents", "clauses", "chunks", "fields", "citations", "flags"} = Read!Rows!Tables
    BY DEF ReportInv, DbOK, Read!Rows!Tables
<1>1. CASE Read!ReIngest(d)
  <2> DEFINE clause == [id |-> <<"ingest", ids>>, doc |-> d]
  <2>1. /\ UNCHANGED <<bench, report, cited>> /\ ids' = ids + 1
        /\ db' = Read!Rows!Reindexed(db, d, <<"ingest", ids>>)
    BY <1>1 DEF Read!ReIngest, Read!Fresh
  <2>2. /\ db' = [t \in Read!Rows!Tables |-> db'[t]]
        /\ db'.documents = {r \in db.documents : r.doc # d} \cup {[doc |-> d, status |-> "ready"]}
        /\ db'.clauses = {r \in db.clauses : r.doc # d} \cup {clause}
        /\ db'.citations = {r \in db.citations : r.doc # d}
        /\ db'.fields = {r \in db.fields : r.doc # d}
    BY <1>d, <2>1 DEF Read!Rows!Reindexed, Read!Rows!SetStatus, Read!Rows!NotOf
  <2>3. clause.id = <<"ingest", ids>> /\ clause.doc = d
    OBVIOUS
  <2> HIDE DEF clause
  <2>4. \A e \in Docs : Read!Index(e)' = IF e = d THEN {<<"ingest", ids>>} ELSE Read!Index(e)
    <3>1. \A e \in Docs : Read!Index(e)' = {r.id : r \in {x \in db'.clauses : x.doc = e}}
      BY DEF Read!Index, Read!Rows!Ids, Read!Rows!Of
    <3>2. \A e \in Docs : Read!Index(e) = {r.id : r \in {x \in db.clauses : x.doc = e}}
      BY DEF Read!Index, Read!Rows!Ids, Read!Rows!Of
    <3>3. {x \in db'.clauses : x.doc = d} = {clause}
      BY <2>2, <2>3
    <3>4. \A e \in Docs : e # d => {x \in db'.clauses : x.doc = e} = {x \in db.clauses : x.doc = e}
      BY <2>2, <2>3
    <3>5. Read!Index(d)' = {<<"ingest", ids>>}
      BY <2>3, <3>1, <3>3
    <3>6. \A e \in Docs : e # d => Read!Index(e)' = Read!Index(e)
      BY <3>1, <3>2, <3>4
    <3> QED
      BY <3>5, <3>6
  <2>5. Used' = Used \cup {<<"ingest", ids>>}
    <3>1. 0 .. ids' - 1 = (0 .. ids - 1) \cup {ids}
      BY <1>d, <2>1
    <3> QED
      BY <3>1 DEF Used
  <2>6. \A e \in Docs : e # d /\ Read!Exists(e)' => Read!Exists(e)
    BY <2>2 DEF Read!Exists
  <2>7. DbOK'
    <3>1. \A r \in db'.documents : r.doc \in Docs
      BY <1>d, <2>2 DEF DbOK
    <3>2. \A c \in db'.clauses : c.doc \in Docs /\ c.id \in Used'
      BY <1>d, <2>2, <2>3, <2>5 DEF DbOK
    <3>3. \A e \in Docs : Read!Exists(e)' => Read!Index(e)' # {}
      BY <1>d, <2>4, <2>6 DEF DbOK
    <3>4. \A x \in db'.citations : Citation(x)' /\ x.doc \in Docs /\ x.clause \in Read!Index(x.doc)'
      BY <1>d, <2>2, <2>4 DEF DbOK, Citation
    <3>5. ids' \in Nat
      BY <1>d, <2>1
    <3>6. db'.citations \subseteq cited'
      BY <1>d, <2>1, <2>2 DEF DbOK
    <3>7. \A f, g \in db'.fields : f.doc = g.doc /\ f.ver = g.ver => f = g
      BY <1>d, <2>2 DEF DbOK
    <3> QED
      BY <2>2, <3>1, <3>2, <3>3, <3>4, <3>5, <3>6, <3>7 DEF DbOK
  <2>8. Moves
    BY <1>d, <2>1, <2>4 DEF Moves
  <2> QED
    BY <2>7, <2>8, MovesKeep
<1>2. CASE \E ver \in Versions : Read!Extract(d, ver)
  <2>v. PICK ver \in Versions : Read!Extract(d, ver)
    BY <1>2
  <2> DEFINE new == [id |-> <<"run", ids>>, doc |-> d, ver |-> ver]
             old == Read!Rows!OfVersion(db.fields, d, ver)
  <2>1. /\ UNCHANGED <<bench, report>> /\ ids' = ids + 1 /\ cited' = cited \cup db'.citations
        /\ db' = Read!Rows!Extracted(db, d, ver, <<"run", ids>>)
    BY <2>v DEF Read!Extract, Read!Fresh
  <2>o. \A f \in db.fields : f \in old <=> f.doc = d /\ f.ver = ver
    BY DEF Read!Rows!OfVersion, Read!Rows!Of
  <2>w. new.doc = d /\ new.ver = ver
    OBVIOUS
  <2>c. \A x \in db'.citations :
           \/ x \in db.citations
           \/ \E c \in Read!Index(d) : x = [doc |-> d, field |-> <<"run", ids>>, clause |-> c]
    <3>1. db'.citations = {c \in db.citations : c.field \notin Read!Rows!Ids(old)}
              \cup {[doc |-> d, field |-> <<"run", ids>>, clause |-> c] : c \in Read!Index(d)}
      BY <1>d, <2>1 DEF Read!Rows!Extracted, Read!Index
    <3> QED
      BY <3>1
  <2>2. /\ db' = [t \in Read!Rows!Tables |-> db'[t]]
        /\ db'.documents = db.documents /\ db'.clauses = db.clauses
        /\ db'.fields = (db.fields \ old) \cup {new}
    BY <1>d, <2>1 DEF Read!Rows!Extracted
  <2> HIDE DEF new, old
  <2>f. \A f, g \in db'.fields : f.doc = g.doc /\ f.ver = g.ver => f = g
    <3>1. \A f \in db'.fields : f = new \/ (f \in db.fields /\ ~(f.doc = d /\ f.ver = ver))
      BY <2>2, <2>o
    <3>2. \A f, g \in db.fields : f.doc = g.doc /\ f.ver = g.ver => f = g
      BY <1>d DEF DbOK
    <3> QED
      BY <3>1, <3>2, <2>w
  <2>3. \A e \in Docs : Read!Index(e)' = Read!Index(e)
    BY <2>2 DEF Read!Index
  <2>4. Used \subseteq Used'
    <3>1. \A k \in 0 .. ids - 1 : k \in 0 .. ids' - 1
      BY <1>d, <2>1
    <3> QED
      BY <3>1 DEF Used
  <2>5. \A x \in db'.citations : Citation(x) /\ x.doc \in Docs /\ x.clause \in Read!Index(x.doc)
    <3> TAKE x \in db'.citations
    <3>1. CASE x \in db.citations
      BY <1>d, <3>1 DEF DbOK
    <3>2. ASSUME NEW c \in Read!Index(d), x = [doc |-> d, field |-> <<"run", ids>>, clause |-> c]
          PROVE  Citation(x) /\ x.doc \in Docs /\ x.clause \in Read!Index(x.doc)
      BY <3>2 DEF Citation
    <3> QED
      BY <2>c, <3>1, <3>2
  <2>6. DbOK'
    <3>1. \A e \in Docs : Read!Exists(e)' => Read!Exists(e)
      BY <2>2 DEF Read!Exists
    <3>2. \A x \in db'.citations : Citation(x)' /\ x.doc \in Docs /\ x.clause \in Read!Index(x.doc)'
      BY <2>3, <2>5 DEF Citation
    <3>3. ids' \in Nat /\ db'.citations \subseteq cited'
      BY <1>d, <2>1
    <3>4. \A c \in db'.clauses : c.doc \in Docs /\ c.id \in Used'
      BY <1>d, <2>2, <2>4 DEF DbOK
    <3>5. \A e \in Docs : Read!Exists(e)' => Read!Index(e)' # {}
      BY <1>d, <2>3, <3>1 DEF DbOK
    <3> QED
      BY <1>d, <2>2, <2>f, <3>2, <3>3, <3>4, <3>5 DEF DbOK
  <2>7. Moves
    BY <1>d, <2>1, <2>3 DEF Moves
  <2> QED
    BY <2>6, <2>7, MovesKeep
<1>3. CASE Read!Delete(d)
  <2>1. /\ UNCHANGED <<ids, bench, report, cited>>
        /\ db' = [t \in Read!Rows!Tables |-> {r \in db[t] : r.doc # d}]
    BY <1>3 DEF Read!Delete, Read!Rows!NotOf
  <2>2. /\ db' = [t \in Read!Rows!Tables |-> db'[t]]
        /\ db'.documents = {r \in db.documents : r.doc # d}
        /\ db'.clauses = {r \in db.clauses : r.doc # d}
        /\ db'.citations = {r \in db.citations : r.doc # d}
        /\ db'.fields = {r \in db.fields : r.doc # d}
    BY <1>d, <2>1
  <2>3. \A e \in Docs : Read!Index(e)' = IF e = d THEN {} ELSE Read!Index(e)
    BY <2>2 DEF Read!Index, Read!Rows!Ids, Read!Rows!Of
  <2>4. \A e \in Docs : Read!Exists(e)' => Read!Exists(e) /\ e # d
    BY <2>2 DEF Read!Exists
  <2>5. Used' = Used
    BY <2>1 DEF Used
  <2>6. DbOK'
    BY <1>d, <2>1, <2>2, <2>3, <2>4, <2>5 DEF DbOK, Citation
  <2>7. Moves
    BY <1>d, <2>1, <2>3 DEF Moves
  <2> QED
    BY <2>6, <2>7, MovesKeep
<1> QED
    BY <1>1, <1>2, <1>3

LEMMA BenchKeeps ==
    ASSUME ReportInv, (\E d \in Docs : Read!BenchFields(d)) \/ Read!BenchCitations \/ Read!BenchWrite
    PROVE  ReportInv'
<1>d. /\ DbOK /\ ids \in Nat /\ db = [t \in Read!Rows!Tables |-> db[t]]
      /\ {"documents", "clauses", "chunks", "fields", "citations", "flags"} = Read!Rows!Tables
    BY DEF ReportInv, DbOK, Read!Rows!Tables
<1>1. /\ UNCHANGED <<ids, report, cited>> /\ db' = [t \in Read!Rows!Tables |-> db'[t]]
      /\ db'.documents = db.documents /\ db'.clauses = db.clauses /\ db'.citations = db.citations
      /\ db'.fields = db.fields
  <2>1. CASE Read!BenchWrite
    <3>1. PICK flags : db' = [db EXCEPT !.flags = flags]
      BY <2>1 DEF Read!BenchWrite
    <3> QED
      BY <1>d, <2>1, <3>1 DEF Read!BenchWrite
  <2>2. CASE (\E d \in Docs : Read!BenchFields(d)) \/ Read!BenchCitations
    BY <1>d, <2>2 DEF Read!BenchFields, Read!BenchCitations
  <2> QED
    BY <2>1, <2>2
<1>2. \A d \in Docs : Read!Index(d)' = Read!Index(d)
    BY <1>1 DEF Read!Index
<1>3. DbOK'
  <2>1. Used' = Used /\ \A d \in Docs : Read!Exists(d)' <=> Read!Exists(d)
    BY <1>1 DEF Used, Read!Exists
  <2>2. \A f, g \in db'.fields : f.doc = g.doc /\ f.ver = g.ver => f = g
    BY <1>d, <1>1 DEF DbOK
  <2>3. \A x \in db'.citations : Citation(x)' /\ x.doc \in Docs /\ x.clause \in Read!Index(x.doc)'
    BY <1>d, <1>1, <1>2 DEF DbOK, Citation
  <2>4. /\ ids' \in Nat /\ db'.citations \subseteq cited'
        /\ \A r \in db'.documents : r.doc \in Docs
        /\ \A c \in db'.clauses : c.doc \in Docs /\ c.id \in Used'
        /\ \A d \in Docs : Read!Exists(d)' => Read!Index(d)' # {}
    BY <1>d, <1>1, <1>2, <2>1 DEF DbOK
  <2> QED
    BY <1>1, <2>2, <2>3, <2>4 DEF DbOK
<1>4. Moves
    BY <1>d, <1>1, <1>2 DEF Moves
<1> QED
    BY <1>3, <1>4, MovesKeep

(* The statements of the report leave the rows as they are; what one of    *)
(* them adds to the report is as it should be.                             *)
LEMMA StepKeeps ==
    ASSUME ReportInv, UNCHANGED <<db, ids, bench, cited>>, ReportShape', ReadingOK',
           Read!ChipsResolve', Read!ChipsOfOneRun'
    PROVE  ReportInv'
<1>1. DbOK'
    BY DEF ReportInv, DbOK, Citation, Used, Read!Exists, Read!Index
<1> QED
    BY <1>1 DEF ReportInv

(* ... and most of them add nothing that is shown.                         *)
LEMMA QuietStep ==
    ASSUME ReportInv, UNCHANGED <<db, ids, bench, cited>>, ReportShape', ReadingOK',
           Read!Reports' \subseteq Read!Reports
    PROVE  ReportInv'
BY StepKeeps DEF ReportInv, Read!ChipsResolve, Read!ChipsOfOneRun, Read!SameIndex

Opened == {"fields", "citations", "flags", "clauses"}

LEMMA CaseRead == ASSUME ReportInv, Read!ReadCase \/ Read!EndCase PROVE ReportInv'
<1>1. CASE Read!ReadCase
  <2>1. /\ UNCHANGED <<db, ids, bench, cited>>
        /\ report' = [pc |-> "document", todo |-> {d.doc : d \in db.documents}, doc |-> 0, out |-> {},
                      fields |-> {}, cites |-> {}, flags |-> {}, began |-> {}]
    BY <1>1 DEF Read!ReadCase, Read!Step
  <2>2. ReportShape' /\ ReadingOK' /\ Read!Reports' = {}
    BY <2>1 DEF ReportShape, ReadingOK, Read!Reports
  <2> QED
    BY <2>1, <2>2, QuietStep
<1>2. CASE Read!EndCase
  <2>1. /\ UNCHANGED <<db, ids, bench, cited>> /\ report.pc = "document"
        /\ report' = [report EXCEPT !.pc = "done"]
    BY <1>2 DEF Read!EndCase, Read!Step
  <2>2. report # Read!NoReport /\ report'.pc = "done" /\ report'.out = report.out /\ ReportShape'
    BY <2>1 DEF ReportInv, ReportShape, Read!NoReport
  <2>3. ReadingOK' /\ Read!Reports' \subseteq Read!Reports
    BY <2>2 DEF ReadingOK, Read!Reports
  <2> QED
    BY <2>1, <2>2, <2>3, QuietStep
<1> QED
    BY <1>1, <1>2

LEMMA DocumentRead == ASSUME ReportInv, Read!ReadDocument PROVE ReportInv'
<1>1. PICK d \in report.todo :
        /\ UNCHANGED <<db, ids, bench, cited>> /\ report.pc = "document"
        /\ report' = [report EXCEPT !.todo = @ \ {d}, !.doc = d, !.began = Read!Index(d),
                        !.pc = IF Read!Exists(d) THEN "fields" ELSE "document"]
    BY DEF Read!ReadDocument, Read!Step
<1>n. report # Read!NoReport
    BY <1>1 DEF Read!NoReport
<1>2. /\ report'.doc = d /\ report'.began = Read!Index(d)
      /\ report'.out = report.out /\ report'.pc = IF Read!Exists(d) THEN "fields" ELSE "document"
      /\ ReportShape'
    BY <1>1, <1>n DEF ReportInv, ReportShape
<1>3. Read!Exists(d) => d \in Docs /\ Read!Index(d) # {} /\ Read!Index(d) \subseteq Used'
    BY <1>1 DEF ReportInv, DbOK, Read!Exists, Read!Index, Read!Rows!Ids, Read!Rows!Of, Used
<1>4. ReadingOK' /\ Read!Reports' \subseteq Read!Reports
    BY <1>2, <1>3, <1>n DEF ReadingOK, Read!Reports
<1> QED
    BY <1>1, <1>2, <1>4, QuietStep

LEMMA RowsRead == ASSUME ReportInv, Read!ReadFields \/ Read!ReadCitations \/ Read!ReadFlags PROVE ReportInv'
<1>s. report.pc \in Opened => report # Read!NoReport
    BY DEF Opened, Read!NoReport
<1>1. CASE Read!ReadFields
  <2>1. /\ UNCHANGED <<db, ids, bench, cited>> /\ report.pc = "fields"
        /\ report' = [report EXCEPT !.pc = "citations", !.fields = Read!Rows!Of(db.fields, report.doc)]
    BY <1>1 DEF Read!ReadFields, Read!Step
  <2>2. /\ report'.doc = report.doc /\ report'.began = report.began /\ report'.out = report.out
        /\ report'.pc = "citations" /\ report'.fields = Read!Rows!Of(db.fields, report.doc) /\ ReportShape'
    BY <1>s, <2>1 DEF ReportInv, ReportShape, Opened
  <2>u. \A f, g \in report'.fields : f.ver = g.ver => f = g
    BY <2>2 DEF ReportInv, DbOK, Read!Rows!Of
  <2>3. ReadingOK' /\ Read!Reports' \subseteq Read!Reports
    BY <1>s, <2>1, <2>2, <2>u DEF ReportInv, ReadingOK, Read!Reports, Used, Opened
  <2> QED
    BY <2>1, <2>2, <2>3, QuietStep
<1>2. CASE Read!ReadCitations
  <2>1. /\ UNCHANGED <<db, ids, bench, cited>> /\ report.pc = "citations"
        /\ report' = [report EXCEPT !.pc = "flags", !.cites = Read!Rows!Of(db.citations, report.doc)]
    BY <1>2 DEF Read!ReadCitations, Read!Step
  <2>2. /\ report'.doc = report.doc /\ report'.began = report.began /\ report'.out = report.out
        /\ report'.pc = "flags" /\ report'.cites = {x \in db.citations : x.doc = report.doc}
        /\ report'.fields = report.fields /\ ReportShape'
    BY <1>s, <2>1 DEF ReportInv, ReportShape, Opened, Read!Rows!Of
  <2>3. \A x \in report'.cites : /\ Citation(x) /\ x.doc = report.doc /\ x \in cited
                                 /\ x.clause \in Read!Index(report.doc)
    BY <2>2 DEF ReportInv, DbOK
  <2>4. Read!Index(report.doc)' = Read!Index(report.doc)
    BY <2>1, <2>2 DEF Read!Index
  <2>5. /\ report.doc \in Docs /\ report.began # {} /\ report.began \subseteq Used'
        /\ \A f, g \in report'.fields : f.ver = g.ver => f = g
    BY <2>1, <2>2 DEF ReportInv, ReadingOK, Used
  <2>6. ReadingOK' /\ Read!Reports' \subseteq Read!Reports
    BY <1>s, <2>1, <2>2, <2>3, <2>4, <2>5 DEF ReadingOK, Read!Reports, Citation, Opened
  <2> QED
    BY <2>1, <2>2, <2>6, QuietStep
<1>3. CASE Read!ReadFlags
  <2>1. /\ UNCHANGED <<db, ids, bench, cited>> /\ report.pc = "flags"
        /\ report' = [report EXCEPT !.pc = "clauses", !.flags = Read!Rows!Of(db.flags, report.doc)]
    BY <1>3 DEF Read!ReadFlags, Read!Step
  <2>2. /\ report'.doc = report.doc /\ report'.began = report.began /\ report'.out = report.out
        /\ report'.cites = report.cites /\ report'.fields = report.fields
        /\ report'.pc = "clauses" /\ ReportShape'
    BY <1>s, <2>1 DEF ReportInv, ReportShape, Opened
  <2>3. Read!Index(report.doc)' = Read!Index(report.doc)
    BY <2>1, <2>2 DEF Read!Index
  <2>4. ReadingOK' /\ Read!Reports' \subseteq Read!Reports
    BY <1>s, <2>1, <2>2, <2>3 DEF ReportInv, ReadingOK, Read!Reports, Used, Opened, Citation
  <2> QED
    BY <2>1, <2>2, <2>4, QuietStep
<1> QED
    BY <1>1, <1>2, <1>3

(* The report of a document is put together.                               *)
LEMMA ClausesRead == ASSUME ReportInv, Read!ReadClauses PROVE ReportInv'
<1> DEFINE new == Read!composeDocumentReport
           there == Read!Rows!Ids(db.clauses)
<1>1. /\ UNCHANGED <<db, ids, bench, cited>> /\ report.pc = "clauses"
      /\ report' = [report EXCEPT !.pc = "document", !.out = @ \cup {new}]
    BY DEF Read!ReadClauses, Read!Step
<1>2. /\ new.doc = report.doc /\ new.began = report.began /\ new.ended = Read!Index(report.doc)
      /\ new.fields = {[field |-> f.id, ver |-> f.ver, chips |-> Read!FieldChips(f)] : f \in report.fields}
      /\ new.flagChips = UNION {{Read!Chip(c) : c \in f.clauses} : f \in report.flags}
    BY DEF Read!composeDocumentReport
<1> HIDE DEF new
<1>n. report # Read!NoReport
    BY <1>1 DEF Read!NoReport
<1>3. /\ report'.pc = "document" /\ report' # Read!NoReport
      /\ report'.out = report.out \cup {new} /\ ReportShape'
  <2>1. report'.pc = "document" /\ report'.out = report.out \cup {new} /\ ReportShape'
    BY <1>1, <1>n DEF ReportInv, ReportShape
  <2> QED
    BY <2>1 DEF Read!NoReport
<1>4. ReadingOK'
    BY <1>3 DEF ReadingOK
<1>5. Read!Reports' = Read!Reports \cup {new}
    BY <1>3, <1>n DEF Read!Reports
<1>6. \A x \in report.cites : Citation(x) /\ x.doc = report.doc /\ x \in cited
    BY <1>1 DEF ReportInv, ReadingOK
<1>7. Read!Index(report.doc) \subseteq there
    BY DEF Read!Index, Read!Rows!Ids, Read!Rows!Of
<1>8. ASSUME Read!SameIndex(new)
      PROVE  /\ \A f \in new.fields : \A c \in f.chips : c.resolves
             /\ \A c \in new.flagChips : ~c.resolves => c.clause \notin new.began
  <2>1. new.began = Read!Index(report.doc) /\ report.began = Read!Index(report.doc)
    BY <1>2, <1>8 DEF Read!SameIndex
  <2>2. \A x \in report.cites : x.clause \in there
    BY <1>1, <1>7, <2>1 DEF ReportInv, ReadingOK
  <2>3. ASSUME NEW f \in new.fields, NEW c \in f.chips PROVE c.resolves
    <3>1. PICK g \in report.fields : f = [field |-> g.id, ver |-> g.ver, chips |-> Read!FieldChips(g)]
      BY <1>2, <2>3
    <3>2. PICK x \in report.cites : c = Read!Chip(x.clause)
      BY <2>3, <3>1 DEF Read!FieldChips
    <3> QED
      BY <2>2, <3>2 DEF Read!Chip, Read!Wanted
  <2>4. ASSUME NEW c \in new.flagChips, ~c.resolves PROVE c.clause \notin new.began
    <3>1. PICK f \in report.flags : \E k \in f.clauses : c = Read!Chip(k)
      BY <1>2, <2>4
    <3>2. PICK k \in f.clauses : c = Read!Chip(k)
      BY <3>1
    <3>3. k \in Read!Wanted
      BY DEF Read!Wanted
    <3> QED
      BY <1>7, <2>1, <2>4, <3>2, <3>3 DEF Read!Chip
  <2> QED
    BY <2>3, <2>4
<1>9. ASSUME NEW f \in new.fields, NEW c \in f.chips
      PROVE  [doc |-> new.doc, field |-> f.field, clause |-> c.clause] \in cited
  <2>1. PICK g \in report.fields : f = [field |-> g.id, ver |-> g.ver, chips |-> Read!FieldChips(g)]
    BY <1>2, <1>9
  <2>2. PICK x \in report.cites : x.field = g.id /\ c = Read!Chip(x.clause)
    BY <1>9, <2>1 DEF Read!FieldChips
  <2>3. f.field = x.field /\ c.clause = x.clause /\ new.doc = x.doc
    BY <1>2, <1>6, <2>1, <2>2 DEF Read!Chip
  <2> QED
    BY <1>6, <2>2, <2>3 DEF Citation
<1>10. Read!ChipsResolve'
    BY <1>5, <1>8 DEF ReportInv, Read!ChipsResolve, Read!SameIndex
<1>u. ASSUME NEW f \in new.fields, NEW g \in new.fields, g.ver = f.ver PROVE g = f
  <2>1. PICK x \in report.fields : f = [field |-> x.id, ver |-> x.ver, chips |-> Read!FieldChips(x)]
    BY <1>2
  <2>2. PICK y \in report.fields : g = [field |-> y.id, ver |-> y.ver, chips |-> Read!FieldChips(y)]
    BY <1>2
  <2>3. x = y
    BY <1>1, <1>u, <2>1, <2>2 DEF ReportInv, ReadingOK
  <2> QED
    BY <2>1, <2>2, <2>3
<1>11. Read!ChipsOfOneRun'
    BY <1>1, <1>5, <1>9, <1>u DEF ReportInv, Read!ChipsOfOneRun
<1> QED
    BY <1>1, <1>3, <1>4, <1>10, <1>11, StepKeeps

LEMMA ReportStep == ASSUME Read!ReportAssumption, ReportInv, [Read!Next]_Read!reportVars PROVE ReportInv'
<1>1. CASE UNCHANGED Read!reportVars
  <2>1. UNCHANGED <<db, ids, bench, cited>> /\ report' = report
    BY <1>1 DEF Read!reportVars
  <2>2. ReportShape' /\ ReadingOK' /\ Read!Reports' \subseteq Read!Reports
    BY <2>1 DEF ReportInv, ReportShape, ReadingOK, Read!Reports, Read!Index, Used, Citation
  <2> QED
    BY <2>1, <2>2, QuietStep
<1>2. CASE Read!Next
    BY <1>2, WritersKeep, BenchKeeps, CaseRead, DocumentRead, RowsRead, ClausesRead DEF Read!Next
<1> QED
    BY <1>1, <1>2

(* A report shows what belongs together, however its five statements fall  *)
(* between the transactions next to them: the chips of a document whose    *)
(* index stayed open, each was cited for its own value, and the values of  *)
(* one schema version are of one run.                                      *)
THEOREM ReportChipsHold ==
    Read!ReportAssumption /\ Read!Spec => [](Read!ChipsResolve /\ Read!ChipsOfOneRun)
<1> SUFFICES ASSUME Read!ReportAssumption PROVE Read!Spec => [](Read!ChipsResolve /\ Read!ChipsOfOneRun)
    OBVIOUS
<1>1. Read!Init => ReportInv
    BY ReportInit
<1>2. ReportInv /\ [Read!Next]_Read!reportVars => ReportInv'
    BY ReportStep
<1>3. ReportInv => Read!ChipsResolve /\ Read!ChipsOfOneRun
    BY DEF ReportInv
<1> QED
    BY <1>1, <1>2, <1>3, PTL DEF Read!Spec


-----------------------------------------------------------------------------
(* The machines side by side, as they are checked: each takes its steps    *)
(* whatever the others do.                                                 *)

(* Counters and lifetimes mean what they say, for any limits and windows   *)
(* of the limiter and any lifetime of a session.                           *)
THEOREM WindowsHold == Rate!Spec /\ Sess!Spec => []WindowsAreKept
<1>1. Rate!Spec => [](Rate!BurstIsBounded /\ Rate!RefusalIsEarned /\ Rate!RetryAfterIsHonest)
    BY RateLimitHolds, PartsAssumption
<1>2. Sess!Spec => [](Sess!EnforcersAgree /\ Sess!ActiveIsNotSelected)
    BY SessionsHold, PartsAssumption
<1>3. /\ Rate!BurstIsBounded /\ Rate!RefusalIsEarned /\ Rate!RetryAfterIsHonest
      /\ Sess!EnforcersAgree /\ Sess!ActiveIsNotSelected
      => WindowsAreKept
    BY DEF WindowsAreKept
<1> QED
    BY <1>1, <1>2, <1>3, PTL

(* What several statements read belongs together, for any documents of any *)
(* tenants and however often they are ingested, analyzed or deleted.       *)
THEOREM ReadsHold == Tool!Spec /\ Read!Spec => []ReadsBelongTogether
<1>1. Tool!Spec => [](Tool!StaysInCase /\ Tool!ShownIsCitable /\ Tool!OneGeneration /\ Tool!ComparedIsNamed)
    BY ToolsStayInCase, PartsAssumption
<1>2. Read!Spec => [](Read!ChipsResolve /\ Read!ChipsOfOneRun)
    BY ReportChipsHold, PartsAssumption
<1>3. /\ Tool!StaysInCase /\ Tool!ShownIsCitable /\ Tool!OneGeneration /\ Tool!ComparedIsNamed
      /\ Read!ChipsResolve /\ Read!ChipsOfOneRun
      => ReadsBelongTogether
    BY DEF ReadsBelongTogether
<1> QED
    BY <1>1, <1>2, <1>3, PTL

-----------------------------------------------------------------------------
(***************************************************************************)
(* The call of a model provider.                                           *)
(***************************************************************************)
Piece == Nat \X Nat
Pieces == Seq(Piece)
ABlock == [type: Call!BlockTypes, text: Pieces, json: 0 .. MaxDeltas]
Wired == [type: {"text"}, text: Pieces] \cup
         {w \in [type: {"tool_use"}, sent: 0 .. MaxDeltas, input: {"object", "parse error"}] :
            w.input = "object" => w.sent \in {0, MaxDeltas}}
Spoken == ABlock \cup Wired

LEMMA TextTyped == ASSUME NEW b \in Spoken PROVE Call!TextOf(b) \in Pieces
<1>1. CASE b \in ABlock
    BY <1>1 DEF Call!TextOf, ABlock, Pieces
<1>2. CASE b \in [type: {"text"}, text: Pieces]
    BY <1>2 DEF Call!TextOf, Pieces
<1>3. CASE b \in [type: {"tool_use"}, sent: 0 .. MaxDeltas, input: {"object", "parse error"}]
  <2>1. b.type = "tool_use"
      BY <1>3
  <2> QED
      BY <2>1 DEF Call!TextOf, Pieces
<1> QED
    BY <1>1, <1>2, <1>3 DEF Spoken, Wired

LEMMA Joined ==
    ASSUME NEW s \in Pieces, NEW t \in Pieces, NEW u \in Pieces
    PROVE  (s \o t) \o u = s \o (t \o u)
<1>1. Pieces = Seq(Piece)
    BY DEF Pieces
<1> QED
    BY <1>1, ConcatAssociative

(* What was said, text by text.                                            *)
Heard(content, f) ==
    /\ f[0] = <<>>
    /\ \A k \in 1 .. Len(content) : f[k] = f[k - 1] \o Call!TextOf(content[k])

LEMMA SaidOf ==
    ASSUME NEW content \in Seq(Spoken)
    PROVE  \E f \in [0 .. Len(content) -> Pieces] :
              Heard(content, f) /\ Call!Said(content) = f[Len(content)]
<1> DEFINE N == Len(content)
           F == [k \in 1 .. N |-> [s \in Pieces |-> s \o Call!TextOf(content[k])]]
           Text(f) == f = [k \in 0 .. N |-> IF k = 0 THEN <<>> ELSE f[k - 1] \o Call!TextOf(content[k])]
           text == CHOOSE f : Text(f)
<1>1. N \in Nat /\ <<>> \in Pieces
    BY DEF Pieces
<1>2. F \in [1 .. N -> [Pieces -> Pieces]]
  <2> SUFFICES ASSUME NEW k \in 1 .. N, NEW s \in Pieces PROVE s \o Call!TextOf(content[k]) \in Pieces
      OBVIOUS
  <2>1. content[k] \in Spoken
      OBVIOUS
  <2> QED
      BY <2>1, TextTyped DEF Pieces
<1>3. PICK f : Unfolds(f, N, Pieces, <<>>, F)
  <2>1. F \in Steps(N, Pieces)
      BY <1>2 DEF Steps
  <2> HIDE DEF F, N
  <2> QED
      BY <1>1, <2>1, Recursion
<1>4. \A k \in 1 .. N : f[k] = f[k - 1] \o Call!TextOf(content[k])
  <2> TAKE k \in 1 .. N
  <2>1. k \in 1 .. N /\ f[k - 1] \in Pieces
      BY <1>1, <1>3 DEF Unfolds
  <2> QED
      BY <2>1, <1>3 DEF Unfolds
<1>5. Text(f)
    BY <1>3, <1>4 DEF Unfolds
<1>6. Text(text)
    BY <1>5
<1>7. Call!Said(content) = text[N]
    BY DEF Call!Said
<1> HIDE DEF text
<1>8. text[0] = <<>> /\ \A k \in 1 .. N : text[k] = text[k - 1] \o Call!TextOf(content[k])
    BY <1>1, <1>6
<1>9. text \in [0 .. N -> Pieces]
  <2> DEFINE S == {k \in Nat : k <= N => text[k] \in Pieces}
  <2>1. 0 \in S
      BY <1>1, <1>8
  <2>2. \A k \in 0 .. N - 1 : k \in S => k + 1 \in S
    <3> SUFFICES ASSUME NEW k \in 0 .. N - 1, text[k] \in Pieces PROVE text[k + 1] \in Pieces
        BY <1>1
    <3>1. content[k + 1] \in Spoken /\ text[k + 1] = text[k] \o Call!TextOf(content[k + 1])
      <4>1. k + 1 \in 1 .. N /\ (k + 1) - 1 = k
          BY <1>1
      <4>2. content[k + 1] \in Spoken
          BY <4>1
      <4> HIDE DEF N, Text, F, S
      <4> QED
          BY <1>8, <4>1, <4>2
    <3> QED
        BY <3>1, TextTyped DEF Pieces
  <2> HIDE DEF S
  <2>3. 0 .. N \subseteq S
      BY <1>1, <2>1, <2>2, InductTo
  <2> QED
      BY <1>6, <2>3 DEF S
<1> QED
    BY <1>7, <1>8, <1>9 DEF Heard

(* There is one way to hear it.                                            *)
LEMMA SaidIs ==
    ASSUME NEW content \in Seq(Spoken), NEW g, Heard(content, g)
    PROVE  Call!Said(content) = g[Len(content)]
<1>1. PICK f \in [0 .. Len(content) -> Pieces] :
          Heard(content, f) /\ Call!Said(content) = f[Len(content)]
    BY SaidOf
<1> DEFINE N == Len(content)
           S == {k \in Nat : k <= N => f[k] = g[k]}
<1>2. N \in Nat /\ 0 \in S
    BY <1>1 DEF Heard
<1>3. \A k \in 0 .. N - 1 : k \in S => k + 1 \in S
    BY <1>1, <1>2 DEF Heard
<1> HIDE DEF S
<1>4. 0 .. N \subseteq S
    BY <1>2, <1>3, InductTo
<1> QED
    BY <1>1, <1>2, <1>4 DEF S

LEMMA SaidTyped == ASSUME NEW content \in Seq(Spoken) PROVE Call!Said(content) \in Pieces
    BY SaidOf

LEMMA SaidAppend ==
    ASSUME NEW content \in Seq(Spoken), NEW b \in Spoken
    PROVE  Call!Said(Append(content, b)) = Call!Said(content) \o Call!TextOf(b)
<1>1. PICK f \in [0 .. Len(content) -> Pieces] :
          Heard(content, f) /\ Call!Said(content) = f[Len(content)]
    BY SaidOf
<1> DEFINE N == Len(content)
           more == Append(content, b)
           g == [k \in 0 .. N + 1 |-> IF k = N + 1 THEN f[N] \o Call!TextOf(b) ELSE f[k]]
<1>2. N \in Nat /\ more \in Seq(Spoken) /\ Len(more) = N + 1 /\ more[N + 1] = b
      /\ \A k \in 1 .. N : more[k] = content[k]
    OBVIOUS
<1>3. Heard(more, g)
  <2> HIDE DEF N, more
  <2>1. g[0] = <<>>
      BY <1>1, <1>2 DEF Heard
  <2>2. \A k \in 1 .. N + 1 : g[k] = g[k - 1] \o Call!TextOf(more[k])
    <3> TAKE k \in 1 .. N + 1
    <3>1. CASE k = N + 1
      <4>1. g[k] = f[N] \o Call!TextOf(b) /\ k - 1 \in 0 .. N /\ k - 1 = N /\ k - 1 # N + 1
          BY <3>1, <1>2
      <4>2. g[k - 1] = f[N]
          BY <4>1, <1>2
      <4> QED
          BY <4>1, <4>2, <3>1, <1>2
    <3>2. CASE k # N + 1
      <4>1. k \in 1 .. N /\ k - 1 \in 0 .. N /\ k - 1 # N + 1
          BY <3>2, <1>2
      <4>2. f[k] = f[k - 1] \o Call!TextOf(content[k])
          BY <1>1, <4>1 DEF Heard, N
      <4>3. g[k] = f[k] /\ g[k - 1] = f[k - 1] /\ more[k] = content[k]
          BY <4>1, <3>2, <1>2
      <4> QED
          BY <4>2, <4>3
    <3> QED
        BY <3>1, <3>2
  <2> QED
      BY <1>2, <2>1, <2>2 DEF Heard
<1>4. Call!Said(more) = g[N + 1]
    BY <1>2, <1>3, SaidIs
<1> QED
    BY <1>1, <1>2, <1>4

(* A delta is said at the end.                                             *)
LEMMA SaidDelta ==
    ASSUME NEW content \in Seq(Spoken), content # <<>>, NEW b \in Spoken, NEW tail \in Pieces,
           Call!TextOf(b) = Call!TextOf(content[Len(content)]) \o tail
    PROVE  Call!Said([content EXCEPT ![Len(content)] = b]) = Call!Said(content) \o tail
<1>1. PICK f \in [0 .. Len(content) -> Pieces] :
          Heard(content, f) /\ Call!Said(content) = f[Len(content)]
    BY SaidOf
<1> DEFINE N == Len(content)
           more == [content EXCEPT ![Len(content)] = b]
           g == [k \in 0 .. N |-> IF k = N THEN f[N] \o tail ELSE f[k]]
<1>2. N \in Nat \ {0} /\ more \in Seq(Spoken) /\ Len(more) = N /\ more[N] = b
      /\ \A k \in 1 .. N : k # N => more[k] = content[k]
    OBVIOUS
<1>3. Heard(more, g)
  <2> HIDE DEF N, more
  <2>1. g[0] = <<>>
      BY <1>1, <1>2 DEF Heard
  <2>2. \A k \in 1 .. N : g[k] = g[k - 1] \o Call!TextOf(more[k])
    <3> TAKE k \in 1 .. N
    <3>0. k \in 0 .. N /\ k - 1 \in 0 .. N /\ k - 1 # N
        BY <1>2
    <3>00. f[k] = f[k - 1] \o Call!TextOf(content[k]) /\ g[k - 1] = f[k - 1]
        BY <1>1, <3>0 DEF Heard, N
    <3>1. CASE k = N
      <4>1. f[N - 1] \in Pieces /\ Call!TextOf(content[N]) \in Pieces
        <5>1. content[N] \in Spoken
            BY <1>2 DEF N
        <5>2. N - 1 \in 0 .. N
            BY <1>2
        <5> QED
            BY <5>1, <5>2, <1>1, TextTyped DEF N
      <4>2. (f[N - 1] \o Call!TextOf(content[N])) \o tail = f[N - 1] \o (Call!TextOf(content[N]) \o tail)
          BY <4>1, Joined
      <4> QED
          BY <3>0, <3>00, <3>1, <4>2, <1>2 DEF N
    <3>2. CASE k # N
      <4>1. g[k] = f[k] /\ more[k] = content[k]
          BY <3>0, <3>2, <1>2
      <4> QED
          BY <4>1, <3>00
    <3> QED
        BY <3>1, <3>2
  <2> QED
      BY <1>2, <2>1, <2>2 DEF Heard
<1>4. Call!Said(more) = g[N]
    BY <1>2, <1>3, SaidIs
<1> HIDE DEF more
<1>5. g[N] = f[N] \o tail
    BY <1>2
<1> QED
    BY <1>1, <1>4, <1>5 DEF more

LEMMA WireTyped ==
    ASSUME NEW b \in ABlock, b.type # "thinking"
    PROVE  Call!WireBlock(b) \in Wired /\ Call!TextOf(Call!WireBlock(b)) = Call!TextOf(b)
<1>1. CASE b.type = "text"
    BY <1>1 DEF ABlock, Wired, Call!WireBlock, Call!TextOf
<1>2. CASE b.type # "text"
  <2>1. b.json \in 0 .. MaxDeltas /\ Call!Input(b.json) \in {"object", "parse error"}
      BY DEF ABlock, Call!Input
  <2>2. Call!WireBlock(b) = [type |-> "tool_use", sent |-> b.json, input |-> Call!Input(b.json)]
      BY <1>2 DEF Call!WireBlock
  <2>3. Call!Input(b.json) = "object" => b.json \in {0, MaxDeltas}
      BY DEF Call!Input
  <2> DEFINE w == Call!WireBlock(b)
  <2>4. w \in [type: {"tool_use"}, sent: 0 .. MaxDeltas, input: {"object", "parse error"}]
    <3> HIDE DEF w
    <3>1. w = [type |-> "tool_use", sent |-> b.json, input |-> Call!Input(b.json)]
        BY <2>2 DEF w
    <3> QED
        BY <2>1, <3>1
  <2>7. w.input = Call!Input(b.json) /\ w.sent = b.json /\ w.type = "tool_use"
      BY <2>2
  <2> HIDE DEF w
  <2>5. Call!TextOf(w) = <<>> /\ Call!TextOf(b) = <<>>
      BY <1>2, <2>7 DEF Call!TextOf
  <2>6. w \in Wired
      BY <2>3, <2>4, <2>7 DEF Wired
  <2> QED
      BY <2>5, <2>6 DEF w
<1> QED
    BY <1>1, <1>2

(* What is assembled, block by block.                                      *)
Wire(s, b) == IF b.type = "thinking" THEN s ELSE Append(s, Call!WireBlock(b))

LEMMA AssembledOf ==
    ASSUME NEW blocks \in Seq(ABlock)
    PROVE  \E f : /\ f \in [0 .. Len(blocks) -> Seq(Wired)] /\ f[0] = <<>>
                  /\ \A k \in 1 .. Len(blocks) : f[k] = Wire(f[k - 1], blocks[k])
                  /\ Call!Assembled(blocks) = f[Len(blocks)]
<1> DEFINE N == Len(blocks)
           F == [k \in 1 .. N |-> [s \in Seq(Wired) |-> Wire(s, blocks[k])]]
           Def(f) == f = [k \in 0 .. N |-> IF k = 0 THEN <<>> ELSE Wire(f[k - 1], blocks[k])]
           content == CHOOSE f : Def(f)
<1>1. N \in Nat /\ <<>> \in Seq(Wired)
    OBVIOUS
<1>2. \A k \in 1 .. N, s \in Seq(Wired) : Wire(s, blocks[k]) \in Seq(Wired)
  <2> SUFFICES ASSUME NEW k \in 1 .. N, NEW s \in Seq(Wired) PROVE Wire(s, blocks[k]) \in Seq(Wired)
      OBVIOUS
  <2>1. blocks[k] \in ABlock
      OBVIOUS
  <2> QED
      BY <2>1, WireTyped DEF Wire
<1>3. PICK f : Unfolds(f, N, Seq(Wired), <<>>, F)
  <2>1. F \in Steps(N, Seq(Wired))
      BY <1>2 DEF Steps
  <2> HIDE DEF F, N
  <2> QED
      BY <1>1, <2>1, Recursion
<1>4. \A k \in 1 .. N : f[k] = Wire(f[k - 1], blocks[k])
  <2> TAKE k \in 1 .. N
  <2>1. k \in 1 .. N /\ f[k - 1] \in Seq(Wired)
      BY <1>1, <1>3 DEF Unfolds
  <2> QED
      BY <2>1, <1>3 DEF Unfolds
<1>5. Def(f)
    BY <1>3, <1>4 DEF Unfolds
<1>6. Def(content)
    BY <1>5
<1>7. Call!Assembled(blocks) = content[N]
    BY DEF Call!Assembled, Wire
<1> HIDE DEF content
<1>8. content[0] = <<>> /\ \A k \in 1 .. N : content[k] = Wire(content[k - 1], blocks[k])
    BY <1>1, <1>6
<1>9. \A k \in 0 .. N : content[k] \in Seq(Wired)
  <2> DEFINE S == {k \in Nat : k <= N => content[k] \in Seq(Wired)}
  <2>1. 0 \in S
      BY <1>1, <1>8
  <2>2. \A k \in 0 .. N - 1 : k \in S => k + 1 \in S
    <3> SUFFICES ASSUME NEW k \in 0 .. N - 1, content[k] \in Seq(Wired)
                 PROVE  content[k + 1] \in Seq(Wired)
        BY <1>1
    <3>1. k + 1 \in 1 .. N /\ (k + 1) - 1 = k
        BY <1>1
    <3> HIDE DEF N, F, Def, S
    <3>2. content[k + 1] = Wire(content[k], blocks[k + 1])
        BY <1>8, <3>1
    <3> QED
        BY <3>1, <3>2, <1>2
  <2> HIDE DEF S
  <2>3. 0 .. N \subseteq S
      BY <1>1, <2>1, <2>2, InductTo
  <2> QED
      BY <2>3 DEF S
<1>10. content \in [0 .. N -> Seq(Wired)]
    BY <1>6, <1>9
<1> QED
    BY <1>7, <1>8, <1>10

(* What is assembled says what the blocks said.                            *)
LEMMA SaidAssembled ==
    ASSUME NEW blocks \in Seq(ABlock)
    PROVE  /\ Call!Assembled(blocks) \in Seq(Wired)
           /\ Call!Said(Call!Assembled(blocks)) = Call!Said(blocks)
<1>1. PICK f : /\ f \in [0 .. Len(blocks) -> Seq(Wired)] /\ f[0] = <<>>
               /\ \A k \in 1 .. Len(blocks) : f[k] = Wire(f[k - 1], blocks[k])
               /\ Call!Assembled(blocks) = f[Len(blocks)]
    BY AssembledOf
<1>2. blocks \in Seq(Spoken)
    BY DEF Spoken
<1>3. \A s \in Seq(Wired) : s \in Seq(Spoken)
    BY DEF Spoken
<1>4. PICK g \in [0 .. Len(blocks) -> Pieces] :
          Heard(blocks, g) /\ Call!Said(blocks) = g[Len(blocks)]
    BY <1>2, SaidOf
<1> DEFINE N == Len(blocks)
           S == {k \in Nat : k <= N => Call!Said(f[k]) = g[k]}
<1>5. N \in Nat /\ 0 \in S
  <2>1. Heard(<<>>, [k \in {0} |-> <<>>])
      BY DEF Heard
  <2>2. Call!Said(<<>>) = <<>>
      BY <2>1, SaidIs
  <2> QED
      BY <1>1, <1>4, <2>2 DEF Heard
<1>6. \A k \in 0 .. N - 1 : k \in S => k + 1 \in S
  <2> SUFFICES ASSUME NEW k \in 0 .. N - 1, Call!Said(f[k]) = g[k]
               PROVE  Call!Said(f[k + 1]) = g[k + 1]
      BY <1>5
  <2>1. k + 1 \in 1 .. N /\ (k + 1) - 1 = k /\ k \in 0 .. N
      BY <1>5
  <2>2. blocks[k + 1] \in ABlock /\ f[k] \in Seq(Wired) /\ g[k] \in Pieces
      BY <2>1, <1>1, <1>4
  <2> HIDE DEF S
  <2>3. f[k + 1] = Wire(f[k], blocks[k + 1])
      BY <1>1, <2>1
  <2>4. g[k + 1] = g[k] \o Call!TextOf(blocks[k + 1])
      BY <1>4, <2>1 DEF Heard
  <2>5. CASE blocks[k + 1].type = "thinking"
    <3>1. Call!TextOf(blocks[k + 1]) = <<>>
        BY <2>5 DEF Call!TextOf
    <3>2. g[k] \o <<>> = g[k]
        BY <2>2 DEF Pieces
    <3> QED
        BY <2>3, <2>4, <2>5, <3>1, <3>2 DEF Wire
  <2>6. CASE blocks[k + 1].type # "thinking"
    <3> DEFINE w == Call!WireBlock(blocks[k + 1])
    <3>1. w \in Spoken /\ Call!TextOf(w) = Call!TextOf(blocks[k + 1])
        BY <2>2, <2>6, WireTyped DEF Spoken
    <3>2. f[k + 1] = Append(f[k], w) /\ f[k] \in Seq(Spoken)
        BY <1>3, <2>2, <2>3, <2>6 DEF Wire
    <3> HIDE DEF w
    <3>3. Call!Said(f[k + 1]) = Call!Said(f[k]) \o Call!TextOf(w)
        BY <3>1, <3>2, SaidAppend
    <3> QED
        BY <2>4, <3>1, <3>3
  <2> QED
      BY <2>5, <2>6
<1> HIDE DEF S
<1>7. 0 .. N \subseteq S
    BY <1>5, <1>6, InductTo
<1> QED
    BY <1>1, <1>4, <1>5, <1>7 DEF S

(* Where a call stands: how often it was posted, and what was said.        *)
CallType ==
    [pc: {"post", "sent", "backoff", "stream", "done", "failed"}, streamed: BOOLEAN,
     attempt: Nat, posts: Nat, slept: Int, owed: Int, flowing: BOOLEAN, blocks: Seq(ABlock),
     said: Pieces, stop: Call!StopReasons, content: Seq(Wired)]
(* The delay of an attempt.                                                *)
Delay(c) == 2 ^ (c.attempt - 1)
CallOK(c) ==
    /\ c \in CallType
    /\ c.flowing => c.pc \in {"stream", "done", "failed"}
    /\ c.pc \in {"post", "backoff"} => c.posts = c.attempt /\ c.attempt < Attempts
    /\ c.pc = "sent" => c.posts = c.attempt + 1 /\ c.attempt < Attempts
    /\ c.posts <= Attempts
    /\ c.pc \in {"post", "sent", "backoff"} => c.blocks = <<>> /\ c.said = <<>> /\ c.content = <<>>
    /\ c.pc = "stream" => Call!Said(c.blocks) = c.said
    /\ c.pc = "done" => Call!Said(c.content) = c.said
    /\ c.pc = "backoff" => c.attempt > 0 /\ c.slept >= c.owed
    /\ c.pc = "post" /\ c.attempt > 0 => c.slept >= c.owed + Delay(c)
    /\ c.pc = "sent" => c.slept = 0 /\ c.owed = 0
CallInv == call = Call!NoCall \/ CallOK(call)

LEMMA PowerIsInt == ASSUME NEW n \in Nat PROVE 2 ^ n \in Int
    BY Z3

LEMMA NothingSaid == Call!Said(<<>>) = <<>>
<1>1. Heard(<<>>, [k \in {0} |-> <<>>])
    BY DEF Heard
<1> QED
    BY <1>1, SaidIs

Redone(c, p, a, n, w, o) == [c EXCEPT !.pc = p, !.attempt = a, !.posts = n, !.slept = w, !.owed = o]
LEMMA Retyped ==
    ASSUME NEW c \in CallType, NEW p \in {"post", "sent", "backoff", "failed"}, NEW a \in Nat, NEW n \in Nat,
           NEW w \in Int, NEW o \in Int
    PROVE  Redone(c, p, a, n, w, o) \in CallType
<1> DEFINE d == [c EXCEPT !.pc = p, !.attempt = a, !.posts = n]
           e == [d EXCEPT !.slept = w, !.owed = o]
<1>1. d \in CallType
    BY DEF CallType
<1>2. Redone(c, p, a, n, w, o) = e
    BY DEF CallType, Redone
<1> HIDE DEF d
<1>3. e \in CallType
    BY <1>1 DEF CallType
<1> QED
    BY <1>2, <1>3

LEMMA Sane == ASSUME NEW p, CallInv, Call!At(p), p # "idle" PROVE CallOK(call) /\ call.pc = p
    BY DEF CallInv, Call!At, Call!NoCall

LEMMA BeginKeeps == ASSUME Call!CallAssumption, NEW s \in BOOLEAN, Call!Begin(s) PROVE CallInv'
<1>1. call' = Call!NewCall(s)
    BY DEF Call!Begin
<1>2. Call!NewCall(s) \in CallType
    BY DEF Call!NewCall, CallType, Call!StopReasons, Pieces
<1>3. CallOK(Call!NewCall(s))
    BY <1>2 DEF CallOK, Call!NewCall, Call!CallAssumption
<1> QED
    BY <1>1, <1>3 DEF CallInv

LEMMA BackoffKeeps == ASSUME CallInv, Call!Backoff PROVE CallInv'
<1>1. CallOK(call) /\ call.pc = "backoff"
    BY Sane DEF Call!Backoff
<1> DEFINE pause == Delay(call)
<1>2. call.attempt \in Nat \ {0} /\ call.slept \in Int /\ call.owed \in Int
    BY <1>1 DEF CallOK, CallType
<1>3. pause \in Int
  <2>1. call.attempt - 1 \in Nat
      BY <1>2
  <2> QED
      BY <2>1, PowerIsInt DEF Delay
<1> HIDE DEF pause
<1>4. call' = [call EXCEPT !.pc = "post", !.slept = call.slept + pause]
    BY DEF Call!Backoff, Delay, pause
<1>5. call' \in CallType /\ call'.attempt = call.attempt /\ call'.slept = call.slept + pause
      /\ call'.owed = call.owed /\ call'.pc = "post"
  <2>1. call \in CallType /\ call.slept + pause \in Int
      BY <1>1, <1>2, <1>3 DEF CallOK
  <2> QED
      BY <1>4, <2>1 DEF CallType
<1>6. call.slept >= call.owed
    BY <1>1 DEF CallOK
<1>7. call.slept + pause >= call.owed + pause
    BY <1>2, <1>3, <1>6
<1>8. call'.slept >= call'.owed + Delay(call')
    BY <1>5, <1>7 DEF pause, Delay
<1>9. CallOK(call')
    BY <1>1, <1>4, <1>5, <1>8 DEF CallOK, CallType
<1> QED
    BY <1>9 DEF CallInv

LEMMA PostKeeps == ASSUME Call!CallAssumption, CallInv, Call!Post PROVE CallInv'
<1>1. CallOK(call) /\ call.pc = "post"
    BY Sane DEF Call!Post
<1>2. call \in CallType /\ call.posts + 1 \in Nat
    BY <1>1 DEF CallOK, CallType
<1>3. call' = [call EXCEPT !.pc = "sent", !.posts = call.posts + 1, !.slept = 0, !.owed = 0]
    BY DEF Call!Post
<1>4. /\ call' \in CallType /\ call'.pc = "sent" /\ call'.posts = call.posts + 1
      /\ call'.attempt = call.attempt /\ call'.slept = 0 /\ call'.owed = 0
      /\ call'.flowing = call.flowing /\ call'.blocks = call.blocks
      /\ call'.said = call.said /\ call'.content = call.content
  <2>1. call' \in CallType
    <3>1. call' = Redone(call, "sent", call.attempt, call.posts + 1, 0, 0)
        BY <1>2, <1>3 DEF CallType, Redone
    <3>2. call.attempt \in Nat
        BY <1>2 DEF CallType
    <3> QED
        BY <1>2, <3>1, <3>2, Retyped
  <2>2. DOMAIN call = {"pc", "streamed", "attempt", "posts", "slept", "owed", "flowing", "blocks", "said",
                       "stop", "content"}
      BY <1>2 DEF CallType
  <2> QED
      BY <1>3, <2>1, <2>2
<1>5. call.posts = call.attempt /\ call.attempt < Attempts /\ call.attempt \in Nat /\ Attempts \in Nat
    BY <1>1, <1>2 DEF CallOK, CallType, Call!CallAssumption
<1>6. CallOK(call')
    BY <1>1, <1>4, <1>5 DEF CallOK
<1> QED
    BY <1>6 DEF CallInv

(* Sent, and answered by a refusal or not at all.                          *)
LEMMA NextAttemptKeeps ==
    ASSUME Call!CallAssumption, CallInv, Call!At("sent"), NEW w \in Nat,
           call' = Call!NextAttemptOf([call EXCEPT !.slept = w, !.owed = w])
    PROVE  CallInv'
<1>1. CallOK(call) /\ call.pc = "sent"
    BY Sane
<1> DEFINE next == IF call.attempt + 1 < Attempts THEN "backoff" ELSE "failed"
<1>2. call' = [call EXCEPT !.slept = w, !.owed = w, !.attempt = call.attempt + 1, !.pc = next]
    BY <1>1 DEF CallOK, CallType, Call!NextAttemptOf
<1>4. call \in CallType /\ call.attempt + 1 \in Nat /\ Attempts \in Nat
    BY <1>1 DEF CallOK, CallType, Call!CallAssumption
<1>5. /\ call' \in CallType /\ call'.pc = next /\ call'.posts = call.posts /\ call'.attempt = call.attempt + 1
      /\ call'.slept = w /\ call'.owed = w /\ call'.flowing = call.flowing
      /\ call'.blocks = call.blocks /\ call'.said = call.said /\ call'.content = call.content
  <2>1. next \in {"backoff", "failed"}
      OBVIOUS
  <2> HIDE DEF next
  <2>2. call' \in CallType
    <3>1. call' = Redone(call, next, call.attempt + 1, call.posts, w, w)
        BY <1>2, <1>4 DEF CallType, Redone
    <3>2. call.posts \in Nat /\ w \in Int /\ next \in {"post", "sent", "backoff", "failed"}
        BY <1>4, <2>1 DEF CallType
    <3> QED
        BY <1>4, <2>1, <3>1, <3>2, Retyped
  <2>3. DOMAIN call = {"pc", "streamed", "attempt", "posts", "slept", "owed", "flowing", "blocks", "said",
                       "stop", "content"}
      BY <1>4 DEF CallType
  <2> QED
      BY <1>2, <2>2, <2>3
<1>6. call.posts = call.attempt + 1 /\ (next = "backoff" => call.attempt + 1 < Attempts)
      /\ next \in {"backoff", "failed"} /\ call.attempt + 1 <= Attempts
    BY <1>1, <1>4 DEF CallOK, CallType
<1> HIDE DEF next
<1>3. CallOK(call')
  <2>1. CASE next = "backoff"
    <3>1. call.flowing = FALSE /\ call.blocks = <<>> /\ call.said = <<>> /\ call.content = <<>>
          /\ call.posts <= Attempts /\ call.attempt + 1 > 0
        BY <1>1, <1>4 DEF CallOK, CallType
    <3> QED
        BY <1>4, <1>5, <1>6, <2>1, <3>1 DEF CallOK
  <2>2. CASE next = "failed"
      BY <1>1, <1>4, <1>5, <1>6, <2>2 DEF CallOK
  <2> QED
      BY <1>6, <2>1, <2>2
<1> QED
    BY <1>3 DEF CallInv

LEMMA RefusedKeeps ==
    ASSUME Call!CallAssumption, CallInv, NEW status, NEW w \in Nat, Call!Refused(status, w) PROVE CallInv'
<1>1. CASE status \in Call!Retryable
    BY <1>1, NextAttemptKeeps DEF Call!Refused
<1>2. CASE status \notin Call!Retryable
  <2>1. CallOK(call) /\ call.pc = "sent"
      BY Sane DEF Call!Refused
  <2>2. CallOK(call')
      BY <1>2, <2>1 DEF CallOK, CallType, Call!Refused
  <2> QED
      BY <2>2 DEF CallInv
<1> QED
    BY <1>1, <1>2

LEMMA FailsKeep == ASSUME Call!CallAssumption, CallInv, Call!ConnectionFails \/ Call!BodyFails PROVE CallInv'
<1>0. CallOK(call) /\ call.pc = "sent"
    BY Sane DEF Call!ConnectionFails, Call!BodyFails
<1>1. CASE Call!ConnectionFails
  <2>1. call = [call EXCEPT !.slept = 0, !.owed = 0]
      BY <1>0 DEF CallOK, CallType
  <2> QED
      BY <1>1, <2>1, NextAttemptKeeps DEF Call!ConnectionFails
<1>2. CASE Call!BodyFails
  <2>1. CallOK(call')
      BY <1>0, <1>2 DEF CallOK, CallType, Call!BodyFails
  <2> QED
      BY <2>1 DEF CallInv
<1> QED
    BY <1>1, <1>2

LEMMA AnsweredKeeps ==
    ASSUME CallInv, NEW stop \in Call!StopReasons, Call!AnsweredWhole(stop) PROVE CallInv'
<1>1. CallOK(call) /\ call.pc = "sent"
    BY Sane DEF Call!AnsweredWhole
<1>2. CallOK(call')
    BY <1>1, NothingSaid DEF CallOK, CallType, Call!AnsweredWhole
<1> QED
    BY <1>2 DEF CallInv

LEMMA OpensKeeps == ASSUME CallInv, Call!StreamOpens PROVE CallInv'
<1>1. CallOK(call) /\ call.pc = "sent"
    BY Sane DEF Call!StreamOpens
<1>2. CallOK(call')
    BY <1>1, NothingSaid DEF CallOK, CallType, Call!StreamOpens
<1> QED
    BY <1>2 DEF CallInv

(* A stream that goes on: what it says stays what the blocks say.          *)
LEMMA StreamGoesOn ==
    ASSUME CallInv, call.pc = "stream", NEW b \in Seq(ABlock), NEW t \in Pieces, Call!Said(b) = t,
           NEW stop \in Call!StopReasons, call' = [call EXCEPT !.blocks = b, !.said = t, !.stop = stop]
    PROVE  CallInv'
<1>1. CallOK(call)
    BY Sane DEF Call!At
<1>2. CallOK(call')
    BY <1>1 DEF CallOK, CallType
<1> QED
    BY <1>2 DEF CallInv

LEMMA Streams ==
    ASSUME CallInv, Call!At("stream")
    PROVE  /\ CallOK(call) /\ call.pc = "stream" /\ call.blocks \in Seq(ABlock) /\ call.said \in Pieces
           /\ call.stop \in Call!StopReasons /\ Call!Said(call.blocks) = call.said
           /\ call.blocks \in Seq(Spoken)
<1>1. CallOK(call) /\ call.pc = "stream"
    BY Sane
<1> QED
    BY <1>1 DEF CallOK, CallType, Spoken

LEMMA StartsKeeps ==
    ASSUME Call!CallAssumption, CallInv, NEW type \in Call!BlockTypes, Call!BlockStarts(type) PROVE CallInv'
<1> DEFINE new == [type |-> type, text |-> <<>>, json |-> 0]
<1>1. Call!At("stream") /\ call' = [call EXCEPT !.blocks = Append(call.blocks, new)]
    BY DEF Call!BlockStarts
<1>2. new \in ABlock /\ Call!TextOf(new) = <<>>
    BY DEF ABlock, Pieces, Call!CallAssumption, Call!TextOf
<1> HIDE DEF new
<1>3. Call!Said(Append(call.blocks, new)) = call.said \o <<>>
    BY <1>1, <1>2, Streams, SaidAppend DEF Spoken
<1>4. call.said \o <<>> = call.said
    BY <1>1, Streams DEF Pieces
<1>5. Append(call.blocks, new) \in Seq(ABlock)
    BY <1>1, <1>2, Streams
<1>6. call' = [call EXCEPT !.blocks = Append(call.blocks, new), !.said = call.said, !.stop = call.stop]
    BY <1>1, Streams DEF CallOK, CallType
<1> QED
  <2> DEFINE more == Append(call.blocks, new)
  <2>1. call.said \in Pieces /\ call.stop \in Call!StopReasons /\ call.pc = "stream" /\ more \in Seq(ABlock)
        /\ Call!Said(more) = call.said
      BY <1>1, <1>3, <1>4, <1>5, Streams
  <2>2. call' = [call EXCEPT !.blocks = more, !.said = call.said, !.stop = call.stop]
      BY <1>6
  <2> HIDE DEF more
  <2> QED
      BY <2>1, <2>2, StreamGoesOn

LEMMA LastBlock ==
    ASSUME CallInv, Call!At("stream"), Call!Last > 0
    PROVE  /\ call.blocks # <<>> /\ Call!Last \in 1 .. Len(call.blocks) /\ Call!Last = Len(call.blocks)
           /\ call.blocks[Call!Last] \in ABlock
<1>1. call.blocks \in Seq(ABlock)
    BY Streams
<1> QED
    BY <1>1 DEF Call!Last

LEMMA TextKeeps == ASSUME CallInv, Call!TextDelta PROVE CallInv'
<1> DEFINE N == Call!Last
           b == call.blocks[N]
           delta == <<N, Len(b.text)>>
           new == [b EXCEPT !.text = Append(b.text, delta)]
<1>1. Call!At("stream") /\ N > 0 /\ b.type = "text"
    BY DEF Call!TextDelta
<1>2. b \in ABlock /\ N = Len(call.blocks) /\ N \in 1 .. Len(call.blocks) /\ call.blocks # <<>>
    BY <1>1, LastBlock
<1>3. call' = [call EXCEPT !.blocks = [call.blocks EXCEPT ![N] = new], !.said = Append(call.said, delta)]
    BY DEF Call!TextDelta
<1>4. delta \in Piece /\ <<delta>> \in Pieces /\ b.text \in Pieces /\ call.said \in Pieces
    BY <1>1, <1>2, Streams DEF ABlock, Pieces, Piece
<1>5. new \in ABlock /\ Call!TextOf(new) = Append(b.text, delta) /\ Call!TextOf(b) = b.text
  <2>1. Append(b.text, delta) \in Pieces
      BY <1>4 DEF Pieces
  <2> HIDE DEF delta
  <2> QED
      BY <1>1, <1>2, <2>1 DEF ABlock, Call!TextOf
<1> HIDE DEF new, delta
<1>6. \A s \in Pieces : Append(s, delta) = s \o <<delta>> /\ Append(s, delta) \in Pieces
    BY <1>4 DEF Pieces
<1> DEFINE more == [call.blocks EXCEPT ![N] = new]
<1>7. more \in Seq(ABlock)
    BY <1>1, <1>2, <1>5, Streams
<1>8. Call!Said(more) = Append(call.said, delta)
  <2>1. new \in Spoken /\ call.blocks \in Seq(Spoken)
      BY <1>1, <1>5, Streams DEF Spoken
  <2>2. Call!TextOf(new) = Call!TextOf(call.blocks[Len(call.blocks)]) \o <<delta>>
      BY <1>2, <1>4, <1>5, <1>6
  <2> HIDE DEF N
  <2>3. Call!Said([call.blocks EXCEPT ![Len(call.blocks)] = new]) = Call!Said(call.blocks) \o <<delta>>
      BY <1>2, <1>4, <2>1, <2>2, SaidDelta
  <2> QED
      BY <1>1, <1>2, <1>4, <1>6, <2>3, Streams
<1> HIDE DEF more
<1>9. call' = [call EXCEPT !.blocks = more, !.said = Append(call.said, delta), !.stop = call.stop]
    BY <1>1, <1>3, Streams DEF CallOK, CallType, more
<1> QED
    BY <1>1, <1>4, <1>6, <1>7, <1>8, <1>9, Streams, StreamGoesOn

LEMMA JsonKeeps == ASSUME CallInv, Call!CallAssumption, Call!JsonDelta PROVE CallInv'
<1> DEFINE N == Call!Last
           b == call.blocks[N]
           new == [b EXCEPT !.json = b.json + 1]
<1>1. Call!At("stream") /\ N > 0 /\ b.type = "tool_use" /\ b.json < MaxDeltas
    BY DEF Call!JsonDelta
<1>2. b \in ABlock /\ N = Len(call.blocks) /\ N \in 1 .. Len(call.blocks) /\ call.blocks # <<>>
    BY <1>1, LastBlock
<1>3. call' = [call EXCEPT !.blocks = [call.blocks EXCEPT ![N] = new]]
    BY DEF Call!JsonDelta
<1>4. <<>> \in Pieces /\ call.said \in Pieces /\ call.said \o <<>> = call.said
    BY <1>1, Streams DEF Pieces
<1>5. new \in ABlock /\ Call!TextOf(new) = <<>> /\ Call!TextOf(b) = <<>>
    BY <1>1, <1>2 DEF ABlock, Call!TextOf, Call!CallAssumption
<1> HIDE DEF new
<1> DEFINE more == [call.blocks EXCEPT ![N] = new]
<1>7. more \in Seq(ABlock)
    BY <1>1, <1>2, <1>5, Streams
<1>8. Call!Said(more) = call.said
  <2>1. new \in Spoken /\ call.blocks \in Seq(Spoken)
      BY <1>1, <1>5, Streams DEF Spoken
  <2>2. Call!TextOf(new) = Call!TextOf(call.blocks[Len(call.blocks)]) \o <<>>
      BY <1>2, <1>5
  <2> HIDE DEF N
  <2>3. Call!Said([call.blocks EXCEPT ![Len(call.blocks)] = new]) = Call!Said(call.blocks) \o <<>>
      BY <1>2, <1>4, <2>1, <2>2, SaidDelta
  <2> QED
      BY <1>1, <1>2, <1>4, <2>3, Streams
<1> HIDE DEF more
<1>9. call' = [call EXCEPT !.blocks = more, !.said = call.said, !.stop = call.stop]
    BY <1>1, <1>3, Streams DEF CallOK, CallType, more
<1> QED
    BY <1>1, <1>4, <1>7, <1>8, <1>9, Streams, StreamGoesOn

LEMMA StopKeeps == ASSUME CallInv, NEW stop \in Call!StopReasons, Call!MessageDelta(stop) PROVE CallInv'
<1>1. Call!At("stream") /\ call' = [call EXCEPT !.stop = stop]
    BY DEF Call!MessageDelta
<1>2. call' = [call EXCEPT !.blocks = call.blocks, !.said = call.said, !.stop = stop]
    BY <1>1, Streams DEF CallOK, CallType
<1> QED
    BY <1>1, <1>2, Streams, StreamGoesOn

LEMMA EndsKeep == ASSUME CallInv, Call!StreamEnds \/ Call!StreamBreaks PROVE CallInv'
<1>0. CallOK(call) /\ call.pc = "stream" /\ call.blocks \in Seq(ABlock) /\ Call!Said(call.blocks) = call.said
    BY Streams DEF Call!StreamEnds, Call!StreamBreaks
<1>1. CASE Call!StreamEnds
  <2>1. Call!Assemble \in Seq(Wired) /\ Call!Said(Call!Assemble) = call.said
      BY <1>0, SaidAssembled DEF Call!Assemble
  <2>2. call' = [call EXCEPT !.pc = "done", !.content = Call!Assemble]
      BY <1>1 DEF Call!StreamEnds
  <2>3. CallOK(call')
      BY <1>0, <2>1, <2>2 DEF CallOK, CallType
  <2> QED
      BY <2>3 DEF CallInv
<1>2. CASE Call!StreamBreaks
  <2>1. CallOK(call')
      BY <1>0, <1>2 DEF CallOK, CallType, Call!StreamBreaks
  <2> QED
      BY <2>1 DEF CallInv
<1> QED
    BY <1>1, <1>2

LEMMA CallStep == ASSUME Call!CallAssumption, CallInv, [Call!Next]_call PROVE CallInv'
<1>1. CASE \E s \in BOOLEAN : Call!Begin(s)
    BY <1>1, BeginKeeps
<1>2. CASE Call!Posting
  <2>1. ASSUME NEW status, NEW w \in {0, 3}, Call!Refused(status, w) PROVE CallInv'
      BY <2>1, RefusedKeeps
  <2> QED
      BY <1>2, <2>1, BackoffKeeps, PostKeeps, FailsKeep, OpensKeeps DEF Call!Posting
<1>3. CASE Call!Streaming
    BY <1>3, StartsKeeps, TextKeeps, JsonKeeps, EndsKeep DEF Call!Streaming
<1>4. CASE \E stop \in Call!StopReasons : Call!Answers(stop)
    BY <1>4, AnsweredKeeps, StopKeeps DEF Call!Answers
<1>5. CASE UNCHANGED call
    BY <1>5 DEF CallInv, CallOK, Call!NoCall
<1> QED
    BY <1>1, <1>2, <1>3, <1>4, <1>5 DEF Call!Next

LEMMA CallHolds ==
    ASSUME CallInv
    PROVE  /\ Call!NeverReplayed /\ Call!DoneIsWhatWasSaid /\ Call!ToolInputWhole /\ Call!RetriesAreBounded
           /\ call # Call!NoCall /\ Call!At("post") /\ call.attempt > 0 =>
                 call.slept >= call.owed + 2 ^ (call.attempt - 1)
<1>1. CASE call = Call!NoCall
    BY <1>1 DEF Call!NeverReplayed, Call!DoneIsWhatWasSaid, Call!ToolInputWhole, Call!RetriesAreBounded
<1>2. CASE CallOK(call)
  <2>1. Call!ToolInputWhole
    <3> SUFFICES ASSUME NEW k \in DOMAIN call.content, call.content[k].type = "tool_use",
                        call.content[k].input = "object"
                 PROVE  call.content[k].sent \in {0, MaxDeltas}
        BY DEF Call!ToolInputWhole
    <3>1. call.content[k] \in Wired
        BY <1>2 DEF CallOK, CallType
    <3> QED
        BY <3>1 DEF Wired
  <2> QED
      BY <1>2, <2>1 DEF CallOK, CallType, Call!NeverReplayed, Call!DoneIsWhatWasSaid, Call!RetriesAreBounded,
                        Call!At, Delay
<1> QED
    BY <1>1, <1>2 DEF CallInv

(* For any number of attempts, blocks and deltas: a call is never posted   *)
(* again once its stream has opened nor more often than allowed, waits out *)
(* a refusal, and hands on what was said, whole.                           *)
THEOREM CallHeardOnce ==
    Call!CallAssumption /\ Call!Spec =>
       /\ []Call!NeverReplayed /\ []Call!DoneIsWhatWasSaid /\ []Call!ToolInputWhole
       /\ []Call!RetriesAreBounded /\ Call!WaitsFirst
<1> SUFFICES ASSUME Call!CallAssumption
             PROVE  Call!Spec => /\ []Call!NeverReplayed /\ []Call!DoneIsWhatWasSaid
                                 /\ []Call!ToolInputWhole /\ []Call!RetriesAreBounded /\ Call!WaitsFirst
    OBVIOUS
<1>1. Call!Init => CallInv
    BY DEF Call!Init, CallInv
<1>2. CallInv /\ [Call!Next]_call => CallInv'
    BY CallStep
<1>3. CallInv => /\ Call!NeverReplayed /\ Call!DoneIsWhatWasSaid /\ Call!ToolInputWhole
                 /\ Call!RetriesAreBounded
    BY CallHolds
<1>4. CallInv =>
        [call # Call!NoCall /\ Call!At("post") /\ call.attempt > 0 =>
            call.slept >= call.owed + 2 ^ (call.attempt - 1)]_call
    BY CallHolds
<1> QED
    BY <1>1, <1>2, <1>3, <1>4, PTL DEF Call!Spec, Call!WaitsFirst

-----------------------------------------------------------------------------
(***************************************************************************)
(* The caches of the evaluation.                                           *)
(***************************************************************************)
Kept(p, t, x) == [key |-> Cache!key(p, t, x), value |-> Cache!Vector(p, t, x)]
Known == {Kept(e[1], e[2], e[3]) : e \in Providers \X InputTypes \X CachedTexts}
VectorLine(p, t, x) == [provider |-> p, inputType |-> t, text |-> x, vector |-> Cache!Vector(p, t, x)]
VectorLines == {VectorLine(e[1], e[2], e[3]) : e \in Providers \X InputTypes \X CachedTexts}
AnswerLine(p, k, r) == [provider |-> p, prompt |-> k, result |-> r]
AnswerLines == [provider: Providers, prompt: Prompts, result: Replies]

RunShaped ==
    run = [phase |-> run.phase, provider |-> run.provider, known |-> run.known, learned |-> run.learned,
           ask |-> run.ask, out |-> run.out, calls |-> run.calls]
(* The vector of a place.                                                  *)
Right(i) == Cache!Vector(run.provider, run.ask.type, run.ask.texts[i])
Asked ==
    /\ run.ask = [type |-> run.ask.type, texts |-> run.ask.texts]
    /\ run.ask.type \in InputTypes /\ run.ask.texts \in Seq(CachedTexts)
    /\ DOMAIN run.out = DOMAIN run.ask.texts

(* What an evaluation has learned is what its provider's lines say.        *)
LearnedIsWritten ==
    /\ \A e \in run.learned : \E i \in DOMAIN answers : answers[i] = AnswerLine(run.provider, e.key, e.value)
    /\ \A i \in DOMAIN answers : answers[i].provider = run.provider =>
          \E e \in run.learned : e.key = answers[i].prompt
OneLineEach ==
    \A i, j \in DOMAIN answers :
       answers[i].provider = answers[j].provider /\ answers[i].prompt = answers[j].prompt => i = j

CacheInv ==
    /\ RunShaped
    /\ run.phase \in {"none", "idle", "embedding", "given", "asking"}
    /\ run.phase # "none" => run.provider \in Providers /\ run.known \subseteq Known /\ LearnedIsWritten
    /\ run.phase = "embedding" => Asked /\ \A i \in DOMAIN run.out : run.out[i] \in {Cache!NoVector, Right(i)}
    /\ run.phase = "given" => Cache!VectorsAreTheTexts
    /\ run.phase = "asking" => run.ask \in Prompts /\ Cache!Lookup(run.learned, run.ask) = {}
    /\ vectors \in Seq(VectorLines) /\ answers \in Seq(AnswerLines) /\ OneLineEach
    /\ \A a \in said : \E i \in DOMAIN answers : answers[i] = a

(* The places that are missing are counted off: each has its number.       *)
LEMMA Numbered ==
    ASSUME NEW n \in Nat, Cache!Missing \subseteq 1 .. n
    PROVE  /\ \A i \in Cache!Missing : Cache!Nth(i) \in 1 .. Cardinality(Cache!Missing)
           /\ \A i, j \in Cache!Missing : Cache!Nth(i) = Cache!Nth(j) => i = j
           /\ \A m \in 1 .. Cardinality(Cache!Missing) : \E i \in Cache!Missing : Cache!Nth(i) = m
<1> DEFINE M == Cache!Missing
           Up(i) == {j \in M : j <= i}
<1>1. IsFiniteSet(M) /\ Cardinality(M) \in Nat
  <2>1. IsFiniteSet(1 .. n)
      BY FS_Interval
  <2>2. M \in SUBSET (1 .. n)
      OBVIOUS
  <2> HIDE DEF M
  <2> QED
      BY <2>1, <2>2, FS_Subset, FS_CardinalityType
<1>2. \A i : Cache!Nth(i) = Cardinality(Up(i))
    BY DEF Cache!Nth, Cache!Cardinality, Cardinality
<1>3. \A i : IsFiniteSet(Up(i)) /\ Cardinality(Up(i)) \in Nat /\ Cardinality(Up(i)) <= Cardinality(M)
    BY <1>1, FS_Subset, FS_CardinalityType
<1>4. \A i \in M : Cache!Nth(i) \in 1 .. Cardinality(M)
  <2> TAKE i \in M
  <2>1. Up(i) # {}
      OBVIOUS
  <2>2. Cardinality(Up(i)) # 0
      BY <1>3, <2>1, FS_EmptySet
  <2> HIDE DEF Up, M
  <2> QED
      BY <1>1, <1>2, <1>3, <2>2
<1>5. \A i, j \in M : i < j => Cache!Nth(i) < Cache!Nth(j)
  <2> TAKE i \in M, j \in M
  <2> HAVE i < j
  <2>1. i \in Int /\ j \in Int
      OBVIOUS
  <2>2. Up(i) \subseteq Up(j) /\ j \in Up(j) /\ j \notin Up(i)
    <3>1. M \subseteq Int
        OBVIOUS
    <3>2. i \in M /\ j \in M
        OBVIOUS
    <3> HIDE DEF M
    <3>3. \A k \in M : k <= i => k <= j
        BY <2>1, <3>1
    <3>4. j <= j /\ ~(j <= i)
        BY <2>1
    <3> QED
        BY <3>2, <3>3, <3>4
  <2>3. Up(i) # Up(j)
      BY <2>2
  <2> HIDE DEF Up, M
  <2>4. Cardinality(Up(i)) <= Cardinality(Up(j)) /\ Cardinality(Up(i)) # Cardinality(Up(j))
      BY <1>3, <2>2, <2>3, FS_Subset
  <2> QED
      BY <1>2, <1>3, <2>4
<1>6. \A i, j \in M : Cache!Nth(i) = Cache!Nth(j) => i = j
  <2> TAKE i \in M, j \in M
  <2> HAVE Cache!Nth(i) = Cache!Nth(j)
  <2>1. i \in Int /\ j \in Int /\ Cache!Nth(i) \in Nat
      BY <1>4, <1>1
  <2>2. ~(i < j) /\ ~(j < i)
      BY <1>5, <2>1
  <2> QED
      BY <2>1, <2>2
<1> DEFINE I == {Cache!Nth(i) : i \in M}
           f == [i \in M |-> Cache!Nth(i)]
<1>7. I \subseteq 1 .. Cardinality(M)
    BY <1>4
<1>8. f \in Bijection(M, I)
  <2>1. f \in [M -> I]
      OBVIOUS
  <2>2. \A i, j \in M : f[i] = f[j] => i = j
      BY <1>6
  <2>3. \A t \in I : \E i \in M : f[i] = t
      OBVIOUS
  <2> QED
      BY <2>1, <2>2, <2>3 DEF Bijection, Injection, Surjection, IsInjective
<1> HIDE DEF I, f, M
<1>9. Cardinality(I) = Cardinality(M)
  <2>1. ExistsBijection(M, I)
      BY <1>8 DEF ExistsBijection
  <2> QED
      BY <1>1, <2>1, FS_Bijection
<1>10. I = 1 .. Cardinality(M)
  <2>1. IsFiniteSet(1 .. Cardinality(M)) /\ Cardinality(1 .. Cardinality(M)) = Cardinality(M)
      BY <1>1, FS_Interval
  <2> QED
      BY <1>7, <1>9, <2>1, FS_Subset
<1> QED
    BY <1>4, <1>6, <1>10 DEF I, M

LEMMA CacheOpens == ASSUME CacheInv, NEW p \in Providers, Cache!Open(p) PROVE CacheInv'
<1>1. run' = [phase |-> "idle", provider |-> p, known |-> Cache!LoadVectors(vectors),
              learned |-> Cache!load(answers, p), ask |-> <<>>, out |-> <<>>, calls |-> run.calls]
      /\ UNCHANGED <<vectors, answers, said>>
    BY DEF Cache!Open, Cache!NoRun
<1>2. Cache!LoadVectors(vectors) \subseteq Known
  <2> SUFFICES ASSUME NEW e \in Cache!LoadVectors(vectors) PROVE e \in Known
      OBVIOUS
  <2>1. PICK i \in DOMAIN vectors :
            e = [key |-> Cache!key(vectors[i].provider, vectors[i].inputType, vectors[i].text),
                 value |-> vectors[i].vector]
      BY DEF Cache!LoadVectors
  <2>2. vectors[i] \in VectorLines
      BY DEF CacheInv
  <2>3. PICK k \in Providers \X InputTypes \X CachedTexts : vectors[i] = VectorLine(k[1], k[2], k[3])
      BY <2>2 DEF VectorLines
  <2>4. e = Kept(k[1], k[2], k[3])
      BY <2>1, <2>3 DEF Kept, VectorLine
  <2> QED
      BY <2>4 DEF Known
<1>3. \A e \in Cache!load(answers, p) :
         \E i \in DOMAIN answers : answers[i] = AnswerLine(p, e.key, e.value)
  <2> TAKE e \in Cache!load(answers, p)
  <2>1. PICK i \in DOMAIN answers :
            answers[i].provider = p /\ e = [key |-> answers[i].prompt, value |-> answers[i].result]
      BY DEF Cache!load
  <2>2. answers[i] \in AnswerLines
      BY DEF CacheInv
  <2>3. answers[i] = AnswerLine(p, e.key, e.value)
      BY <2>1, <2>2 DEF AnswerLines, AnswerLine
  <2> QED
      BY <2>3
<1>4. \A i \in DOMAIN answers : answers[i].provider = p =>
         \E e \in Cache!load(answers, p) : e.key = answers[i].prompt
  <2> SUFFICES ASSUME NEW i \in DOMAIN answers, answers[i].provider = p
               PROVE  \E e \in Cache!load(answers, p) : e.key = answers[i].prompt
      OBVIOUS
  <2>1. answers \in Seq(AnswerLines) /\ OneLineEach
      BY DEF CacheInv
  <2>2. ~\E k \in i + 1 .. Len(answers) : answers[k].provider = p /\ answers[k].prompt = answers[i].prompt
    <3> SUFFICES ASSUME NEW k \in i + 1 .. Len(answers), answers[k].provider = p,
                        answers[k].prompt = answers[i].prompt
                 PROVE  FALSE
        OBVIOUS
    <3>1. i \in 1 .. Len(answers) /\ k \in DOMAIN answers /\ k # i
        BY <2>1
    <3> QED
        BY <2>1, <3>1 DEF OneLineEach
  <2> DEFINE e == [key |-> answers[i].prompt, value |-> answers[i].result]
  <2>3. e \in Cache!load(answers, p) /\ e.key = answers[i].prompt
      BY <2>2 DEF Cache!load
  <2> QED
      BY <2>3
<1>5. LearnedIsWritten'
    BY <1>1, <1>3, <1>4 DEF LearnedIsWritten
<1>6. RunShaped'
    BY <1>1 DEF RunShaped
<1> QED
    BY <1>1, <1>2, <1>5, <1>6 DEF CacheInv, OneLineEach

LEMMA CacheEnds == ASSUME CacheInv, Cache!End PROVE CacheInv'
<1>1. run' = [phase |-> "none", provider |-> Cache!NoEntry, known |-> {}, learned |-> {}, ask |-> <<>>,
              out |-> <<>>, calls |-> run.calls] /\ UNCHANGED <<vectors, answers, said>>
    BY DEF Cache!End, Cache!NoRun
<1>2. RunShaped'
    BY <1>1 DEF RunShaped
<1> QED
    BY <1>1, <1>2 DEF CacheInv, OneLineEach

(* A hit is the vector that was asked for.                                 *)
LEMMA HitIsRight ==
    ASSUME CacheInv, run.phase # "none", NEW t, NEW x,
           Cache!Lookup(run.known, Cache!key(run.provider, t, x)) # {}
    PROVE  (CHOOSE e \in Cache!Lookup(run.known, Cache!key(run.provider, t, x)) : TRUE).value =
           Cache!Vector(run.provider, t, x)
<1> DEFINE hit == Cache!Lookup(run.known, Cache!key(run.provider, t, x))
           e == CHOOSE e \in hit : TRUE
<1>1. e \in hit
    OBVIOUS
<1>2. e \in run.known /\ e.key = Cache!key(run.provider, t, x)
    BY <1>1 DEF Cache!Lookup
<1>3. e \in Known
    BY <1>2 DEF CacheInv
<1> HIDE DEF e
<1>4. PICK k \in Providers \X InputTypes \X CachedTexts : e = Kept(k[1], k[2], k[3])
    BY <1>3 DEF Known
<1>5. k[1] = run.provider /\ k[2] = t /\ k[3] = x
    BY <1>2, <1>4 DEF Kept, Cache!key
<1>6. e.value = Cache!Vector(run.provider, t, x)
    BY <1>4, <1>5 DEF Kept
<1> QED
    BY <1>6 DEF e

LEMMA EmbedKeeps ==
    ASSUME CacheInv, NEW texts \in Seq(CachedTexts), NEW type \in InputTypes, Cache!embed(texts, type)
    PROVE  CacheInv'
<1> DEFINE hit(i) == Cache!Lookup(run.known, Cache!key(run.provider, type, texts[i]))
           out == [i \in DOMAIN texts |->
                     IF hit(i) = {} THEN Cache!NoVector ELSE (CHOOSE e \in hit(i) : TRUE).value]
           phase == IF \E i \in DOMAIN out : out[i] = Cache!NoVector THEN "embedding" ELSE "given"
           ask == [type |-> type, texts |-> texts]
<1>1. run.phase \in {"idle", "given"} /\ UNCHANGED <<vectors, answers, said>>
      /\ run' = [run EXCEPT !.phase = phase, !.ask = ask, !.out = out, !.calls = run.calls + 1]
    BY DEF Cache!embed, Cache!Begin
<1>2. \A i \in DOMAIN texts : out[i] \in {Cache!NoVector, Cache!Vector(run.provider, type, texts[i])}
  <2> TAKE i \in DOMAIN texts
  <2>1. CASE hit(i) = {}
      BY <2>1
  <2>2. CASE hit(i) # {}
    <3>1. run.phase # "none"
        BY <1>1
    <3>2. (CHOOSE e \in hit(i) : TRUE).value = Cache!Vector(run.provider, type, texts[i])
        BY <2>2, <3>1, HitIsRight
    <3>3. out[i] = (CHOOSE e \in hit(i) : TRUE).value
        BY <2>2
    <3> QED
        BY <3>2, <3>3
  <2> QED
      BY <2>1, <2>2
<1>3. DOMAIN out = DOMAIN texts /\ out = [i \in DOMAIN texts |-> out[i]]
    OBVIOUS
<1>4. phase \in {"embedding", "given"} /\ (phase = "given" => \A i \in DOMAIN texts : out[i] # Cache!NoVector)
    OBVIOUS
<1> HIDE DEF out, phase
<1>5. run' = [phase |-> phase, provider |-> run.provider, known |-> run.known, learned |-> run.learned,
              ask |-> ask, out |-> out, calls |-> run.calls + 1]
    BY <1>1 DEF CacheInv, RunShaped
<1>6. RunShaped'
    BY <1>5 DEF RunShaped
<1>7. LearnedIsWritten' /\ run'.provider \in Providers /\ run'.known \subseteq Known
    BY <1>1, <1>5 DEF CacheInv, LearnedIsWritten
<1>8. Asked'
    BY <1>3, <1>5 DEF Asked
<1>9. \A i \in DOMAIN run'.out : run'.out[i] \in {Cache!NoVector, Right(i)'}
    BY <1>2, <1>3, <1>5 DEF Right
<1>10. phase = "given" => Cache!VectorsAreTheTexts'
  <2> SUFFICES ASSUME phase = "given" PROVE Cache!VectorsAreTheTexts'
      OBVIOUS
  <2>1. \A i \in DOMAIN texts : out[i] = Cache!Vector(run.provider, type, texts[i])
      BY <1>2, <1>4
  <2>2. out = [i \in DOMAIN texts |-> Cache!Vector(run.provider, type, texts[i])]
      BY <1>3, <2>1
  <2> QED
      BY <1>5, <2>2 DEF Cache!VectorsAreTheTexts
<1>11. run'.phase = phase
    BY <1>5
<1> QED
    BY <1>1, <1>4, <1>6, <1>7, <1>8, <1>9, <1>10, <1>11 DEF CacheInv, OneLineEach

LEMMA FilledKeeps == ASSUME CacheInv, Cache!Filled PROVE CacheInv'
<1> DEFINE M == Cache!Missing
           C == Cardinality(M)
           idx == Cache!missingIdx
           fresh == [n \in DOMAIN idx |-> Cache!Fresh(idx[n])]
           lines == [n \in DOMAIN idx |->
                       [provider |-> run.provider, inputType |-> run.ask.type, text |-> run.ask.texts[idx[n]],
                        vector |-> fresh[n]]]
           texts == run.ask.texts
<1>1. run.phase = "embedding" /\ vectors' = vectors \o lines /\ UNCHANGED <<answers, said>>
      /\ run' = [run EXCEPT !.phase = "given", !.out = Cache!Placed(fresh),
                            !.known = run.known \cup Cache!LoadVectors(lines)]
    BY DEF Cache!Filled
<1>2. Asked /\ (\A i \in DOMAIN run.out : run.out[i] \in {Cache!NoVector, Right(i)}) /\ run.provider \in Providers
    BY <1>1 DEF CacheInv
<1>3. texts \in Seq(CachedTexts) /\ run.ask.type \in InputTypes /\ DOMAIN run.out = 1 .. Len(texts)
      /\ Len(texts) \in Nat
    BY <1>2 DEF Asked
<1>4. M \subseteq 1 .. Len(texts)
    BY <1>3 DEF Cache!Missing
<1>5. /\ \A i \in M : Cache!Nth(i) \in 1 .. C
      /\ \A i, j \in M : Cache!Nth(i) = Cache!Nth(j) => i = j
      /\ \A m \in 1 .. C : \E i \in M : Cache!Nth(i) = m
    BY <1>3, <1>4, Numbered
<1>6. idx = [n \in 1 .. C |-> CHOOSE i \in M : Cache!Nth(i) = n]
    BY DEF Cache!missingIdx, Cache!Cardinality, Cardinality
<1>7. C \in Nat
  <2>1. IsFiniteSet(1 .. Len(texts)) /\ M \in SUBSET (1 .. Len(texts))
      BY <1>3, <1>4, FS_Interval
  <2> HIDE DEF M
  <2> QED
      BY <2>1, FS_Subset, FS_CardinalityType
<1> HIDE DEF idx, M, C
<1>8. DOMAIN idx = 1 .. C /\ \A n \in 1 .. C : idx[n] \in M /\ Cache!Nth(idx[n]) = n
    BY <1>5, <1>6
<1>9. \A i \in M : idx[Cache!Nth(i)] = i
    BY <1>5, <1>8
<1>10. Cache!Placed(fresh) = [i \in DOMAIN texts |-> Right(i)]
  <2>1. \A i \in DOMAIN run.out : i \in M => fresh[Cache!Nth(i)] = Right(i)
      BY <1>5, <1>8, <1>9 DEF Cache!Fresh, Right
  <2>2. \A i \in DOMAIN run.out : i \notin M => run.out[i] = Right(i)
      BY <1>2 DEF Cache!Missing, M
  <2> HIDE DEF fresh
  <2>3. \A i \in DOMAIN run.out : (IF i \in M THEN fresh[Cache!Nth(i)] ELSE run.out[i]) = Right(i)
      BY <2>1, <2>2
  <2>4. Cache!Placed(fresh) = [i \in DOMAIN run.out |-> IF i \in M THEN fresh[Cache!Nth(i)] ELSE run.out[i]]
      BY DEF Cache!Placed, M
  <2> HIDE DEF M
  <2>5. DOMAIN run.out = DOMAIN texts
      BY <1>3
  <2> QED
      BY <2>3, <2>4, <2>5
<1>11. \A n \in 1 .. C : lines[n] \in VectorLines
  <2> TAKE n \in 1 .. C
  <2>1. idx[n] \in 1 .. Len(texts) /\ texts[idx[n]] \in CachedTexts
    <3>1. idx[n] \in M
        BY <1>8
    <3>2. idx[n] \in 1 .. Len(texts)
        BY <1>4, <3>1
    <3> QED
        BY <1>3, <3>2
  <2> DEFINE k == <<run.provider, run.ask.type, texts[idx[n]]>>
  <2>2. k \in Providers \X InputTypes \X CachedTexts
      BY <1>2, <1>3, <2>1
  <2>3. lines[n] = VectorLine(k[1], k[2], k[3])
      BY <1>8 DEF VectorLine, Cache!Fresh
  <2> HIDE DEF k, lines
  <2> QED
      BY <2>2, <2>3 DEF VectorLines
<1>12. lines \in Seq(VectorLines) /\ Cache!LoadVectors(lines) \subseteq Known
  <2>1. DOMAIN lines = 1 .. C
      BY <1>8
  <2>2. lines = [n \in 1 .. C |-> lines[n]]
      BY <2>1
  <2> HIDE DEF lines
  <2>3. lines \in Seq(VectorLines)
      BY <1>7, <1>11, <2>2
  <2> SUFFICES ASSUME NEW e \in Cache!LoadVectors(lines) PROVE e \in Known
      BY <2>3
  <2>4. PICK i \in DOMAIN lines :
            e = [key |-> Cache!key(lines[i].provider, lines[i].inputType, lines[i].text),
                 value |-> lines[i].vector]
      BY DEF Cache!LoadVectors
  <2>5. PICK k \in Providers \X InputTypes \X CachedTexts : lines[i] = VectorLine(k[1], k[2], k[3])
      BY <1>11, <2>1, <2>4 DEF VectorLines
  <2>6. e = Kept(k[1], k[2], k[3])
      BY <2>4, <2>5 DEF Kept, VectorLine
  <2> QED
      BY <2>6 DEF Known
<1> DEFINE placed == Cache!Placed(fresh)
           known == run.known \cup Cache!LoadVectors(lines)
<1> HIDE DEF lines, fresh, placed
<1>13. run' = [phase |-> "given", provider |-> run.provider, known |-> known, learned |-> run.learned,
               ask |-> run.ask, out |-> placed, calls |-> run.calls]
    BY <1>1 DEF CacheInv, RunShaped, placed
<1>14. known \subseteq Known
    BY <1>1, <1>12 DEF CacheInv
<1> HIDE DEF known
<1>15. RunShaped'
    BY <1>13 DEF RunShaped
<1>16. LearnedIsWritten'
    BY <1>1, <1>13 DEF CacheInv, LearnedIsWritten
<1>17. Cache!VectorsAreTheTexts'
    BY <1>10, <1>13 DEF placed, Cache!VectorsAreTheTexts, Right
<1>18. vectors' \in Seq(VectorLines)
    BY <1>1, <1>12 DEF CacheInv
<1>19. run'.phase = "given" /\ run'.provider \in Providers /\ run'.known \subseteq Known
    BY <1>2, <1>13, <1>14
<1>20. answers' \in Seq(AnswerLines) /\ OneLineEach' /\ \A a \in said' : \E i \in DOMAIN answers' : answers'[i] = a
    BY <1>1 DEF CacheInv, OneLineEach
<1> QED
    BY <1>15, <1>16, <1>17, <1>18, <1>19, <1>20 DEF CacheInv

LEMMA ExtractKeeps == ASSUME CacheInv, NEW k \in Prompts, Cache!extract(k) PROVE CacheInv'
<1> DEFINE hit == Cache!Lookup(run.learned, k)
<1>0. run.phase \in {"idle", "given"} /\ UNCHANGED <<vectors, answers>> /\ LearnedIsWritten
    BY DEF Cache!extract, Cache!Begin, CacheInv
<1>1. CASE hit = {}
  <2>1. run' = [run EXCEPT !.phase = "asking", !.ask = k, !.calls = run.calls + 1] /\ UNCHANGED said
      BY <1>1 DEF Cache!extract
  <2>2. run' = [phase |-> "asking", provider |-> run.provider, known |-> run.known, learned |-> run.learned,
                ask |-> k, out |-> run.out, calls |-> run.calls + 1]
      BY <2>1 DEF CacheInv, RunShaped
  <2>3. RunShaped'
      BY <2>2 DEF RunShaped
  <2>4. LearnedIsWritten' /\ run'.provider \in Providers /\ run'.known \subseteq Known
      BY <1>0, <2>2 DEF CacheInv, LearnedIsWritten
  <2>5. run'.ask = k /\ run'.phase = "asking" /\ Cache!Lookup(run'.learned, run'.ask) = {}
      BY <1>1, <2>2
  <2> QED
      BY <1>0, <2>1, <2>3, <2>4, <2>5 DEF CacheInv, OneLineEach
<1>2. CASE hit # {}
  <2> DEFINE e == CHOOSE e \in hit : TRUE
  <2>1. run' = [run EXCEPT !.phase = "idle", !.calls = run.calls + 1]
        /\ said' = said \cup {AnswerLine(run.provider, k, e.value)}
      BY <1>2 DEF Cache!extract, AnswerLine
  <2>2. run' = [phase |-> "idle", provider |-> run.provider, known |-> run.known, learned |-> run.learned,
                ask |-> run.ask, out |-> run.out, calls |-> run.calls + 1]
      BY <2>1 DEF CacheInv, RunShaped
  <2>3. RunShaped'
      BY <2>2 DEF RunShaped
  <2>4. LearnedIsWritten' /\ run'.provider \in Providers /\ run'.known \subseteq Known
      BY <1>0, <2>2 DEF CacheInv, LearnedIsWritten
  <2>5. e \in hit
      BY <1>2
  <2> HIDE DEF e
  <2>6. e \in run.learned /\ e.key = k
      BY <2>5 DEF Cache!Lookup
  <2>7. \E i \in DOMAIN answers : answers[i] = AnswerLine(run.provider, k, e.value)
      BY <1>0, <2>6 DEF LearnedIsWritten
  <2>8. \A a \in said' : \E i \in DOMAIN answers : answers[i] = a
      BY <2>1, <2>7 DEF CacheInv
  <2> QED
      BY <1>0, <2>2, <2>3, <2>4, <2>8 DEF CacheInv, OneLineEach
<1> QED
    BY <1>1, <1>2

LEMMA AnswerKeeps == ASSUME CacheInv, NEW r \in Replies, Cache!Answer(r) PROVE CacheInv'
<1> DEFINE line == AnswerLine(run.provider, run.ask, r)
           more == Append(answers, line)
           new == [key |-> run.ask, value |-> r]
<1>1. run.phase = "asking" /\ answers' = more /\ said' = said \cup {line} /\ UNCHANGED vectors
      /\ run' = [run EXCEPT !.phase = "idle", !.learned = run.learned \cup {new}]
    BY DEF Cache!Answer, Cache!Line, AnswerLine
<1>2. run.ask \in Prompts /\ run.provider \in Providers /\ LearnedIsWritten /\ answers \in Seq(AnswerLines)
      /\ OneLineEach /\ Cache!Lookup(run.learned, run.ask) = {}
    BY <1>1 DEF CacheInv
<1>3. line \in AnswerLines /\ line.provider = run.provider /\ line.prompt = run.ask
    BY <1>2 DEF AnswerLines, AnswerLine
<1>4. run' = [phase |-> "idle", provider |-> run.provider, known |-> run.known,
              learned |-> run.learned \cup {new}, ask |-> run.ask, out |-> run.out, calls |-> run.calls]
    BY <1>1 DEF CacheInv, RunShaped
<1>5. line = AnswerLine(run.provider, new.key, new.value)
    OBVIOUS
<1>6. ~\E i \in DOMAIN answers : answers[i].provider = line.provider /\ answers[i].prompt = line.prompt
  <2> SUFFICES ASSUME NEW i \in DOMAIN answers, answers[i].provider = run.provider,
                      answers[i].prompt = run.ask
               PROVE  FALSE
      BY <1>3
  <2>1. PICK e \in run.learned : e.key = run.ask
      BY <1>2 DEF LearnedIsWritten
  <2> QED
      BY <1>2, <2>1 DEF Cache!Lookup
<1> HIDE DEF line
<1>7. more \in Seq(AnswerLines) /\ DOMAIN more = DOMAIN answers \cup {Len(answers) + 1}
      /\ more[Len(answers) + 1] = line /\ (\A i \in DOMAIN answers : more[i] = answers[i])
      /\ Len(answers) + 1 \notin DOMAIN answers
    BY <1>2, <1>3
<1> HIDE DEF more
<1>8. \A i, j \in DOMAIN more : more[i].provider = more[j].provider /\ more[i].prompt = more[j].prompt => i = j
    BY <1>2, <1>6, <1>7 DEF OneLineEach
<1>9. \A a : (\E i \in DOMAIN answers : answers[i] = a) \/ a = line => \E i \in DOMAIN more : more[i] = a
    BY <1>7
<1> HIDE DEF new
<1>10. \A e \in run.learned \cup {new} :
          \E i \in DOMAIN more : more[i] = AnswerLine(run.provider, e.key, e.value)
  <2> TAKE e \in run.learned \cup {new}
  <2>1. CASE e \in run.learned
    <3>1. PICK i \in DOMAIN answers : answers[i] = AnswerLine(run.provider, e.key, e.value)
        BY <1>2, <2>1 DEF LearnedIsWritten
    <3> QED
        BY <1>9, <3>1
  <2>2. CASE e = new
      BY <1>5, <1>9, <2>2
  <2> QED
      BY <2>1, <2>2
<1>11. \A i \in DOMAIN more : more[i].provider = run.provider =>
          \E e \in run.learned \cup {new} : e.key = more[i].prompt
  <2> SUFFICES ASSUME NEW i \in DOMAIN more, more[i].provider = run.provider
               PROVE  \E e \in run.learned \cup {new} : e.key = more[i].prompt
      OBVIOUS
  <2>1. CASE i \in DOMAIN answers
      BY <1>2, <1>7, <2>1 DEF LearnedIsWritten
  <2>2. CASE i = Len(answers) + 1
    <3>1. new.key = more[i].prompt
        BY <1>3, <1>7, <2>2 DEF new
    <3> QED
        BY <3>1
  <2> QED
      BY <1>7, <2>1, <2>2
<1>12. LearnedIsWritten'
    BY <1>1, <1>4, <1>10, <1>11 DEF LearnedIsWritten
<1>13. RunShaped'
    BY <1>4 DEF RunShaped
<1>14. OneLineEach'
    BY <1>1, <1>8 DEF OneLineEach
<1>15. \A a \in said' : \E i \in DOMAIN answers' : answers'[i] = a
    BY <1>1, <1>9 DEF CacheInv
<1>16. run'.phase = "idle" /\ run'.provider \in Providers /\ run'.known \subseteq Known
    BY <1>1, <1>2, <1>4 DEF CacheInv
<1> QED
    BY <1>1, <1>7, <1>12, <1>13, <1>14, <1>15, <1>16 DEF CacheInv

LEMMA CacheStep == ASSUME Cache!CacheAssumption, CacheInv, [Cache!Next]_Cache!vars PROVE CacheInv'
<1>1. ASSUME NEW texts \in Cache!TextBatches PROVE texts \in Seq(CachedTexts)
    BY <1>1 DEF Cache!TextBatches
<1>2. CASE \E texts \in Cache!TextBatches, type \in InputTypes : Cache!embed(texts, type)
    BY <1>1, <1>2, EmbedKeeps
<1>3. CASE UNCHANGED Cache!vars
  <2>1. UNCHANGED <<vectors, answers, run, said>>
      BY <1>3 DEF Cache!vars
  <2> QED
      BY <2>1 DEF CacheInv, RunShaped, LearnedIsWritten, OneLineEach, Asked, Right, Cache!VectorsAreTheTexts
<1> QED
    BY <1>2, <1>3, CacheOpens, CacheEnds, FilledKeeps, ExtractKeeps, AnswerKeeps DEF Cache!Next

LEMMA CacheHolds ==
    ASSUME CacheInv
    PROVE  Cache!VectorsAreTheTexts /\ Cache!Reproducible /\ Cache!AnsweredByItsModel
<1>1. Cache!VectorsAreTheTexts
    BY DEF CacheInv, Cache!VectorsAreTheTexts
<1>2. Cache!AnsweredByItsModel
    BY DEF CacheInv, Cache!AnsweredByItsModel
<1>3. Cache!Reproducible
  <2> SUFFICES ASSUME NEW a \in said, NEW b \in said, a.provider = b.provider, a.prompt = b.prompt
               PROVE  a.result = b.result
      BY DEF Cache!Reproducible
  <2>1. PICK i \in DOMAIN answers : answers[i] = a
      BY DEF CacheInv
  <2>2. PICK j \in DOMAIN answers : answers[j] = b
      BY DEF CacheInv
  <2>3. i = j
      BY <2>1, <2>2 DEF CacheInv, OneLineEach
  <2> QED
      BY <2>1, <2>2, <2>3
<1> QED
    BY <1>1, <1>2, <1>3

(* For any providers, texts, prompts and answers, and any mixture of what  *)
(* is cached and what is fresh: an evaluation works with the vectors of    *)
(* its own provider in the order it asked, and a prompt has one answer per *)
(* model, which that model gave.                                           *)
THEOREM CacheRemembers ==
    Cache!CacheAssumption /\ Cache!Spec =>
       []Cache!VectorsAreTheTexts /\ []Cache!Reproducible /\ []Cache!AnsweredByItsModel
<1> SUFFICES ASSUME Cache!CacheAssumption
             PROVE  Cache!Spec => []Cache!VectorsAreTheTexts /\ []Cache!Reproducible /\ []Cache!AnsweredByItsModel
    OBVIOUS
<1>1. Cache!Init => CacheInv
    BY DEF Cache!Init, CacheInv, Cache!NoRun, RunShaped, OneLineEach
<1>2. CacheInv /\ [Cache!Next]_Cache!vars => CacheInv'
    BY CacheStep
<1>3. CacheInv => Cache!VectorsAreTheTexts /\ Cache!Reproducible /\ Cache!AnsweredByItsModel
    BY CacheHolds
<1> QED
    BY <1>1, <1>2, <1>3, PTL DEF Cache!Spec

-----------------------------------------------------------------------------
(***************************************************************************)
(* The answers of an extraction, and the rules over them.                  *)
(***************************************************************************)
Saying == {"=", "/=", "in", ">", ">=", "<", "over", "not under", "not both"}
Missing == {"missing", "missing or <"}
ReadOf(c) == {c.field} \cup (IF c.op \in {"over", "not under"} THEN {c.v[1]} ELSE {})

(* What is true of every rule: it names fields that one of its conditions  *)
(* says something of, it misses only what another condition says something *)
(* of, and it reads what every type it is for has.                         *)
Sound(r) ==
    /\ \A i \in DOMAIN r.when : r.when[i].op \in Saying \cup Missing \cup {"not found"}
    /\ \A f \in r.fields : \E i \in DOMAIN r.when : r.when[i].op \in Saying /\ f \in ReadOf(r.when[i])
    /\ \A i \in DOMAIN r.when : r.when[i].op \in Missing =>
          \E j \in DOMAIN r.when : r.when[j].op \in Saying /\ r.when[j].field = r.when[i].field
    /\ \A i \in DOMAIN r.when, t \in r.types : ReadOf(r.when[i]) \subseteq Bench!SchemaOf(t)

LEMMA SchemasAre ==
    /\ \A t \in Bench!Employment : Bench!SchemaOf(t) = Bench!EmploymentFields
    /\ \A t \in Bench!TermSheet : Bench!SchemaOf(t) = Bench!TermSheetFields
    /\ \A t \in Bench!Vsop : Bench!SchemaOf(t) = Bench!VsopFields
BY DEF Bench!Employment, Bench!TermSheet, Bench!Vsop, Bench!SchemaOf


Plain == Saying \ {"over", "not under"}
Says(c, f) == c.op \in Plain /\ c.field = f
Misses(c, f) == c.op \in Missing /\ c.field = f

LEMMA SoundSingle ==
    ASSUME NEW r, NEW f, r.fields = {f}, DOMAIN r.when = {1}, Says(r.when[1], f),
           \A t \in r.types : f \in Bench!SchemaOf(t)
    PROVE  Sound(r)
BY DEF Sound, Says, Plain, ReadOf

LEMMA SoundPair ==
    ASSUME NEW r, NEW f, r.fields = {f}, DOMAIN r.when = {1, 2}, Says(r.when[1], f),
           Says(r.when[2], f) \/ Misses(r.when[2], f), \A t \in r.types : f \in Bench!SchemaOf(t)
    PROVE  Sound(r)
<1>1. \A i \in DOMAIN r.when : r.when[i].op \in Plain \cup Missing /\ ReadOf(r.when[i]) = {f} /\ r.when[i].field = f
    BY DEF Says, Misses, Plain, Missing, ReadOf
<1>2. 1 \in DOMAIN r.when /\ r.when[1].op \in Plain
    BY DEF Says
<1> QED
    BY <1>1, <1>2 DEF Sound, Plain


LEMMA RuleIs ==
    ASSUME NEW id, NEW T, NEW w, NEW F
    PROVE  LET r == Bench!Rule(id, T, w, F) IN r.types = T /\ r.when = w /\ r.fields = F
BY DEF Bench!Rule

LEMMA ConditionsSay ==
    ASSUME NEW f, NEW k, NEW v
    PROVE  /\ Says(Bench!Is(f, k, v), f) /\ Says(Bench!Over(f, k, v), f) /\ Says(Bench!Under(f, k, v), f)
           /\ \A op \in Plain : Says(Bench!Cond(f, k, op, v), f)
           /\ \A op \in Missing : Misses(Bench!Cond(f, k, op, v), f)
BY DEF Bench!Is, Bench!Over, Bench!Under, Bench!Cond, Says, Misses, Plain, Saying, Missing



(* A rule of one condition on one field, and of two.                       *)
LEMMA SingleIsSound ==
    ASSUME NEW id, NEW T, NEW f, NEW c, Says(c, f), \A t \in T : f \in Bench!SchemaOf(t)
    PROVE  Sound(Bench!Rule(id, T, <<c>>, {f}))
<1> DEFINE r == Bench!Rule(id, T, <<c>>, {f})
<1>1. r.types = T /\ r.when = <<c>> /\ r.fields = {f}
    BY DEF Bench!Rule
<1> HIDE DEF r
<1>2. DOMAIN r.when = {1} /\ r.when[1] = c
    BY <1>1
<1>3. Sound(r)
    BY <1>1, <1>2, SoundSingle
<1> QED
    BY <1>3 DEF r

LEMMA PairIsSound ==
    ASSUME NEW id, NEW T, NEW f, NEW c, NEW d, Says(c, f), Says(d, f) \/ Misses(d, f),
           \A t \in T : f \in Bench!SchemaOf(t)
    PROVE  Sound(Bench!Rule(id, T, <<c, d>>, {f}))
<1> DEFINE r == Bench!Rule(id, T, <<c, d>>, {f})
<1>1. r.types = T /\ r.when = <<c, d>> /\ r.fields = {f}
    BY DEF Bench!Rule
<1> HIDE DEF r
<1>2. DOMAIN r.when = {1, 2} /\ r.when[1] = c /\ r.when[2] = d
    BY <1>1
<1>3. Sound(r)
    BY <1>1, <1>2, SoundPair
<1> QED
    BY <1>3 DEF r

(* Of two fields: compared in one condition, or a condition on each.       *)
LEMMA TupleIs ==
    ASSUME NEW w, NEW c, NEW d
    PROVE  /\ w = <<c>> => DOMAIN w = {1} /\ w[1] = c
           /\ w = <<c, d>> => DOMAIN w = {1, 2} /\ w[1] = c /\ w[2] = d
OBVIOUS

Have(T, f, g) == \A t \in T : f \in Bench!SchemaOf(t) /\ g \in Bench!SchemaOf(t)

Among(F, f, g) == F \subseteq {f, g}

LEMMA ComparisonIsSound ==
    ASSUME NEW id, NEW T, NEW f, NEW g, NEW k, NEW l, NEW op \in {"over", "not under"},
           NEW F, Among(F, f, g), Have(T, f, g)
    PROVE  Sound(Bench!Rule(id, T, <<Bench!Cond(f, k, op, <<g, l>>)>>, F))
<1> DEFINE v == <<g, l>>
           c == Bench!Cond(f, k, op, v)
           r == Bench!Rule(id, T, <<c>>, F)
<1>1. c.op = op /\ c.field = f /\ c.v = v
    BY DEF Bench!Cond
<1>2. v[1] = g
    OBVIOUS
<1> HIDE DEF v, c
<1>3. ReadOf(c) = {f, g}
    BY <1>1, <1>2 DEF ReadOf
<1>4. r.types = T /\ r.when = <<c>> /\ r.fields = F
    BY DEF Bench!Rule
<1> HIDE DEF r
<1>5. DOMAIN r.when = {1} /\ r.when[1] = c
    BY <1>4, TupleIs, Zenon
<1>6. c.op \in Saying /\ c.op \notin Missing
    BY <1>1 DEF Saying, Missing
<1>7. Sound(r)
    BY <1>1, <1>3, <1>4, <1>5, <1>6 DEF Sound, Have, Among
<1> QED
    BY <1>7 DEF r, c, v

LEMMA TwoAreSound ==
    ASSUME NEW id, NEW T, NEW f, NEW g, NEW c, NEW d, Says(c, f), Says(d, g),
           NEW F, Among(F, f, g), Have(T, f, g)
    PROVE  Sound(Bench!Rule(id, T, <<c, d>>, F))
<1> DEFINE r == Bench!Rule(id, T, <<c, d>>, F)
<1>1. r.types = T /\ r.when = <<c, d>> /\ r.fields = F
    BY DEF Bench!Rule
<1> HIDE DEF r
<1>2. DOMAIN r.when = {1, 2} /\ r.when[1] = c /\ r.when[2] = d
  <2>1. r.when = <<c, d>>
      BY <1>1
  <2> QED
      BY <2>1, TupleIs, SMT
<1>3. /\ ReadOf(c) = {f} /\ c.op \in Saying /\ c.op \notin Missing
      /\ ReadOf(d) = {g} /\ d.op \in Saying /\ d.op \notin Missing
    BY DEF Says, Plain, ReadOf, Saying, Missing
<1>4. Sound(r)
    BY <1>1, <1>2, <1>3 DEF Sound, Have, Among
<1> QED
    BY <1>4 DEF r

LEMMA NotFoundIsSound ==
    ASSUME NEW id, NEW T, NEW f, NEW g, NEW c, NEW k, NEW v, Says(c, f),
           Have(T, f, g)
    PROVE  Sound(Bench!Rule(id, T, <<c, Bench!Cond(g, k, "not found", v)>>, {f}))
<1> DEFINE d == Bench!Cond(g, k, "not found", v)
           r == Bench!Rule(id, T, <<c, d>>, {f})
<1>0. d.op = "not found" /\ d.field = g
    BY DEF Bench!Cond
<1> HIDE DEF d
<1>1. r.types = T /\ r.when = <<c, d>> /\ r.fields = {f}
    BY DEF Bench!Rule
<1> HIDE DEF r
<1>2. DOMAIN r.when = {1, 2} /\ r.when[1] = c /\ r.when[2] = d
  <2>1. r.when = <<c, d>>
      BY <1>1
  <2> QED
      BY <2>1, TupleIs, SMT
<1>3. /\ ReadOf(c) = {f} /\ c.op \in Saying /\ c.op \notin Missing
      /\ ReadOf(d) = {g} /\ d.op = "not found" /\ d.op \notin Missing
    BY <1>0 DEF Says, Plain, ReadOf, Saying, Missing
<1>4. Sound(r)
    BY <1>1, <1>2, <1>3 DEF Sound, Have
<1> QED
    BY <1>4 DEF r, d

LEMMA RulesAreSound == DOMAIN Bench!Rules = 1 .. 31 /\ \A n \in 1 .. 31 : Sound(Bench!Rules[n])
<1>1. Sound(Bench!Rules[1])
  <2>1. Bench!Rules[1] =
            Bench!Rule("DE-NONCOMP-KARENZ", Bench!Employment, <<Bench!Is("non_compete", "present", TRUE),
                Bench!Cond("non_compete", "karenzentschaedigung_percent", "missing or <", 50)>>,
                {"non_compete"})
      BY DEF Bench!Rules
  <2>2. \A t \in Bench!Employment : "non_compete" \in Bench!SchemaOf(t)
      BY SchemasAre DEF Bench!EmploymentFields
  <2> QED
      BY <2>1, <2>2, ConditionsSay, PairIsSound, Zenon DEF Missing
<1>2. Sound(Bench!Rules[2])
  <2>1. Bench!Rules[2] =
            Bench!Rule("DE-NONCOMP-DURATION", Bench!Employment, <<Bench!Is("non_compete", "present", TRUE),
                Bench!Over("non_compete", "duration_months", 24)>>, {"non_compete"})
      BY DEF Bench!Rules
  <2>2. \A t \in Bench!Employment : "non_compete" \in Bench!SchemaOf(t)
      BY SchemasAre DEF Bench!EmploymentFields
  <2> QED
      BY <2>1, <2>2, ConditionsSay, PairIsSound, Zenon
<1>3. Sound(Bench!Rules[3])
  <2>1. Bench!Rules[3] =
            Bench!Rule("DE-PROBEZEIT-MAX", Bench!Employment, <<Bench!Over("probation_period_months",
                "value", 6)>>, {"probation_period_months"})
      BY DEF Bench!Rules
  <2>2. \A t \in Bench!Employment : "probation_period_months" \in Bench!SchemaOf(t)
      BY SchemasAre DEF Bench!EmploymentFields
  <2> QED
      BY <2>1, <2>2, ConditionsSay, SingleIsSound, Zenon
<1>4. Sound(Bench!Rules[4])
  <2>1. Bench!Rules[4] =
            Bench!Rule("EMP-CONTRACT-BEFRISTET", Bench!Employment, <<Bench!Is("contract_type", "value",
                "befristet")>>, {"contract_type"})
      BY DEF Bench!Rules
  <2>2. \A t \in Bench!Employment : "contract_type" \in Bench!SchemaOf(t)
      BY SchemasAre DEF Bench!EmploymentFields
  <2> QED
      BY <2>1, <2>2, ConditionsSay, SingleIsSound, Zenon
<1>5. Sound(Bench!Rules[5])
  <2> DEFINE F == {"notice_period_employee", "notice_period_employer"}
             v == <<"notice_period_employer", "months">>
  <2>1. Bench!Rules[5] = Bench!Rule("EMP-NOTICE-ASYM", Bench!Employment,
            <<Bench!Cond("notice_period_employee", "months", "over", v)>>, F)
      BY DEF Bench!Rules
  <2>2. Have(Bench!Employment, "notice_period_employee", "notice_period_employer")
      BY SchemasAre DEF Bench!EmploymentFields, Have
  <2>3. "over" \in {"over", "not under"} /\ Among(F, "notice_period_employee", "notice_period_employer")
      BY DEF Among
  <2>4. \A id, k : Sound(Bench!Rule(id, Bench!Employment, <<Bench!Cond("notice_period_employee", k, "over", v)>>, F))
    <3> HIDE DEF F
    <3> QED
      BY <2>2, <2>3, ComparisonIsSound, Zenon DEF v
  <2> QED
      BY <2>1, <2>4
<1>6. Sound(Bench!Rules[6])
  <2>1. Bench!Rules[6] =
            Bench!Rule("EMP-IP-NOCARVEOUT", Bench!Employment, <<Bench!Is("ip_assignment", "present", TRUE),
                Bench!Is("ip_assignment", "side_project_carveout", FALSE)>>, {"ip_assignment"})
      BY DEF Bench!Rules
  <2>2. \A t \in Bench!Employment : "ip_assignment" \in Bench!SchemaOf(t)
      BY SchemasAre DEF Bench!EmploymentFields
  <2> QED
      BY <2>1, <2>2, ConditionsSay, PairIsSound, Zenon
<1>7. Sound(Bench!Rules[7])
  <2>1. Bench!Rules[7] =
            Bench!Rule("EMP-CONFIDENTIALITY-INDEF", Bench!Employment,
                <<Bench!Is("confidentiality_survival", "value", "indefinite")>>,
                {"confidentiality_survival"})
      BY DEF Bench!Rules
  <2>2. \A t \in Bench!Employment : "confidentiality_survival" \in Bench!SchemaOf(t)
      BY SchemasAre DEF Bench!EmploymentFields
  <2> QED
      BY <2>1, <2>2, ConditionsSay, SingleIsSound, Zenon
<1>8. Sound(Bench!Rules[8])
  <2>1. Bench!Rules[8] =
            Bench!Rule("EMP-CLAWBACK-SIGNING", Bench!Employment, <<Bench!Cond("signing_bonus",
                "clawback_months", ">=", 12)>>, {"signing_bonus"})
      BY DEF Bench!Rules
  <2>2. \A t \in Bench!Employment : "signing_bonus" \in Bench!SchemaOf(t)
      BY SchemasAre DEF Bench!EmploymentFields
  <2> QED
      BY <2>1, <2>2, ConditionsSay, SingleIsSound, Zenon DEF Plain, Saying
<1>9. Sound(Bench!Rules[9])
  <2>1. Bench!Rules[9] =
            Bench!Rule("EMP-BONUS-DISCRETIONARY", Bench!Employment, <<Bench!Is("bonus", "type",
                "discretionary")>>, {"bonus"})
      BY DEF Bench!Rules
  <2>2. \A t \in Bench!Employment : "bonus" \in Bench!SchemaOf(t)
      BY SchemasAre DEF Bench!EmploymentFields
  <2> QED
      BY <2>1, <2>2, ConditionsSay, SingleIsSound, Zenon
<1>10. Sound(Bench!Rules[10])
  <2>1. Bench!Rules[10] =
            Bench!Rule("EMP-OVERTIME-UNPAID", Bench!Employment, <<Bench!Is("overtime_treatment", "value",
                "covered_by_salary")>>, {"overtime_treatment"})
      BY DEF Bench!Rules
  <2>2. \A t \in Bench!Employment : "overtime_treatment" \in Bench!SchemaOf(t)
      BY SchemasAre DEF Bench!EmploymentFields
  <2> QED
      BY <2>1, <2>2, ConditionsSay, SingleIsSound, Zenon
<1>11. Sound(Bench!Rules[11])
  <2>1. Bench!Rules[11] =
            Bench!Rule("EMP-VACATION-LOW", Bench!Employment, <<Bench!Under("vacation_days", "value", 25)>>,
                {"vacation_days"})
      BY DEF Bench!Rules
  <2>2. \A t \in Bench!Employment : "vacation_days" \in Bench!SchemaOf(t)
      BY SchemasAre DEF Bench!EmploymentFields
  <2> QED
      BY <2>1, <2>2, ConditionsSay, SingleIsSound, Zenon
<1>12. Sound(Bench!Rules[12])
  <2>1. Bench!Rules[12] =
            Bench!Rule("EMP-EQUITY-DEFERRED", Bench!Employment, <<Bench!Cond("equity_instrument", "value",
                "/=", "none"), Bench!Cond("vesting", "", "not found", 0)>>, {"equity_instrument"})
      BY DEF Bench!Rules
  <2>2. Have(Bench!Employment, "equity_instrument", "vesting")
      BY SchemasAre DEF Bench!EmploymentFields, Have
  <2> QED
      BY <2>1, <2>2, ConditionsSay, NotFoundIsSound, Zenon DEF Plain, Saying
<1>13. Sound(Bench!Rules[13])
  <2>1. Bench!Rules[13] =
            Bench!Rule("EQ-VEST-STD", Bench!Employment \cup Bench!Vsop, <<Bench!Cond("vesting",
                <<"duration_months", "cliff_months">>, "not both", <<48, 12>>)>>, {"vesting"})
      BY DEF Bench!Rules
  <2>2. \A t \in Bench!Employment \cup Bench!Vsop : "vesting" \in Bench!SchemaOf(t)
      BY SchemasAre DEF Bench!EmploymentFields, Bench!VsopFields
  <2> QED
      BY <2>1, <2>2, ConditionsSay, SingleIsSound, Zenon DEF Plain, Saying
<1>14. Sound(Bench!Rules[14])
  <2>1. Bench!Rules[14] =
            Bench!Rule("TS-LIQPREF-GT1X", Bench!TermSheet, <<Bench!Over("liquidation_preference",
                "multiple", 1)>>, {"liquidation_preference"})
      BY DEF Bench!Rules
  <2>2. \A t \in Bench!TermSheet : "liquidation_preference" \in Bench!SchemaOf(t)
      BY SchemasAre DEF Bench!TermSheetFields
  <2> QED
      BY <2>1, <2>2, ConditionsSay, SingleIsSound, Zenon
<1>15. Sound(Bench!Rules[15])
  <2>1. Bench!Rules[15] =
            Bench!Rule("TS-LIQPREF-PARTICIPATING", Bench!TermSheet, <<Bench!Is("liquidation_preference",
                "participating", TRUE)>>, {"liquidation_preference"})
      BY DEF Bench!Rules
  <2>2. \A t \in Bench!TermSheet : "liquidation_preference" \in Bench!SchemaOf(t)
      BY SchemasAre DEF Bench!TermSheetFields
  <2> QED
      BY <2>1, <2>2, ConditionsSay, SingleIsSound, Zenon
<1>16. Sound(Bench!Rules[16])
  <2>1. Bench!Rules[16] =
            Bench!Rule("TS-LIQPREF-UNCAPPED", Bench!TermSheet, <<Bench!Is("liquidation_preference",
                "participating", TRUE), Bench!Cond("liquidation_preference", "cap_multiple", "missing",
                0)>>, {"liquidation_preference"})
      BY DEF Bench!Rules
  <2>2. \A t \in Bench!TermSheet : "liquidation_preference" \in Bench!SchemaOf(t)
      BY SchemasAre DEF Bench!TermSheetFields
  <2> QED
      BY <2>1, <2>2, ConditionsSay, PairIsSound, Zenon DEF Missing
<1>17. Sound(Bench!Rules[17])
  <2>1. Bench!Rules[17] =
            Bench!Rule("TS-FULLRATCHET", Bench!TermSheet, <<Bench!Is("anti_dilution", "value",
                "full_ratchet")>>, {"anti_dilution"})
      BY DEF Bench!Rules
  <2>2. \A t \in Bench!TermSheet : "anti_dilution" \in Bench!SchemaOf(t)
      BY SchemasAre DEF Bench!TermSheetFields
  <2> QED
      BY <2>1, <2>2, ConditionsSay, SingleIsSound, Zenon
<1>18. Sound(Bench!Rules[18])
  <2>1. Bench!Rules[18] =
            Bench!Rule("TS-ANTIDILUTION-WA", Bench!TermSheet, <<Bench!Cond("anti_dilution", "value", "in",
                {"broad_based_wa", "narrow_based_wa"})>>, {"anti_dilution"})
      BY DEF Bench!Rules
  <2>2. \A t \in Bench!TermSheet : "anti_dilution" \in Bench!SchemaOf(t)
      BY SchemasAre DEF Bench!TermSheetFields
  <2> QED
      BY <2>1, <2>2, ConditionsSay, SingleIsSound, Zenon DEF Plain, Saying
<1>19. Sound(Bench!Rules[19])
  <2>1. Bench!Rules[19] =
            Bench!Rule("TS-ESOP-PREMONEY", Bench!TermSheet, <<Bench!Is("esop_pool", "timing",
                "pre_money")>>, {"esop_pool"})
      BY DEF Bench!Rules
  <2>2. \A t \in Bench!TermSheet : "esop_pool" \in Bench!SchemaOf(t)
      BY SchemasAre DEF Bench!TermSheetFields
  <2> QED
      BY <2>1, <2>2, ConditionsSay, SingleIsSound, Zenon
<1>20. Sound(Bench!Rules[20])
  <2>1. Bench!Rules[20] =
            Bench!Rule("TS-ESOP-LARGE", Bench!TermSheet, <<Bench!Cond("esop_pool", "percent", ">=", 15)>>,
                {"esop_pool"})
      BY DEF Bench!Rules
  <2>2. \A t \in Bench!TermSheet : "esop_pool" \in Bench!SchemaOf(t)
      BY SchemasAre DEF Bench!TermSheetFields
  <2> QED
      BY <2>1, <2>2, ConditionsSay, SingleIsSound, Zenon DEF Plain, Saying
<1>21. Sound(Bench!Rules[21])
  <2> DEFINE F == {"board_composition"}
             v == <<"board_composition", "founder">>
  <2>1. Bench!Rules[21] = Bench!Rule("TS-BOARD-INVESTOR-CONTROL", Bench!TermSheet,
            <<Bench!Cond("board_composition", "investor", "not under", v)>>, F)
      BY DEF Bench!Rules
  <2>2. Have(Bench!TermSheet, "board_composition", "board_composition")
      BY SchemasAre DEF Bench!TermSheetFields, Have
  <2>3. "not under" \in {"over", "not under"} /\ Among(F, "board_composition", "board_composition")
      BY DEF Among
  <2>4. \A id, k : Sound(Bench!Rule(id, Bench!TermSheet, <<Bench!Cond("board_composition", k, "not under", v)>>, F))
    <3> HIDE DEF F
    <3> QED
      BY <2>2, <2>3, ComparisonIsSound, Zenon DEF v
  <2> QED
      BY <2>1, <2>4
<1>22. Sound(Bench!Rules[22])
  <2>1. Bench!Rules[22] =
            Bench!Rule("TS-DRAG-LOW", Bench!TermSheet, <<Bench!Under("drag_along_threshold_percent",
                "value", 66)>>, {"drag_along_threshold_percent"})
      BY DEF Bench!Rules
  <2>2. \A t \in Bench!TermSheet : "drag_along_threshold_percent" \in Bench!SchemaOf(t)
      BY SchemasAre DEF Bench!TermSheetFields
  <2> QED
      BY <2>1, <2>2, ConditionsSay, SingleIsSound, Zenon
<1>23. Sound(Bench!Rules[23])
  <2>1. Bench!Rules[23] =
            Bench!Rule("TS-FOUNDER-REVEST", Bench!TermSheet, <<Bench!Is("founder_vesting", "reverse",
                TRUE)>>, {"founder_vesting"})
      BY DEF Bench!Rules
  <2>2. \A t \in Bench!TermSheet : "founder_vesting" \in Bench!SchemaOf(t)
      BY SchemasAre DEF Bench!TermSheetFields
  <2> QED
      BY <2>1, <2>2, ConditionsSay, SingleIsSound, Zenon
<1>24. Sound(Bench!Rules[24])
  <2>1. Bench!Rules[24] =
            Bench!Rule("TS-NOSHOP-LONG", Bench!TermSheet, <<Bench!Over("exclusivity_no_shop_days", "value",
                45)>>, {"exclusivity_no_shop_days"})
      BY DEF Bench!Rules
  <2>2. \A t \in Bench!TermSheet : "exclusivity_no_shop_days" \in Bench!SchemaOf(t)
      BY SchemasAre DEF Bench!TermSheetFields
  <2> QED
      BY <2>1, <2>2, ConditionsSay, SingleIsSound, Zenon
<1>25. Sound(Bench!Rules[25])
  <2>1. Bench!Rules[25] =
            Bench!Rule("TS-DIVIDEND-CUMULATIVE", Bench!TermSheet, <<Bench!Is("dividends", "cumulative",
                TRUE)>>, {"dividends"})
      BY DEF Bench!Rules
  <2>2. \A t \in Bench!TermSheet : "dividends" \in Bench!SchemaOf(t)
      BY SchemasAre DEF Bench!TermSheetFields
  <2> QED
      BY <2>1, <2>2, ConditionsSay, SingleIsSound, Zenon
<1>26. Sound(Bench!Rules[26])
  <2>1. Bench!Rules[26] =
            Bench!Rule("EQ-BADLEAVER-BROAD", Bench!Vsop, <<Bench!Is("leaver_matrix", "bad_leaver_vested",
                "forfeit")>>, {"leaver_matrix"})
      BY DEF Bench!Rules
  <2>2. \A t \in Bench!Vsop : "leaver_matrix" \in Bench!SchemaOf(t)
      BY SchemasAre DEF Bench!VsopFields
  <2> QED
      BY <2>1, <2>2, ConditionsSay, SingleIsSound, Zenon
<1>27. Sound(Bench!Rules[27])
  <2> DEFINE c == Bench!Is("payout_trigger", "value", "exit_only")
             d == Bench!Is("board_discretion", "value", TRUE)
             F == {"payout_trigger", "board_discretion"}
  <2>1. Bench!Rules[27] = Bench!Rule("EQ-VSOP-EXITONLY", Bench!Vsop, <<c, d>>, F)
      BY DEF Bench!Rules
  <2>2. Have(Bench!Vsop, "payout_trigger", "board_discretion")
      BY SchemasAre DEF Bench!VsopFields, Have
  <2>3. Among(F, "payout_trigger", "board_discretion")
      BY DEF Among
  <2>4. Says(c, "payout_trigger") /\ Says(d, "board_discretion")
      BY ConditionsSay
  <2> HIDE DEF c, d, F
  <2> QED
      BY <2>1, <2>2, <2>3, <2>4, TwoAreSound, Zenon
<1>28. Sound(Bench!Rules[28])
  <2>1. Bench!Rules[28] =
            Bench!Rule("EQ-VSOP-EXIT-NARROW", Bench!Vsop, <<Bench!Is("exit_definition",
                "financing_round_excluded", TRUE)>>, {"exit_definition"})
      BY DEF Bench!Rules
  <2>2. \A t \in Bench!Vsop : "exit_definition" \in Bench!SchemaOf(t)
      BY SchemasAre DEF Bench!VsopFields
  <2> QED
      BY <2>1, <2>2, ConditionsSay, SingleIsSound, Zenon
<1>29. Sound(Bench!Rules[29])
  <2>1. Bench!Rules[29] =
            Bench!Rule("EQ-VSOP-NODILUTION", Bench!Vsop, <<Bench!Is("anti_dilution_protection", "value",
                FALSE)>>, {"anti_dilution_protection"})
      BY DEF Bench!Rules
  <2>2. \A t \in Bench!Vsop : "anti_dilution_protection" \in Bench!SchemaOf(t)
      BY SchemasAre DEF Bench!VsopFields
  <2> QED
      BY <2>1, <2>2, ConditionsSay, SingleIsSound, Zenon
<1>30. Sound(Bench!Rules[30])
  <2>1. Bench!Rules[30] =
            Bench!Rule("EQ-VSOP-CASHSETTLE", Bench!Vsop, <<Bench!Is("settlement", "value",
                "cash_settled")>>, {"settlement"})
      BY DEF Bench!Rules
  <2>2. \A t \in Bench!Vsop : "settlement" \in Bench!SchemaOf(t)
      BY SchemasAre DEF Bench!VsopFields
  <2> QED
      BY <2>1, <2>2, ConditionsSay, SingleIsSound, Zenon
<1>31. Sound(Bench!Rules[31])
  <2>1. Bench!Rules[31] =
            Bench!Rule("EQ-VSOP-BASEPRICE", Bench!Vsop, <<Bench!Over("allocation", "base_price", 0)>>,
                {"allocation"})
      BY DEF Bench!Rules
  <2>2. \A t \in Bench!Vsop : "allocation" \in Bench!SchemaOf(t)
      BY SchemasAre DEF Bench!VsopFields
  <2> QED
      BY <2>1, <2>2, ConditionsSay, SingleIsSound, Zenon
<1>32. DOMAIN Bench!Rules = 1 .. 31
    BY DEF Bench!Rules
<1> QED
  <2> HIDE DEF Bench!Rules
  <2>1. \A n \in 1 .. 31 : n = 1 \/ n = 2 \/ n = 3 \/ n = 4 \/ n = 5 \/ n = 6 \/ n = 7 \/ n = 8 \/ n = 9 \/ n = 10 \/ n = 11 \/ n = 12 \/ n = 13 \/ n = 14 \/ n = 15 \/ n = 16 \/ n = 17 \/ n = 18 \/ n = 19 \/ n = 20 \/ n = 21 \/ n = 22 \/ n = 23 \/ n = 24 \/ n = 25 \/ n = 26 \/ n = 27 \/ n = 28 \/ n = 29 \/ n = 30 \/ n = 31
      OBVIOUS
  <2> QED
      BY <1>1, <1>2, <1>3, <1>4, <1>5, <1>6, <1>7, <1>8, <1>9, <1>10, <1>11, <1>12, <1>13, <1>14, <1>15, <1>16, <1>17, <1>18, <1>19, <1>20, <1>21, <1>22, <1>23, <1>24, <1>25, <1>26, <1>27, <1>28, <1>29, <1>30, <1>31, <1>32, <2>1

Ops == Saying \cup Missing \cup {"not found"}

(* The same of what a condition reads is the same of the condition.        *)
LEMMA HoldsAlike ==
    ASSUME NEW ex, NEW other, NEW c, c.op \in Ops, \A f \in ReadOf(c) : other[f] = ex[f]
    PROVE  Bench!Holds(ex, c) <=> Bench!Holds(other, c)
<1>1. other[c.field] = ex[c.field]
    BY DEF ReadOf
<1>2. CASE c.op \in {"over", "not under"}
  <2>1. other[c.v[1]] = ex[c.v[1]]
      BY <1>2 DEF ReadOf
  <2>2. CASE c.op = "over"
      BY <1>1, <2>1, <2>2 DEF Bench!Holds, Bench!Known, Bench!Of
  <2>3. CASE c.op = "not under"
      BY <1>1, <2>1, <2>3 DEF Bench!Holds, Bench!Known, Bench!Of
  <2> QED
      BY <1>2, <2>2, <2>3
<1>3. CASE c.op = "="
    BY <1>1, <1>3 DEF Bench!Holds, Bench!Known, Bench!Of
<1>4. CASE c.op = "/="
    BY <1>1, <1>4 DEF Bench!Holds, Bench!Known, Bench!Of
<1>5. CASE c.op = "in"
    BY <1>1, <1>5 DEF Bench!Holds, Bench!Known, Bench!Of
<1>6. CASE c.op = ">"
    BY <1>1, <1>6 DEF Bench!Holds, Bench!Known, Bench!Of
<1>7. CASE c.op = ">="
    BY <1>1, <1>7 DEF Bench!Holds, Bench!Known, Bench!Of
<1>8. CASE c.op = "<"
    BY <1>1, <1>8 DEF Bench!Holds, Bench!Known, Bench!Of
<1>9. CASE c.op = "missing"
    BY <1>1, <1>9 DEF Bench!Holds, Bench!Known, Bench!Of
<1>10. CASE c.op = "missing or <"
    BY <1>1, <1>10 DEF Bench!Holds, Bench!Known, Bench!Of
<1>11. CASE c.op = "not both"
    BY <1>1, <1>11 DEF Bench!Holds, Bench!Known, Bench!Of
<1>12. CASE c.op = "not found"
    BY <1>1, <1>12 DEF Bench!Holds, Bench!NotFound
<1> QED
    BY <1>2, <1>3, <1>4, <1>5, <1>6, <1>7, <1>8, <1>9, <1>10, <1>11, <1>12 DEF Ops, Saying, Missing

(* What says something of a field holds of an extracted field only.        *)
LEMMA SayingNeedsExtracted ==
    ASSUME NEW ex, NEW c, c.op \in Saying, Bench!Holds(ex, c)
    PROVE  \A f \in ReadOf(c) : ex[f].status = "extracted"
<1>1. CASE c.op \in {"over", "not under"}
  <2>1. CASE c.op = "over"
      BY <2>1 DEF Bench!Holds, Bench!Known, ReadOf
  <2>2. CASE c.op = "not under"
      BY <2>2 DEF Bench!Holds, Bench!Known, ReadOf
  <2> QED
      BY <1>1, <2>1, <2>2
<1>2. CASE c.op = "="
    BY <1>2 DEF Bench!Holds, Bench!Known, ReadOf
<1>3. CASE c.op = "/="
    BY <1>3 DEF Bench!Holds, Bench!Known, ReadOf
<1>4. CASE c.op = "in"
    BY <1>4 DEF Bench!Holds, Bench!Known, ReadOf
<1>5. CASE c.op = ">"
    BY <1>5 DEF Bench!Holds, Bench!Known, ReadOf
<1>6. CASE c.op = ">="
    BY <1>6 DEF Bench!Holds, Bench!Known, ReadOf
<1>7. CASE c.op = "<"
    BY <1>7 DEF Bench!Holds, Bench!Known, ReadOf
<1>8. CASE c.op = "not both"
    BY <1>8 DEF Bench!Holds, Bench!Known, ReadOf
<1> QED
    BY <1>1, <1>2, <1>3, <1>4, <1>5, <1>6, <1>7, <1>8 DEF Saying

(* An extraction: what is known of every field of every family.            *)
WellRead(x) == x = [status |-> x.status, value |-> x.value]
Readings(ex) == ex = [f \in Bench!AllFields |-> ex[f]] /\ \A f \in Bench!AllFields : WellRead(ex[f])

LEMMA SchemasAreOfFields == \A type \in Bench!DocumentTypes : Bench!SchemaOf(type) \subseteq Bench!AllFields
BY DEF Bench!AllFields

LEMMA FlagsCite ==
    ASSUME NEW ex, NEW r, Sound(r), Bench!AllHold(ex, r), NEW f \in r.fields
    PROVE  ex[f].status = "extracted"
<1>1. PICK i \in DOMAIN r.when : r.when[i].op \in Saying /\ f \in ReadOf(r.when[i])
    BY DEF Sound
<1>2. Bench!Holds(ex, r.when[i])
    BY <1>1 DEF Bench!AllHold
<1> QED
    BY <1>1, <1>2, SayingNeedsExtracted

(* A field that could not be extracted is read by no rule that is raised.  *)
Lost(ex, less, g, type) ==
    less[g].status = "extraction_failed" /\ \A f \in Bench!SchemaOf(type) : f # g => less[f] = ex[f]

LEMMA FailureIsSilent ==
    ASSUME NEW ex, NEW less, NEW g, NEW r, Sound(r), NEW type \in r.types, Bench!AllHold(less, r),
           Lost(ex, less, g, type)
    PROVE  Bench!AllHold(ex, r)
<1> SUFFICES ASSUME NEW i \in DOMAIN r.when PROVE Bench!Holds(ex, r.when[i])
    BY DEF Bench!AllHold
<1> DEFINE c == r.when[i]
<1>1. Bench!Holds(less, c) /\ c.op \in Ops
    BY DEF Bench!AllHold, Sound, Ops
<1>2. c.op \in Saying => g \notin ReadOf(c)
    BY <1>1, SayingNeedsExtracted DEF Lost
<1>3. c.op \in Missing => g \notin ReadOf(c)
  <2>1. SUFFICES ASSUME c.op \in Missing, g \in ReadOf(c) PROVE FALSE
      OBVIOUS
  <2>2. c.field = g
      BY <2>1 DEF ReadOf, Missing
  <2>3. PICK j \in DOMAIN r.when : r.when[j].op \in Saying /\ r.when[j].field = g
      BY <2>1, <2>2 DEF Sound
  <2>4. g \in ReadOf(r.when[j]) /\ Bench!Holds(less, r.when[j])
      BY <2>3 DEF ReadOf, Bench!AllHold
  <2> QED
      BY <2>3, <2>4, SayingNeedsExtracted DEF Lost
<1>4. c.op = "not found" => g \notin ReadOf(c)
  <2>1. SUFFICES ASSUME c.op = "not found", g \in ReadOf(c) PROVE FALSE
      OBVIOUS
  <2>2. c.field = g
      BY <2>1 DEF ReadOf
  <2>3. less[c.field].status = "not_found"
      BY <1>1, <2>1 DEF Bench!Holds, Bench!NotFound
  <2> QED
      BY <2>2, <2>3 DEF Lost
<1>t. ReadOf(c) \subseteq Bench!SchemaOf(type)
    BY DEF Sound
<1> HIDE DEF c
<1>5. \A f \in ReadOf(c) : ex[f] = less[f]
    BY <1>1, <1>2, <1>3, <1>4, <1>t DEF Ops, Lost
<1>6. Bench!Holds(ex, c)
    BY <1>1, <1>5, HoldsAlike
<1> QED
    BY <1>6 DEF c

(* The same of what a rule reads is the same of the rule.                  *)
LEMMA RulesAlike ==
    ASSUME NEW ex, NEW other, NEW r, Sound(r), \A f \in Bench!ReadBy(r) : other[f] = ex[f]
    PROVE  Bench!AllHold(ex, r) <=> Bench!AllHold(other, r)
<1>0. \A i \in DOMAIN r.when : ReadOf(r.when[i]) \subseteq Bench!ReadBy(r)
    BY DEF ReadOf, Bench!ReadBy
<1>1. \A i \in DOMAIN r.when : r.when[i].op \in Ops /\ \A f \in ReadOf(r.when[i]) : other[f] = ex[f]
    BY <1>0 DEF Sound, Ops
<1>2. \A i \in DOMAIN r.when : Bench!Holds(ex, r.when[i]) <=> Bench!Holds(other, r.when[i])
    BY <1>1, HoldsAlike
<1> QED
    BY <1>2 DEF Bench!AllHold

LEMMA RulesReadTheirSchema ==
    ASSUME NEW r, Sound(r), NEW type \in r.types PROVE Bench!ReadBy(r) \subseteq Bench!SchemaOf(type)
<1>1. \A i \in DOMAIN r.when : ReadOf(r.when[i]) \subseteq Bench!SchemaOf(type)
    BY DEF Sound
<1> QED
    BY <1>1 DEF ReadOf, Bench!ReadBy

LEMMA RulesHold ==
    ASSUME NEW ex, Readings(ex), NEW type \in Bench!DocumentTypes
    PROVE  Bench!CiteExtracted(ex, type) /\ Bench!LessIsNotMore(ex, type)
<1>1. Bench!CiteExtracted(ex, type)
    BY RulesAreSound, FlagsCite DEF Bench!CiteExtracted, Bench!runBenchmark
<1>2. Bench!LessIsNotMore(ex, type)
  <2> SUFFICES ASSUME NEW g \in Bench!SchemaOf(type)
               PROVE  Bench!runBenchmark([ex EXCEPT ![g].status = "extraction_failed"], type)
                          \subseteq Bench!runBenchmark(ex, type)
      BY DEF Bench!LessIsNotMore
  <2> DEFINE less == [ex EXCEPT ![g].status = "extraction_failed"]
  <2>0. g \in Bench!AllFields
      BY SchemasAreOfFields
  <2>1. less[g].status = "extraction_failed" /\ \A f \in Bench!AllFields : f # g => less[f] = ex[f]
    <3>1. ex[g] = [status |-> ex[g].status, value |-> ex[g].value]
        BY <2>0 DEF Readings, WellRead
    <3>2. less[g] = [ex[g] EXCEPT !.status = "extraction_failed"]
        BY <2>0 DEF Readings
    <3>3. less[g].status = "extraction_failed"
        BY <3>1, <3>2
    <3>4. \A f \in Bench!AllFields : f # g => less[f] = ex[f]
        BY DEF Readings
    <3> QED
        BY <3>3, <3>4
  <2> HIDE DEF less
  <2>2. Lost(ex, less, g, type)
      BY <2>1, SchemasAreOfFields DEF Lost
  <2>3. \A n \in DOMAIN Bench!Rules : type \in Bench!Rules[n].types =>
            (Bench!AllHold(less, Bench!Rules[n]) => Bench!AllHold(ex, Bench!Rules[n]))
    <3> TAKE n \in DOMAIN Bench!Rules
    <3>1. Sound(Bench!Rules[n])
        BY RulesAreSound
    <3> DEFINE r == Bench!Rules[n]
    <3> HIDE DEF r
    <3>2. ASSUME Sound(r), type \in r.types, Bench!AllHold(less, r) PROVE Bench!AllHold(ex, r)
        BY <3>2, <2>2, FailureIsSilent
    <3> QED
        BY <3>1, <3>2 DEF r
  <2>4. Bench!runBenchmark(less, type) \subseteq Bench!runBenchmark(ex, type)
      BY <2>3 DEF Bench!runBenchmark
  <2> QED
      BY <2>4 DEF less
<1> QED
    BY <1>1, <1>2

LEMMA LeftoversHold ==
    ASSUME NEW own, NEW left, NEW type \in Bench!DocumentTypes
    PROVE  Bench!NotFromLeftovers(own, left, type)
<1> DEFINE alone == Bench!Merged(own, <<>>)
           merged == Bench!Merged(own, left)
<1>1. \A f \in Bench!AllFields : f \notin DOMAIN left => merged[f] = alone[f]
  <2>1. DOMAIN <<>> = {}
      OBVIOUS
  <2> QED
      BY <2>1 DEF Bench!Merged
<1> HIDE DEF alone, merged
<1>2. ASSUME NEW n \in DOMAIN Bench!Rules, type \in Bench!Rules[n].types,
             Bench!ReadBy(Bench!Rules[n]) \cap Bench!SchemaOf(type) \cap DOMAIN left = {}
      PROVE  Bench!AllHold(merged, Bench!Rules[n]) <=> Bench!AllHold(alone, Bench!Rules[n])
  <2> DEFINE r == Bench!Rules[n]
  <2>1. Sound(r)
      BY RulesAreSound
  <2>2. type \in r.types /\ Bench!ReadBy(r) \cap Bench!SchemaOf(type) \cap DOMAIN left = {}
      BY <1>2
  <2> HIDE DEF r
  <2>3. Bench!ReadBy(r) \subseteq Bench!SchemaOf(type)
      BY <2>1, <2>2, RulesReadTheirSchema
  <2>4. \A f \in Bench!ReadBy(r) : alone[f] = merged[f]
      BY <1>1, <2>2, <2>3, SchemasAreOfFields
  <2>5. Bench!AllHold(merged, r) <=> Bench!AllHold(alone, r)
      BY <2>1, <2>4, RulesAlike
  <2> QED
      BY <2>5 DEF r
<1>3. \A n \in (Bench!runBenchmark(merged, type) \ Bench!runBenchmark(alone, type))
                 \cup (Bench!runBenchmark(alone, type) \ Bench!runBenchmark(merged, type)) :
            Bench!ReadBy(Bench!Rules[n]) \cap Bench!SchemaOf(type) \cap DOMAIN left # {}
    BY <1>2 DEF Bench!runBenchmark
<1> QED
    BY <1>3 DEF Bench!NotFromLeftovers, alone, merged

(***************************************************************************)
(* What is saved of the answers of a model.                                *)
(***************************************************************************)
LEMMA AnswerOf ==
    ASSUME Fills!AnswerAssumption, NEW a \in Fills!Answers
    PROVE  \/ Fills!Asked(a) = {}
           \/ /\ a.first \in Fills!Filled(Fills!Asked(a)) \cup {Fills!Invalid}
              /\ a.second \in Fills!Filled(Fills!Asked(a)) \cup {Fills!Invalid}
              /\ a.first = Fills!Invalid \/ a.second = Fills!Invalid
<1>1. PICK t \in DOMAIN Schemas : a \in Fills!AnswersFor(t)
    BY DEF Fills!Answers
<1>2. /\ a.type \in {t, Fills!Untyped}
      /\ a.first \in Fills!Filled(Schemas[t]) \cup {Fills!Invalid}
      /\ a.second \in Fills!Filled(Schemas[t]) \cup {Fills!Invalid}
      /\ a.first = Fills!Invalid \/ a.second = Fills!Invalid
    BY <1>1 DEF Fills!AnswersFor
<1>3. CASE a.type = Fills!Untyped
    BY <1>3 DEF Fills!Asked, Fills!Classified, Fills!AnswerAssumption
<1>4. CASE a.type # Fills!Untyped
    BY <1>2, <1>4 DEF Fills!Asked, Fills!Classified
<1> QED
    BY <1>3, <1>4

LEMMA SavedIs ==
    ASSUME NEW fields, NEW e \in [fields -> Fills!FieldAnswers]
    PROVE  /\ DOMAIN Fills!persist(e) = fields
           /\ \A f \in fields : /\ Fills!persist(e)[f].status = e[f].status
                                /\ Fills!persist(e)[f].cites = Fills!Cites(e[f])
                                /\ Fills!persist(e)[f].confidence = Fills!Confidence(e[f])
BY DEF Fills!persist

LEMMA AnswersHold ==
    ASSUME Fills!AnswerAssumption, NEW a \in Fills!Answers
    PROVE  Fills!SavedWhole(a) /\ Fills!TrustIsCited(a)
<1>1. CASE Fills!Asked(a) = {}
  <2>1. Fills!runExtraction(a) = <<>> /\ DOMAIN Fills!runExtraction(a) = {}
      BY <1>1 DEF Fills!runExtraction
  <2> QED
      BY <1>1, <2>1 DEF Fills!SavedWhole, Fills!TrustIsCited
<1>2. CASE Fills!Asked(a) # {}
  <2> DEFINE fields == Fills!Asked(a)
             e == Fills!Extraction(a)
             saved == Fills!runExtraction(a)
  <2>1. saved = Fills!persist(e)
      BY <1>2 DEF Fills!runExtraction
  <2>2. /\ a.first \in [fields -> Fills!FieldAnswers] \cup {Fills!Invalid}
        /\ a.second \in [fields -> Fills!FieldAnswers] \cup {Fills!Invalid}
      BY <1>2, AnswerOf DEF Fills!Filled
  <2>3. Fills!allFailed(fields) \in [fields -> Fills!FieldAnswers]
      BY DEF Fills!allFailed, Fills!Failed, Fills!FieldAnswers
  <2>4. e \in [fields -> Fills!FieldAnswers]
      BY <2>2, <2>3 DEF Fills!Extraction
  <2>5. /\ DOMAIN saved = fields
        /\ \A f \in fields : /\ saved[f].status = e[f].status
                             /\ saved[f].cites = Fills!Cites(e[f])
                             /\ saved[f].confidence = Fills!Confidence(e[f])
      BY <2>1, <2>4, SavedIs
  <2>6. Fills!TrustIsCited(a)
    <3> SUFFICES ASSUME NEW f \in fields, saved[f].status = "extracted", saved[f].confidence # "low"
                 PROVE  saved[f].cites # "nothing" /\ \A x \in Fills!Valid(a) : x[f].quotation # "lost"
        BY <2>5 DEF Fills!TrustIsCited
    <3>1. Fills!Cites(e[f]) # "nothing"
        BY <2>5 DEF Fills!Confidence
    <3>2. e[f].quotation # "lost"
        BY <3>1 DEF Fills!Cites
    <3>3. \A x \in Fills!Valid(a) : x = e
        BY <1>2, AnswerOf DEF Fills!Valid, Fills!Extraction
    <3> QED
        BY <2>5, <3>1, <3>2, <3>3
  <2> DEFINE statuses == [f \in DOMAIN saved |-> saved[f].status]
  <2>7. CASE Fills!Valid(a) = {}
    <3>1. e = Fills!allFailed(fields)
        BY <2>7 DEF Fills!Valid, Fills!Extraction
    <3>2. \A f \in fields : saved[f].status = "extraction_failed"
        BY <2>5, <3>1 DEF Fills!allFailed, Fills!Failed
    <3> QED
        BY <2>5, <2>6, <2>7, <3>2 DEF Fills!SavedWhole
  <2>8. CASE Fills!Valid(a) # {}
    <3>1. e \in Fills!Valid(a)
        BY <2>8 DEF Fills!Valid, Fills!Extraction
    <3>2. statuses = [f \in DOMAIN e |-> e[f].status]
      <4>1. DOMAIN e = fields
          BY <2>4
      <4> HIDE DEF e, saved
      <4> QED
          BY <2>5, <4>1
    <3> HIDE DEF e
    <3>3. \E x \in Fills!Valid(a) : statuses = [f \in DOMAIN x |-> x[f].status]
        BY <3>1, <3>2
    <3> QED
        BY <2>5, <2>6, <2>8, <3>3 DEF Fills!SavedWhole
  <2> QED
      BY <2>7, <2>8
<1> QED
    BY <1>1, <1>2

LEMMA ReadingsAre ==
    ASSUME NEW read, \A f \in DOMAIN read : IsReading(read[f]),
           NEW left, \A f \in DOMAIN left : IsReading(left[f]), NEW type
    PROVE  Readings(Bench!Merged(Saved(read, type), left))
<1> DEFINE own == Saved(read, type)
           ex == Bench!Merged(own, left)
<1>1. ex = [f \in Bench!AllFields |-> ex[f]]
    BY DEF Bench!Merged
<1>2. WellRead(NotFound) /\ WellRead(Bench!NoRow)
    BY DEF WellRead, NotFound, Bench!NoRow
<1>3. \A x : IsReading(x) => WellRead(x)
  <2> SUFFICES ASSUME NEW x, NEW s \in Statuses, x = [status |-> s, value |-> x.value] PROVE WellRead(x)
      BY DEF IsReading
  <2> QED
      BY DEF WellRead
<1>4. \A f \in DOMAIN own : WellRead(own[f])
    BY <1>2, <1>3 DEF Saved
<1> HIDE DEF own
<1>5. \A f \in Bench!AllFields :
         ex[f] = IF f \in DOMAIN left THEN left[f] ELSE IF f \in DOMAIN own THEN own[f] ELSE Bench!NoRow
    BY DEF Bench!Merged
<1> HIDE DEF ex
<1>6. \A f \in Bench!AllFields : WellRead(ex[f])
    BY <1>2, <1>3, <1>4, <1>5
<1> QED
    BY <1>1, <1>6 DEF Readings, ex, own

-----------------------------------------------------------------------------
(***************************************************************************)
(* Clauses are cut into chunks: positions, the tokens between two, and     *)
(* where a chunk ends and the next begins.                                 *)
(***************************************************************************)
Clauses == Seq(Chunks!Chars)
Places0(text) == 0 .. Len(text)

LEMMA ChunkMinMax ==
    ASSUME NEW T, NEW n \in Nat, T \subseteq 0 .. n, T # {}
    PROVE  /\ Chunks!Min(T) \in T /\ \A y \in T : Chunks!Min(T) <= y
           /\ Chunks!Max(T) \in T /\ \A y \in T : Chunks!Max(T) >= y
BY Chosen DEF Chunks!Min, Chunks!Max

LEMMA TokensWithin ==
    ASSUME NEW text \in Clauses, NEW a \in Places0(text), NEW b \in Places0(text),
           NEW c \in Places0(text), NEW d \in Places0(text), a <= c, d <= b
    PROVE  /\ Chunks!Tokens(text, a, b) \in Nat /\ Chunks!Tokens(text, c, d) \in Nat
           /\ Chunks!Tokens(text, c, d) <= Chunks!Tokens(text, a, b)
<1> DEFINE On(p, q) == {i \in p + 1 .. q : text[i] \notin Chunks!White}
<1>1. IsFiniteSet(a + 1 .. b)
    BY FS_Interval DEF Places0
<1>2. On(a, b) \subseteq a + 1 .. b /\ On(c, d) \subseteq On(a, b)
    BY DEF Places0
<1>3. \A p, q : Chunks!Tokens(text, p, q) = Cardinality(On(p, q))
    BY DEF Chunks!Tokens, Chunks!Cardinality, Cardinality
<1> HIDE DEF On
<1>4. IsFiniteSet(On(a, b))
    BY <1>1, <1>2, FS_Subset
<1>5. IsFiniteSet(On(c, d)) /\ Cardinality(On(c, d)) <= Cardinality(On(a, b))
    BY <1>2, <1>4, FS_Subset
<1>6. Cardinality(On(a, b)) \in Nat /\ Cardinality(On(c, d)) \in Nat
    BY <1>4, <1>5, FS_CardinalityType
<1> QED
    BY <1>3, <1>5, <1>6

LEMMA TokensFew ==
    ASSUME NEW text \in Clauses, NEW a \in Places0(text)
    PROVE  Chunks!Tokens(text, a, a) = 0 /\ (a < Len(text) => Chunks!Tokens(text, a, a + 1) <= 1)
<1> DEFINE On(p, q) == {i \in p + 1 .. q : text[i] \notin Chunks!White}
<1>1. \A p, q : Chunks!Tokens(text, p, q) = Cardinality(On(p, q))
    BY DEF Chunks!Tokens, Chunks!Cardinality, Cardinality
<1>2. On(a, a) = {} /\ On(a, a + 1) \subseteq {a + 1}
    BY DEF Places0
<1> HIDE DEF On
<1>3. Cardinality(On(a, a)) = 0
    BY <1>2, FS_EmptySet
<1>4. IsFiniteSet({a + 1}) /\ Cardinality({a + 1}) = 1
    BY FS_Singleton
<1>5. Cardinality(On(a, a + 1)) <= 1
    BY <1>2, <1>4, FS_Subset
<1> QED
    BY <1>1, <1>3, <1>5

(* The places of a text where a chunk may end.                             *)
Marked(text, bounds) == bounds \subseteq Places0(text) /\ Len(text) \in bounds

(* Where everything up to a boundary is within the budget, the chunk is    *)
(* extended that far.                                                      *)
LEMMA Extended ==
    ASSUME Chunks!ChunkerAssumption, NEW text \in Clauses, NEW bounds, Marked(text, bounds),
           NEW start \in Places0(text), start < Len(text)
    PROVE  LET end == Chunks!extendWhileFits(text, bounds, start)
           IN  /\ end \in bounds /\ start < end
               /\ \A to \in bounds : start < to /\ Chunks!Fits(text, start, to) =>
                     to <= end /\ Chunks!Fits(text, start, end)
<1> DEFINE next == Chunks!Min(Chunks!Beyond(bounds, start))
           T == {e \in Chunks!Beyond(bounds, next) :
                    \A f \in Chunks!Beyond(bounds, next) : f <= e => Chunks!Fits(text, start, f)}
           end == Chunks!extendWhileFits(text, bounds, start)
<1>0. Len(text) \in Nat /\ \A S : Chunks!Beyond(bounds, S) \subseteq Places0(text)
    BY DEF Clauses, Marked, Chunks!Beyond
<1>1. next \in Chunks!Beyond(bounds, start) /\ \A y \in Chunks!Beyond(bounds, start) : next <= y
  <2>1. Chunks!Beyond(bounds, start) \subseteq 0 .. Len(text) /\ Chunks!Beyond(bounds, start) # {}
      BY <1>0 DEF Marked, Chunks!Beyond, Places0
  <2> QED
      BY <1>0, <2>1, ChunkMinMax
<1>2. next \in bounds /\ next \in Places0(text) /\ start < next
    BY <1>1 DEF Marked, Chunks!Beyond
<1>3. end = Chunks!Max({next} \cup T)
    BY DEF Chunks!extendWhileFits
<1> HIDE DEF next, T
<1>4. end \in {next} \cup T /\ \A y \in {next} \cup T : end >= y
  <2>1. {next} \cup T \subseteq 0 .. Len(text) /\ {next} \cup T # {}
      BY <1>0, <1>2 DEF T, Places0
  <2> QED
      BY <1>0, <1>3, <2>1, ChunkMinMax
<1>5. end \in bounds /\ start < end
    BY <1>0, <1>2, <1>4 DEF T, Chunks!Beyond, Places0
<1>6. ASSUME NEW to \in bounds, start < to, Chunks!Fits(text, start, to)
      PROVE  to <= end /\ Chunks!Fits(text, start, end)
  <2>1. to \in Places0(text)
      BY DEF Marked
  <2>2. \A f \in Places0(text) : f <= to => Chunks!Fits(text, start, f)
    <3> TAKE f \in Places0(text)
    <3>1. f <= to => Chunks!Tokens(text, start, f) <= Chunks!Tokens(text, start, to)
                     /\ Chunks!Tokens(text, start, f) \in Nat /\ Chunks!Tokens(text, start, to) \in Nat
        BY <2>1, TokensWithin DEF Places0
    <3> QED
        BY <3>1, <1>6 DEF Chunks!Fits, Chunks!ChunkerAssumption
  <2>3. next <= to
      BY <1>1, <1>6 DEF Chunks!Beyond
  <2>4. Chunks!Fits(text, start, next)
      BY <1>2, <2>2, <2>3
  <2>5. CASE to = next
    <3>1. to <= end
        BY <1>4, <2>5, <1>2, <1>5 DEF Places0, Marked
    <3> QED
        BY <1>4, <2>4, <3>1 DEF T
  <2>6. CASE to # next
    <3>1. to \in Chunks!Beyond(bounds, next)
        BY <2>3, <2>6, <2>1, <1>2 DEF Chunks!Beyond, Places0
    <3>2. to \in T
        BY <3>1, <2>2, <1>0 DEF T
    <3>3. to <= end
        BY <1>4, <3>2, <2>1, <1>5 DEF Marked, Places0
    <3> QED
        BY <1>4, <2>4, <3>3, <1>5 DEF T
  <2> QED
      BY <2>5, <2>6
<1> QED
    BY <1>5, <1>6

(* A function that is defined from its value somewhere earlier, or stops:  *)
(* there is one.                                                           *)
Descends(f, N, D, h) ==
    f \in [0 .. N -> 0 .. N] /\ \A k \in 0 .. N : f[k] = IF k \in D THEN f[h[k]] ELSE k

LEMMA Descent ==
    ASSUME NEW N \in Nat, NEW D, D \subseteq 0 .. N, NEW h \in [D -> 0 .. N], \A k \in D : h[k] < k
    PROVE  \E f : Descends(f, N, D, h)
<1> DEFINE P(m, f) == \A k \in 0 .. m : f[k] = IF k \in D THEN f[h[k]] ELSE k
           S == {m \in Nat : m <= N => \E f \in [0 .. m -> 0 .. N] : P(m, f)}
<1>0. 0 \notin D
    OBVIOUS
<1>1. 0 \in S
  <2> DEFINE f == [k \in 0 .. 0 |-> 0]
  <2>1. f \in [0 .. 0 -> 0 .. N] /\ f[0] = 0
      OBVIOUS
  <2>2. P(0, f)
      BY <1>0, <2>1
  <2> HIDE DEF f, P
  <2> QED
      BY <2>1, <2>2
<1>2. \A m \in 0 .. N - 1 : m \in S => m + 1 \in S
  <2> SUFFICES ASSUME NEW m \in 0 .. N - 1, m \in S PROVE m + 1 \in S
      OBVIOUS
  <2>1. PICK f \in [0 .. m -> 0 .. N] : P(m, f)
      OBVIOUS
  <2> DEFINE v == IF m + 1 \in D THEN f[h[m + 1]] ELSE m + 1
             g == [k \in 0 .. m + 1 |-> IF k = m + 1 THEN v ELSE f[k]]
  <2>2. v \in 0 .. N
    <3>1. CASE m + 1 \in D
      <4>1. h[m + 1] \in 0 .. m
          BY <3>1
      <4> QED
          BY <3>1, <4>1
    <3>2. CASE m + 1 \notin D
        BY <3>2
    <3> QED
        BY <3>1, <3>2
  <2>3. g \in [0 .. m + 1 -> 0 .. N]
    <3> HIDE DEF v
    <3> QED
        BY <2>2
  <2>4. \A k \in 0 .. m : g[k] = f[k]
      OBVIOUS
  <2>5. g[m + 1] = v
      OBVIOUS
  <2>6. P(m + 1, g)
    <3> HIDE DEF g
    <3>1. \A k \in 0 .. m : g[k] = IF k \in D THEN g[h[k]] ELSE k
      <4> TAKE k \in 0 .. m
      <4>1. k \in D => h[k] \in 0 .. m
          OBVIOUS
      <4>2. f[k] = IF k \in D THEN f[h[k]] ELSE k
          BY <2>1
      <4> QED
          BY <4>1, <4>2, <2>4
    <3>2. g[m + 1] = IF m + 1 \in D THEN g[h[m + 1]] ELSE m + 1
      <4>1. m + 1 \in D => h[m + 1] \in 0 .. m
          OBVIOUS
      <4> QED
          BY <4>1, <2>4, <2>5
    <3>3. \A k \in 0 .. m + 1 : k \in 0 .. m \/ k = m + 1
        OBVIOUS
    <3> QED
        BY <3>1, <3>2, <3>3
  <2> QED
    <3> HIDE DEF P, g
    <3>1. m + 1 \in Nat /\ \E e \in [0 .. m + 1 -> 0 .. N] : P(m + 1, e)
        BY <2>3, <2>6
    <3> HIDE DEF v
    <3> QED
        BY <3>1
<1>3. 0 .. N \subseteq S
  <2> HIDE DEF S
  <2> QED
      BY <1>1, <1>2, InductTo
<1>4. \E f \in [0 .. N -> 0 .. N] : P(N, f)
  <2>1. N \in 0 .. N /\ N <= N
      OBVIOUS
  <2>2. N \in S
      BY <1>3, <2>1
  <2> QED
      BY <2>1, <2>2
<1> QED
    BY <1>4 DEF Descends

LEMMA ShrinksTo ==
    ASSUME Chunks!ChunkerAssumption, NEW text \in Clauses, NEW from \in Places0(text),
           NEW cut \in Places0(text)
    PROVE  LET to == Chunks!Shrunk(text, from)[cut]
           IN  to \in 0 .. cut /\ (to <= from + Floor \/ Chunks!Fits(text, from, to))
<1> DEFINE N == Len(text)
           Over(k) == k > from + Floor /\ ~Chunks!Fits(text, from, k)
           D == {k \in 0 .. N : Over(k)}
           h == [k \in D |-> from + ((k - from) * 3) \div 4]
           Def(f) == f = [k \in 0 .. N |-> IF Over(k) THEN f[from + ((k - from) * 3) \div 4] ELSE k]
           shrink == CHOOSE f : Def(f)
<1>0. N \in Nat /\ from \in 0 .. N /\ Floor \in Nat /\ MaxTokens \in Nat
    BY DEF Clauses, Places0, Chunks!ChunkerAssumption
<1>1. Chunks!Shrunk(text, from) = shrink
    BY DEF Chunks!Shrunk
<1> HIDE DEF N
<1>2. \A k \in D : k \in 0 .. N /\ from + ((k - from) * 3) \div 4 \in 0 .. k - 1
  <2> TAKE k \in D
  <2>1. k \in 0 .. N /\ k - from \in Nat \ {0} /\ k > from
      BY <1>0
  <2> DEFINE x == k - from
  <2>2. k = from + x /\ x \in Nat \ {0}
      BY <2>1, <1>0
  <2> HIDE DEF x
  <2>3. (x * 3) \div 4 \in 0 .. x - 1
      BY <2>2
  <2> QED
      BY <1>0, <2>1, <2>2, <2>3 DEF x
<1>3. h \in [D -> 0 .. N] /\ \A k \in D : h[k] < k /\ h[k] = from + ((k - from) * 3) \div 4
    BY <1>2, <1>0
<1>4. D \subseteq 0 .. N /\ \A k \in 0 .. N : k \in D <=> Over(k)
    OBVIOUS
<1> HIDE DEF h, D, Over
<1>5. PICK f : Descends(f, N, D, h)
    BY <1>0, <1>3, <1>4, Descent
<1>6. Def(f)
    BY <1>3, <1>4, <1>5 DEF Descends
<1>7. Def(shrink)
    BY <1>6
<1> HIDE DEF shrink
<1>8. \A k \in 0 .. N : shrink[k] = IF k \in D THEN shrink[h[k]] ELSE k
    BY <1>3, <1>4, <1>7
<1> DEFINE S == {m \in Nat : m <= N => \A k \in 0 .. m : shrink[k] \in 0 .. k /\ shrink[k] \notin D}
<1>9. 0 \in S
  <2>1. 0 \notin D
      BY <1>2, <1>3
  <2> QED
      BY <1>0, <1>8, <2>1
<1>10. \A m \in 0 .. N - 1 : m \in S => m + 1 \in S
  <2> SUFFICES ASSUME NEW m \in 0 .. N - 1, m \in S
               PROVE  shrink[m + 1] \in 0 .. m + 1 /\ shrink[m + 1] \notin D
    <3>1. \A m \in 0 .. N - 1 : \A k \in 0 .. m + 1 : k \in 0 .. m \/ k = m + 1
        OBVIOUS
    <3> QED
        BY <1>0, <3>1
  <2>1. m + 1 \in 0 .. N /\ m <= N
      BY <1>0
  <2>2. CASE m + 1 \in D
    <3>1. h[m + 1] \in 0 .. m
        BY <1>2, <1>3, <2>2
    <3> QED
        BY <1>8, <2>1, <2>2, <3>1
  <2>3. CASE m + 1 \notin D
      BY <1>8, <2>1, <2>3
  <2> QED
      BY <2>2, <2>3
<1>11. 0 .. N \subseteq S
  <2> HIDE DEF S
  <2> QED
      BY <1>0, <1>9, <1>10, InductTo
<1>12. cut \in 0 .. N /\ cut \in S
    BY <1>11 DEF Places0, N
<1>13. shrink[cut] \in 0 .. cut /\ shrink[cut] \in 0 .. N /\ shrink[cut] \notin D
    BY <1>0, <1>12
<1> QED
    BY <1>0, <1>1, <1>4, <1>13 DEF Over

(* A chunk is within the budget, or too short to be cut further.           *)
Good(text, from, to) == Chunks!Fits(text, from, to) \/ to - from <= Floor

LEMMA HardCutIs ==
    ASSUME Chunks!ChunkerAssumption, NEW text \in Clauses, NEW from \in Places0(text),
           NEW to \in Places0(text), from < to
    PROVE  LET cut == Chunks!hardCut(text, from, to)
           IN  cut \in from + 1 .. to /\ Good(text, from, cut)
<1> DEFINE longest == from + MaxTokens * PerToken
           first == Chunks!Min({to, longest})
           shrunk == Chunks!Shrunk(text, from)[first]
           cut == Chunks!Max({shrunk, from + 1})
<1>0. /\ Len(text) \in Nat /\ from \in Nat /\ to \in Nat /\ to <= Len(text)
      /\ Floor \in Nat /\ MaxTokens \in Nat \ {0} /\ PerToken \in Nat
    BY DEF Places0, Clauses, Chunks!ChunkerAssumption
<1>1. Chunks!hardCut(text, from, to) = cut
    BY DEF Chunks!hardCut
<1>2. longest \in Nat
    BY <1>0
<1> HIDE DEF longest
<1>3. first \in Nat /\ first <= to
  <2>1. {to, longest} \subseteq 0 .. to + longest /\ to + longest \in Nat
      BY <1>0, <1>2
  <2>2. first \in {to, longest} /\ first <= to
      BY <2>1, ChunkMinMax
  <2> QED
      BY <1>0, <1>2, <2>2
<1> HIDE DEF first
<1>4. shrunk \in 0 .. first /\ (shrunk <= from + Floor \/ Chunks!Fits(text, from, shrunk))
  <2>1. first \in Places0(text)
      BY <1>0, <1>3 DEF Places0
  <2> QED
      BY <2>1, ShrinksTo
<1> HIDE DEF shrunk
<1>5. cut \in {shrunk, from + 1} /\ cut >= from + 1
  <2>1. {shrunk, from + 1} \subseteq 0 .. first + from + 1 /\ first + from + 1 \in Nat
      BY <1>0, <1>3, <1>4
  <2> QED
      BY <2>1, ChunkMinMax
<1> HIDE DEF cut
<1>6. cut \in from + 1 .. to
    BY <1>0, <1>3, <1>4, <1>5
<1>7. CASE cut = shrunk
    BY <1>0, <1>1, <1>4, <1>6, <1>7 DEF Good
<1>8. CASE cut = from + 1
  <2>1. Chunks!Tokens(text, from, from + 1) <= 1 /\ Chunks!Tokens(text, from, from + 1) \in Nat
    <3>1. from < Len(text) /\ from + 1 \in Places0(text) /\ from <= from + 1 /\ from <= from /\ from + 1 <= from + 1
        BY <1>0 DEF Places0
    <3> QED
        BY <3>1, TokensFew, TokensWithin
  <2> QED
      BY <1>0, <1>1, <1>6, <1>8, <2>1 DEF Good, Chunks!Fits
<1> QED
    BY <1>5, <1>7, <1>8

LEMMA NextStartIs ==
    ASSUME Chunks!ChunkerAssumption, NEW text \in Clauses, NEW bounds, Marked(text, bounds),
           NEW start \in Places0(text), NEW end \in Places0(text), start < end
    PROVE  LET next == Chunks!NextStart(text, bounds, start, end)
           IN  /\ next \in start + 1 .. end
               /\ Chunks!Tokens(text, next, end) <= OverlapTokens
<1> DEFINE T == {p \in bounds : start < p /\ p < end /\ Chunks!Tokens(text, p, end) <= OverlapTokens}
           next == Chunks!NextStart(text, bounds, start, end)
<1>0. Len(text) \in Nat /\ start \in Nat /\ end \in Nat /\ end <= Len(text) /\ OverlapTokens \in Nat
    BY DEF Places0, Clauses, Chunks!ChunkerAssumption
<1>1. next = Chunks!Min({end} \cup T)
    BY DEF Chunks!NextStart
<1>2. next \in {end} \cup T
  <2>1. {end} \cup T \subseteq 0 .. Len(text) /\ {end} \cup T # {}
      BY <1>0 DEF Marked, Places0
  <2> HIDE DEF T
  <2> QED
      BY <1>0, <1>1, <2>1, ChunkMinMax
<1>3. CASE next = end
  <2>1. Chunks!Tokens(text, end, end) = 0
      BY TokensFew
  <2> QED
      BY <1>0, <1>3, <2>1
<1>4. CASE next \in T
  <2>1. next \in bounds /\ start < next /\ next < end /\ Chunks!Tokens(text, next, end) <= OverlapTokens
    <3> HIDE DEF next
    <3> QED
        BY <1>4
  <2>2. next \in Nat
    <3> HIDE DEF next
    <3> QED
        BY <1>0, <2>1 DEF Marked, Places0
  <2> QED
      BY <1>0, <2>1, <2>2
<1> QED
    BY <1>2, <1>3, <1>4

(* A round of the loop.                                                    *)
AChunk(text) == [from: Places0(text), to: Places0(text)]
LoopState(text) ==
    {s \in [bounds: SUBSET Places0(text), start: Places0(text), chunks: Seq(AChunk(text))] :
       Len(text) \in s.bounds}

LEMMA EmitIs ==
    ASSUME Chunks!ChunkerAssumption, NEW text \in Clauses, NEW s \in LoopState(text), s.start < Len(text)
    PROVE  \E to \in Places0(text), next \in Places0(text) :
              /\ Chunks!Emit(text, s) = [bounds |-> s.bounds \cup {to}, start |-> next,
                                         chunks |-> Append(s.chunks, [from |-> s.start, to |-> to])]
              /\ s.start < to /\ Good(text, s.start, to)
              /\ s.start < next /\ next <= to /\ (next = Len(text) <=> to = Len(text))
              /\ Chunks!Tokens(text, next, to) <= OverlapTokens
              /\ \A b \in s.bounds : s.start < b /\ Chunks!Fits(text, s.start, b) => b <= to
<1> DEFINE end == Chunks!extendWhileFits(text, s.bounds, s.start)
           to == IF Chunks!Fits(text, s.start, end) THEN end ELSE Chunks!hardCut(text, s.start, end)
           bounds == s.bounds \cup {to}
           next == IF to >= Len(text) THEN to ELSE Chunks!NextStart(text, bounds, s.start, to)
<1>0. /\ s.start \in Places0(text) /\ s.bounds \subseteq Places0(text) /\ Marked(text, s.bounds)
      /\ Len(text) \in Nat /\ OverlapTokens \in Nat
    BY DEF LoopState, Marked, Clauses, Chunks!ChunkerAssumption
<1>1. Chunks!Emit(text, s) = [bounds |-> bounds, start |-> next,
                              chunks |-> Append(s.chunks, [from |-> s.start, to |-> to])]
    BY DEF Chunks!Emit
<1>2. /\ end \in s.bounds /\ s.start < end
      /\ \A b \in s.bounds : s.start < b /\ Chunks!Fits(text, s.start, b) =>
            b <= end /\ Chunks!Fits(text, s.start, end)
    BY <1>0, Extended
<1>3. end \in Places0(text)
    BY <1>0, <1>2
<1> HIDE DEF end
<1>4. to \in Places0(text) /\ s.start < to /\ Good(text, s.start, to)
  <2>1. CASE Chunks!Fits(text, s.start, end)
      BY <1>2, <1>3, <2>1 DEF Good
  <2>2. CASE ~Chunks!Fits(text, s.start, end)
    <3>1. to = Chunks!hardCut(text, s.start, end)
        BY <2>2
    <3>2. to \in s.start + 1 .. end /\ Good(text, s.start, to)
        BY <1>0, <1>2, <1>3, <3>1, HardCutIs
    <3> QED
        BY <1>0, <1>3, <3>2 DEF Places0
  <2> QED
      BY <2>1, <2>2
<1>5. \A b \in s.bounds : s.start < b /\ Chunks!Fits(text, s.start, b) => b <= to
    BY <1>2
<1> HIDE DEF to
<1>6. Marked(text, bounds)
    BY <1>0, <1>4 DEF Marked
<1>7. /\ next \in Places0(text) /\ s.start < next /\ next <= to /\ (next = Len(text) <=> to = Len(text))
      /\ Chunks!Tokens(text, next, to) <= OverlapTokens
  <2>1. CASE to >= Len(text)
    <3>1. next = to /\ to = Len(text)
        BY <1>0, <1>4, <2>1 DEF Places0
    <3>2. Chunks!Tokens(text, to, to) = 0
        BY <1>4, TokensFew
    <3> QED
        BY <1>0, <1>4, <3>1, <3>2 DEF Places0
  <2>2. CASE ~(to >= Len(text))
    <3>1. next = Chunks!NextStart(text, bounds, s.start, to)
        BY <2>2
    <3> HIDE DEF next, bounds
    <3>2. next \in s.start + 1 .. to /\ Chunks!Tokens(text, next, to) <= OverlapTokens
        BY <1>0, <1>4, <1>6, <3>1, NextStartIs
    <3> QED
        BY <1>0, <1>4, <2>2, <3>2 DEF Places0
  <2> QED
      BY <2>1, <2>2
<1> HIDE DEF next
<1> QED
    BY <1>1, <1>4, <1>5, <1>7

(* Two chunks that follow each other.                                      *)
Follows(text, c, d) ==
    /\ c.from < d.from /\ d.from <= c.to /\ c.to <= d.to
    /\ Chunks!Tokens(text, d.from, c.to) <= OverlapTokens

(* The last chunk, and where the next one starts.                          *)
ChunkEnds(text, s, l) ==
    /\ l.to \in s.bounds /\ l.from < s.start /\ s.start <= l.to
    /\ s.start = Len(text) <=> l.to = Len(text)
    /\ Chunks!Tokens(text, s.start, l.to) <= OverlapTokens

LoopInv(text, n, s) ==
    /\ s \in LoopState(text)
    /\ n <= s.start
    /\ s.chunks = <<>> => s.start = 0
    /\ s.chunks # <<>> => s.chunks[1].from = 0 /\ ChunkEnds(text, s, s.chunks[Len(s.chunks)])
    /\ \A i \in 1 .. Len(s.chunks) : Good(text, s.chunks[i].from, s.chunks[i].to)
    /\ \A i \in 1 .. Len(s.chunks) - 1 : Follows(text, s.chunks[i], s.chunks[i + 1])

LEMMA EmitKeeps ==
    ASSUME Chunks!ChunkerAssumption, NEW text \in Clauses, NEW n \in Nat, NEW s, LoopInv(text, n, s),
           s.start < Len(text)
    PROVE  LoopInv(text, n + 1, Chunks!Emit(text, s))
<1>0. s \in LoopState(text) /\ n <= s.start
    BY DEF LoopInv
<1>1. PICK to \in Places0(text), next \in Places0(text) :
              /\ Chunks!Emit(text, s) = [bounds |-> s.bounds \cup {to}, start |-> next,
                                         chunks |-> Append(s.chunks, [from |-> s.start, to |-> to])]
              /\ s.start < to /\ Good(text, s.start, to)
              /\ s.start < next /\ next <= to /\ (next = Len(text) <=> to = Len(text))
              /\ Chunks!Tokens(text, next, to) <= OverlapTokens
              /\ \A b \in s.bounds : s.start < b /\ Chunks!Fits(text, s.start, b) => b <= to
    BY <1>0, EmitIs
<1> DEFINE t == Chunks!Emit(text, s)
           c == [from |-> s.start, to |-> to]
           m == Len(s.chunks)
<1>2. t.bounds = s.bounds \cup {to} /\ t.start = next /\ t.chunks = Append(s.chunks, c)
    BY <1>1
<1>3. /\ s.chunks \in Seq(AChunk(text)) /\ c \in AChunk(text) /\ m \in Nat
      /\ s.start \in Places0(text) /\ s.bounds \subseteq Places0(text) /\ Len(text) \in s.bounds
      /\ Len(text) \in Nat /\ OverlapTokens \in 0 .. MaxTokens /\ MaxTokens \in Nat
    BY <1>0 DEF LoopState, AChunk, Clauses, Chunks!ChunkerAssumption
<1>4. c.from = s.start /\ c.to = to
    OBVIOUS
<1>5. t \in LoopState(text)
  <2> HIDE DEF c
  <2>1. Append(s.chunks, c) \in Seq(AChunk(text))
      BY <1>3
  <2>2. t = [bounds |-> s.bounds \cup {to}, start |-> next, chunks |-> Append(s.chunks, c)]
      BY <1>1 DEF c
  <2>3. [bounds |-> s.bounds \cup {to}, start |-> next, chunks |-> Append(s.chunks, c)] \in LoopState(text)
      BY <1>3, <2>1 DEF LoopState
  <2> QED
      BY <2>2, <2>3
<1> HIDE DEF c, t
<1>6. /\ Len(t.chunks) = m + 1 /\ t.chunks[m + 1] = c /\ t.chunks # <<>>
      /\ \A i \in 1 .. m : t.chunks[i] = s.chunks[i]
    BY <1>2, <1>3
<1>7. n + 1 <= t.start
    BY <1>0, <1>1, <1>2, <1>3 DEF Places0
<1>8. ChunkEnds(text, t, c)
    BY <1>1, <1>2, <1>4 DEF ChunkEnds
<1>9. t.chunks[1].from = 0
  <2>1. CASE s.chunks = <<>>
    <3>1. m = 0 /\ s.start = 0
        BY <2>1 DEF LoopInv
    <3> QED
        BY <1>4, <1>6, <3>1
  <2>2. CASE s.chunks # <<>>
    <3>1. 1 \in 1 .. m /\ s.chunks[1].from = 0
        BY <1>3, <2>2 DEF LoopInv
    <3> QED
        BY <1>6, <3>1
  <2> QED
      BY <2>1, <2>2
<1>10. \A i \in 1 .. m + 1 : Good(text, t.chunks[i].from, t.chunks[i].to)
  <2> TAKE i \in 1 .. m + 1
  <2>1. CASE i = m + 1
      BY <1>1, <1>4, <1>6, <2>1
  <2>2. CASE i # m + 1
    <3>1. i \in 1 .. m
        BY <1>3, <2>2
    <3>2. Good(text, s.chunks[i].from, s.chunks[i].to)
        BY <3>1 DEF LoopInv
    <3> QED
        BY <1>6, <3>1, <3>2
  <2> QED
      BY <2>1, <2>2
<1>11. s.chunks # <<>> => Follows(text, s.chunks[m], c)
  <2> SUFFICES ASSUME s.chunks # <<>> PROVE Follows(text, s.chunks[m], c)
      OBVIOUS
  <2> DEFINE l == s.chunks[m]
  <2>1. ChunkEnds(text, s, l)
      BY DEF LoopInv
  <2> HIDE DEF l
  <2>2. l.to \in Places0(text) /\ l.to \in s.bounds /\ l.from < s.start /\ s.start <= l.to
      BY <1>3, <2>1 DEF ChunkEnds
  <2>3. l.to <= to
    <3>1. CASE s.start = l.to
        BY <1>1, <1>3, <2>2, <3>1 DEF Places0
    <3>2. CASE s.start # l.to
      <4>1. s.start < l.to
          BY <1>3, <2>2, <3>2 DEF Places0
      <4>2. Chunks!Tokens(text, s.start, l.to) \in Nat
          BY <1>3, <2>2, TokensWithin DEF Places0
      <4>3. Chunks!Fits(text, s.start, l.to)
          BY <1>3, <2>1, <4>2 DEF ChunkEnds, Chunks!Fits
      <4> QED
          BY <1>1, <2>2, <4>1, <4>3
    <3> QED
        BY <3>1, <3>2
  <2>4. Follows(text, l, c)
      BY <1>4, <2>1, <2>2, <2>3 DEF Follows, ChunkEnds
  <2> QED
      BY <2>4 DEF l
<1>12. \A i \in 1 .. m : Follows(text, t.chunks[i], t.chunks[i + 1])
  <2> TAKE i \in 1 .. m
  <2>1. CASE i = m
    <3>1. s.chunks # <<>> /\ t.chunks[i] = s.chunks[m] /\ t.chunks[i + 1] = c
        BY <1>3, <1>6, <2>1
    <3> QED
        BY <1>11, <3>1
  <2>2. CASE i # m
    <3>1. i \in 1 .. m - 1 /\ i + 1 \in 1 .. m
        BY <1>3, <2>2
    <3>2. Follows(text, s.chunks[i], s.chunks[i + 1])
        BY <3>1 DEF LoopInv
    <3>3. t.chunks[i] = s.chunks[i] /\ t.chunks[i + 1] = s.chunks[i + 1]
        BY <1>6, <3>1
    <3> QED
        BY <3>2, <3>3
  <2> QED
      BY <2>1, <2>2
<1>13. Len(t.chunks) - 1 = m
    BY <1>3, <1>6
<1>14. LoopInv(text, n + 1, t)
    BY <1>5, <1>6, <1>7, <1>8, <1>9, <1>10, <1>12, <1>13 DEF LoopInv
<1> QED
    BY <1>14 DEF t

LEMMA RoundKeeps ==
    ASSUME Chunks!ChunkerAssumption, NEW text \in Clauses, NEW n \in 0 .. Len(text) - 1, NEW s, LoopInv(text, n, s)
    PROVE  LoopInv(text, n + 1, Chunks!Round(text, s))
<1>0. s.start \in Nat /\ Len(text) \in Nat
    BY DEF LoopInv, LoopState, Places0, Clauses
<1>1. CASE s.start >= Len(text)
  <2>1. Chunks!Round(text, s) = s /\ n + 1 <= s.start
      BY <1>0, <1>1 DEF Chunks!Round
  <2> QED
      BY <2>1 DEF LoopInv
<1>2. CASE s.start < Len(text)
  <2>1. Chunks!Round(text, s) = Chunks!Emit(text, s)
      BY <1>0, <1>2 DEF Chunks!Round
  <2> QED
      BY <1>0, <1>2, <2>1, EmitKeeps
<1> QED
    BY <1>0, <1>1, <1>2

LEMMA RoundTyped ==
    ASSUME Chunks!ChunkerAssumption, NEW text \in Clauses, NEW s \in LoopState(text)
    PROVE  Chunks!Round(text, s) \in LoopState(text)
<1>0. s.start \in Nat /\ Len(text) \in Nat
    BY DEF LoopState, Places0, Clauses
<1>1. CASE s.start >= Len(text)
    BY <1>1 DEF Chunks!Round
<1>2. CASE s.start < Len(text)
  <2>1. PICK to \in Places0(text), next \in Places0(text) :
              Chunks!Emit(text, s) = [bounds |-> s.bounds \cup {to}, start |-> next,
                                      chunks |-> Append(s.chunks, [from |-> s.start, to |-> to])]
      BY <1>2, EmitIs
  <2> DEFINE c == [from |-> s.start, to |-> to]
  <2>2. c \in AChunk(text) /\ s.chunks \in Seq(AChunk(text))
      BY DEF LoopState, AChunk
  <2> HIDE DEF c
  <2>3. Append(s.chunks, c) \in Seq(AChunk(text))
      BY <2>2
  <2>4. Chunks!Emit(text, s) = [bounds |-> s.bounds \cup {to}, start |-> next, chunks |-> Append(s.chunks, c)]
      BY <2>1 DEF c
  <2>5. [bounds |-> s.bounds \cup {to}, start |-> next, chunks |-> Append(s.chunks, c)] \in LoopState(text)
      BY <2>3 DEF LoopState
  <2> QED
      BY <1>0, <1>2, <2>4, <2>5 DEF Chunks!Round
<1> QED
    BY <1>0, <1>1, <1>2

(* The rounds, one after the other.                                        *)
Start0(text) == [bounds |-> Chunks!unitBoundaries(text), start |-> 0, chunks |-> <<>>]

LEMMA LoopsOf ==
    ASSUME Chunks!ChunkerAssumption, NEW text \in Clauses
    PROVE  LET loop == Chunks!Looped(text)
           IN  loop[0] = Start0(text) /\ \A k \in 1 .. Len(text) : loop[k] = Chunks!Round(text, loop[k - 1])
<1> DEFINE N == Len(text)
           V == LoopState(text)
           F == [k \in 1 .. N |-> [s \in V |-> Chunks!Round(text, s)]]
           Def(f) == f = [k \in 0 .. N |-> IF k = 0 THEN Start0(text) ELSE Chunks!Round(text, f[k - 1])]
           loop == CHOOSE f : Def(f)
<1>1. N \in Nat /\ Start0(text) \in V
  <2>1. Chunks!unitBoundaries(text) \subseteq 0 .. N /\ N \in Chunks!unitBoundaries(text) /\ 0 \in 0 .. N
      BY DEF Chunks!unitBoundaries, Chunks!UnitEnds, Clauses
  <2> QED
      BY <2>1 DEF Start0, LoopState, Places0, Clauses
<1>2. \A s \in V : Chunks!Round(text, s) \in V
    BY RoundTyped
<1>3. Chunks!Looped(text) = loop
    BY DEF Chunks!Looped, Start0
<1>4. PICK f : Unfolds(f, N, V, Start0(text), F)
  <2> HIDE DEF V, N
  <2>1. F \in Steps(N, V)
      BY <1>2 DEF Steps
  <2> HIDE DEF F
  <2> QED
      BY <1>1, <2>1, Recursion
<1> HIDE DEF V
<1>5. \A k \in 1 .. N : f[k] = Chunks!Round(text, f[k - 1])
  <2> TAKE k \in 1 .. N
  <2>1. f[k - 1] \in V
      BY <1>1, <1>4 DEF Unfolds
  <2> QED
      BY <2>1, <1>4 DEF Unfolds
<1>6. Def(f)
    BY <1>4, <1>5 DEF Unfolds
<1>7. Def(loop)
    BY <1>6
<1> HIDE DEF loop
<1>8. loop[0] = Start0(text) /\ \A k \in 1 .. N : loop[k] = Chunks!Round(text, loop[k - 1])
    BY <1>1, <1>7
<1> QED
    BY <1>3, <1>8

LEMMA LoopsHold ==
    ASSUME Chunks!ChunkerAssumption, NEW text \in Clauses
    PROVE  LoopInv(text, Len(text), Chunks!Looped(text)[Len(text)])
<1> DEFINE N == Len(text)
           loop == Chunks!Looped(text)
           S == {k \in Nat : LoopInv(text, k, loop[k])}
<1>0. N \in Nat
    BY DEF Clauses
<1>1. loop[0] = Start0(text) /\ \A k \in 1 .. N : loop[k] = Chunks!Round(text, loop[k - 1])
    BY LoopsOf
<1> HIDE DEF loop
<1>2. 0 \in S
  <2> DEFINE s == Start0(text)
  <2>1. s.bounds = Chunks!unitBoundaries(text) /\ s.start = 0 /\ s.chunks = <<>> /\ Len(s.chunks) = 0
      BY DEF Start0
  <2>2. s \in LoopState(text)
    <3>1. Chunks!unitBoundaries(text) \subseteq 0 .. N /\ N \in Chunks!unitBoundaries(text) /\ 0 \in 0 .. N
        BY DEF Chunks!unitBoundaries, Chunks!UnitEnds, Clauses
    <3> QED
        BY <3>1 DEF Start0, LoopState, Places0, Clauses
  <2> HIDE DEF s
  <2>3. LoopInv(text, 0, s)
      BY <2>1, <2>2 DEF LoopInv
  <2> QED
      BY <1>1, <2>3 DEF s
<1>3. \A k \in 0 .. N - 1 : k \in S => k + 1 \in S
  <2> SUFFICES ASSUME NEW k \in 0 .. N - 1, LoopInv(text, k, loop[k]) PROVE LoopInv(text, k + 1, loop[k + 1])
      BY <1>0
  <2>1. k + 1 \in 1 .. N /\ (k + 1) - 1 = k
      BY <1>0
  <2> HIDE DEF S
  <2>2. loop[k + 1] = Chunks!Round(text, loop[k])
      BY <1>1, <2>1
  <2> QED
      BY <2>2, RoundKeeps
<1>4. 0 .. N \subseteq S
  <2> HIDE DEF S
  <2> QED
      BY <1>0, <1>2, <1>3, InductTo
<1>5. N \in S
    BY <1>0, <1>4
<1> QED
    BY <1>5 DEF loop

(* The chunks of a clause, of whatever length.                             *)
LEMMA ChunksHold ==
    ASSUME Chunks!ChunkerAssumption, NEW text \in Clauses
    PROVE  Chunks!Covers(text) /\ Chunks!WithinBudget(text)
<1> DEFINE N == Len(text)
           c == Chunks!chunkClause(text)
<1>0. N \in Nat
    BY DEF Clauses
<1>1. CASE Chunks!Fits(text, 0, N)
  <2>1. c = <<[from |-> 0, to |-> N]>>
      BY <1>1 DEF Chunks!chunkClause
  <2>2. Len(c) = 1 /\ c[1].from = 0 /\ c[1].to = N /\ Chunks!Last(c) = c[1]
      BY <2>1 DEF Chunks!Last
  <2> HIDE DEF c
  <2>3. \A i \in 1 .. Len(c) : Chunks!Fits(text, c[i].from, c[i].to)
      BY <1>1, <2>2
  <2>4. 1 .. Len(c) - 1 = {}
      BY <2>2
  <2>5. Chunks!Covers(text)
      BY <2>2, <2>4 DEF Chunks!Covers, c
  <2>6. Chunks!WithinBudget(text)
      BY <2>3, <2>4 DEF Chunks!WithinBudget, c
  <2> QED
      BY <2>5, <2>6
<1>2. CASE ~Chunks!Fits(text, 0, N)
  <2> DEFINE s == Chunks!Looped(text)[N]
  <2>1. c = s.chunks
      BY <1>2 DEF Chunks!chunkClause
  <2>2. LoopInv(text, N, s)
      BY LoopsHold
  <2> HIDE DEF s, c
  <2>3. N > 0
    <3>1. SUFFICES ASSUME N = 0 PROVE FALSE
        BY <1>0
    <3>2. 0 \in Places0(text)
        BY <1>0 DEF Places0
    <3>3. Chunks!Tokens(text, 0, 0) = 0
        BY <3>2, TokensFew
    <3> QED
        BY <1>2, <3>1, <3>3 DEF Chunks!Fits, Chunks!ChunkerAssumption
  <2>4. s.start = N /\ s.chunks \in Seq(AChunk(text))
      BY <1>0, <2>2 DEF LoopInv, LoopState, Places0
  <2>5. c # <<>>
      BY <2>1, <2>2, <2>3, <2>4 DEF LoopInv
  <2>6. c[1].from = 0 /\ c[Len(c)].to = N
      BY <2>1, <2>2, <2>4, <2>5 DEF LoopInv, ChunkEnds
  <2>7. \A i \in 1 .. Len(c) - 1 : Follows(text, c[i], c[i + 1])
      BY <2>1, <2>2 DEF LoopInv
  <2>8. \A i \in 1 .. Len(c) : Good(text, c[i].from, c[i].to)
      BY <2>1, <2>2 DEF LoopInv
  <2>9. Chunks!Covers(text)
      BY <2>6, <2>7 DEF Chunks!Covers, Chunks!Last, Follows, c
  <2>10. Chunks!WithinBudget(text)
      BY <2>7, <2>8 DEF Chunks!WithinBudget, Follows, Good, c
  <2> QED
      BY <2>9, <2>10
<1> QED
    BY <1>1, <1>2

-----------------------------------------------------------------------------
(***************************************************************************)
(* The clauses of a document.                                              *)
(***************************************************************************)
Documents == Seq(Segments!Blocks)
Match(blocks, j) == Segments!candidateMatch(blocks[j])
Kinds == Segments!Keywords \cup {"decimal", "seq", "front-matter"}

(* What a block matches: an annex alone is of depth 0.                     *)
IsHeading(m) ==
    /\ m # Segments!NoMatch
    /\ m.kind \in Kinds /\ m.number \in Seq(Nat) /\ m.depth \in Nat /\ m.opensScope \in BOOLEAN
    /\ m.opensScope <=> m.depth = 0

LEMMA MatchIs ==
    ASSUME NEW b \in Segments!Blocks
    PROVE  Segments!candidateMatch(b) = Segments!NoMatch \/ IsHeading(Segments!candidateMatch(b))
<1> DEFINE l == b.lead
           m == Segments!Heading(l)
<1>1. /\ l.keyword \in Segments!Keywords \cup {"decimal", "none"} /\ l.number \in Seq(Nat)
      /\ l.keyword \in Segments!Outlined => l.number # <<>>
  <2>1. l \in Segments!Leads
      BY DEF Segments!Blocks
  <2> QED
      BY <2>1 DEF Segments!Leads
<1>2. ASSUME l.keyword \in Segments!Keywords \cup {"decimal"} PROVE IsHeading(m)
  <2>1. m.kind = l.keyword /\ m.number = l.number /\ m.depth = Segments!Depth(l)
        /\ m.opensScope = (l.keyword \in Segments!Opens)
      BY DEF Segments!Heading
  <2>n. \A d \in Nat : m.depth = d => m # Segments!NoMatch
    <3>1. Segments!NoMatch.depth = -1
        BY DEF Segments!NoMatch
    <3> HIDE DEF m
    <3> QED
        BY <3>1
  <2> HIDE DEF l, m
  <2>2. CASE l.keyword = "annex"
    <3>1. m.depth = 0 /\ m.opensScope = TRUE
        BY <2>1, <2>2 DEF Segments!Depth, Segments!Opens
    <3> QED
        BY <1>1, <1>2, <2>1, <2>n, <3>1 DEF IsHeading, Kinds
  <2>3. CASE l.keyword \in {"paragraph", "article", "preamble"}
    <3>1. m.depth = 1 /\ m.opensScope = FALSE
      <4>1. Segments!Depth(l) = 1
          BY <2>3 DEF Segments!Depth
      <4>2. l.keyword \notin Segments!Opens
          BY <2>3 DEF Segments!Opens
      <4>3. (l.keyword \in Segments!Opens) = FALSE
          BY <4>2
      <4> QED
          BY <2>1, <4>1, <4>3
    <3> QED
        BY <1>1, <1>2, <2>1, <2>n, <3>1 DEF IsHeading, Kinds
  <2>4. CASE l.keyword \in {"ziffer", "section", "decimal"}
    <3>1. m.depth = Len(l.number) /\ m.opensScope = FALSE
      <4>1. Segments!Depth(l) = Len(l.number)
          BY <2>4 DEF Segments!Depth
      <4>2. l.keyword \notin Segments!Opens
          BY <2>4 DEF Segments!Opens
      <4>3. (l.keyword \in Segments!Opens) = FALSE
          BY <4>2
      <4> QED
          BY <2>1, <4>1, <4>3
    <3>2. Len(l.number) \in Nat \ {0}
        BY <1>1, <2>4 DEF Segments!Outlined
    <3> QED
        BY <1>1, <1>2, <2>1, <2>n, <3>1, <3>2 DEF IsHeading, Kinds
  <2> QED
      BY <1>2, <2>2, <2>3, <2>4 DEF Segments!Keywords
<1>3. Segments!candidateMatch(b) \in {Segments!NoMatch, m}
    BY DEF Segments!candidateMatch, Segments!matchHeading
<1>4. Segments!candidateMatch(b) # Segments!NoMatch => l.keyword \in Segments!Keywords \cup {"decimal"}
    BY DEF Segments!candidateMatch, Segments!matchHeading
<1> QED
    BY <1>2, <1>3, <1>4

(* Where a block starts.                                                   *)
LEMMA Starts ==
    ASSUME Segments!SegmenterAssumption
    PROVE  /\ Segments!Start(1) = 0
           /\ \A n \in Nat : /\ Segments!Start(n + 1) \in Nat
                             /\ Segments!Start(n + 2) = Segments!Start(n + 1) + (BlockLength + 1)
                             /\ Segments!Start(n + 1) = n * (BlockLength + 1)
<1>1. BlockLength + 1 \in Nat
    BY DEF Segments!SegmenterAssumption
<1> DEFINE L == BlockLength + 1
<1> HIDE DEF L
<1>2. L \in Nat
    BY <1>1 DEF L
<1>3. \A n \in Nat : n * L \in Nat /\ (n + 1) * L = n * L + L /\ 0 * L = 0
    BY <1>2
<1>4. \A n \in Nat : (n + 1) - 1 = n /\ (n + 2) - 1 = n + 1
    OBVIOUS
<1>5. \A i : Segments!Start(i) = (i - 1) * L
    BY DEF Segments!Start, L
<1> QED
  <2>1. \A n \in Nat : Segments!Start(n + 1) = n * L /\ Segments!Start(n + 2) = (n + 1) * L
      BY <1>4, <1>5
  <2>2. Segments!Start(1) = 0 * L
      BY <1>5
  <2> QED
      BY <2>1, <2>2, <1>3 DEF L

LEMMA StartsGrow ==
    ASSUME Segments!SegmenterAssumption, NEW i \in Nat \ {0}, NEW j \in Nat, i < j
    PROVE  Segments!Start(i) \in Nat /\ Segments!Start(j) \in Nat /\ Segments!Start(i) < Segments!Start(j) - 1
<1> DEFINE S == {n \in Nat : Segments!Start(i) < Segments!Start(i + n + 1) - 1}
<1>0. BlockLength \in Nat \ {0}
    BY DEF Segments!SegmenterAssumption
<1>1. \A k \in Nat \ {0} : Segments!Start(k) \in Nat /\ Segments!Start(k + 1) = Segments!Start(k) + (BlockLength + 1)
  <2> TAKE k \in Nat \ {0}
  <2>1. k - 1 \in Nat /\ (k - 1) + 1 = k /\ (k - 1) + 2 = k + 1
      OBVIOUS
  <2> QED
      BY <2>1, Starts
<1>2. 0 \in S
  <2>1. Segments!Start(i + 1) = Segments!Start(i) + (BlockLength + 1) /\ Segments!Start(i) \in Nat
      BY <1>1
  <2>2. i + 0 + 1 = i + 1
      OBVIOUS
  <2> QED
      BY <1>0, <2>1, <2>2
<1>3. \A n \in Nat : n \in S => n + 1 \in S
  <2> SUFFICES ASSUME NEW n \in Nat, Segments!Start(i) < Segments!Start(i + n + 1) - 1
               PROVE  Segments!Start(i) < Segments!Start(i + (n + 1) + 1) - 1
      OBVIOUS
  <2>1. i + n + 1 \in Nat \ {0} /\ i + (n + 1) + 1 = (i + n + 1) + 1
      OBVIOUS
  <2> DEFINE k == i + n + 1
  <2> HIDE DEF k, S
  <2>2. Segments!Start(k + 1) = Segments!Start(k) + (BlockLength + 1) /\ Segments!Start(k) \in Nat
      BY <1>1, <2>1 DEF k
  <2>3. Segments!Start(i) \in Nat /\ Segments!Start(i) < Segments!Start(k) - 1
      BY <1>1 DEF k
  <2>4. Segments!Start(i) < Segments!Start(k + 1) - 1
      BY <1>0, <2>2, <2>3
  <2> QED
      BY <2>1, <2>4 DEF k
<1>4. Nat \subseteq S
  <2> HIDE DEF S
  <2> QED
      BY <1>2, <1>3, Induct
<1>5. j - i - 1 \in Nat /\ i + (j - i - 1) + 1 = j /\ j \in Nat \ {0}
    OBVIOUS
<1>6. j - i - 1 \in S
    BY <1>4, <1>5
<1>7. Segments!Start(i) < Segments!Start(i + (j - i - 1) + 1) - 1
    BY <1>6
<1> QED
    BY <1>1, <1>5, <1>7

LEMMA SegmentMinMax ==
    ASSUME NEW T, NEW n \in Nat, T \subseteq 0 .. n, T # {}
    PROVE  /\ Segments!Min(T) \in T /\ \A y \in T : Segments!Min(T) <= y
           /\ Segments!Max(T) \in T /\ \A y \in T : Segments!Max(T) >= y
BY Chosen DEF Segments!Min, Segments!Max

(* Clauses begin somewhere.                                                *)
LEMMA BoundariesAre ==
    ASSUME Segments!SegmenterAssumption, NEW blocks \in Documents
    PROVE  /\ Segments!boundaries(blocks) \subseteq 1 .. Len(blocks)
           /\ Segments!Headed(blocks) \subseteq 1 .. Len(blocks)
           /\ blocks # <<>> => Segments!boundaries(blocks) # {}
           /\ Segments!Headed(blocks) # {} => Segments!boundaries(blocks) = Segments!Headed(blocks)
<1>1. Len(blocks) \in Nat /\ DOMAIN blocks = 1 .. Len(blocks)
    BY DEF Documents
<1>2. Segments!boundaries(blocks) \subseteq 1 .. Len(blocks) /\ Segments!Headed(blocks) \subseteq 1 .. Len(blocks)
    BY <1>1 DEF Segments!boundaries, Segments!fallbackBoundaries, Segments!Headed
<1>3. blocks # <<>> => 1 \in {i \in DOMAIN blocks : i % BlockWindow = 1}
    BY <1>1 DEF Segments!SegmenterAssumption, Documents
<1> QED
    BY <1>2, <1>3 DEF Segments!boundaries, Segments!fallbackBoundaries, Documents

Paths == [scope: Seq(Seq(Nat)), kind: Kinds, number: Seq(Nat), copy: Nat]
BlockNumbers(blocks) == 1 .. Len(blocks)
AClause(blocks) ==
    [charStart: Int, charEnd: Int, block: BlockNumbers(blocks), path: Paths,
     headingPath: Seq(BlockNumbers(blocks))]
AHeading(blocks) == [depth: Int, block: BlockNumbers(blocks)]
WalkState(blocks) ==
    {a \in [clauses: Seq(AClause(blocks)), used: SUBSET Paths, scope: Seq(Segments!Headed(blocks)),
            stack: Seq(AHeading(blocks))] : IsFiniteSet(a.used)}

(* A path in use has a number that frees it: there are more numbers than   *)
(* paths in use.                                                           *)
LEMMA Deduped ==
    ASSUME NEW path \in Paths, NEW used \in SUBSET Paths, IsFiniteSet(used)
    PROVE  Segments!dedupePath(path, used) \in Paths \ used
<1> DEFINE count == Cardinality(used)
           D == 2 .. count + 2
           Copy(n) == [path EXCEPT !.copy = n]
           T == {n \in D : Copy(n) \notin used}
<1>0. Segments!Cardinality(used) = count
    BY DEF Segments!Cardinality, Cardinality
<1>1. count \in Nat
    BY FS_CardinalityType
<1>2. \A n \in Nat : Copy(n) \in Paths /\ Copy(n).copy = n
    BY DEF Paths
<1>3. T # {}
  <2> SUFFICES ASSUME T = {} PROVE FALSE
      OBVIOUS
  <2> DEFINE f == [n \in D |-> Copy(n)]
  <2> HIDE DEF Copy
  <2>1. f \in [D -> used]
      OBVIOUS
  <2> HIDE DEF f, count
  <2>2. IsFiniteSet(D) /\ Cardinality(D) = count + 1
      BY <1>1, FS_Interval
  <2>3. count = Cardinality(used)
      BY DEF count
  <2> HIDE DEF D
  <2>4. \E x, y \in D : x # y /\ f[x] = f[y]
      BY <1>1, <2>1, <2>2, <2>3, FS_PigeonHole
  <2>5. \A x \in D : f[x] = Copy(x) /\ x \in Nat
      BY <1>1 DEF f, D
  <2> QED
      BY <1>2, <2>4, <2>5
<1>4. Segments!Min(T) \in T
  <2>1. T \subseteq 0 .. count + 2 /\ count + 2 \in Nat
      BY <1>1
  <2> HIDE DEF T
  <2> QED
      BY <1>3, <2>1, SegmentMinMax
<1>5. Segments!Min(T) \in Nat /\ Copy(Segments!Min(T)) \notin used
  <2> HIDE DEF Copy, count
  <2> QED
      BY <1>1, <1>4
<1>6. path \in used => Segments!dedupePath(path, used) = Copy(Segments!Min(T))
    BY <1>0 DEF Segments!dedupePath
<1> HIDE DEF T, Copy
<1>7. CASE path \in used
    BY <1>2, <1>5, <1>6, <1>7
<1>8. CASE path \notin used
    BY <1>8 DEF Segments!dedupePath
<1> QED
    BY <1>7, <1>8

(* Another clause.                                                         *)
NewClause(acc, from, to, path, headings) ==
    [charStart |-> Segments!Start(from), charEnd |-> to, block |-> from,
     path |-> Segments!dedupePath(path, acc.used), headingPath |-> headings]

LEMMA ClauseIs ==
    ASSUME Segments!SegmenterAssumption, NEW blocks \in Documents, NEW acc \in WalkState(blocks),
           NEW from \in BlockNumbers(blocks), NEW to \in Int, NEW path \in Paths,
           NEW headings \in Seq(BlockNumbers(blocks))
    PROVE  LET c == NewClause(acc, from, to, path, headings)
               next == Segments!Clause(blocks, acc, from, to, path, headings)
           IN  /\ c \in AClause(blocks) /\ c.path \notin acc.used
               /\ next \in WalkState(blocks)
               /\ next.clauses = Append(acc.clauses, c) /\ next.used = acc.used \cup {c.path}
               /\ next.scope = acc.scope /\ next.stack = acc.stack
<1> DEFINE unique == Segments!dedupePath(path, acc.used)
           c == NewClause(acc, from, to, path, headings)
           next == Segments!Clause(blocks, acc, from, to, path, headings)
<1>1. /\ acc.clauses \in Seq(AClause(blocks)) /\ acc.used \in SUBSET Paths /\ IsFiniteSet(acc.used)
      /\ acc.scope \in Seq(Segments!Headed(blocks)) /\ acc.stack \in Seq(AHeading(blocks))
      /\ acc = [clauses |-> acc.clauses, used |-> acc.used, scope |-> acc.scope, stack |-> acc.stack]
    BY DEF WalkState
<1>2. unique \in Paths /\ unique \notin acc.used
    BY <1>1, Deduped
<1>3. next = [acc EXCEPT !.used = acc.used \cup {unique}, !.clauses = Append(acc.clauses, c)]
    BY DEF Segments!Clause, NewClause
<1>4. c.path = unique
    BY DEF NewClause
<1>5. c \in AClause(blocks)
  <2>1. from \in Nat \ {0}
      BY DEF BlockNumbers, Documents
  <2>2. from < from + 1 /\ from + 1 \in Nat
      BY <2>1
  <2>3. Segments!Start(from) \in Nat
      BY <2>1, <2>2, StartsGrow
  <2> QED
      BY <1>2, <2>3 DEF NewClause, AClause
<1> HIDE DEF c, unique
<1>6. next = [clauses |-> Append(acc.clauses, c), used |-> acc.used \cup {unique}, scope |-> acc.scope,
              stack |-> acc.stack]
  <2> HIDE DEF next
  <2> QED
      BY <1>1, <1>3
<1>7. Append(acc.clauses, c) \in Seq(AClause(blocks))
    BY <1>1, <1>5
<1>8. IsFiniteSet(acc.used \cup {unique})
    BY <1>1, FS_AddElement
<1> HIDE DEF next
<1>9. next.clauses = Append(acc.clauses, c) /\ next.used = acc.used \cup {unique}
      /\ next.scope = acc.scope /\ next.stack = acc.stack
    BY <1>6
<1>10. next \in WalkState(blocks)
  <2> DEFINE more == Append(acc.clauses, c)
             taken == acc.used \cup {unique}
  <2>1. more \in Seq(AClause(blocks)) /\ taken \in SUBSET Paths /\ IsFiniteSet(taken)
      BY <1>1, <1>2, <1>7, <1>8
  <2> HIDE DEF more, taken
  <2>2. [clauses |-> more, used |-> taken, scope |-> acc.scope, stack |-> acc.stack] \in WalkState(blocks)
      BY <1>1, <2>1 DEF WalkState
  <2> QED
      BY <1>6, <2>2 DEF more, taken
<1> QED
    BY <1>2, <1>4, <1>5, <1>9, <1>10 DEF c, next

(* The boundary after a block, and where the clause ends that is open.     *)
LEMMA FollowingIs ==
    ASSUME Segments!SegmenterAssumption, NEW blocks \in Documents, NEW at \in SUBSET BlockNumbers(blocks),
           NEW i \in 0 .. Len(blocks)
    PROVE  LET j == Segments!Following(blocks, at, i)
           IN  /\ j \in i + 1 .. Len(blocks) + 1 /\ j \in at \cup {Len(blocks) + 1}
               /\ Segments!EndOf(blocks, at, i) = Segments!Start(j) - 1
               /\ Segments!Start(j) \in Nat
               /\ i # 0 => Segments!Following(blocks, at, i - 1) = IF i \in at THEN i ELSE j
               /\ at # {} => Segments!Following(blocks, at, 0) = Segments!Min(at)
               /\ i = Len(blocks) => j = Len(blocks) + 1
<1> DEFINE N == Len(blocks)
           After(k) == {j \in at : j > k} \cup {N + 1}
<1>0. N \in Nat /\ at \subseteq 1 .. N
    BY DEF Documents, BlockNumbers
<1>1. \A k : Segments!Following(blocks, at, k) = Segments!Min(After(k))
    BY DEF Segments!Following
<1>2. \A k \in 0 .. N : /\ Segments!Min(After(k)) \in After(k) /\ \A y \in After(k) : Segments!Min(After(k)) <= y
  <2> TAKE k \in 0 .. N
  <2>1. After(k) \subseteq 0 .. N + 1 /\ After(k) # {} /\ N + 1 \in Nat
    <3> HIDE DEF N
    <3>1. N + 1 \in After(k) /\ N + 1 \in Nat
        BY <1>0
    <3>2. After(k) \subseteq 0 .. N + 1
      <4>1. \A y \in at : y \in 0 .. N + 1
          BY <1>0
      <4>2. N + 1 \in 0 .. N + 1
          BY <1>0
      <4> QED
          BY <4>1, <4>2
    <3> QED
        BY <3>1, <3>2
  <2> HIDE DEF After
  <2> QED
      BY <2>1, SegmentMinMax
<1> DEFINE j == Segments!Following(blocks, at, i)
<1>3. j \in After(i) /\ \A y \in After(i) : j <= y
    BY <1>1, <1>2
<1> HIDE DEF j
<1>4. j \in i + 1 .. N + 1 /\ j \in at \cup {N + 1} /\ (i = N => j = N + 1)
    BY <1>0, <1>3
<1>5. Segments!EndOf(blocks, at, i) = Segments!Start(j) - 1
    BY DEF Segments!EndOf, j
<1>6. Segments!Start(j) \in Nat
  <2>1. j \in Nat \ {0} /\ j + 1 \in Nat /\ j < j + 1
      BY <1>0, <1>4
  <2> QED
      BY <2>1, StartsGrow
<1>7. i # 0 => Segments!Following(blocks, at, i - 1) = IF i \in at THEN i ELSE j
  <2> SUFFICES ASSUME i # 0 PROVE Segments!Following(blocks, at, i - 1) = IF i \in at THEN i ELSE j
      OBVIOUS
  <2> DEFINE b == Segments!Min(After(i - 1))
  <2>1. i - 1 \in 0 .. N
      BY <1>0
  <2>2. b \in After(i - 1) /\ \A y \in After(i - 1) : b <= y
      BY <1>2, <2>1
  <2> HIDE DEF b
  <2>3. CASE i \in at
    <3>1. i \in After(i - 1)
        BY <1>0, <2>3
    <3>2. b = i
        BY <1>0, <2>2, <3>1
    <3> QED
        BY <1>1, <2>3, <3>2 DEF b
  <2>4. CASE i \notin at
    <3>1. After(i - 1) = After(i)
        BY <1>0, <2>4
    <3> QED
        BY <1>1, <2>4, <3>1 DEF j
  <2> QED
      BY <2>3, <2>4
<1>8. at # {} => Segments!Following(blocks, at, 0) = Segments!Min(at)
  <2> SUFFICES ASSUME at # {} PROVE Segments!Following(blocks, at, 0) = Segments!Min(at)
      OBVIOUS
  <2> DEFINE b == Segments!Min(After(0))
             m == Segments!Min(at)
  <2>1. b \in After(0) /\ \A y \in After(0) : b <= y
      BY <1>0, <1>2
  <2>2. m \in at /\ \A y \in at : m <= y
    <3>1. at \subseteq 0 .. N
        BY <1>0
    <3> QED
        BY <1>0, <3>1, SegmentMinMax
  <2> HIDE DEF b, m
  <2>3. m \in After(0) /\ (b # m => b \in at \/ b = N + 1)
      BY <1>0, <2>1, <2>2
  <2>4. b = m
      BY <1>0, <2>1, <2>2, <2>3
  <2> QED
      BY <1>1, <2>4 DEF b, m
<1> QED
    BY <1>4, <1>5, <1>6, <1>7, <1>8 DEF j

LEMMA PopIs ==
    ASSUME NEW blocks \in Documents, NEW stack \in Seq(AHeading(blocks)), NEW depth \in Int
    PROVE  \E p \in 0 .. Len(stack) :
              /\ Segments!Pop(stack, depth) = SubSeq(stack, 1, p)
              /\ p # 0 => stack[p].depth < depth
              /\ \A k \in p + 1 .. Len(stack) : stack[k].depth >= depth
<1> DEFINE n == Len(stack)
           keep == {k \in 0 .. n : k = 0 \/ stack[k].depth < depth}
           p == Segments!Max(keep)
<1>1. n \in Nat
    OBVIOUS
<1> HIDE DEF n
<1>2. keep \subseteq 0 .. n /\ keep # {}
    BY <1>1
<1> HIDE DEF keep
<1>3. p \in keep /\ \A y \in keep : p >= y
    BY <1>1, <1>2, SegmentMinMax
<1>4. Segments!Pop(stack, depth) = SubSeq(stack, 1, p)
    BY DEF Segments!Pop, keep, n
<1> HIDE DEF p
<1>5. p \in 0 .. n /\ (p # 0 => stack[p].depth < depth)
    BY <1>3 DEF keep
<1>6. \A k \in p + 1 .. n : stack[k].depth >= depth
  <2> SUFFICES ASSUME NEW k \in p + 1 .. n, ~(stack[k].depth >= depth) PROVE FALSE
      OBVIOUS
  <2>1. k \in 1 .. n /\ k > p
      BY <1>1, <1>5
  <2>2. stack[k] \in AHeading(blocks)
      BY <2>1 DEF n
  <2>3. stack[k].depth < depth
      BY <2>2 DEF AHeading
  <2>4. k \in keep
      BY <2>1, <2>3, <1>1 DEF keep
  <2> QED
      BY <1>1, <1>3, <1>5, <2>1, <2>4
<1> QED
    BY <1>4, <1>5, <1>6 DEF n

(* What one boundary adds, and leaves open.                                *)
Numbers(blocks, scope) == [k \in DOMAIN scope |-> Match(blocks, scope[k]).number]
BlocksOf(stack) == [k \in DOMAIN stack |-> stack[k].block]
Pushed(stack, m, i) == Append(Segments!Pop(stack, m.depth), [depth |-> m.depth, block |-> i])
OpensAt(blocks, acc, i, next, c) ==
    LET m == Match(blocks, i)
    IN  \/ m = Segments!NoMatch /\ next.scope = acc.scope /\ next.stack = acc.stack /\ c.headingPath = <<>>
        \/ /\ IsHeading(m) /\ m.opensScope
           /\ next.scope = <<i>> /\ next.stack = <<>> /\ c.headingPath = <<i>>
        \/ /\ IsHeading(m) /\ ~m.opensScope
           /\ next.scope = acc.scope /\ next.stack = Pushed(acc.stack, m, i)
           /\ c.headingPath = acc.scope \o BlocksOf(next.stack)
Adds(blocks, acc, next, c, from, to) ==
    /\ next \in WalkState(blocks) /\ c \in AClause(blocks) /\ c.path \notin acc.used
    /\ next.clauses = Append(acc.clauses, c) /\ next.used = acc.used \cup {c.path}
    /\ c.charStart = Segments!Start(from) /\ c.charEnd = to /\ c.block = from

LEMMA BlocksTyped ==
    ASSUME NEW blocks \in Documents, NEW stack \in Seq(AHeading(blocks))
    PROVE  BlocksOf(stack) \in Seq(BlockNumbers(blocks)) /\ Len(BlocksOf(stack)) = Len(stack)
<1>1. DOMAIN stack = 1 .. Len(stack) /\ Len(stack) \in Nat
    OBVIOUS
<1>2. \A k \in DOMAIN stack : stack[k].block \in BlockNumbers(blocks)
  <2> TAKE k \in DOMAIN stack
  <2>1. stack[k] \in AHeading(blocks)
      BY <1>1
  <2> QED
      BY <2>1 DEF AHeading
<1>3. BlocksOf(stack) \in [1 .. Len(stack) -> BlockNumbers(blocks)]
    BY <1>1, <1>2 DEF BlocksOf
<1> QED
    BY <1>1, <1>3

LEMMA ClauseAdds ==
    ASSUME Segments!SegmenterAssumption, NEW blocks \in Documents, NEW acc \in WalkState(blocks),
           NEW from \in BlockNumbers(blocks), NEW to \in Int, NEW path \in Paths,
           NEW headings \in Seq(BlockNumbers(blocks)),
           NEW next, next = Segments!Clause(blocks, acc, from, to, path, headings)
    PROVE  /\ Adds(blocks, acc, next, NewClause(acc, from, to, path, headings), from, to)
           /\ next.scope = acc.scope /\ next.stack = acc.stack
           /\ NewClause(acc, from, to, path, headings).headingPath = headings
<1> DEFINE c == NewClause(acc, from, to, path, headings)
<1>1. c.charStart = Segments!Start(from) /\ c.charEnd = to /\ c.block = from /\ c.headingPath = headings
    BY DEF NewClause
<1> HIDE DEF c
<1>2. /\ c \in AClause(blocks) /\ c.path \notin acc.used
      /\ next \in WalkState(blocks)
      /\ next.clauses = Append(acc.clauses, c) /\ next.used = acc.used \cup {c.path}
      /\ next.scope = acc.scope /\ next.stack = acc.stack
    BY ClauseIs DEF c
<1> QED
    BY <1>1, <1>2 DEF Adds, c

LEMMA StepIs ==
    ASSUME Segments!SegmenterAssumption, NEW blocks \in Documents, NEW at \in SUBSET BlockNumbers(blocks),
           NEW acc \in WalkState(blocks), NEW i \in at
    PROVE  \E c : /\ Adds(blocks, acc, Segments!Step(blocks, acc, at, i), c, i, Segments!EndOf(blocks, at, i))
                  /\ OpensAt(blocks, acc, i, Segments!Step(blocks, acc, at, i), c)
<1> DEFINE N == Len(blocks)
           m == Match(blocks, i)
           to == Segments!EndOf(blocks, at, i)
           next == Segments!Step(blocks, acc, at, i)
<1>0. N \in Nat /\ i \in 1 .. N /\ i \in BlockNumbers(blocks) /\ blocks[i] \in Segments!Blocks
    BY DEF Documents, BlockNumbers
<1>1. /\ acc.clauses \in Seq(AClause(blocks)) /\ acc.used \in SUBSET Paths /\ IsFiniteSet(acc.used)
      /\ acc.scope \in Seq(Segments!Headed(blocks)) /\ acc.stack \in Seq(AHeading(blocks))
      /\ acc = [clauses |-> acc.clauses, used |-> acc.used, scope |-> acc.scope, stack |-> acc.stack]
    BY DEF WalkState
<1>2. to \in Int
  <2>1. i \in 0 .. Len(blocks)
      BY <1>0
  <2>2. to = Segments!Start(Segments!Following(blocks, at, i)) - 1
        /\ Segments!Start(Segments!Following(blocks, at, i)) \in Nat
      BY <2>1, FollowingIs
  <2> QED
      BY <2>2
<1>3. m = Segments!NoMatch \/ IsHeading(m)
    BY <1>0, MatchIs DEF Match
<1> HIDE DEF to
<1>4. CASE m = Segments!NoMatch
  <2> DEFINE path == Segments!Path(<<>>, "seq", <<Segments!Ordinal(at, i)>>)
             headings == <<>>
             c == NewClause(acc, i, to, path, headings)
  <2>1. Segments!Ordinal(at, i) \in Nat
    <3>1. IsFiniteSet(1 .. N)
        BY <1>0, FS_Interval
    <3>2. IsFiniteSet({j \in at : j <= i})
        BY <3>1, FS_Subset DEF BlockNumbers
    <3>3. Segments!Ordinal(at, i) = Cardinality({j \in at : j <= i})
        BY DEF Segments!Ordinal, Segments!Cardinality, Cardinality
    <3> QED
        BY <3>2, <3>3, FS_CardinalityType
  <2>2. path \in Paths
      BY <2>1 DEF Segments!Path, Paths, Kinds
  <2>3. next = Segments!Clause(blocks, acc, i, to, path, headings)
      BY <1>4 DEF Segments!Step, Match, to
  <2>4. headings \in Seq(BlockNumbers(blocks))
      OBVIOUS
  <2> HIDE DEF path, headings, next
  <2>5. Adds(blocks, acc, next, c, i, to) /\ next.scope = acc.scope /\ next.stack = acc.stack
        /\ c.headingPath = headings
      BY <1>0, <1>2, <2>2, <2>3, <2>4, ClauseAdds
  <2> HIDE DEF c
  <2>6. OpensAt(blocks, acc, i, next, c)
      BY <1>4, <2>5 DEF OpensAt, headings
  <2> QED
      BY <2>5, <2>6 DEF next, to
<1>5. CASE IsHeading(m) /\ m.opensScope
  <2> DEFINE path == Segments!Path(<<>>, m.kind, m.number)
             headings == <<i>>
             none == <<>>
             base == [acc EXCEPT !.scope = headings, !.stack = none]
             c == NewClause(base, i, to, path, headings)
  <2>1. m # Segments!NoMatch
      BY <1>5 DEF IsHeading
  <2>2. path \in Paths
    <3>1. m.kind \in Kinds /\ m.number \in Seq(Nat)
        BY <1>5 DEF IsHeading
    <3> HIDE DEF m
    <3> QED
        BY <3>1 DEF Segments!Path, Paths
  <2>3. next = Segments!Clause(blocks, base, i, to, path, headings)
      BY <1>5, <2>1 DEF Segments!Step, Match, to
  <2>4. headings \in Seq(Segments!Headed(blocks)) /\ headings \in Seq(BlockNumbers(blocks))
        /\ none \in Seq(AHeading(blocks))
    <3>1. i \in Segments!Headed(blocks)
        BY <1>0, <2>1 DEF Segments!Headed, Match, Documents
    <3> QED
        BY <1>0, <3>1
  <2> HIDE DEF path, headings, none, next
  <2>e. base = [acc EXCEPT !.scope = headings, !.stack = none]
      OBVIOUS
  <2>5. base = [clauses |-> acc.clauses, used |-> acc.used, scope |-> headings, stack |-> none]
    <3> HIDE DEF base
    <3> QED
        BY <1>1, <2>e
  <2> HIDE DEF base
  <2>6. base \in WalkState(blocks) /\ base.scope = headings /\ base.stack = none
        /\ base.clauses = acc.clauses /\ base.used = acc.used
      BY <1>1, <2>4, <2>5 DEF WalkState
  <2>7. /\ Adds(blocks, base, next, c, i, to) /\ next.scope = base.scope /\ next.stack = base.stack
        /\ c.headingPath = headings
      BY <1>0, <1>2, <2>2, <2>3, <2>4, <2>6, ClauseAdds
  <2> HIDE DEF c
  <2>8. Adds(blocks, acc, next, c, i, to) /\ next.scope = headings /\ next.stack = none
      BY <2>6, <2>7 DEF Adds
  <2>9. OpensAt(blocks, acc, i, next, c)
      BY <1>5, <2>7, <2>8 DEF OpensAt, headings, none
  <2> QED
      BY <2>8, <2>9 DEF next, to
<1>6. CASE IsHeading(m) /\ ~m.opensScope
  <2> DEFINE path == Segments!Path(Numbers(blocks, acc.scope), m.kind, m.number)
             stack == Pushed(acc.stack, m, i)
             base == [acc EXCEPT !.stack = stack]
             headings == acc.scope \o BlocksOf(stack)
             c == NewClause(base, i, to, path, headings)
  <2>1. m # Segments!NoMatch
      BY <1>6 DEF IsHeading
  <2>2. path \in Paths
    <3>1. m.kind \in Kinds /\ m.number \in Seq(Nat)
        BY <1>6 DEF IsHeading
    <3>2. \A j \in Segments!Headed(blocks) : Match(blocks, j).number \in Seq(Nat)
      <4> TAKE j \in Segments!Headed(blocks)
      <4>1. blocks[j] \in Segments!Blocks /\ Match(blocks, j) # Segments!NoMatch
          BY DEF Segments!Headed, Match, Documents
      <4>2. IsHeading(Match(blocks, j))
          BY <4>1, MatchIs DEF Match
      <4> QED
          BY <4>2 DEF IsHeading
    <3>3. Numbers(blocks, acc.scope) \in Seq(Seq(Nat))
      <4>1. DOMAIN acc.scope = 1 .. Len(acc.scope) /\ Len(acc.scope) \in Nat
            /\ \A k \in DOMAIN acc.scope : acc.scope[k] \in Segments!Headed(blocks)
          BY <1>1
      <4>2. Numbers(blocks, acc.scope) \in [1 .. Len(acc.scope) -> Seq(Nat)]
          BY <3>2, <4>1 DEF Numbers
      <4> QED
          BY <4>1, <4>2
    <3> HIDE DEF m
    <3> QED
        BY <3>1, <3>3 DEF Segments!Path, Paths
  <2>3. next = Segments!Clause(blocks, base, i, to, path, headings)
      BY <1>6, <2>1 DEF Segments!Step, Match, to, Numbers, Pushed, BlocksOf
  <2>5. stack \in Seq(AHeading(blocks))
    <3>1. m.depth \in Int
        BY <1>6 DEF IsHeading
    <3>2. PICK p \in 0 .. Len(acc.stack) : Segments!Pop(acc.stack, m.depth) = SubSeq(acc.stack, 1, p)
        BY <1>1, <3>1, PopIs
    <3>3. SubSeq(acc.stack, 1, p) \in Seq(AHeading(blocks))
        BY <1>1
    <3>4. [depth |-> m.depth, block |-> i] \in AHeading(blocks)
        BY <1>0, <3>1 DEF AHeading
    <3> HIDE DEF m
    <3> QED
        BY <3>2, <3>3, <3>4 DEF Pushed
  <2> HIDE DEF path, stack, next
  <2>6. headings \in Seq(BlockNumbers(blocks))
    <3>1. acc.scope \in Seq(BlockNumbers(blocks))
        BY <1>1, BoundariesAre DEF BlockNumbers
    <3>2. BlocksOf(stack) \in Seq(BlockNumbers(blocks))
        BY <2>5, BlocksTyped
    <3> QED
        BY <3>1, <3>2
  <2>4. base = [clauses |-> acc.clauses, used |-> acc.used, scope |-> acc.scope, stack |-> stack]
      BY <1>1
  <2> HIDE DEF headings, base
  <2>7. base \in WalkState(blocks) /\ base.scope = acc.scope /\ base.stack = stack
        /\ base.clauses = acc.clauses /\ base.used = acc.used
      BY <1>1, <2>4, <2>5 DEF WalkState
  <2>8. /\ Adds(blocks, base, next, c, i, to) /\ next.scope = base.scope /\ next.stack = base.stack
        /\ c.headingPath = headings
      BY <1>0, <1>2, <2>2, <2>3, <2>6, <2>7, ClauseAdds
  <2> HIDE DEF c
  <2>9. Adds(blocks, acc, next, c, i, to) /\ next.scope = acc.scope /\ next.stack = stack
      BY <2>7, <2>8 DEF Adds
  <2>10. OpensAt(blocks, acc, i, next, c)
      BY <1>6, <2>8, <2>9 DEF OpensAt, stack, headings
  <2> QED
      BY <2>9, <2>10 DEF next, to
<1> QED
    BY <1>3, <1>4, <1>5, <1>6

Heads(blocks, j) == Match(blocks, j) # Segments!NoMatch
Annex(blocks, j) == Heads(blocks, j) /\ Match(blocks, j).opensScope
Depth(blocks, j) == Match(blocks, j).depth
(* The headings of the scope that the blocks after i may go under.         *)
Open(blocks, i) == {j \in 1 .. i : Heads(blocks, j) /\ ~Annex(blocks, j) /\ ~Segments!Closed(blocks, j, i + 1)}
ScopeIs(blocks, i, scope) ==
    \/ scope = <<>> /\ \A j \in 1 .. i : ~Annex(blocks, j)
    \/ \E a \in 1 .. i : scope = <<a>> /\ Annex(blocks, a) /\ \A j \in a + 1 .. i : ~Annex(blocks, j)
StackIs(blocks, i, stack) ==
    /\ \A k \in 1 .. Len(stack) : stack[k].block \in Open(blocks, i) /\ stack[k].depth = Depth(blocks, stack[k].block)
    /\ \A j \in Open(blocks, i) : \E k \in 1 .. Len(stack) : stack[k].block = j
    /\ \A k, l \in 1 .. Len(stack) : k < l => stack[k].block < stack[l].block /\ stack[k].depth < stack[l].depth
Scoped(blocks, i, scope, stack) == ScopeIs(blocks, i, scope) /\ StackIs(blocks, i, stack)
Encloses(blocks, i, path) ==
    /\ Segments!InOrder(path)
    /\ Segments!ToSet(path) = Segments!Above(blocks, i) \cup {i}

LEMMA Depths ==
    ASSUME NEW blocks \in Documents, NEW j \in BlockNumbers(blocks), Heads(blocks, j)
    PROVE  /\ Depth(blocks, j) \in Nat
           /\ Annex(blocks, j) <=> Depth(blocks, j) = 0
<1>1. blocks[j] \in Segments!Blocks
    BY DEF Documents, BlockNumbers
<1>2. IsHeading(Match(blocks, j))
    BY <1>1, MatchIs DEF Match, Heads
<1> QED
    BY <1>2 DEF IsHeading, Depth, Annex

LEMMA ClosedIs ==
    ASSUME NEW blocks, NEW j, NEW i
    PROVE  Segments!Closed(blocks, j, i) <=>
              \E k \in j + 1 .. i - 1 : Heads(blocks, k) /\ (Annex(blocks, k) \/ Depth(blocks, k) <= Depth(blocks, j))
BY DEF Segments!Closed, Heads, Annex, Depth, Match

LEMMA ClosedNext ==
    ASSUME NEW blocks, NEW i \in Nat, NEW j \in 1 .. i
    PROVE  Segments!Closed(blocks, j, i + 1) <=>
              \/ Segments!Closed(blocks, j, i)
              \/ j < i /\ Heads(blocks, i) /\ (Annex(blocks, i) \/ Depth(blocks, i) <= Depth(blocks, j))
<1>1. j + 1 .. (i + 1) - 1 = (j + 1 .. i - 1) \cup (IF j < i THEN {i} ELSE {})
    OBVIOUS
<1> QED
    BY <1>1, ClosedIs

(* A block that is no heading changes nothing.                             *)
LEMMA ScopedSame ==
    ASSUME NEW blocks, NEW i \in Nat \ {0}, ~Heads(blocks, i), NEW scope, NEW stack,
           Scoped(blocks, i - 1, scope, stack)
    PROVE  Scoped(blocks, i, scope, stack)
<1>1. 1 .. i = (1 .. i - 1) \cup {i} /\ (i - 1) + 1 = i
    OBVIOUS
<1>2. \A j \in 1 .. i : Segments!Closed(blocks, j, i + 1) <=> Segments!Closed(blocks, j, i)
    BY ClosedNext
<1>3. Open(blocks, i) = Open(blocks, i - 1)
    BY <1>1, <1>2 DEF Open
<1>4. \A j \in 1 .. i : Annex(blocks, j) => j \in 1 .. i - 1
    BY <1>1 DEF Annex
<1>5. ScopeIs(blocks, i, scope)
  <2>1. CASE scope = <<>> /\ \A j \in 1 .. i - 1 : ~Annex(blocks, j)
      BY <1>4, <2>1 DEF ScopeIs
  <2>2. CASE \E a \in 1 .. i - 1 : scope = <<a>> /\ Annex(blocks, a) /\ \A j \in a + 1 .. i - 1 : ~Annex(blocks, j)
    <3>1. PICK a \in 1 .. i - 1 : scope = <<a>> /\ Annex(blocks, a) /\ \A j \in a + 1 .. i - 1 : ~Annex(blocks, j)
        BY <2>2
    <3>2. \A j \in a + 1 .. i : ~Annex(blocks, j)
        BY <1>4, <3>1
    <3>3. a \in 1 .. i
        OBVIOUS
    <3> QED
        BY <3>1, <3>2, <3>3 DEF ScopeIs
  <2> QED
      BY <2>1, <2>2 DEF Scoped, ScopeIs
<1> QED
    BY <1>3, <1>5 DEF Scoped, StackIs

(* An annex opens a scope with nothing in it.                              *)
LEMMA ScopedAnnex ==
    ASSUME NEW blocks \in Documents, NEW i \in BlockNumbers(blocks), Annex(blocks, i),
           NEW scope, scope = <<i>>, NEW stack, stack = <<>>
    PROVE  Scoped(blocks, i, scope, stack) /\ Encloses(blocks, i, scope)
<1>0. i \in Nat \ {0} /\ i \in 1 .. i /\ Len(stack) = 0 /\ Heads(blocks, i)
    BY DEF BlockNumbers, Documents, Annex
<1>1. Open(blocks, i) = {}
  <2> SUFFICES ASSUME NEW j \in Open(blocks, i) PROVE FALSE
      OBVIOUS
  <2>1. j \in 1 .. i /\ ~Annex(blocks, j) /\ ~Segments!Closed(blocks, j, i + 1)
      BY DEF Open
  <2>2. j < i
      BY <1>0, <2>1
  <2> QED
      BY <1>0, <2>1, <2>2, ClosedNext
<1>2. StackIs(blocks, i, stack)
    BY <1>0, <1>1 DEF StackIs
<1>3. ScopeIs(blocks, i, scope)
  <2>1. \A j \in i + 1 .. i : ~Annex(blocks, j)
      BY <1>0
  <2> QED
      BY <1>0, <2>1 DEF ScopeIs
<1>4. Segments!Above(blocks, i) = {}
  <2> SUFFICES ASSUME NEW j \in Segments!Above(blocks, i) PROVE FALSE
      OBVIOUS
  <2>1. j \in 1 .. i - 1 /\ Heads(blocks, j) /\ Depth(blocks, j) < Depth(blocks, i)
      BY DEF Segments!Above, Heads, Depth, Match
  <2>2. j \in BlockNumbers(blocks)
      BY <2>1 DEF BlockNumbers, Documents
  <2>3. Depth(blocks, j) \in Nat /\ Depth(blocks, i) = 0
      BY <1>0, <2>1, <2>2, Depths
  <2> QED
      BY <2>1, <2>3
<1>5. Segments!ToSet(scope) = {i} /\ Segments!InOrder(scope)
    BY DEF Segments!ToSet, Segments!InOrder
<1> QED
    BY <1>2, <1>3, <1>4, <1>5 DEF Scoped, Encloses

(* What remains of the stack under a heading of depth d, and the heading.  *)
Narrowed(stack, d, i, s, p) ==
    /\ p \in 0 .. Len(stack) /\ Len(s) = p + 1
    /\ \A k \in 1 .. p : s[k] = stack[k] /\ stack[k].depth < d
    /\ \A k \in p + 1 .. Len(stack) : stack[k].depth >= d
    /\ s[p + 1].block = i /\ s[p + 1].depth = d

LEMMA PushedIs ==
    ASSUME NEW blocks \in Documents, NEW stack \in Seq(AHeading(blocks)), NEW i \in BlockNumbers(blocks),
           NEW m, m.depth \in Int,
           \A k, l \in 1 .. Len(stack) : k < l => stack[k].depth < stack[l].depth
    PROVE  \E p : Narrowed(stack, m.depth, i, Pushed(stack, m, i), p)
<1> DEFINE d == m.depth
           h == [depth |-> d, block |-> i]
<1>1. PICK p \in 0 .. Len(stack) :
              /\ Segments!Pop(stack, d) = SubSeq(stack, 1, p)
              /\ p # 0 => stack[p].depth < d
              /\ \A k \in p + 1 .. Len(stack) : stack[k].depth >= d
    BY PopIs
<1>2. Pushed(stack, m, i) = Append(SubSeq(stack, 1, p), h)
    BY <1>1 DEF Pushed
<1>3. h.block = i /\ h.depth = d
    OBVIOUS
<1> HIDE DEF h, d
<1>4. Len(stack) \in Nat /\ p \in Nat
    OBVIOUS
<1>5. /\ SubSeq(stack, 1, p) \in Seq(AHeading(blocks)) /\ Len(SubSeq(stack, 1, p)) = p
      /\ \A k \in 1 .. p : SubSeq(stack, 1, p)[k] = stack[k]
    BY <1>4
<1>6. h \in AHeading(blocks)
    BY DEF AHeading, h, d
<1> DEFINE kept == SubSeq(stack, 1, p)
           s == Append(kept, h)
<1> HIDE DEF kept
<1>7. Len(s) = p + 1 /\ s[p + 1] = h /\ \A k \in 1 .. p : s[k] = kept[k]
    BY <1>4, <1>5, <1>6 DEF kept
<1>8. \A k \in 1 .. p : s[k] = stack[k] /\ stack[k].depth < d
  <2> TAKE k \in 1 .. p
  <2>1. s[k] = stack[k]
      BY <1>5, <1>7 DEF kept
  <2>2. stack[p].depth < d /\ stack[k].depth \in Int /\ stack[p].depth \in Int /\ d \in Int
    <3>1. p \in 1 .. Len(stack) /\ k \in 1 .. Len(stack)
        BY <1>4
    <3>2. stack[p] \in AHeading(blocks) /\ stack[k] \in AHeading(blocks)
        BY <3>1
    <3> QED
        BY <1>1, <3>1, <3>2 DEF AHeading, d
  <2>3. k < p => stack[k].depth < stack[p].depth
      BY <1>4
  <2> QED
      BY <2>1, <2>2, <2>3
<1> HIDE DEF s
<1>9. Narrowed(stack, d, i, s, p)
    BY <1>1, <1>3, <1>7, <1>8 DEF Narrowed
<1> QED
    BY <1>2, <1>9 DEF s, kept, d

(* A heading goes under the headings that are still open.                  *)
LEMMA OpenHeading ==
    ASSUME NEW blocks \in Documents, NEW i \in BlockNumbers(blocks), Heads(blocks, i), ~Annex(blocks, i)
    PROVE  Open(blocks, i) = {j \in Open(blocks, i - 1) : Depth(blocks, j) < Depth(blocks, i)} \cup {i}
<1>0. i \in Nat \ {0} /\ 1 .. i = (1 .. i - 1) \cup {i} /\ (i - 1) + 1 = i
    BY DEF BlockNumbers, Documents
<1>1. \A j \in 1 .. i : Heads(blocks, j) => Depth(blocks, j) \in Nat
  <2> TAKE j \in 1 .. i
  <2>1. j \in BlockNumbers(blocks)
      BY <1>0 DEF BlockNumbers, Documents
  <2> QED
      BY <2>1, Depths
<1>2. \A j \in 1 .. i - 1 : Heads(blocks, j) =>
          (~Segments!Closed(blocks, j, i + 1) <=>
              ~Segments!Closed(blocks, j, i) /\ Depth(blocks, j) < Depth(blocks, i))
  <2> TAKE j \in 1 .. i - 1
  <2> HAVE Heads(blocks, j)
  <2>1. j \in 1 .. i /\ j < i
      BY <1>0
  <2>2. Depth(blocks, j) \in Nat /\ Depth(blocks, i) \in Nat
      BY <1>0, <1>1, <2>1
  <2>3. Segments!Closed(blocks, j, i + 1) <=>
              \/ Segments!Closed(blocks, j, i)
              \/ j < i /\ Heads(blocks, i) /\ (Annex(blocks, i) \/ Depth(blocks, i) <= Depth(blocks, j))
      BY <1>0, <2>1, ClosedNext
  <2> QED
      BY <2>1, <2>2, <2>3
<1>3. ~Segments!Closed(blocks, i, i + 1)
    BY <1>0, ClosedIs
<1>4. i \in Open(blocks, i)
    BY <1>0, <1>3 DEF Open
<1>5. \A j \in 1 .. i - 1 : j \in Open(blocks, i) <=> j \in Open(blocks, i - 1) /\ Depth(blocks, j) < Depth(blocks, i)
    BY <1>0, <1>2 DEF Open
<1>6. Open(blocks, i) \subseteq 1 .. i /\ Open(blocks, i - 1) \subseteq 1 .. i - 1
    BY DEF Open
<1> QED
    BY <1>0, <1>4, <1>5, <1>6

(* And under its annex.                                                    *)
LEMMA AboveHeading ==
    ASSUME NEW blocks \in Documents, NEW i \in BlockNumbers(blocks), Heads(blocks, i), ~Annex(blocks, i),
           NEW scope, ScopeIs(blocks, i - 1, scope)
    PROVE  /\ Segments!Above(blocks, i) =
                 Segments!ToSet(scope) \cup {j \in Open(blocks, i - 1) : Depth(blocks, j) < Depth(blocks, i)}
           /\ \A j \in Open(blocks, i - 1), k \in DOMAIN scope : scope[k] < j
           /\ scope = <<>> \/ \E a \in 1 .. i - 1 : scope = <<a>>
<1>0. i \in Nat \ {0} /\ 1 .. i - 1 \subseteq BlockNumbers(blocks) /\ (i - 1) + 1 = i
    BY DEF BlockNumbers, Documents
<1>d. \A j \in 1 .. i - 1 : Heads(blocks, j) => Depth(blocks, j) \in Nat /\ (Annex(blocks, j) <=> Depth(blocks, j) = 0)
    BY <1>0, Depths
<1>e. Depth(blocks, i) \in Nat \ {0}
    BY Depths
<1>1. Segments!Above(blocks, i) =
        {j \in 1 .. i - 1 : Heads(blocks, j) /\ Depth(blocks, j) < Depth(blocks, i) /\ ~Segments!Closed(blocks, j, i)}
    BY DEF Segments!Above, Heads, Depth, Match
<1>2. \A j \in 1 .. i - 1 : ~Annex(blocks, j) =>
        (j \in Segments!Above(blocks, i) <=> j \in Open(blocks, i - 1) /\ Depth(blocks, j) < Depth(blocks, i))
    BY <1>0, <1>1 DEF Open
<1>3. \A j \in 1 .. i - 1 : Annex(blocks, j) =>
        (j \in Segments!Above(blocks, i) <=> \A k \in j + 1 .. i - 1 : ~Annex(blocks, k))
  <2> TAKE j \in 1 .. i - 1
  <2> HAVE Annex(blocks, j)
  <2>1. Heads(blocks, j) /\ Depth(blocks, j) = 0
      BY <1>d DEF Annex
  <2>2. \A k \in j + 1 .. i - 1 : Heads(blocks, k) /\ (Annex(blocks, k) \/ Depth(blocks, k) <= Depth(blocks, j))
                                    <=> Annex(blocks, k)
    <3> TAKE k \in j + 1 .. i - 1
    <3>1. k \in 1 .. i - 1
        BY <1>0
    <3> QED
        BY <1>d, <2>1, <3>1 DEF Annex
  <2>3. Segments!Closed(blocks, j, i) <=> \E k \in j + 1 .. i - 1 : Annex(blocks, k)
      BY <2>2, ClosedIs
  <2> QED
      BY <1>1, <1>e, <2>1, <2>3
<1>4. \A j \in 1 .. i - 1 : j \in Open(blocks, i - 1) =>
        ~Annex(blocks, j) /\ \A k \in j + 1 .. i - 1 : ~Annex(blocks, k)
  <2> TAKE j \in 1 .. i - 1
  <2> HAVE j \in Open(blocks, i - 1)
  <2>1. ~Annex(blocks, j) /\ ~Segments!Closed(blocks, j, i)
      BY <1>0 DEF Open
  <2> QED
      BY <2>1, ClosedIs DEF Annex
<1>5. Segments!Above(blocks, i) \subseteq 1 .. i - 1 /\ Open(blocks, i - 1) \subseteq 1 .. i - 1
    BY <1>1 DEF Open
<1>6. CASE scope = <<>> /\ \A j \in 1 .. i - 1 : ~Annex(blocks, j)
  <2>1. Segments!ToSet(scope) = {} /\ DOMAIN scope = {}
      BY <1>6 DEF Segments!ToSet
  <2> QED
      BY <1>2, <1>5, <1>6, <2>1
<1>7. CASE \E a \in 1 .. i - 1 : scope = <<a>> /\ Annex(blocks, a) /\ \A j \in a + 1 .. i - 1 : ~Annex(blocks, j)
  <2>1. PICK a \in 1 .. i - 1 : scope = <<a>> /\ Annex(blocks, a) /\ \A j \in a + 1 .. i - 1 : ~Annex(blocks, j)
      BY <1>7
  <2>2. Segments!ToSet(scope) = {a} /\ \A k \in DOMAIN scope : scope[k] = a
      BY <2>1 DEF Segments!ToSet
  <2>3. \A j \in 1 .. i - 1 : Annex(blocks, j) => (j \in Segments!Above(blocks, i) <=> j = a)
    <3> TAKE j \in 1 .. i - 1
    <3> HAVE Annex(blocks, j)
    <3>1. j \in Segments!Above(blocks, i) => j = a
      <4>1. j <= a
          BY <2>1
      <4>2. j < a => a \in j + 1 .. i - 1
          OBVIOUS
      <4> QED
          BY <1>3, <2>1, <4>1, <4>2
    <3>2. a \in Segments!Above(blocks, i)
        BY <1>3, <2>1
    <3> QED
        BY <3>1, <3>2
  <2>4. \A j \in Open(blocks, i - 1) : a < j
    <3> TAKE j \in Open(blocks, i - 1)
    <3>1. j \in 1 .. i - 1 /\ j # a
        BY <1>4, <1>5, <2>1
    <3>2. j < a => a \in j + 1 .. i - 1
        BY <3>1
    <3> QED
        BY <1>4, <2>1, <3>1, <3>2
  <2>5. Segments!Above(blocks, i) =
          {a} \cup {j \in Open(blocks, i - 1) : Depth(blocks, j) < Depth(blocks, i)}
    <3>1. \A j \in 1 .. i - 1 : j \in Segments!Above(blocks, i) <=>
              j = a \/ (j \in Open(blocks, i - 1) /\ Depth(blocks, j) < Depth(blocks, i))
      <4> TAKE j \in 1 .. i - 1
      <4>1. CASE Annex(blocks, j)
          BY <1>4, <2>3, <4>1
      <4>2. CASE ~Annex(blocks, j)
          BY <1>2, <2>1, <4>2
      <4> QED
          BY <4>1, <4>2
    <3> QED
        BY <1>5, <3>1
  <2> QED
      BY <2>1, <2>2, <2>4, <2>5
<1> QED
    BY <1>6, <1>7 DEF ScopeIs

LEMMA JoinedInOrder ==
    ASSUME NEW u \in Seq(Nat), NEW v \in Seq(Nat), Segments!InOrder(u), Segments!InOrder(v),
           \A x \in Segments!ToSet(u), y \in Segments!ToSet(v) : x < y
    PROVE  /\ Segments!InOrder(u \o v)
           /\ Segments!ToSet(u \o v) = Segments!ToSet(u) \cup Segments!ToSet(v)
<1> DEFINE m == Len(u)
           n == Len(v)
           w == u \o v
<1>1. /\ m \in Nat /\ n \in Nat /\ DOMAIN u = 1 .. m /\ DOMAIN v = 1 .. n /\ DOMAIN w = 1 .. m + n
      /\ Len(w) = m + n
      /\ \A k \in 1 .. m : w[k] = u[k] /\ u[k] \in Nat
      /\ \A k \in 1 .. n : w[m + k] = v[k] /\ v[k] \in Nat
    OBVIOUS
<1> HIDE DEF m, n, w
<1>2. \A k \in m + 1 .. m + n : k - m \in 1 .. n /\ m + (k - m) = k
    BY <1>1
<1>3. \A k \in 1 .. m + n - 1 : w[k] < w[k + 1]
  <2> TAKE k \in 1 .. m + n - 1
  <2>1. CASE k < m
    <3>1. k \in 1 .. m - 1 /\ k \in 1 .. m /\ k + 1 \in 1 .. m
        BY <1>1, <2>1
    <3> QED
        BY <1>1, <3>1 DEF Segments!InOrder, m
  <2>2. CASE k = m
    <3>1. k \in 1 .. m /\ 1 \in 1 .. n
        BY <1>1, <2>2
    <3>2. u[k] \in Segments!ToSet(u) /\ v[1] \in Segments!ToSet(v)
        BY <1>1, <3>1 DEF Segments!ToSet
    <3>3. w[k] = u[k] /\ w[k + 1] = v[1]
        BY <1>1, <2>2, <3>1
    <3> QED
        BY <3>2, <3>3
  <2>3. CASE k > m
    <3>1. k - m \in 1 .. n - 1 /\ k - m \in 1 .. n /\ (k - m) + 1 \in 1 .. n
          /\ m + (k - m) = k /\ m + ((k - m) + 1) = k + 1
        BY <1>1, <2>3
    <3>2. w[k] = v[k - m] /\ w[k + 1] = v[(k - m) + 1]
        BY <1>1, <3>1
    <3>3. v[k - m] < v[(k - m) + 1]
        BY <3>1 DEF Segments!InOrder, n
    <3> QED
        BY <3>2, <3>3
  <2> QED
      BY <1>1, <2>1, <2>2, <2>3
<1>4. Segments!ToSet(w) = Segments!ToSet(u) \cup Segments!ToSet(v)
  <2>1. \A k \in 1 .. m + n : w[k] \in Segments!ToSet(u) \cup Segments!ToSet(v)
    <3> TAKE k \in 1 .. m + n
    <3>1. CASE k \in 1 .. m
        BY <1>1, <3>1 DEF Segments!ToSet
    <3>2. CASE k \in m + 1 .. m + n
      <4>1. k - m \in 1 .. n /\ w[k] = v[k - m]
          BY <1>1, <1>2, <3>2
      <4>2. v[k - m] \in Segments!ToSet(v)
          BY <1>1, <4>1 DEF Segments!ToSet
      <4> QED
          BY <4>1, <4>2
    <3> QED
        BY <1>1, <3>1, <3>2
  <2>2. \A k \in 1 .. m : u[k] \in Segments!ToSet(w)
    <3> TAKE k \in 1 .. m
    <3>1. k \in 1 .. m + n
        BY <1>1
    <3> QED
        BY <1>1, <3>1 DEF Segments!ToSet
  <2>3. \A k \in 1 .. n : v[k] \in Segments!ToSet(w)
    <3> TAKE k \in 1 .. n
    <3>1. m + k \in 1 .. m + n
        BY <1>1
    <3> QED
        BY <1>1, <3>1 DEF Segments!ToSet
  <2> QED
      BY <1>1, <2>1, <2>2, <2>3 DEF Segments!ToSet
<1> QED
    BY <1>1, <1>3, <1>4 DEF Segments!InOrder, w

LEMMA ScopedHeading ==
    ASSUME NEW blocks \in Documents, NEW i \in BlockNumbers(blocks), Heads(blocks, i), ~Annex(blocks, i),
           NEW scope \in Seq(BlockNumbers(blocks)), NEW stack \in Seq(AHeading(blocks)),
           Scoped(blocks, i - 1, scope, stack),
           NEW s \in Seq(AHeading(blocks)), s = Pushed(stack, Match(blocks, i), i)
    PROVE  Scoped(blocks, i, scope, s) /\ Encloses(blocks, i, scope \o BlocksOf(s))
<1> DEFINE d == Depth(blocks, i)
           B == BlocksOf(s)
<1>0. /\ i \in Nat \ {0} /\ 1 .. i = (1 .. i - 1) \cup {i} /\ 1 .. i - 1 \subseteq BlockNumbers(blocks)
      /\ d \in Nat /\ Len(stack) \in Nat /\ BlockNumbers(blocks) \subseteq Nat
      /\ ScopeIs(blocks, i - 1, scope) /\ StackIs(blocks, i - 1, stack)
    BY Depths DEF BlockNumbers, Documents, Scoped
<1>1. /\ \A k \in 1 .. Len(stack) : stack[k].block \in Open(blocks, i - 1) /\ stack[k].depth = Depth(blocks, stack[k].block)
      /\ \A j \in Open(blocks, i - 1) : \E k \in 1 .. Len(stack) : stack[k].block = j
      /\ \A k, l \in 1 .. Len(stack) : k < l => stack[k].block < stack[l].block /\ stack[k].depth < stack[l].depth
    BY <1>0 DEF StackIs
<1>2. PICK p : Narrowed(stack, d, i, s, p)
  <2> DEFINE m == Match(blocks, i)
  <2>1. m.depth = d /\ s = Pushed(stack, m, i)
      BY DEF Depth
  <2> HIDE DEF m, d
  <2>2. m.depth \in Int /\ \A k, l \in 1 .. Len(stack) : k < l => stack[k].depth < stack[l].depth
      BY <1>0, <1>1, <2>1
  <2>3. \E p : Narrowed(stack, m.depth, i, Pushed(stack, m, i), p)
      BY <2>2, PushedIs
  <2> QED
      BY <2>1, <2>3
<1>3. /\ p \in 0 .. Len(stack) /\ Len(s) = p + 1 /\ p \in Nat
      /\ \A k \in 1 .. p : s[k] = stack[k] /\ stack[k].depth < d /\ k \in 1 .. Len(stack)
      /\ \A k \in p + 1 .. Len(stack) : stack[k].depth >= d
      /\ s[p + 1].block = i /\ s[p + 1].depth = d
    BY <1>0, <1>2 DEF Narrowed
<1>4. Open(blocks, i) = {j \in Open(blocks, i - 1) : Depth(blocks, j) < d} \cup {i}
    BY OpenHeading
<1>5. Open(blocks, i - 1) \subseteq 1 .. i - 1
    BY DEF Open
<1> HIDE DEF d
<1>6. \A k \in 1 .. p + 1 : k \in 1 .. p \/ k = p + 1
    BY <1>3
<1>7. \A k \in 1 .. Len(s) : s[k].block \in Open(blocks, i) /\ s[k].depth = Depth(blocks, s[k].block)
  <2> TAKE k \in 1 .. Len(s)
  <2>1. CASE k \in 1 .. p
      BY <1>1, <1>3, <1>4, <2>1
  <2>2. CASE k = p + 1
      BY <1>3, <1>4, <2>2 DEF d
  <2> QED
      BY <1>3, <1>6, <2>1, <2>2
<1>8. \A j \in Open(blocks, i) : \E k \in 1 .. Len(s) : s[k].block = j
  <2> TAKE j \in Open(blocks, i)
  <2>1. CASE j = i
    <3>1. p + 1 \in 1 .. Len(s)
        BY <1>3
    <3> QED
        BY <1>3, <2>1, <3>1
  <2>2. CASE j # i
    <3>1. j \in Open(blocks, i - 1) /\ Depth(blocks, j) < d
        BY <1>4, <2>2
    <3>2. PICK k \in 1 .. Len(stack) : stack[k].block = j
        BY <1>1, <3>1
    <3>3. stack[k].depth < d
        BY <1>1, <3>1, <3>2
    <3>4. stack[k].depth \in Int
      <4>1. stack[k] \in AHeading(blocks)
          OBVIOUS
      <4> QED
          BY <4>1 DEF AHeading
    <3>5. k \notin p + 1 .. Len(stack)
        BY <1>0, <1>3, <3>3, <3>4
    <3>6. k \in 1 .. p /\ k \in 1 .. Len(s)
        BY <1>0, <1>3, <3>5
    <3>7. s[k].block = j
        BY <1>3, <3>2, <3>6
    <3> QED
        BY <3>6, <3>7
  <2> QED
      BY <2>1, <2>2
<1>9. \A k, l \in 1 .. Len(s) : k < l => s[k].block < s[l].block /\ s[k].depth < s[l].depth
  <2> TAKE k, l \in 1 .. Len(s)
  <2> HAVE k < l
  <2>1. k \in 1 .. p
      BY <1>3
  <2>2. CASE l = p + 1
    <3>1. stack[k].block \in 1 .. i - 1
        BY <1>1, <1>3, <1>5, <2>1
    <3> QED
        BY <1>0, <1>3, <2>1, <2>2, <3>1
  <2>3. CASE l \in 1 .. p
      BY <1>1, <1>3, <2>1, <2>3
  <2> QED
      BY <1>3, <1>6, <2>2, <2>3
<1>10. StackIs(blocks, i, s)
    BY <1>7, <1>8, <1>9 DEF StackIs
<1>11. ScopeIs(blocks, i, scope)
  <2>1. CASE scope = <<>> /\ \A j \in 1 .. i - 1 : ~Annex(blocks, j)
      BY <1>0, <2>1 DEF ScopeIs
  <2>2. CASE \E a \in 1 .. i - 1 : scope = <<a>> /\ Annex(blocks, a) /\ \A j \in a + 1 .. i - 1 : ~Annex(blocks, j)
    <3>1. PICK a \in 1 .. i - 1 : scope = <<a>> /\ Annex(blocks, a) /\ \A j \in a + 1 .. i - 1 : ~Annex(blocks, j)
        BY <2>2
    <3>2. \A j \in a + 1 .. i : ~Annex(blocks, j)
      <4> TAKE j \in a + 1 .. i
      <4>1. j = i \/ j \in a + 1 .. i - 1
          BY <1>0
      <4> QED
          BY <3>1, <4>1
    <3>3. a \in 1 .. i
        BY <1>0
    <3> QED
        BY <3>1, <3>2, <3>3 DEF ScopeIs
  <2> QED
      BY <1>0, <2>1, <2>2 DEF ScopeIs
<1>12. /\ Segments!Above(blocks, i) = Segments!ToSet(scope) \cup {j \in Open(blocks, i - 1) : Depth(blocks, j) < d}
       /\ \A j \in Open(blocks, i - 1), k \in DOMAIN scope : scope[k] < j
       /\ scope = <<>> \/ \E a \in 1 .. i - 1 : scope = <<a>>
    BY <1>0, AboveHeading DEF d
<1>13. /\ B \in Seq(BlockNumbers(blocks)) /\ Len(B) = p + 1 /\ DOMAIN B = 1 .. p + 1
       /\ \A k \in 1 .. p + 1 : B[k] = s[k].block
    BY <1>3, BlocksTyped DEF BlocksOf
<1> HIDE DEF B
<1>14. Segments!ToSet(B) = Open(blocks, i)
    BY <1>3, <1>7, <1>8, <1>13 DEF Segments!ToSet
<1>15. Segments!InOrder(B)
  <2> SUFFICES ASSUME NEW k \in 1 .. Len(B) - 1 PROVE B[k] < B[k + 1]
      BY DEF Segments!InOrder
  <2>1. k \in 1 .. p + 1 /\ k + 1 \in 1 .. p + 1 /\ k < k + 1
      BY <1>3, <1>13
  <2> QED
      BY <1>3, <1>9, <1>13, <2>1
<1>16. Segments!InOrder(scope) /\ Segments!ToSet(scope) \subseteq 1 .. i - 1
  <2>1. CASE scope = <<>>
      BY <2>1 DEF Segments!InOrder, Segments!ToSet
  <2>2. CASE \E a \in 1 .. i - 1 : scope = <<a>>
      BY <2>2 DEF Segments!InOrder, Segments!ToSet
  <2> QED
      BY <1>12, <2>1, <2>2
<1>17. \A x \in Segments!ToSet(scope), y \in Segments!ToSet(B) : x < y
  <2> TAKE x \in Segments!ToSet(scope), y \in Segments!ToSet(B)
  <2>1. CASE y = i
      BY <1>0, <1>16, <2>1
  <2>2. CASE y # i
    <3>1. y \in Open(blocks, i - 1)
        BY <1>4, <1>14, <2>2
    <3> QED
        BY <1>12, <3>1 DEF Segments!ToSet
  <2> QED
      BY <2>1, <2>2
<1>18. scope \in Seq(Nat) /\ B \in Seq(Nat)
    BY <1>0, <1>13
<1>19. Segments!InOrder(scope \o B) /\ Segments!ToSet(scope \o B) = Segments!ToSet(scope) \cup Segments!ToSet(B)
    BY <1>15, <1>16, <1>17, <1>18, JoinedInOrder
<1>20. Encloses(blocks, i, scope \o B)
    BY <1>4, <1>12, <1>14, <1>19 DEF Encloses
<1> QED
    BY <1>10, <1>11, <1>20 DEF Scoped, B

(* The clauses so far, up to where the next one begins.                    *)
Tiled(clauses, end) ==
    /\ clauses = <<>> => end = 0
    /\ clauses # <<>> => clauses[1].charStart = 0 /\ clauses[Len(clauses)].charEnd = end - 1
    /\ \A k \in 1 .. Len(clauses) : clauses[k].charStart < clauses[k].charEnd
    /\ \A k \in 1 .. Len(clauses) - 1 : clauses[k + 1].charStart = clauses[k].charEnd + 1
Named(clauses, used) ==
    /\ \A k \in 1 .. Len(clauses) : clauses[k].path \in used
    /\ \A k, l \in 1 .. Len(clauses) : clauses[k].path = clauses[l].path => k = l
Under(blocks, clauses) ==
    \A k \in 1 .. Len(clauses) :
       clauses[k].headingPath # <<>> => Encloses(blocks, clauses[k].block, clauses[k].headingPath)
WalkInv(blocks, at, i, acc) ==
    /\ acc \in WalkState(blocks)
    /\ Tiled(acc.clauses, Segments!Start(Segments!Following(blocks, at, i)))
    /\ Named(acc.clauses, acc.used)
    /\ Under(blocks, acc.clauses)
    /\ Scoped(blocks, i, acc.scope, acc.stack)

LEMMA MoreClauses ==
    ASSUME NEW blocks \in Documents, NEW clauses \in Seq(AClause(blocks)), NEW c \in AClause(blocks)
    PROVE  /\ Len(clauses) \in Nat /\ Len(Append(clauses, c)) = Len(clauses) + 1
           /\ Append(clauses, c) # <<>>
           /\ \A k \in 1 .. Len(clauses) : Append(clauses, c)[k] = clauses[k]
           /\ Append(clauses, c)[Len(clauses) + 1] = c
           /\ \A k \in 1 .. Len(clauses) + 1 : k \in 1 .. Len(clauses) \/ k = Len(clauses) + 1
           /\ clauses = <<>> <=> Len(clauses) = 0
<1> DEFINE C == AClause(blocks)
<1> HIDE DEF C
<1>1. clauses \in Seq(C) /\ c \in C
    BY DEF C
<1> QED
    BY <1>1

LEMMA TiledMore ==
    ASSUME NEW blocks \in Documents, NEW clauses \in Seq(AClause(blocks)), NEW c \in AClause(blocks),
           NEW start \in Nat, NEW end \in Nat, start < end - 1, c.charStart = start, c.charEnd = end - 1,
           Tiled(clauses, start)
    PROVE  Tiled(Append(clauses, c), end)
<1> DEFINE n == Len(clauses)
           d == Append(clauses, c)
<1>1. /\ n \in Nat /\ Len(d) = n + 1 /\ d # <<>> /\ \A k \in 1 .. n : d[k] = clauses[k] /\ d[n + 1] = c
      /\ \A k \in 1 .. n + 1 : k \in 1 .. n \/ k = n + 1
      /\ clauses = <<>> <=> n = 0
    BY MoreClauses
<1>i. d[n + 1] = c
    BY MoreClauses
<1> HIDE DEF d, n
<1>2. d[1].charStart = 0
  <2>1. CASE n = 0
      BY <1>1, <1>i, <2>1 DEF Tiled
  <2>2. CASE n # 0
    <3>1. 1 \in 1 .. n
        BY <1>1, <2>2
    <3> QED
        BY <1>1, <2>2, <3>1 DEF Tiled
  <2> QED
      BY <2>1, <2>2
<1>3. \A k \in 1 .. n + 1 : d[k].charStart < d[k].charEnd
  <2> TAKE k \in 1 .. n + 1
  <2>1. CASE k \in 1 .. n
      BY <1>1, <2>1 DEF Tiled, n
  <2>2. CASE k = n + 1
      BY <1>i, <2>2
  <2> QED
      BY <1>1, <2>1, <2>2
<1>4. \A k \in 1 .. n : d[k + 1].charStart = d[k].charEnd + 1
  <2> TAKE k \in 1 .. n
  <2>1. CASE k = n
    <3>1. clauses[n].charEnd = start - 1
        BY <1>1, <2>1 DEF Tiled, n
    <3> QED
        BY <1>1, <1>i, <2>1, <3>1
  <2>2. CASE k # n
    <3>1. k \in 1 .. n - 1 /\ k + 1 \in 1 .. n
        BY <1>1, <2>2
    <3>2. clauses[k + 1].charStart = clauses[k].charEnd + 1
        BY <3>1 DEF Tiled, n
    <3> QED
        BY <1>1, <3>1, <3>2
  <2> QED
      BY <2>1, <2>2
<1>5. Len(d) - 1 = n /\ d[Len(d)].charEnd = end - 1
    BY <1>1, <1>i
<1>6. Tiled(d, end)
    BY <1>1, <1>2, <1>3, <1>4, <1>5 DEF Tiled
<1> QED
    BY <1>6 DEF d

LEMMA NamedMore ==
    ASSUME NEW blocks \in Documents, NEW clauses \in Seq(AClause(blocks)), NEW c \in AClause(blocks),
           NEW used, c.path \notin used, Named(clauses, used)
    PROVE  Named(Append(clauses, c), used \cup {c.path})
<1> DEFINE n == Len(clauses)
           d == Append(clauses, c)
<1>1. /\ n \in Nat /\ Len(d) = n + 1 /\ \A k \in 1 .. n : d[k] = clauses[k]
      /\ \A k \in 1 .. n + 1 : k \in 1 .. n \/ k = n + 1
    BY MoreClauses
<1>2. d[n + 1] = c
    BY MoreClauses
<1>3. /\ \A k \in 1 .. n : clauses[k].path \in used
      /\ \A k, l \in 1 .. n : clauses[k].path = clauses[l].path => k = l
    BY DEF Named
<1> HIDE DEF d, n
<1>4. \A k \in 1 .. n + 1 : d[k].path \in used \cup {c.path} /\ (d[k].path = c.path => k = n + 1)
    BY <1>1, <1>2, <1>3
<1>5. \A k, l \in 1 .. n + 1 : d[k].path = d[l].path => k = l
  <2> TAKE k, l \in 1 .. n + 1
  <2> HAVE d[k].path = d[l].path
  <2>1. CASE k = n + 1 \/ l = n + 1
      BY <1>2, <1>4, <2>1
  <2>2. CASE k \in 1 .. n /\ l \in 1 .. n
      BY <1>1, <1>3, <2>2
  <2> QED
      BY <1>1, <2>1, <2>2
<1>6. Named(d, used \cup {c.path})
    BY <1>1, <1>4, <1>5 DEF Named
<1> QED
    BY <1>6 DEF d

LEMMA UnderMore ==
    ASSUME NEW blocks \in Documents, NEW clauses \in Seq(AClause(blocks)), NEW c \in AClause(blocks),
           c.headingPath = <<>> \/ Encloses(blocks, c.block, c.headingPath), Under(blocks, clauses)
    PROVE  Under(blocks, Append(clauses, c))
<1> DEFINE n == Len(clauses)
           d == Append(clauses, c)
<1>1. /\ n \in Nat /\ Len(d) = n + 1 /\ \A k \in 1 .. n : d[k] = clauses[k]
      /\ \A k \in 1 .. n + 1 : k \in 1 .. n \/ k = n + 1
    BY MoreClauses
<1>2. d[n + 1] = c
    BY MoreClauses
<1>3. \A k \in 1 .. n :
         clauses[k].headingPath # <<>> => Encloses(blocks, clauses[k].block, clauses[k].headingPath)
    BY DEF Under
<1> HIDE DEF d, n
<1>4. \A k \in 1 .. n + 1 : d[k].headingPath # <<>> => Encloses(blocks, d[k].block, d[k].headingPath)
    BY <1>1, <1>2, <1>3
<1>5. Under(blocks, d)
    BY <1>1, <1>4 DEF Under
<1> QED
    BY <1>5 DEF d

(* A step keeps all of it.                                                 *)
LEMMA StepKeepsWalk ==
    ASSUME Segments!SegmenterAssumption, NEW blocks \in Documents, NEW i \in Segments!boundaries(blocks),
           NEW acc, WalkInv(blocks, Segments!boundaries(blocks), i - 1, acc)
    PROVE  WalkInv(blocks, Segments!boundaries(blocks), i, Segments!Step(blocks, acc, Segments!boundaries(blocks), i))
<1> DEFINE at == Segments!boundaries(blocks)
           next == Segments!Step(blocks, acc, at, i)
           to == Segments!EndOf(blocks, at, i)
           j == Segments!Following(blocks, at, i)
<1>0. /\ at \in SUBSET BlockNumbers(blocks) /\ i \in BlockNumbers(blocks) /\ i \in 0 .. Len(blocks)
      /\ i \in Nat \ {0} /\ Len(blocks) \in Nat /\ acc \in WalkState(blocks)
    BY BoundariesAre DEF BlockNumbers, Documents, WalkInv
<1>1. /\ acc.clauses \in Seq(AClause(blocks))
      /\ acc.scope \in Seq(Segments!Headed(blocks)) /\ acc.stack \in Seq(AHeading(blocks))
    BY <1>0 DEF WalkState
<1>2. PICK c : /\ Adds(blocks, acc, next, c, i, to)
               /\ OpensAt(blocks, acc, i, next, c)
    BY <1>0, StepIs
<1>3. /\ j \in i + 1 .. Len(blocks) + 1 /\ to = Segments!Start(j) - 1 /\ Segments!Start(j) \in Nat
      /\ Segments!Following(blocks, at, i - 1) = i
    BY <1>0, FollowingIs
<1> HIDE DEF at, next, to, j
<1>4. /\ next \in WalkState(blocks) /\ c \in AClause(blocks) /\ c.path \notin acc.used
      /\ next.clauses = Append(acc.clauses, c) /\ next.used = acc.used \cup {c.path}
      /\ c.charStart = Segments!Start(i) /\ c.charEnd = to /\ c.block = i
    BY <1>2 DEF Adds
<1>5. /\ Tiled(acc.clauses, Segments!Start(i)) /\ Named(acc.clauses, acc.used) /\ Under(blocks, acc.clauses)
      /\ Scoped(blocks, i - 1, acc.scope, acc.stack)
    BY <1>3 DEF WalkInv, at
<1>6. Tiled(next.clauses, Segments!Start(j))
  <2>1. Segments!Start(i) \in Nat /\ Segments!Start(i) < Segments!Start(j) - 1
    <3>1. i < j /\ j \in Nat
        BY <1>0, <1>3
    <3> QED
        BY <1>0, <3>1, StartsGrow
  <2> QED
      BY <1>1, <1>3, <1>4, <1>5, <2>1, TiledMore
<1>7. Named(next.clauses, next.used)
    BY <1>1, <1>4, <1>5, NamedMore
<1>8. /\ Scoped(blocks, i, next.scope, next.stack)
      /\ c.headingPath = <<>> \/ Encloses(blocks, i, c.headingPath)
  <2> DEFINE m == Match(blocks, i)
  <2>1. CASE m = Segments!NoMatch /\ next.scope = acc.scope /\ next.stack = acc.stack /\ c.headingPath = <<>>
    <3>1. ~Heads(blocks, i)
        BY <2>1 DEF Heads
    <3> QED
        BY <1>0, <1>5, <2>1, <3>1, ScopedSame
  <2>2. CASE /\ IsHeading(m) /\ m.opensScope
             /\ next.scope = <<i>> /\ next.stack = <<>> /\ c.headingPath = <<i>>
    <3>1. Annex(blocks, i)
        BY <2>2 DEF Annex, Heads, IsHeading
    <3>2. Scoped(blocks, i, next.scope, next.stack) /\ Encloses(blocks, i, next.scope)
        BY <1>0, <2>2, <3>1, ScopedAnnex
    <3>3. c.headingPath = next.scope
        BY <2>2
    <3> QED
        BY <3>2, <3>3
  <2>3. CASE /\ IsHeading(m) /\ ~m.opensScope
             /\ next.scope = acc.scope /\ next.stack = Pushed(acc.stack, m, i)
             /\ c.headingPath = acc.scope \o BlocksOf(next.stack)
    <3>1. Heads(blocks, i) /\ ~Annex(blocks, i)
        BY <2>3 DEF Annex, Heads, IsHeading
    <3>2. acc.scope \in Seq(BlockNumbers(blocks))
        BY <1>1, BoundariesAre DEF BlockNumbers
    <3>3. next.stack \in Seq(AHeading(blocks))
        BY <1>4 DEF WalkState
    <3> HIDE DEF m
    <3>4. next.stack = Pushed(acc.stack, Match(blocks, i), i)
        BY <2>3 DEF m
    <3>5. Scoped(blocks, i, acc.scope, next.stack) /\ Encloses(blocks, i, acc.scope \o BlocksOf(next.stack))
        BY <1>0, <1>1, <1>5, <3>1, <3>2, <3>3, <3>4, ScopedHeading
    <3> QED
        BY <2>3, <3>5
  <2> QED
      BY <1>2, <2>1, <2>2, <2>3 DEF OpensAt
<1>9. Under(blocks, next.clauses)
    BY <1>1, <1>4, <1>5, <1>8, UnderMore
<1> QED
    BY <1>4, <1>6, <1>7, <1>8, <1>9 DEF WalkInv, j, next, at

(* Between two boundaries nothing changes.                                 *)
LEMMA SkipKeepsWalk ==
    ASSUME Segments!SegmenterAssumption, NEW blocks \in Documents,
           NEW i \in BlockNumbers(blocks), i \notin Segments!boundaries(blocks),
           NEW acc, WalkInv(blocks, Segments!boundaries(blocks), i - 1, acc)
    PROVE  WalkInv(blocks, Segments!boundaries(blocks), i, acc)
<1> DEFINE at == Segments!boundaries(blocks)
<1>0. /\ at \in SUBSET BlockNumbers(blocks) /\ i \in 0 .. Len(blocks) /\ i \in Nat \ {0}
      /\ i \in DOMAIN blocks
    BY BoundariesAre DEF BlockNumbers, Documents
<1>1. Segments!Following(blocks, at, i - 1) = Segments!Following(blocks, at, i)
    BY <1>0, FollowingIs
<1>2. ~Heads(blocks, i)
  <2> SUFFICES ASSUME Heads(blocks, i) PROVE FALSE
      OBVIOUS
  <2>1. i \in Segments!Headed(blocks)
      BY <1>0 DEF Segments!Headed, Heads, Match
  <2> QED
      BY <2>1, BoundariesAre
<1> HIDE DEF at
<1>3. Scoped(blocks, i, acc.scope, acc.stack)
    BY <1>0, <1>2, ScopedSame DEF WalkInv
<1> QED
    BY <1>1, <1>3 DEF WalkInv, at

(* What precedes the first boundary.                                       *)
LEMMA FrontIs ==
    ASSUME Segments!SegmenterAssumption, NEW blocks \in Documents, blocks # <<>>
    PROVE  WalkInv(blocks, Segments!boundaries(blocks), 0,
                   Segments!FrontMatter(blocks, Segments!Min(Segments!boundaries(blocks))))
<1> DEFINE at == Segments!boundaries(blocks)
           first == Segments!Min(at)
           acc == Segments!FrontMatter(blocks, first)
           empty == Segments!Empty
           none == <<>>
<1>0. /\ at \in SUBSET BlockNumbers(blocks) /\ at # {} /\ Len(blocks) \in Nat /\ 0 \in 0 .. Len(blocks)
      /\ at \subseteq 0 .. Len(blocks) /\ 1 \in BlockNumbers(blocks)
    BY BoundariesAre DEF BlockNumbers, Documents
<1>1. first \in at /\ first \in Nat \ {0} /\ Segments!Following(blocks, at, 0) = first
  <2>1. first \in at
      BY <1>0, SegmentMinMax
  <2> QED
      BY <1>0, <2>1, FollowingIs DEF BlockNumbers
<1> HIDE DEF first, at
<1>2. empty.clauses = none /\ empty.used = {} /\ empty.scope = none /\ empty.stack = none
    BY DEF Segments!Empty
<1>n. /\ none \in Seq(AClause(blocks)) /\ none \in Seq(Segments!Headed(blocks)) /\ none \in Seq(AHeading(blocks))
      /\ none \in Seq(BlockNumbers(blocks)) /\ Len(none) = 0
    OBVIOUS
<1>3. empty \in WalkState(blocks)
  <2>1. IsFiniteSet({})
      BY FS_EmptySet
  <2>2. empty = [clauses |-> none, used |-> {}, scope |-> none, stack |-> none]
      BY DEF Segments!Empty
  <2> HIDE DEF empty, none
  <2> QED
      BY <1>n, <2>1, <2>2 DEF WalkState
<1>4. Scoped(blocks, 0, none, none)
    BY DEF Scoped, ScopeIs, StackIs, Open
<1>5. Tiled(none, 0) /\ Named(none, {}) /\ Under(blocks, none)
    BY DEF Tiled, Named, Under
<1>6. Segments!Start(1) = 0
    BY Starts
<1> HIDE DEF none, empty
<1>7. CASE first = 1
  <2>1. acc = empty
      BY <1>7 DEF Segments!FrontMatter, empty
  <2> HIDE DEF acc
  <2>2. WalkInv(blocks, at, 0, acc)
      BY <1>1, <1>2, <1>3, <1>4, <1>5, <1>6, <1>7, <2>1 DEF WalkInv
  <2> QED
      BY <2>2 DEF acc, first, at
<1>8. CASE first > 1
  <2> DEFINE to == Segments!Start(first) - 1
             path == Segments!Path(none, "front-matter", none)
             from == 1
             c == NewClause(empty, from, to, path, none)
  <2>1. acc = Segments!Clause(blocks, empty, 1, to, path, none)
      BY <1>8 DEF Segments!FrontMatter, empty, none
  <2>2. path \in Paths
      BY DEF Segments!Path, Paths, Kinds, none
  <2>3. /\ Segments!Start(first) \in Nat /\ to \in Int /\ Segments!Start(1) < Segments!Start(first) - 1
      BY <1>1, <1>8, StartsGrow
  <2>f. acc = Segments!Clause(blocks, empty, from, to, path, none) /\ from \in BlockNumbers(blocks)
      BY <1>0, <2>1
  <2> HIDE DEF to, path, acc, from
  <2>4. /\ Adds(blocks, empty, acc, c, from, to) /\ acc.scope = none /\ acc.stack = none /\ c.headingPath = none
    <3>1. none \in Seq(BlockNumbers(blocks))
        BY <1>n
    <3>2. to \in Int
        BY <2>3
    <3>3. /\ Adds(blocks, empty, acc, c, from, to)
          /\ acc.scope = empty.scope /\ acc.stack = empty.stack /\ c.headingPath = none
        BY <1>3, <2>f, <2>2, <3>1, <3>2, ClauseAdds
    <3> QED
        BY <1>2, <3>3
  <2> HIDE DEF c
  <2>5. /\ acc \in WalkState(blocks) /\ c \in AClause(blocks) /\ c.path \notin empty.used
        /\ acc.clauses = Append(none, c) /\ acc.used = empty.used \cup {c.path}
        /\ c.charStart = 0 /\ c.charEnd = to
      BY <1>2, <1>6, <2>4 DEF Adds, from
  <2>6. Tiled(acc.clauses, Segments!Start(first))
    <3>1. 0 < Segments!Start(first) - 1 /\ to = Segments!Start(first) - 1
        BY <1>6, <2>3 DEF to
    <3> QED
        BY <1>n, <1>5, <2>3, <2>5, <3>1, TiledMore
  <2>7. Named(acc.clauses, acc.used)
    <3>1. Named(none, empty.used)
        BY <1>2, <1>5
    <3>2. none \in Seq(AClause(blocks)) /\ c \in AClause(blocks) /\ c.path \notin empty.used
        BY <1>n, <2>5
    <3>3. Named(Append(none, c), empty.used \cup {c.path})
        BY <3>1, <3>2, NamedMore
    <3> QED
        BY <2>5, <3>3
  <2>8. Under(blocks, acc.clauses)
    <3>1. c.headingPath = <<>>
        BY <2>4 DEF none
    <3> QED
        BY <1>n, <1>5, <2>5, <3>1, UnderMore
  <2>9. WalkInv(blocks, at, 0, acc)
      BY <1>1, <1>4, <2>4, <2>5, <2>6, <2>7, <2>8 DEF WalkInv
  <2> QED
      BY <2>9 DEF acc, first, at
<1> QED
    BY <1>1, <1>7, <1>8

(* The walk, block after block.                                            *)
Walked(blocks, acc, i) ==
    IF i \in Segments!boundaries(blocks) THEN Segments!Step(blocks, acc, Segments!boundaries(blocks), i) ELSE acc
Front(blocks) == Segments!FrontMatter(blocks, Segments!Min(Segments!boundaries(blocks)))

LEMMA WalksOf ==
    ASSUME Segments!SegmenterAssumption, NEW blocks \in Documents, blocks # <<>>
    PROVE  LET walk == Segments!Walk(blocks)
           IN  walk[0] = Front(blocks) /\ \A k \in 1 .. Len(blocks) : walk[k] = Walked(blocks, walk[k - 1], k)
<1> DEFINE N == Len(blocks)
           at == Segments!boundaries(blocks)
           V == WalkState(blocks)
           F == [k \in 1 .. N |-> [a \in V |-> Walked(blocks, a, k)]]
           Def(f) == f = [k \in 0 .. N |-> IF k = 0 THEN Front(blocks)
                                           ELSE IF k \in at THEN Segments!Step(blocks, f[k - 1], at, k) ELSE f[k - 1]]
           walk == CHOOSE f : Def(f)
<1>1. N \in Nat /\ Front(blocks) \in V
  <2>1. WalkInv(blocks, at, 0, Front(blocks))
      BY FrontIs DEF Front
  <2> QED
      BY <2>1 DEF WalkInv, Documents
<1>2. \A k \in 1 .. N : \A a \in V : Walked(blocks, a, k) \in V
  <2> TAKE k \in 1 .. N
  <2> TAKE a \in V
  <2>1. CASE k \in at
    <3>1. at \in SUBSET BlockNumbers(blocks)
        BY BoundariesAre DEF BlockNumbers
    <3>2. PICK c : Adds(blocks, a, Segments!Step(blocks, a, at, k), c, k, Segments!EndOf(blocks, at, k))
        BY <2>1, <3>1, StepIs
    <3> QED
        BY <2>1, <3>2 DEF Adds, Walked
  <2>2. CASE k \notin at
      BY <2>2 DEF Walked
  <2> QED
      BY <2>1, <2>2
<1>3. Segments!Walk(blocks) = walk
    BY DEF Segments!Walk, Front
<1>4. PICK f : Unfolds(f, N, V, Front(blocks), F)
  <2> HIDE DEF V, N
  <2>1. F \in Steps(N, V)
      BY <1>2 DEF Steps
  <2> HIDE DEF F
  <2> QED
      BY <1>1, <2>1, Recursion
<1> HIDE DEF V
<1>5. \A k \in 1 .. N : f[k] = Walked(blocks, f[k - 1], k)
  <2> TAKE k \in 1 .. N
  <2>1. f[k - 1] \in V
      BY <1>1, <1>4 DEF Unfolds
  <2> QED
      BY <2>1, <1>4 DEF Unfolds
<1>6. Def(f)
  <2>1. f \in [0 .. N -> V] /\ f[0] = Front(blocks)
      BY <1>4 DEF Unfolds
  <2> HIDE DEF N, at
  <2>2. \A k \in 1 .. N : f[k] = IF k \in at THEN Segments!Step(blocks, f[k - 1], at, k) ELSE f[k - 1]
      BY <1>5 DEF Walked, at
  <2>3. \A k \in 0 .. N : k = 0 \/ k \in 1 .. N
      BY <1>1
  <2> QED
      BY <2>1, <2>2, <2>3
<1>7. Def(walk)
    BY <1>6
<1> HIDE DEF walk
<1>8. walk[0] = Front(blocks) /\ \A k \in 1 .. N : walk[k] = Walked(blocks, walk[k - 1], k)
    BY <1>1, <1>7 DEF Walked
<1> QED
    BY <1>3, <1>8

LEMMA WalksHold ==
    ASSUME Segments!SegmenterAssumption, NEW blocks \in Documents, blocks # <<>>
    PROVE  WalkInv(blocks, Segments!boundaries(blocks), Len(blocks), Segments!Walk(blocks)[Len(blocks)])
<1> DEFINE N == Len(blocks)
           at == Segments!boundaries(blocks)
           walk == Segments!Walk(blocks)
           S == {k \in Nat : WalkInv(blocks, at, k, walk[k])}
<1>0. N \in Nat
    BY DEF Documents
<1>1. walk[0] = Front(blocks) /\ \A k \in 1 .. N : walk[k] = Walked(blocks, walk[k - 1], k)
    BY WalksOf
<1>2. 0 \in S
    BY <1>1, FrontIs DEF Front
<1> HIDE DEF walk
<1>3. \A k \in 0 .. N - 1 : k \in S => k + 1 \in S
  <2> SUFFICES ASSUME NEW k \in 0 .. N - 1, WalkInv(blocks, at, k, walk[k])
               PROVE  WalkInv(blocks, at, k + 1, walk[k + 1])
      BY <1>0
  <2> HIDE DEF S
  <2> DEFINE i == k + 1
  <2>1. i \in 1 .. N /\ i - 1 = k /\ i \in BlockNumbers(blocks)
      BY <1>0 DEF BlockNumbers
  <2> HIDE DEF i
  <2>2. walk[i] = Walked(blocks, walk[k], i) /\ WalkInv(blocks, at, i - 1, walk[k])
      BY <1>1, <2>1
  <2>3. CASE i \in at
    <3>1. WalkInv(blocks, at, i, Segments!Step(blocks, walk[k], at, i))
        BY <2>2, <2>3, StepKeepsWalk
    <3> QED
        BY <2>2, <2>3, <3>1 DEF Walked, i
  <2>4. CASE i \notin at
    <3>1. WalkInv(blocks, at, i, walk[k])
        BY <2>1, <2>2, <2>4, SkipKeepsWalk
    <3> QED
        BY <2>2, <2>4, <3>1 DEF Walked, i
  <2> QED
      BY <2>3, <2>4 DEF i
<1>4. 0 .. N \subseteq S
  <2> HIDE DEF S
  <2> QED
      BY <1>0, <1>2, <1>3, InductTo
<1>5. N \in S
    BY <1>0, <1>4
<1> QED
    BY <1>5 DEF walk

(* The clauses of a document, whatever its headings.                       *)
LEMMA SegmentsHold ==
    ASSUME Segments!SegmenterAssumption, NEW blocks \in Documents
    PROVE  Segments!Tiles(blocks) /\ Segments!PathsUnique(blocks) /\ Segments!HeadingsEnclose(blocks)
<1> DEFINE c == Segments!segmentClauses(blocks)
           acc == Segments!Walk(blocks)[Len(blocks)]
<1>1. CASE blocks = <<>>
  <2>1. c = <<>> /\ DOMAIN c = {}
      BY <1>1 DEF Segments!segmentClauses
  <2> QED
      BY <1>1, <2>1 DEF Segments!Tiles, Segments!PathsUnique, Segments!HeadingsEnclose
<1>2. CASE blocks # <<>>
  <2>0. Len(blocks) \in Nat /\ Len(blocks) # 0
      BY <1>2 DEF Documents
  <2>1. c = acc.clauses
      BY <1>2 DEF Segments!segmentClauses
  <2>2. WalkInv(blocks, Segments!boundaries(blocks), Len(blocks), acc)
      BY <1>2, WalksHold
  <2> HIDE DEF acc, c
  <2>3. c \in Seq(AClause(blocks)) /\ DOMAIN c = 1 .. Len(c) /\ Named(c, acc.used) /\ Under(blocks, c)
      BY <2>1, <2>2 DEF WalkInv, WalkState
  <2>4. Tiled(c, Segments!Start(Len(blocks) + 1))
    <3>1. Segments!Following(blocks, Segments!boundaries(blocks), Len(blocks)) = Len(blocks) + 1
      <4> DEFINE at == Segments!boundaries(blocks)
                 last0 == Len(blocks)
      <4>1. at \in SUBSET BlockNumbers(blocks) /\ last0 \in 0 .. Len(blocks)
          BY <2>0, BoundariesAre DEF BlockNumbers
      <4> HIDE DEF at, last0
      <4>2. Segments!Following(blocks, at, last0) \in last0 + 1 .. Len(blocks) + 1
          BY <4>1, FollowingIs
      <4> HIDE DEF at
      <4> QED
          BY <2>0, <4>2 DEF at, last0
    <3> QED
        BY <2>1, <2>2, <3>1 DEF WalkInv
  <2>5. Segments!Start(Len(blocks) + 1) = Len(blocks) * (BlockLength + 1)
        /\ Segments!CanonicalLength(blocks) = Segments!Start(Len(blocks) + 1) - 1
      BY <2>0, Starts DEF Segments!CanonicalLength
  <2>6. c # <<>>
    <3>1. Segments!Start(Len(blocks) + 1) # 0
      <4>1. 1 \in Nat \ {0} /\ Len(blocks) + 1 \in Nat /\ 1 < Len(blocks) + 1
          BY <2>0
      <4>2. Segments!Start(1) \in Nat /\ Segments!Start(Len(blocks) + 1) \in Nat
            /\ Segments!Start(1) < Segments!Start(Len(blocks) + 1) - 1
          BY <4>1, StartsGrow
      <4> QED
          BY <4>2
    <3> QED
        BY <2>4, <3>1 DEF Tiled
  <2>7. Segments!Last(c) = c[Len(c)]
      BY DEF Segments!Last
  <2>8. Segments!Tiles(blocks)
      BY <2>3, <2>4, <2>5, <2>6, <2>7 DEF Segments!Tiles, Tiled, c
  <2>9. Segments!PathsUnique(blocks)
      BY <2>3 DEF Segments!PathsUnique, Named, c
  <2>10. Segments!HeadingsEnclose(blocks)
      BY <2>3 DEF Segments!HeadingsEnclose, Under, Encloses, c
  <2> QED
      BY <2>8, <2>9, <2>10
<1> QED
    BY <1>1, <1>2

-----------------------------------------------------------------------------
(***************************************************************************)
(* The properties of the project, of these parts.                          *)
(***************************************************************************)

(* A model is heard once, whole, in order and patiently, whatever it says  *)
(* and wherever its stream breaks off, and what the evaluation remembers   *)
(* is what it was told, whatever else was asked before.                    *)
THEOREM ModelsHold == Call!Spec /\ Cache!Spec => ModelsAreHeardOnce
<1>1. Call!CallAssumption /\ Cache!CacheAssumption
    BY PartsAssumption DEF PartsAssumption
<1> QED
    BY <1>1, CallHeardOnce, CacheRemembers, PTL DEF ModelsAreHeardOnce

LEMMA TrustedThen ==
    ASSUME InputsAreLegal PROVE FieldsAreTrusted
<1>1. ASSUME Is("answers"), Picked PROVE Fills!SavedWhole(input[1]) /\ Fills!TrustIsCited(input[1])
    BY <1>1, PartsAssumption, AnswersHold DEF InputsAreLegal, PartsAssumption
<1>2. ASSUME Is("rules"), Picked
      PROVE  LET own == Saved(input[1].read, input[1].type)
                 ex  == Bench!Merged(own, input[1].left)
             IN  /\ Bench!CiteExtracted(ex, input[1].type)
                 /\ Bench!LessIsNotMore(ex, input[1].type)
                 /\ Bench!NotFromLeftovers(own, input[1].left, input[1].type)
  <2> DEFINE own == Saved(input[1].read, input[1].type)
             ex  == Bench!Merged(own, input[1].left)
  <2>1. Readings(ex) /\ input[1].type \in Bench!DocumentTypes
      BY <1>2, ReadingsAre DEF InputsAreLegal
  <2> HIDE DEF own, ex
  <2>2. Bench!CiteExtracted(ex, input[1].type) /\ Bench!LessIsNotMore(ex, input[1].type)
      BY <2>1, RulesHold
  <2>3. Bench!NotFromLeftovers(own, input[1].left, input[1].type)
      BY <2>1, LeftoversHold
  <2> QED
      BY <2>2, <2>3 DEF own, ex
<1> QED
    BY <1>1, <1>2 DEF FieldsAreTrusted

(* Of every answer of a model, however wrong: what is stored is one valid  *)
(* answer or says that it failed, and is trusted only where it can be      *)
(* looked up, and never on a quotation that is lost.  Of everything that   *)
(* may be read of a document, whichever rows of other versions are merged  *)
(* with its own: a flag stands on fields that were extracted, and is not   *)
(* raised by losing one of them; leftovers change the flags only through   *)
(* fields that the schema of the document has as well.                     *)
THEOREM TrustHolds == []InputsAreLegal => []FieldsAreTrusted
BY TrustedThen, PTL

LEMMA CutThen ==
    ASSUME InputsAreLegal PROVE CutsLoseNothing
<1>1. Segments!SegmenterAssumption /\ Chunks!ChunkerAssumption
    BY PartsAssumption DEF PartsAssumption
<1>2. ASSUME Is("segments")
      PROVE  Segments!Tiles(input) /\ Segments!PathsUnique(input) /\ Segments!HeadingsEnclose(input)
  <2>1. input \in Documents
      BY <1>2 DEF InputsAreLegal, Documents
  <2> QED
      BY <1>1, <2>1, SegmentsHold
<1>3. ASSUME Is("chunks") PROVE Chunks!Covers(input) /\ Chunks!WithinBudget(input)
  <2>1. input \in Clauses
      BY <1>3 DEF InputsAreLegal, Clauses
  <2> QED
      BY <1>1, <2>1, ChunksHold
<1> QED
    BY <1>2, <1>3 DEF CutsLoseNothing

(* Of every document, of whatever blocks and headings: its clauses tile    *)
(* its text, no two share a path, and each stands under the headings that  *)
(* enclose it.  Of every clause of whatever characters: its chunks cover   *)
(* it, in order, overlap by no more than they may and fit the embedder,    *)
(* unless one is as short as it can get.                                   *)
THEOREM CutsHold == []InputsAreLegal => []CutsLoseNothing
BY CutThen, PTL
=============================================================================
