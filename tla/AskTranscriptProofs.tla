-------------------------- MODULE AskTranscriptProofs --------------------------
(***************************************************************************)
(* What AskTranscript's invariants rest on, proved for any number of       *)
(* questions and any bounds.                                               *)
(***************************************************************************)
EXTENDS AskTranscript, SequenceTheorems, FiniteSetTheorems, TLAPS

(* Notions of one transcript ts and one list s of stored questions.        *)
Has(s, q) == \E k \in 1..Len(s) : s[k] = q
Once(s) == \A i, j \in 1..Len(s) : s[i] = s[j] => i = j
Place(s, q) == CHOOSE i \in 1..Len(s) : s[i] = q
Answered(ts, i) == ts[i].status = "done"
Earlier(ts, j) == \E i \in 1..(j - 1) : Answered(ts, i) /\ ts[i].q = ts[j].q
ShowsAnswer(ts, q) == \E i \in 1..Len(ts) : ts[i].q = q /\ Answered(ts, i)
Ordered(ts, s) ==
    \A j \in 1..Len(ts) : Answered(ts, j) =>
       /\ Has(s, ts[j].q)
       /\ \A i \in 1..(j - 1) : Answered(ts, i) /\ ~Earlier(ts, j) =>
             Place(s, ts[i].q) < Place(s, ts[j].q)

(* Whether an answer to q, appended now, would be in order.                *)
Due(ts, s, q) ==
    Has(s, q) =>
       \/ ShowsAnswer(ts, q)
       \/ \A i \in 1..Len(ts) : Answered(ts, i) => Place(s, ts[i].q) < Place(s, q)

(* An answer shows the id of its row, and a failed turn nothing.           *)
Labelled(ts) ==
    \A i \in 1..Len(ts) : /\ Answered(ts, i) => ts[i].id = "row"
                          /\ ts[i].status = "error" => ts[i].answer = "none"
LastIs(ts, q) == ts # <<>> /\ ts[Len(ts)].q = q /\ ts[Len(ts)].id = "own"
-----------------------------------------------------------------------------
(* The inductive invariant.                                                *)
TypeInv ==
    /\ server \in [Questions -> Handler]
    /\ wire \in [Questions -> Seq(Arrivals)]
    /\ \A q \in Questions : Len(wire[q]) <= MaxWire
    /\ stored \in Seq(Questions)
    /\ turns \in Seq(Turn)
    /\ entry \in Entry /\ mounted \in BOOLEAN /\ running \in BOOLEAN
    /\ abort \in Questions \cup {NoQuestion}
    /\ task \in [Questions -> {"none", "reading", "aborted", "over"}]
    /\ fetch \in [pc: {"none", "sent", "read"}, turns: Seq(Questions)]

(* A question is stored once, by a handler that then has nothing left to   *)
(* do but to say so.                                                       *)
StoreOK ==
    /\ Once(stored)
    /\ \A q \in Questions :
          /\ task[q] = "none" => server[q].pc = "none"
          /\ Has(stored, q) => server[q].pc \in {"saved", "ended", "dead"}
          /\ server[q].pc = "saved" => Has(stored, q)

(* At most one stream is read, by a panel that is on screen.               *)
PanelOK ==
    /\ running <=> abort # NoQuestion
    /\ abort # NoQuestion => mounted /\ task[abort] = "reading"
    /\ \A q \in Questions : task[q] = "reading" => abort = q

(* A frame that ends the stream is its last, and `done` comes after the    *)
(* turn was stored.                                                        *)
WireOK ==
    \A q \in Questions :
       /\ task[q] # "reading" => wire[q] = <<>>
       /\ \A i \in 1..Len(wire[q]) :
             /\ wire[q][i] \in {"done", "error", "refused"} =>
                   i = Len(wire[q]) /\ server[q].pc = "ended"
             /\ wire[q][i] = "done" => Has(stored, q)

(* The turn of an open stream is the last one and not yet a row; it has    *)
(* failed only when nothing more is to come; or its answer is there, and   *)
(* nothing more is to come.                                                *)
Delivered(q) == wire[q] = <<>> /\ server[q].pc = "ended" /\ ShowsAnswer(turns, q)
Awaited(q) ==
    /\ LastIs(turns, q)
    /\ wire[q] # <<>> \/ server[q].pc # "ended" => turns[Len(turns)].status # "error"
    /\ Due(turns, stored, q)
LiveOK == \A q \in Questions : task[q] = "reading" => Awaited(q) \/ Delivered(q)

(* What was read was stored, and first.                                    *)
FetchOK ==
    /\ Len(fetch.turns) <= Len(stored)
    /\ \A i \in 1..Len(fetch.turns) : fetch.turns[i] = stored[i]

Inv ==
    /\ TypeInv /\ StoreOK /\ PanelOK /\ WireOK /\ LiveOK /\ FetchOK
    /\ Labelled(turns) /\ Ordered(turns, stored)
-----------------------------------------------------------------------------
(* Lemmas about the list of stored questions.                              *)
LEMMA PlaceIs ==
    ASSUME NEW S, NEW s \in Seq(S), Once(s), NEW i \in 1..Len(s)
    PROVE  Place(s, s[i]) = i
<1>1. \A j \in 1..Len(s) : s[j] = s[i] => j = i
    BY DEF Once
<1> QED
    BY <1>1 DEF Place

LEMMA StoreMore ==
    ASSUME NEW S, NEW s \in Seq(S), Once(s), NEW q \in S, ~Has(s, q)
    PROVE  /\ Append(s, q) \in Seq(S)
           /\ Len(Append(s, q)) = Len(s) + 1
           /\ \A i \in 1..Len(s) : Append(s, q)[i] = s[i]
           /\ Once(Append(s, q))
           /\ \A p : Has(Append(s, q), p) <=> Has(s, p) \/ p = q
           /\ \A p : Has(s, p) => Place(s, p) < Len(s) + 1
           /\ \A p : Has(s, p) => Place(Append(s, q), p) = Place(s, p)
           /\ Place(Append(s, q), q) = Len(s) + 1
<1> DEFINE t == Append(s, q)
<1>1. t \in Seq(S) /\ Len(t) = Len(s) + 1 /\ t[Len(s) + 1] = q /\ Len(s) \in Nat
    OBVIOUS
<1>2. \A i \in 1..Len(s) : t[i] = s[i]
    OBVIOUS
<1> HIDE DEF t
<1>3. Once(t)
  <2> SUFFICES ASSUME NEW i \in 1..Len(t), NEW j \in 1..Len(t), t[i] = t[j] PROVE i = j
    BY DEF Once
  <2>1. CASE i = Len(s) + 1 /\ j # i
    BY <1>1, <1>2, <2>1 DEF Has
  <2>2. CASE j = Len(s) + 1 /\ j # i
    BY <1>1, <1>2, <2>2 DEF Has
  <2>3. CASE i # Len(s) + 1 /\ j # Len(s) + 1
    BY <1>1, <1>2, <2>3 DEF Once
  <2> QED
    BY <2>1, <2>2, <2>3
<1>4. \A p : Has(t, p) <=> Has(s, p) \/ p = q
  <2> TAKE p
  <2>1. ASSUME Has(s, p) PROVE Has(t, p)
    BY <1>1, <1>2, <2>1 DEF Has
  <2>2. ASSUME Has(t, p), p # q PROVE Has(s, p)
    <3>1. PICK k \in 1..Len(t) : t[k] = p
      BY <2>2 DEF Has
    <3>2. k \in 1..Len(s)
      BY <1>1, <2>2, <3>1
    <3> QED
      BY <1>2, <3>1, <3>2 DEF Has
  <2>3. Has(t, q)
    BY <1>1 DEF Has
  <2> QED
    BY <2>1, <2>2, <2>3
<1>5. ASSUME NEW p, Has(s, p) PROVE Place(s, p) < Len(s) + 1 /\ Place(t, p) = Place(s, p)
  <2>1. PICK k \in 1..Len(s) : s[k] = p
    BY <1>5 DEF Has
  <2>2. Place(s, p) = k
    BY <2>1, PlaceIs
  <2>3. k \in 1..Len(t) /\ t[k] = p
    BY <1>1, <1>2, <2>1
  <2>4. Place(t, p) = k
    BY <1>1, <1>3, <2>3, PlaceIs
  <2> QED
    BY <1>1, <2>2, <2>4
<1>6. Place(t, q) = Len(s) + 1
  <2>1. Len(s) + 1 \in 1..Len(t)
    BY <1>1
  <2> QED
    BY <1>1, <1>3, <2>1, PlaceIs
<1> QED
    BY <1>1, <1>2, <1>3, <1>4, <1>5, <1>6 DEF t

LEMMA OrderedMore ==
    ASSUME NEW S, NEW s \in Seq(S), Once(s), NEW q \in S, ~Has(s, q), NEW ts, Ordered(ts, s)
    PROVE  /\ Ordered(ts, Append(s, q))
           /\ \A p : Due(ts, s, p) => Due(ts, Append(s, q), p)
<1> DEFINE t == Append(s, q)
<1>1. /\ \A p : Has(t, p) <=> Has(s, p) \/ p = q
      /\ \A p : Has(s, p) => Place(s, p) < Len(s) + 1
      /\ \A p : Has(s, p) => Place(t, p) = Place(s, p)
      /\ Place(t, q) = Len(s) + 1
    BY StoreMore
<1> HIDE DEF t
<1>2. Ordered(ts, t)
  <2> SUFFICES ASSUME NEW j \in 1..Len(ts), Answered(ts, j)
               PROVE  /\ Has(t, ts[j].q)
                      /\ \A i \in 1..(j - 1) : Answered(ts, i) /\ ~Earlier(ts, j) =>
                            Place(t, ts[i].q) < Place(t, ts[j].q)
    BY DEF Ordered
  <2>1. Has(s, ts[j].q)
    BY DEF Ordered
  <2>2. ASSUME NEW i \in 1..(j - 1), Answered(ts, i), ~Earlier(ts, j)
        PROVE  Place(t, ts[i].q) < Place(t, ts[j].q)
    <3>1. i \in 1..Len(ts)
      BY DEF Ordered
    <3>2. Has(s, ts[i].q) /\ Place(s, ts[i].q) < Place(s, ts[j].q)
      BY <2>2, <3>1 DEF Ordered
    <3> QED
      BY <1>1, <2>1, <3>2
  <2> QED
    BY <1>1, <2>1, <2>2
<1>3. ASSUME NEW p, Due(ts, s, p) PROVE Due(ts, t, p)
  <2>1. \A i \in 1..Len(ts) : Answered(ts, i) => Has(s, ts[i].q)
    BY DEF Ordered
  <2>2. CASE Has(s, p)
    BY <1>1, <1>3, <2>1, <2>2 DEF Due
  <2>3. CASE p = q
    BY <1>1, <2>1, <2>3 DEF Due
  <2>4. CASE ~Has(t, p)
    BY <2>4 DEF Due
  <2> QED
    BY <1>1, <2>2, <2>3, <2>4
<1> QED
    BY <1>2, <1>3 DEF t

(* b consists of the elements of s at K, each once and in order.           *)
Picks(b, s, K) ==
    \E f \in [1..Len(b) -> K] :
       /\ \A n \in 1..Len(b) : b[n] = s[f[n]]
       /\ \A m, n \in 1..Len(b) : m < n => f[m] < f[n]
       /\ \A i \in K : \E n \in 1..Len(b) : f[n] = i

LEMMA FilteredKeeps ==
    ASSUME NEW S, NEW s \in Seq(S), NEW K \in SUBSET (1..Len(s))
    PROVE  /\ Filtered(s, K) \in Seq(S)
           /\ Picks(Filtered(s, K), s, K)
<1> DEFINE upTo(i) == {j \in K : j <= i}
           rank == [i \in K |-> Cardinality(upTo(i))]
           size == Cardinality(K)
<1>1. Len(s) \in Nat /\ \A i \in K : i \in Int /\ i \in 1..Len(s)
    OBVIOUS
<1>2. IsFiniteSet(K) /\ size \in Nat
  <2>1. IsFiniteSet(1..Len(s))
    BY <1>1, FS_Interval
  <2>2. IsFiniteSet(K)
    BY <2>1, FS_Subset
  <2> QED
    BY <2>2, FS_CardinalityType
<1>3. ASSUME NEW i \in K
      PROVE  IsFiniteSet(upTo(i)) /\ rank[i] = Cardinality(upTo(i)) /\ rank[i] \in 1..size
  <2>1. upTo(i) \in SUBSET K /\ i \in upTo(i)
    BY <1>1
  <2>2. IsFiniteSet(upTo(i)) /\ Cardinality(upTo(i)) <= size
    BY <1>2, <2>1, FS_Subset
  <2>3. Cardinality(upTo(i)) \in Nat /\ Cardinality(upTo(i)) # 0
    BY <2>1, <2>2, FS_CardinalityType, FS_EmptySet
  <2> QED
    BY <1>2, <2>2, <2>3
<1>4. ASSUME NEW i \in K, NEW k \in K, i < k PROVE rank[i] < rank[k]
  <2>0. i \in Int /\ k \in Int /\ \A j \in K : j \in Int
    BY <1>1
  <2>1. upTo(i) \in SUBSET upTo(k) /\ k \in upTo(k) /\ k \notin upTo(i)
    <3>1. \A j \in K : j <= i => j <= k
      BY <2>0, <1>4
    <3>2. k <= k /\ ~(k <= i)
      BY <2>0, <1>4
    <3> QED
      BY <3>1, <3>2
  <2>2. /\ Cardinality(upTo(i)) <= Cardinality(upTo(k))
        /\ Cardinality(upTo(i)) # Cardinality(upTo(k))
    BY <1>3, <2>1, FS_Subset
  <2>3. rank[i] # rank[k] /\ rank[i] <= rank[k] /\ rank[i] \in Int /\ rank[k] \in Int
    BY <1>2, <1>3, <2>2
  <2> QED
    BY <2>3
<1> HIDE DEF rank, size, upTo
<1>5. rank \in [K -> 1..size]
    BY <1>3 DEF rank
<1>6. rank \in Injection(K, 1..size)
  <2>1. \A i, k \in K : rank[i] = rank[k] => i = k
    BY <1>1, <1>3, <1>4
  <2> QED
    BY <1>5, <2>1 DEF Injection, IsInjective
<1>7. rank \in Surjection(K, 1..size)
  <2>1. IsFiniteSet(1..size) /\ Cardinality(1..size) = size
    BY <1>2, FS_Interval
  <2> QED
    BY <1>6, <2>1, FS_Injection DEF size
<1>8. \A n \in 1..size : \E i \in K : rank[i] = n
    BY <1>7 DEF Surjection
<1> DEFINE nth(n) == CHOOSE i \in K : rank[i] = n
           f == [n \in 1..size |-> nth(n)]
<1>9. \A n \in 1..size : nth(n) \in K /\ rank[nth(n)] = n
    BY <1>8
<1>10. \A n \in 1..size : (CHOOSE i \in K : Cardinality({j \in K : j <= i}) = n) = nth(n)
    BY DEF rank, upTo
<1>11. Filtered(s, K) = [n \in 1..size |-> s[nth(n)]]
  <2> DEFINE inK(n) == CHOOSE i \in K : Cardinality({j \in K : j <= i}) = n
  <2>1. Filtered(s, K) = [n \in 1..size |-> s[inK(n)]]
    BY DEF Filtered, size
  <2>2. \A n \in 1..size : inK(n) = nth(n)
    BY <1>10
  <2> HIDE DEF inK, nth
  <2> QED
    BY <2>1, <2>2
<1> HIDE DEF nth
<1>12. \A n \in 1..size : f[n] = nth(n) /\ s[nth(n)] \in S
  <2>1. \A n \in 1..size : nth(n) \in 1..Len(s)
    BY <1>1, <1>9
  <2> QED
    BY <2>1, ElementOfSeq
<1>13. Filtered(s, K) \in Seq(S) /\ Len(Filtered(s, K)) = size
    BY <1>2, <1>11, <1>12
<1>14. f \in [1..Len(Filtered(s, K)) -> K]
    BY <1>9, <1>13
<1>15. \A n \in 1..size : Filtered(s, K)[n] = s[f[n]]
    BY <1>11, <1>12
<1>16. ASSUME NEW m \in 1..size, NEW n \in 1..size, m < n PROVE f[m] < f[n]
  <2>1. rank[f[m]] = m /\ rank[f[n]] = n /\ f[m] \in K /\ f[n] \in K
    BY <1>9, <1>12
  <2>0. m \in Int /\ n \in Int /\ f[m] \in Int /\ f[n] \in Int
    <3>1. m \in Int /\ n \in Int
      BY <1>2
    <3> HIDE DEF f
    <3> QED
      BY <1>1, <2>1, <3>1
  <2> HIDE DEF f
  <2>2. f[m] # f[n] /\ ~(f[n] < f[m])
    BY <1>4, <1>16, <2>0, <2>1
  <2> QED
    BY <2>0, <2>2
<1>17. ASSUME NEW i \in K PROVE \E n \in 1..size : f[n] = i
  <2>1. rank[i] \in 1..size
    BY <1>5
  <2>2. f[rank[i]] \in K /\ rank[f[rank[i]]] = rank[i]
    BY <1>9, <1>12, <2>1
  <2> HIDE DEF f
  <2>3. f[rank[i]] = i
    BY <1>6, <2>2 DEF Injection, IsInjective
  <2> QED
    BY <2>1, <2>3
<1> HIDE DEF f
<1> QED
    BY <1>13, <1>14, <1>15, <1>16, <1>17 DEF Picks
-----------------------------------------------------------------------------
(* The late fetch: what was stored first comes first, what is still open   *)
(* stays last, and nothing that is not stored is lost.                     *)
CarriesOver(ts, new, s) ==
    /\ new \in Seq(Turn) /\ Labelled(new) /\ Ordered(new, s)
    /\ \A q : LastIs(ts, q) => LastIs(new, q) /\ new[Len(new)] = ts[Len(ts)]
    /\ \A q : Due(ts, s, q) => Due(new, s, q)
    /\ \A q : ShowsAnswer(ts, q) => ShowsAnswer(new, q)
    /\ \A i \in 1..Len(ts) : ts[i].id = "own" => \E j \in 1..Len(new) : new[j] = ts[i]

LEMMA MergedKeeps ==
    ASSUME NEW s \in Seq(Questions), Once(s),
           NEW h \in Seq(Questions), Len(h) <= Len(s), \A i \in 1..Len(h) : h[i] = s[i],
           NEW ts \in Seq(Turn), Labelled(ts), Ordered(ts, s),
           NEW new, new = Merged(h, ts)[1] \o Merged(h, ts)[2]
    PROVE  CarriesOver(ts, new, s)
<1> DEFINE K == {i \in 1..Len(ts) : ~(ts[i].id = "row" /\ Has(h, ts[i].q))}
           A == [i \in 1..Len(h) |-> replayedTurn(h[i])]
           B == Filtered(ts, K)
<1>1. new = A \o B
    BY DEF Merged, Has
<1>2. A \in Seq(Turn) /\ Len(A) = Len(h) /\ \A i \in 1..Len(h) : A[i] = replayedTurn(h[i])
  <2>1. \A i \in 1..Len(h) : replayedTurn(h[i]) \in Turn
    BY ElementOfSeq DEF replayedTurn, Turn
  <2>2. Len(h) \in Nat
    BY LenProperties
  <2> HIDE DEF replayedTurn
  <2> QED
    BY <2>1, <2>2
<1>3. K \in SUBSET (1..Len(ts))
    OBVIOUS
<1>6. \A i \in K : i \in 1..Len(ts) /\ (ts[i].id = "row" => ~Has(h, ts[i].q))
    OBVIOUS
<1>7. \A i \in 1..Len(ts) : i \in K \/ (ts[i].id = "row" /\ Has(h, ts[i].q))
    OBVIOUS
<1> HIDE DEF K, A
<1>4. B \in Seq(Turn)
    BY <1>3, FilteredKeeps
<1>5. PICK f \in [1..Len(B) -> K] :
         /\ \A n \in 1..Len(B) : B[n] = ts[f[n]]
         /\ \A m, n \in 1..Len(B) : m < n => f[m] < f[n]
         /\ \A i \in K : \E n \in 1..Len(B) : f[n] = i
  <2>1. Picks(B, ts, K)
    BY <1>3, FilteredKeeps
  <2> QED
    BY <2>1 DEF Picks
<1> HIDE DEF B
<1>8. Len(h) \in Nat /\ Len(B) \in Nat /\ Len(ts) \in Nat /\ Len(s) \in Nat
    BY <1>4, LenProperties
<1>9. /\ new \in Seq(Turn) /\ Len(new) = Len(h) + Len(B)
      /\ \A i \in 1..Len(h) + Len(B) : new[i] = IF i <= Len(h) THEN A[i] ELSE B[i - Len(h)]
  <2>1. /\ A \o B \in Seq(Turn) /\ Len(A \o B) = Len(A) + Len(B)
        /\ \A i \in 1..Len(A) + Len(B) : (A \o B)[i] = IF i <= Len(A) THEN A[i] ELSE B[i - Len(A)]
    BY <1>2, <1>4, ConcatProperties
  <2> QED
    BY <1>1, <1>2, <2>1
<1>10. \A i \in 1..Len(h) : /\ i \in 1..Len(new) /\ i \in 1..Len(s)
                            /\ new[i].q = s[i] /\ new[i].id = "row" /\ Answered(new, i)
  <2> TAKE i \in 1..Len(h)
  <2>1. i \in 1..Len(new) /\ i \in 1..Len(s) /\ new[i] = replayedTurn(s[i])
    <3>1. i \in 1..Len(h) + Len(B) /\ i \in 1..Len(s) /\ i <= Len(h)
      BY <1>8
    <3>2. new[i] = A[i]
      BY <1>9, <3>1
    <3> QED
      BY <1>2, <1>9, <3>1, <3>2
  <2>2. replayedTurn(s[i]).q = s[i] /\ replayedTurn(s[i]).id = "row" /\ replayedTurn(s[i]).status = "done"
    BY DEF replayedTurn
  <2> HIDE DEF replayedTurn
  <2> QED
    BY <2>1, <2>2 DEF Answered
<1>11. \A n \in 1..Len(B) : /\ Len(h) + n \in 1..Len(new) /\ f[n] \in K
                            /\ new[Len(h) + n] = ts[f[n]]
  <2> TAKE n \in 1..Len(B)
  <2>1. /\ Len(h) + n \in 1..Len(h) + Len(B) /\ ~(Len(h) + n <= Len(h))
        /\ (Len(h) + n) - Len(h) = n
    BY <1>8
  <2>2. new[Len(h) + n] = B[n]
    BY <1>9, <2>1
  <2> QED
    BY <1>5, <1>9, <2>1, <2>2
<1>12. \A j \in 1..Len(new) : j \in 1..Len(h) \/ \E n \in 1..Len(B) : j = Len(h) + n
  <2> TAKE j \in 1..Len(new)
  <2>1. CASE j <= Len(h)
    BY <1>8, <2>1
  <2>2. CASE j > Len(h)
    <3>1. j - Len(h) \in 1..Len(B) /\ j = Len(h) + (j - Len(h))
      BY <1>8, <1>9, <2>2
    <3> QED
      BY <3>1
  <2>3. j \in Int /\ Len(h) \in Int
    BY <1>8
  <2> QED
    BY <2>1, <2>2, <2>3
<1>13. \A i \in K : \E n \in 1..Len(B) : f[n] = i /\ new[Len(h) + n] = ts[i] /\ Len(h) + n \in 1..Len(new)
    BY <1>5, <1>11
<1>14. Labelled(new)
  <2> SUFFICES ASSUME NEW j \in 1..Len(new)
               PROVE  /\ Answered(new, j) => new[j].id = "row"
                      /\ new[j].status = "error" => new[j].answer = "none"
    BY DEF Labelled
  <2>1. CASE j \in 1..Len(h)
    BY <1>10, <2>1 DEF Answered
  <2>2. ASSUME NEW n \in 1..Len(B), j = Len(h) + n
        PROVE  /\ Answered(new, j) => new[j].id = "row"
               /\ new[j].status = "error" => new[j].answer = "none"
    BY <1>6, <1>11, <2>2 DEF Labelled, Answered
  <2> QED
    BY <1>12, <2>1, <2>2
<1>15. \A q : Has(h, q) => ShowsAnswer(new, q)
  <2> SUFFICES ASSUME NEW q, Has(h, q) PROVE ShowsAnswer(new, q)
    OBVIOUS
  <2>1. PICK k \in 1..Len(h) : h[k] = q
    BY DEF Has
  <2> QED
    BY <1>10, <2>1 DEF ShowsAnswer
<1>16. ASSUME NEW q, ShowsAnswer(ts, q) PROVE ShowsAnswer(new, q)
  <2>1. PICK i \in 1..Len(ts) : ts[i].q = q /\ Answered(ts, i)
    BY <1>16 DEF ShowsAnswer
  <2>2. CASE i \in K
    BY <1>13, <2>1, <2>2 DEF ShowsAnswer, Answered
  <2>3. CASE Has(h, ts[i].q)
    BY <1>15, <2>1, <2>3
  <2> QED
    BY <1>7, <2>2, <2>3
<1>17. ASSUME NEW i \in 1..Len(ts), ts[i].id = "own" PROVE \E j \in 1..Len(new) : new[j] = ts[i]
    BY <1>7, <1>13, <1>17
<1>18. ASSUME NEW q, LastIs(ts, q) PROVE LastIs(new, q) /\ new[Len(new)] = ts[Len(ts)]
  <2>1. Len(ts) \in 1..Len(ts) /\ ts[Len(ts)].id = "own"
    BY <1>8, <1>18, EmptySeq DEF LastIs
  <2>2. Len(ts) \in K
    BY <1>7, <2>1
  <2>3. PICK n \in 1..Len(B) : f[n] = Len(ts) /\ new[Len(h) + n] = ts[Len(ts)]
    BY <1>13, <2>2
  <2>4. Len(B) \in 1..Len(B) /\ f[Len(B)] \in K
    BY <1>8, <1>11
  <2>5. ~(n < Len(B))
    BY <1>5, <1>6, <1>8, <2>3, <2>4
  <2>6. n = Len(B)
    BY <1>8, <2>5
  <2>7. new[Len(new)] = ts[Len(ts)]
    BY <1>9, <2>3, <2>6
  <2>8. Len(new) # 0
    BY <1>8, <1>9, <2>4
  <2> QED
    BY <1>9, <1>18, <2>7, <2>8, EmptySeq DEF LastIs
(* What the fetch brought is stored before all that it did not bring.      *)
<1>19. ASSUME NEW i \in 1..Len(h), NEW q, Has(s, q), ~Has(h, q)
       PROVE  Place(s, new[i].q) < Place(s, q)
  <2>1. PICK k \in 1..Len(s) : s[k] = q
    BY <1>19 DEF Has
  <2>2. k \notin 1..Len(h)
    BY <1>19, <2>1 DEF Has
  <2>3. Place(s, q) = k /\ Place(s, new[i].q) = i
    BY <1>10, <2>1, PlaceIs
  <2> QED
    BY <1>8, <2>2, <2>3
<1>20. ASSUME NEW q, Due(ts, s, q) PROVE Due(new, s, q)
  <2> SUFFICES ASSUME Has(s, q), ~ShowsAnswer(new, q), NEW j \in 1..Len(new), Answered(new, j)
               PROVE  Place(s, new[j].q) < Place(s, q)
    BY DEF Due
  <2>1. ~Has(h, q) /\ ~ShowsAnswer(ts, q)
    BY <1>15, <1>16
  <2>2. CASE j \in 1..Len(h)
    BY <1>19, <2>1, <2>2
  <2>3. ASSUME NEW n \in 1..Len(B), j = Len(h) + n PROVE Place(s, new[j].q) < Place(s, q)
    <3>1. f[n] \in 1..Len(ts) /\ new[j] = ts[f[n]] /\ Answered(ts, f[n])
      BY <1>6, <1>11, <2>3 DEF Answered
    <3> QED
      BY <1>20, <2>1, <3>1 DEF Due
  <2> QED
    BY <1>12, <2>2, <2>3
<1>21. Ordered(new, s)
  <2> SUFFICES ASSUME NEW j \in 1..Len(new), Answered(new, j)
               PROVE  /\ Has(s, new[j].q)
                      /\ \A i \in 1..(j - 1) : Answered(new, i) /\ ~Earlier(new, j) =>
                            Place(s, new[i].q) < Place(s, new[j].q)
    BY DEF Ordered
  <2>1. CASE j \in 1..Len(h)
    <3>1. Has(s, new[j].q) /\ Place(s, new[j].q) = j
      BY <1>10, <2>1, PlaceIs DEF Has
    <3>2. ASSUME NEW i \in 1..(j - 1) PROVE Place(s, new[i].q) < j
      <4>1. i \in 1..Len(h) /\ i < j
        BY <1>8, <2>1
      <4> QED
        BY <1>10, <4>1, PlaceIs
    <3> QED
      BY <3>1, <3>2
  <2>2. ASSUME NEW n \in 1..Len(B), j = Len(h) + n
        PROVE  /\ Has(s, new[j].q)
               /\ \A i \in 1..(j - 1) : Answered(new, i) /\ ~Earlier(new, j) =>
                     Place(s, new[i].q) < Place(s, new[j].q)
    <3>1. f[n] \in K /\ f[n] \in 1..Len(ts) /\ new[j] = ts[f[n]] /\ Answered(ts, f[n])
      BY <1>6, <1>11, <2>2 DEF Answered
    <3>2. Has(s, new[j].q) /\ ~Has(h, new[j].q)
      BY <1>6, <3>1 DEF Ordered, Labelled
    <3>3. ASSUME NEW i \in 1..(j - 1), Answered(new, i), ~Earlier(new, j)
          PROVE  Place(s, new[i].q) < Place(s, new[j].q)
      <4>1. i \in 1..Len(new)
        BY <1>8, <1>9
      <4>2. CASE i \in 1..Len(h)
        BY <1>19, <3>2, <4>2
      <4>3. ASSUME NEW m \in 1..Len(B), i = Len(h) + m PROVE Place(s, new[i].q) < Place(s, new[j].q)
        <5>1. f[m] \in 1..Len(ts) /\ new[i] = ts[f[m]] /\ Answered(ts, f[m])
          BY <1>6, <1>11, <3>3, <4>3 DEF Answered
        <5>2. m < n
          BY <1>8, <2>2, <4>3
        <5>3. f[m] < f[n]
          BY <1>5, <5>2
        <5>4. f[m] \in 1..(f[n] - 1)
          BY <1>8, <3>1, <5>1, <5>3
        <5>5. ~Earlier(ts, f[n])
          <6> SUFFICES ASSUME NEW e \in 1..(f[n] - 1), Answered(ts, e), ts[e].q = ts[f[n]].q
                       PROVE  FALSE
            BY DEF Earlier
          <6>1. e \in 1..Len(ts) /\ e < f[n]
            BY <1>8, <3>1
          <6>2. e \in K
            BY <1>7, <3>1, <3>2, <6>1
          <6>3. PICK x \in 1..Len(B) : f[x] = e /\ new[Len(h) + x] = ts[e]
            BY <1>13, <6>2
          <6>4. ~(n < x) /\ x # n
            BY <1>5, <1>8, <3>1, <6>1, <6>3
          <6>5. Len(h) + x \in 1..(j - 1)
            BY <1>8, <2>2, <6>4
          <6>6. Answered(new, Len(h) + x) /\ new[Len(h) + x].q = new[j].q
            BY <3>1, <6>3 DEF Answered
          <6> QED
            BY <3>3, <6>5, <6>6 DEF Earlier
        <5> QED
          BY <3>1, <5>1, <5>4, <5>5 DEF Ordered
      <4> QED
        BY <1>12, <4>1, <4>2, <4>3
    <3> QED
      BY <3>2, <3>3
  <2> QED
    BY <1>12, <2>1, <2>2
<1> QED
    BY <1>9, <1>14, <1>16, <1>17, <1>18, <1>20, <1>21 DEF CarriesOver
-----------------------------------------------------------------------------
(* The reducer.  What a failed question leaves on the page:                *)
Keeps(ts, new) ==
    \A i \in 1..Len(ts) : ts[i].status = "error" /\ ts[i].id = "own" =>
       \E j \in 1..Len(new) : new[j] = ts[i]

LEMMA LastPatched ==
    ASSUME NEW ts \in Seq(Turn), ts # <<>>, NEW t \in Turn
    PROVE  LET new == [ts EXCEPT ![Len(ts)] = t] IN
           /\ new \in Seq(Turn) /\ new # <<>> /\ Len(new) = Len(ts) /\ Len(ts) \in Nat \ {0}
           /\ new[Len(ts)] = t
           /\ \A i \in 1..(Len(ts) - 1) : new[i] = ts[i]
<1> DEFINE new == [ts EXCEPT ![Len(ts)] = t]
<1>1. Len(ts) \in Nat \ {0}
    BY EmptySeq
<1>2. Len(ts) \in 1..Len(ts)
    BY <1>1
<1>3. /\ new \in Seq(Turn) /\ Len(new) = Len(ts)
      /\ \A j \in 1..Len(ts) : new[j] = IF j = Len(ts) THEN t ELSE ts[j]
    BY <1>2, ExceptSeq
<1> HIDE DEF new
<1>4. new[Len(ts)] = t /\ \A i \in 1..(Len(ts) - 1) : new[i] = ts[i]
    BY <1>1, <1>3
<1>5. new # <<>>
    BY <1>1, <1>3, EmptySeq
<1> QED
    BY <1>1, <1>3, <1>4, <1>5 DEF new

(* A patch without an answer.                                              *)
LEMMA PatchOpen ==
    ASSUME NEW s, NEW ts \in Seq(Turn), ts # <<>>, Labelled(ts), Ordered(ts, s),
           NEW t \in Turn, t.status # "done", t.status = "error" => t.answer = "none",
           NEW new, new = [ts EXCEPT ![Len(ts)] = t]
    PROVE  /\ new \in Seq(Turn) /\ Labelled(new) /\ Ordered(new, s)
           /\ \A q : ~Answered(ts, Len(ts)) /\ Due(ts, s, q) => Due(new, s, q)
           /\ \/ ~(ts[Len(ts)].status = "error" /\ ts[Len(ts)].id = "own")
              \/ t = ts[Len(ts)]
              => Keeps(ts, new)
<1>0. Len(ts) \in Int /\ 1 <= Len(ts) /\ Len(ts) \in 1..Len(ts)
    BY EmptySeq
<1>1. /\ new \in Seq(Turn) /\ new # <<>> /\ Len(new) = Len(ts) /\ Len(ts) \in Nat \ {0}
      /\ new[Len(ts)] = t
      /\ \A i \in 1..(Len(ts) - 1) : new[i] = ts[i]
    BY LastPatched
<1>2. \A i \in 1..Len(ts) : i = Len(ts) \/ i \in 1..(Len(ts) - 1)
    BY <1>0
<1>3. \A i \in 1..Len(ts) : Answered(new, i) => i \in 1..(Len(ts) - 1) /\ new[i] = ts[i] /\ Answered(ts, i)
    BY <1>1, <1>2 DEF Answered
<1>4. Labelled(new)
    BY <1>1, <1>2 DEF Labelled, Answered
<1>5. Ordered(new, s)
  <2> SUFFICES ASSUME NEW j \in 1..Len(ts), Answered(new, j)
               PROVE  /\ Has(s, new[j].q)
                      /\ \A i \in 1..(j - 1) : Answered(new, i) /\ ~Earlier(new, j) =>
                            Place(s, new[i].q) < Place(s, new[j].q)
    BY <1>1 DEF Ordered
  <2>1. new[j] = ts[j] /\ Answered(ts, j) /\ j \in 1..(Len(ts) - 1)
    BY <1>3
  <2>2. \A i \in 1..(j - 1) : i \in 1..(Len(ts) - 1) /\ new[i] = ts[i]
    <3>1. \A i \in 1..(j - 1) : i \in 1..(Len(ts) - 1)
      BY <1>0, <2>1
    <3> QED
      BY <1>1, <3>1
  <2>3. Earlier(ts, j) => Earlier(new, j)
    BY <2>1, <2>2 DEF Earlier, Answered
  <2>4. \A i \in 1..(j - 1) : Answered(new, i) => Answered(ts, i)
    BY <2>2 DEF Answered
  <2> QED
    BY <2>1, <2>2, <2>3, <2>4 DEF Ordered
<1>6. ASSUME NEW q, ~Answered(ts, Len(ts)), Due(ts, s, q) PROVE Due(new, s, q)
  <2>1. ShowsAnswer(ts, q) => ShowsAnswer(new, q)
    BY <1>1, <1>2, <1>6 DEF ShowsAnswer, Answered
  <2>2. \A i \in 1..Len(new) : Answered(new, i) => i \in 1..Len(ts) /\ Answered(ts, i) /\ new[i] = ts[i]
    BY <1>1, <1>3
  <2> QED
    BY <1>6, <2>1, <2>2 DEF Due
<1>7. ASSUME \/ ~(ts[Len(ts)].status = "error" /\ ts[Len(ts)].id = "own")
             \/ t = ts[Len(ts)]
      PROVE  Keeps(ts, new)
  <2> SUFFICES ASSUME NEW i \in 1..Len(ts), ts[i].status = "error" /\ ts[i].id = "own"
               PROVE  \E j \in 1..Len(new) : new[j] = ts[i]
    BY DEF Keeps
  <2>1. new[i] = ts[i]
    BY <1>1, <1>2, <1>7
  <2> QED
    BY <1>1, <2>1
<1> QED
    BY <1>1, <1>4, <1>5, <1>6, <1>7

(* The answer to the question that is last.                                *)
LEMMA PatchDone ==
    ASSUME NEW s, NEW ts \in Seq(Turn), NEW q, LastIs(ts, q), Labelled(ts), Ordered(ts, s),
           Has(s, q), Due(ts, s, q), ts[Len(ts)].status # "error",
           NEW t \in Turn, t.status = "done", t.id = "row", t.q = q,
           NEW new, new = [ts EXCEPT ![Len(ts)] = t]
    PROVE  /\ new \in Seq(Turn) /\ Labelled(new) /\ Ordered(new, s)
           /\ ShowsAnswer(new, q) /\ Keeps(ts, new)
<1>0. Len(ts) \in Int /\ 1 <= Len(ts) /\ Len(ts) \in 1..Len(ts)
    BY EmptySeq DEF LastIs
<1>1. /\ new \in Seq(Turn) /\ new # <<>> /\ Len(new) = Len(ts) /\ Len(ts) \in Nat \ {0}
      /\ new[Len(ts)] = t
      /\ \A i \in 1..(Len(ts) - 1) : new[i] = ts[i]
    BY LastPatched DEF LastIs
<1>2. \A i \in 1..Len(ts) : i = Len(ts) \/ i \in 1..(Len(ts) - 1)
    BY <1>1
<1>3. ~Answered(ts, Len(ts))
    BY <1>0 DEF LastIs, Labelled
<1>4. Labelled(new)
    BY <1>1, <1>2 DEF Labelled, Answered
<1>5. ShowsAnswer(new, q)
    BY <1>1 DEF ShowsAnswer, Answered
<1>6. Keeps(ts, new)
    BY <1>1, <1>2 DEF Keeps
<1>7. Ordered(new, s)
  <2> SUFFICES ASSUME NEW j \in 1..Len(ts), Answered(new, j)
               PROVE  /\ Has(s, new[j].q)
                      /\ \A i \in 1..(j - 1) : Answered(new, i) /\ ~Earlier(new, j) =>
                            Place(s, new[i].q) < Place(s, new[j].q)
    BY <1>1 DEF Ordered
  <2>1. \A i \in 1..(j - 1) : i \in 1..(Len(ts) - 1) /\ new[i] = ts[i]
    BY <1>1
  <2>2. \A i \in 1..(j - 1) : Answered(new, i) <=> Answered(ts, i)
    BY <2>1 DEF Answered
  <2>3. CASE j \in 1..(Len(ts) - 1)
    <3>1. new[j] = ts[j] /\ Answered(ts, j)
      BY <1>1, <2>3 DEF Answered
    <3>2. Earlier(ts, j) => Earlier(new, j)
      BY <2>1, <2>2, <3>1 DEF Earlier
    <3> QED
      BY <2>1, <2>2, <3>1, <3>2 DEF Ordered
  <2>4. CASE j = Len(ts)
    <3>1. new[j].q = q
      BY <1>1, <2>4
    <3>2. ShowsAnswer(ts, q) => Earlier(new, j)
      <4>1. ASSUME NEW i \in 1..Len(ts), ts[i].q = q, Answered(ts, i) PROVE Earlier(new, j)
        <5>1. i \in 1..(j - 1)
          BY <1>2, <1>3, <2>4, <4>1
        <5> QED
          BY <2>1, <2>2, <3>1, <4>1, <5>1 DEF Earlier
      <4> QED
        BY <4>1 DEF ShowsAnswer
    <3>3. \A i \in 1..(j - 1) : i \in 1..Len(ts)
      BY <1>1, <2>4
    <3> QED
      BY <2>1, <2>2, <3>1, <3>2, <3>3 DEF Due
  <2> QED
    BY <1>2, <2>3, <2>4
<1> QED
    BY <1>1, <1>4, <1>5, <1>6, <1>7

(* A question is asked.                                                    *)
LEMMA AppendedTurn ==
    ASSUME NEW s, NEW ts \in Seq(Turn), Labelled(ts), Ordered(ts, s),
           NEW q \in Questions, NEW new, new = Append(ts, newTurn(q))
    PROVE  /\ new \in Seq(Turn) /\ Labelled(new) /\ Ordered(new, s) /\ Keeps(ts, new)
           /\ LastIs(new, q) /\ new[Len(new)].status = "streaming"
<1>1. newTurn(q) \in Turn
    BY DEF newTurn, Turn
<1>2. newTurn(q).q = q /\ newTurn(q).id = "own" /\ newTurn(q).status = "streaming"
    BY DEF newTurn
<1> HIDE DEF newTurn
<1>3. /\ new \in Seq(Turn) /\ Len(new) = Len(ts) + 1 /\ new[Len(ts) + 1] = newTurn(q) /\ Len(ts) \in Nat
      /\ \A i \in 1..Len(ts) : new[i] = ts[i]
    BY <1>1
<1>4. \A i \in 1..Len(new) : i \in 1..Len(ts) \/ new[i] = newTurn(q)
    BY <1>3
<1>5. \A i \in 1..Len(ts) : i \in 1..Len(new)
    BY <1>3
<1>6. \A i \in 1..Len(new) : Answered(new, i) => i \in 1..Len(ts) /\ Answered(ts, i)
    BY <1>2, <1>3, <1>4 DEF Answered
<1>7. Labelled(new)
    BY <1>2, <1>3, <1>4 DEF Labelled, Answered
<1>8. Keeps(ts, new)
    BY <1>3, <1>5 DEF Keeps
<1>9. LastIs(new, q) /\ new[Len(new)].status = "streaming"
  <2>1. new # <<>>
    BY <1>3, EmptySeq
  <2> QED
    BY <1>2, <1>3, <2>1 DEF LastIs
<1>10. Ordered(new, s)
  <2> SUFFICES ASSUME NEW j \in 1..Len(new), Answered(new, j)
               PROVE  /\ Has(s, new[j].q)
                      /\ \A i \in 1..(j - 1) : Answered(new, i) /\ ~Earlier(new, j) =>
                            Place(s, new[i].q) < Place(s, new[j].q)
    BY DEF Ordered
  <2>1. j \in 1..Len(ts) /\ Answered(ts, j) /\ new[j] = ts[j]
    BY <1>3, <1>6
  <2>2. \A i \in 1..(j - 1) : new[i] = ts[i]
    BY <1>3, <2>1
  <2>3. \A i \in 1..(j - 1) : Answered(new, i) <=> Answered(ts, i)
    BY <2>2 DEF Answered
  <2>4. Earlier(ts, j) => Earlier(new, j)
    BY <2>1, <2>2, <2>3 DEF Earlier
  <2> QED
    BY <2>1, <2>2, <2>3, <2>4 DEF Ordered
<1> QED
    BY <1>3, <1>7, <1>8, <1>9, <1>10

LEMMA OneOrMore ==
    ASSUME NEW n \in Int, 1 <= n
    PROVE  1 <= n - 1 \/ n = 1
    OBVIOUS

(* A refused question leaves no trace.                                     *)
LEMMA DroppedTurn ==
    ASSUME NEW s, NEW ts \in Seq(Turn), ts # <<>>, Labelled(ts), Ordered(ts, s),
           ts[Len(ts)].status # "error",
           NEW new, new = SubSeq(ts, 1, Len(ts) - 1)
    PROVE  new \in Seq(Turn) /\ Labelled(new) /\ Ordered(new, s) /\ Keeps(ts, new)
<1>0. Len(ts) \in Int /\ 1 <= Len(ts) /\ Len(ts) \in 1..Len(ts)
    BY EmptySeq
<1>1. \A i \in 1..Len(ts) : ts[i] \in Turn
    BY ElementOfSeq
<1>2. \A i \in 1..(Len(ts) - 1) : i \in 1..Len(ts)
    BY <1>0
<1>3. /\ new \in Seq(Turn) /\ Len(new) = Len(ts) - 1
      /\ \A i \in 1..(Len(ts) - 1) : new[i] = ts[i]
  <2>1. \A i \in 1..(Len(ts) - 1) : ts[i] \in Turn
    BY <1>1, <1>2
  <2>2. 1 \in Int /\ Len(ts) - 1 \in Int /\ (Len(ts) - 1) - 1 + 1 = Len(ts) - 1
    BY <1>0
  <2>3. /\ new \in Seq(Turn)
        /\ Len(new) = IF 1 <= Len(ts) - 1 THEN (Len(ts) - 1) - 1 + 1 ELSE 0
        /\ \A i \in 1..((Len(ts) - 1) - 1 + 1) : new[i] = ts[1 + i - 1]
    BY <2>1, <2>2, SubSeqProperties
  <2>4. Len(new) = Len(ts) - 1
    <3>1. CASE 1 <= Len(ts) - 1
      BY <1>0, <2>3, <3>1
    <3>2. CASE Len(ts) = 1
      <4>1. ~(1 <= Len(ts) - 1) /\ Len(ts) - 1 = 0
        BY <3>2
      <4> QED
        BY <2>3, <4>1
    <3> QED
      BY <1>0, <3>1, <3>2, OneOrMore, Zenon
  <2>5. ASSUME NEW i \in 1..(Len(ts) - 1) PROVE new[i] = ts[i]
    <3>1. i \in 1..((Len(ts) - 1) - 1 + 1) /\ 1 + i - 1 = i
      BY <2>2
    <3> QED
      BY <2>3, <3>1
  <2> QED
    BY <2>3, <2>4, <2>5
<1>4. \A i \in 1..Len(ts) : i = Len(ts) \/ i \in 1..(Len(ts) - 1)
    BY <1>0
<1>5. Labelled(new)
    BY <1>2, <1>3 DEF Labelled, Answered
<1>6. Keeps(ts, new)
    BY <1>3, <1>4 DEF Keeps
<1>7. Ordered(new, s)
  <2> SUFFICES ASSUME NEW j \in 1..(Len(ts) - 1), Answered(new, j)
               PROVE  /\ Has(s, new[j].q)
                      /\ \A i \in 1..(j - 1) : Answered(new, i) /\ ~Earlier(new, j) =>
                            Place(s, new[i].q) < Place(s, new[j].q)
    BY <1>3 DEF Ordered
  <2>1. j \in 1..Len(ts) /\ Answered(ts, j) /\ new[j] = ts[j]
    BY <1>2, <1>3 DEF Answered
  <2>2. \A i \in 1..(j - 1) : new[i] = ts[i]
    BY <1>0, <1>3
  <2>3. \A i \in 1..(j - 1) : Answered(new, i) <=> Answered(ts, i)
    BY <2>2 DEF Answered
  <2>4. Earlier(ts, j) => Earlier(new, j)
    BY <2>1, <2>2, <2>3 DEF Earlier
  <2> QED
    BY <2>1, <2>2, <2>3, <2>4 DEF Ordered
<1> QED
    BY <1>3, <1>5, <1>6, <1>7
-----------------------------------------------------------------------------
(* The server.  A handler that has not ended takes a step, with or without *)
(* a frame.                                                                *)
Pushes(q, f) ==
    /\ Room(q) /\ Push(q, f)
    /\ f \in {"done", "error", "refused"} => server'[q].pc = "ended"
    /\ f = "done" => Has(stored, q)

LEMMA HandlerKeeps ==
    ASSUME Inv, NEW q \in Questions, server[q].pc \in {"asked", "running", "saved"},
           server' \in [Questions -> Handler], \A p \in Questions \ {q} : server'[p] = server[p],
           server'[q].pc # "none",
           Has(stored, q) => server'[q].pc \in {"saved", "ended", "dead"},
           server'[q].pc = "saved" => Has(stored, q),
           wire' = wire \/ \E f \in Arrivals : Pushes(q, f),
           server'[q].pc = "ended" => wire' # wire \/ task[q] # "reading",
           UNCHANGED <<stored, panelVars, turns, entry, task, fetch>>
    PROVE  Inv'
<1>1. TypeInv /\ StoreOK /\ PanelOK /\ WireOK /\ LiveOK
    BY DEF Inv
<1>2. UNCHANGED <<stored, mounted, abort, running, turns, entry, task, fetch>>
    BY DEF panelVars
<1>3. \/ wire' = wire
      \/ /\ task[q] = "reading" /\ Len(wire[q]) < MaxWire
         /\ \E f \in Arrivals : /\ wire' = [wire EXCEPT ![q] = Append(wire[q], f)]
                                /\ f \in {"done", "error", "refused"} => server'[q].pc = "ended"
                                /\ f = "done" => Has(stored, q)
    BY DEF Pushes, Room, Push
<1>4. wire[q] \in Seq(Arrivals) /\ Len(wire[q]) \in Nat /\ MaxWire \in Nat
    BY <1>1, TranscriptAssumption DEF TypeInv
<1>5. /\ wire' \in [Questions -> Seq(Arrivals)]
      /\ \A p \in Questions : Len(wire'[p]) <= MaxWire
      /\ \A p \in Questions \ {q} : wire'[p] = wire[p]
  <2>1. CASE wire' = wire
    BY <1>1, <2>1 DEF TypeInv
  <2>2. ASSUME Len(wire[q]) < MaxWire, NEW f \in Arrivals, wire' = [wire EXCEPT ![q] = Append(wire[q], f)]
        PROVE  /\ wire' \in [Questions -> Seq(Arrivals)]
               /\ \A p \in Questions : Len(wire'[p]) <= MaxWire
               /\ \A p \in Questions \ {q} : wire'[p] = wire[p]
    <3>1. Append(wire[q], f) \in Seq(Arrivals) /\ Len(Append(wire[q], f)) = Len(wire[q]) + 1
      BY <1>4
    <3>2. Len(Append(wire[q], f)) <= MaxWire
      BY <1>4, <2>2, <3>1
    <3> QED
      BY <1>1, <2>2, <3>1, <3>2 DEF TypeInv
  <2> QED
    BY <1>3, <2>1, <2>2
<1>6. TypeInv'
    BY <1>1, <1>2, <1>5 DEF TypeInv
<1>7. StoreOK'
  <2>1. task[q] # "none"
    BY <1>1 DEF StoreOK
  <2>2. Once(stored')
    BY <1>1, <1>2 DEF StoreOK, Once
  <2>3. \A p \in Questions : Has(stored', p) <=> Has(stored, p)
    BY <1>2
  <2> QED
    BY <1>1, <1>2, <2>1, <2>2, <2>3 DEF StoreOK
<1>8. PanelOK'
    BY <1>1, <1>2 DEF PanelOK
<1>9. \A i \in 1..Len(wire[q]) : wire[q][i] \notin {"done", "error", "refused"}
    BY <1>1 DEF WireOK
<1>10. WireOK'
  <2> SUFFICES ASSUME NEW p \in Questions
               PROVE  /\ task[p] # "reading" => wire'[p] = <<>>
                      /\ \A i \in 1..Len(wire'[p]) :
                            /\ wire'[p][i] \in {"done", "error", "refused"} =>
                                  i = Len(wire'[p]) /\ server'[p].pc = "ended"
                            /\ wire'[p][i] = "done" => Has(stored, p)
    BY <1>2 DEF WireOK
  <2>1. CASE p # q
    BY <1>1, <1>5, <2>1 DEF WireOK
  <2>2. CASE p = q /\ wire' = wire
    BY <1>1, <1>9, <2>2 DEF WireOK
  <2>3. ASSUME p = q, task[q] = "reading", NEW f \in Arrivals, wire' = [wire EXCEPT ![q] = Append(wire[q], f)],
               f \in {"done", "error", "refused"} => server'[q].pc = "ended",
               f = "done" => Has(stored, q), NEW i \in 1..Len(wire'[q])
        PROVE  /\ wire'[q][i] \in {"done", "error", "refused"} =>
                     i = Len(wire'[q]) /\ server'[q].pc = "ended"
               /\ wire'[q][i] = "done" => Has(stored, q)
    <3>1. wire'[q] = Append(wire[q], f)
      BY <1>1, <2>3 DEF TypeInv
    <3>2. Len(wire'[q]) = Len(wire[q]) + 1
      BY <1>4, <3>1
    <3>3. CASE i = Len(wire[q]) + 1
      <4>1. wire'[q][i] = f
        BY <1>4, <3>1, <3>3
      <4> QED
        BY <2>3, <3>2, <3>3, <4>1
    <3>4. CASE i \in 1..Len(wire[q])
      <4>1. wire'[q][i] = wire[q][i]
        BY <1>4, <3>1, <3>4
      <4> QED
        BY <1>9, <3>4, <4>1
    <3> QED
      BY <1>4, <2>3, <3>2, <3>3, <3>4
  <2> QED
    BY <1>3, <2>1, <2>2, <2>3
<1>11. LiveOK'
  <2> SUFFICES ASSUME NEW p \in Questions, task[p] = "reading" PROVE (Awaited(p) \/ Delivered(p))'
    BY <1>2 DEF LiveOK
  <2>1. Awaited(p) \/ Delivered(p)
    BY <1>1 DEF LiveOK
  <2>2. CASE p # q
    <3>1. wire'[p] = wire[p] /\ server'[p] = server[p]
      BY <1>5, <2>2
    <3> QED
      BY <1>2, <2>1, <3>1 DEF Awaited, Delivered
  <2>3. CASE p = q
    <3>1. LastIs(turns, q) /\ turns[Len(turns)].status # "error" /\ Due(turns, stored, q)
      BY <2>1, <2>3 DEF Awaited, Delivered
    <3> QED
      BY <1>2, <2>3, <3>1 DEF Awaited
  <2> QED
    BY <2>2, <2>3
<1>12. FetchOK' /\ Labelled(turns') /\ Ordered(turns', stored')
    BY <1>2 DEF Inv, FetchOK
<1> QED
    BY <1>6, <1>7, <1>8, <1>10, <1>11, <1>12 DEF Inv

(* The turn is stored.                                                     *)
LEMMA SaveKeeps ==
    ASSUME Inv, NEW q \in Questions, SaveTurn(q)
    PROVE  Inv'
<1>1. TypeInv /\ StoreOK /\ PanelOK /\ WireOK /\ LiveOK /\ FetchOK /\ Ordered(turns, stored)
    BY DEF Inv
<1>2. /\ server[q].pc = "running" /\ stored' = Append(stored, q)
      /\ server' = [server EXCEPT ![q].pc = "saved"]
      /\ UNCHANGED <<wire, mounted, abort, running, turns, entry, task, fetch>>
    BY DEF SaveTurn, panelVars
<1>3. stored \in Seq(Questions) /\ Once(stored) /\ ~Has(stored, q) /\ Len(stored) \in Nat
  <2>1. stored \in Seq(Questions)
    BY <1>1 DEF TypeInv
  <2>2. Once(stored) /\ ~Has(stored, q)
    BY <1>1, <1>2 DEF StoreOK
  <2> QED
    BY <2>1, <2>2, LenProperties
<1>4. /\ stored' \in Seq(Questions) /\ Once(stored') /\ Len(stored') = Len(stored) + 1
      /\ \A i \in 1..Len(stored) : stored'[i] = stored[i]
      /\ \A p : Has(stored', p) <=> Has(stored, p) \/ p = q
    BY <1>2, <1>3, StoreMore
<1>5. Ordered(turns, stored') /\ \A p : Due(turns, stored, p) => Due(turns, stored', p)
    BY <1>1, <1>2, <1>3, OrderedMore
<1>6. /\ server' \in [Questions -> Handler] /\ server'[q].pc = "saved"
      /\ \A p \in Questions \ {q} : server'[p] = server[p]
    BY <1>1, <1>2 DEF TypeInv, Handler
<1>7. TypeInv'
    BY <1>1, <1>2, <1>4, <1>6 DEF TypeInv
<1>8. StoreOK'
    BY <1>1, <1>2, <1>4, <1>6 DEF StoreOK
<1>9. PanelOK'
    BY <1>1, <1>2 DEF PanelOK
<1>10. WireOK'
  <2>1. \A p \in Questions : server[p].pc = "ended" => server'[p].pc = "ended"
    BY <1>2, <1>6
  <2> QED
    BY <1>1, <1>2, <1>4, <2>1 DEF WireOK
<1>11. LiveOK'
  <2>1. ASSUME NEW p \in Questions, task[p] = "reading" PROVE (Awaited(p) \/ Delivered(p))'
    <3>1. server'[p].pc = "ended" <=> server[p].pc = "ended"
      BY <1>2, <1>6
    <3>2. Awaited(p) \/ Delivered(p)
      BY <1>1, <2>1 DEF LiveOK
    <3> QED
      BY <1>2, <1>5, <3>1, <3>2 DEF Awaited, Delivered
  <2> QED
    BY <1>2, <2>1 DEF LiveOK
<1>12. FetchOK'
  <2>1. Len(fetch.turns) \in Nat /\ \A i \in 1..Len(fetch.turns) : i \in 1..Len(stored)
    BY <1>1, <1>3 DEF TypeInv, FetchOK
  <2> QED
    BY <1>1, <1>2, <1>3, <1>4, <2>1 DEF FetchOK
<1> QED
    BY <1>2, <1>5, <1>7, <1>8, <1>9, <1>10, <1>11, <1>12 DEF Inv

LEMMA ServerKeeps ==
    ASSUME Inv, NEW q \in Questions, ServerStep(q) \/ ServerDies(q)
    PROVE  Inv' /\ turns' = turns
<1>1. server \in [Questions -> Handler] /\ StoreOK /\ MaxFrames \in Nat
    BY TranscriptAssumption DEF Inv, TypeInv
<1>2. ASSUME NEW c \in {"running", "ended", "dead"}, server[q].pc \in {"asked", "running", "saved"},
             server' = [server EXCEPT ![q].pc = c]
      PROVE  /\ server' \in [Questions -> Handler] /\ server'[q].pc = c
             /\ \A p \in Questions \ {q} : server'[p] = server[p]
    BY <1>1, <1>2 DEF Handler
<1>3. Has(stored, q) <=> server[q].pc = "saved" \/ (server[q].pc \in {"ended", "dead"} /\ Has(stored, q))
    BY <1>1 DEF StoreOK
<1>4. ASSUME Accept(q) PROVE Inv' /\ turns' = turns
  <2>1. server'[q].pc = "running" /\ wire' = wire
    BY <1>2, <1>4 DEF Accept
  <2> QED
    BY <1>2, <1>3, <1>4, <2>1, HandlerKeeps DEF Accept
<1>5. ASSUME ServerDies(q) PROVE Inv' /\ turns' = turns
  <2>1. server'[q].pc = "dead" /\ wire' = wire
    BY <1>2, <1>5 DEF ServerDies
  <2> QED
    BY <1>2, <1>3, <1>5, <2>1, HandlerKeeps DEF ServerDies
(* A pushed frame makes the wire longer while somebody reads.              *)
<1>6. ASSUME NEW f, Push(q, f), task[q] = "reading" PROVE wire' # wire
  <2>1. wire'[q] = Append(wire[q], f) /\ wire[q] \in Seq(Arrivals)
    BY <1>6 DEF Push, Inv, TypeInv
  <2>2. Append(wire[q], f) # wire[q]
    <3>1. Len(Append(wire[q], f)) = Len(wire[q]) + 1 /\ Len(wire[q]) \in Nat
      BY <2>1
    <3> QED
      BY <3>1
  <2> QED
    BY <2>1, <2>2
<1>7. ASSUME NEW f \in {"done", "error", "refused"}, server[q].pc \in {"asked", "running", "saved"},
             Room(q), server' = [server EXCEPT ![q].pc = "ended"], Push(q, f),
             f = "done" => server[q].pc = "saved",
             UNCHANGED <<stored, panelVars, turns, entry, task, fetch>>
      PROVE  Inv' /\ turns' = turns
  <2>1. server'[q].pc = "ended"
    BY <1>2, <1>7
  <2>2. f \in Arrivals /\ Pushes(q, f)
    BY <1>3, <1>7, <2>1 DEF Arrivals, Pushes
  <2> QED
    BY <1>2, <1>6, <1>7, <2>1, <2>2, HandlerKeeps
<1>8. ASSUME Refuse(q) \/ EmitDone(q) \/ EmitError(q) PROVE Inv' /\ turns' = turns
  <2>1. CASE Refuse(q)
    BY <1>7, <2>1 DEF Refuse
  <2>2. CASE EmitDone(q)
    BY <1>7, <2>2 DEF EmitDone
  <2>3. CASE EmitError(q)
    BY <1>7, <2>3 DEF EmitError
  <2> QED
    BY <1>8, <2>1, <2>2, <2>3
<1>9. ASSUME NEW f \in Frames, Emit(q, f) PROVE Inv' /\ turns' = turns
  <2> DEFINE r == server[q].retried \/ f = "retry"
             h == [pc |-> "running", last |-> f, retried |-> r, sent |-> server[q].sent + 1]
  <2>1. /\ server[q].pc = "running" /\ f \in {"token", "retry"} /\ server[q].sent < MaxFrames
        /\ Room(q) /\ Push(q, f)
        /\ server' = [server EXCEPT ![q] = h]
        /\ UNCHANGED <<stored, panelVars, turns, entry, task, fetch>>
    BY <1>9 DEF Emit
  <2>2. server[q].sent + 1 \in 0..MaxFrames
    BY <1>1, <2>1 DEF Handler
  <2>3. r \in BOOLEAN
    OBVIOUS
  <2> HIDE DEF r
  <2>4. h \in Handler /\ h.pc = "running"
    BY <2>1, <2>2, <2>3 DEF Handler
  <2> HIDE DEF h
  <2>5. /\ server' \in [Questions -> Handler] /\ server'[q].pc = "running"
        /\ \A p \in Questions \ {q} : server'[p] = server[p]
    BY <1>1, <2>1, <2>4
  <2>6. f \in Arrivals /\ Pushes(q, f)
    BY <2>1 DEF Arrivals, Pushes
  <2> QED
    BY <1>3, <2>1, <2>5, <2>6, HandlerKeeps
<1>10. ASSUME SaveTurn(q) PROVE Inv' /\ turns' = turns
    BY <1>10, SaveKeeps DEF SaveTurn
<1> QED
    BY <1>4, <1>5, <1>8, <1>9, <1>10 DEF ServerStep
-----------------------------------------------------------------------------
(* The panel.  A step after which no stream is read.                       *)
LEMMA ClosedKeeps ==
    ASSUME Inv, UNCHANGED <<server, stored>>,
           abort' = NoQuestion, running' = FALSE, mounted' \in BOOLEAN, entry' \in Entry,
           task' \in [Questions -> {"none", "reading", "aborted", "over"}],
           \A q \in Questions : task'[q] # "reading" /\ (task'[q] = "none" => task[q] = "none"),
           wire' \in [Questions -> Seq(Arrivals)], \A q \in Questions : wire'[q] = <<>>,
           fetch' = fetch \/ fetch' = NoFetch,
           turns' \in Seq(Turn), Labelled(turns'), Ordered(turns', stored)
    PROVE  Inv'
<1>1. TypeInv /\ StoreOK /\ FetchOK
    BY DEF Inv
<1>2. Len(<<>>) = 0 /\ <<>> \in Seq(Questions) /\ MaxWire \in Nat
    BY TranscriptAssumption
<1>3. TypeInv'
  <2>1. fetch' \in [pc: {"none", "sent", "read"}, turns: Seq(Questions)]
    BY <1>1, <1>2 DEF TypeInv, NoFetch
  <2>2. \A q \in Questions : Len(wire'[q]) <= MaxWire
    BY <1>2
  <2> QED
    BY <1>1, <2>1, <2>2 DEF TypeInv
<1>4. StoreOK' /\ PanelOK' /\ LiveOK'
    BY <1>1 DEF StoreOK, PanelOK, LiveOK
<1>5. WireOK'
    BY <1>2 DEF WireOK
<1>6. FetchOK'
  <2>1. Len(stored) \in Nat
    BY <1>1, LenProperties DEF TypeInv
  <2>2. CASE fetch' = fetch
    BY <1>1, <2>2 DEF FetchOK
  <2>3. CASE fetch' = NoFetch
    BY <1>2, <2>1, <2>3 DEF FetchOK, NoFetch
  <2> QED
    BY <2>2, <2>3
<1> QED
    BY <1>3, <1>4, <1>5, <1>6 DEF Inv

LEMMA EmptyWires ==
    ASSUME Inv, wire' \in [Questions -> Seq(Arrivals)],
           \A q \in Questions : wire'[q] = <<>> \/ (wire'[q] = wire[q] /\ task[q] # "reading")
    PROVE  \A q \in Questions : wire'[q] = <<>>
    BY DEF Inv, WireOK

(* The page goes, or the panel only.                                       *)
LEMMA LeaveKeeps ==
    ASSUME Inv, Unmount \/ Reload
    PROVE  Inv' /\ (turns' = turns \/ turns' = <<>>)
<1>1. TypeInv /\ PanelOK /\ Labelled(turns) /\ Ordered(turns, stored)
    BY DEF Inv
<1>2. <<>> \in Seq(Arrivals) /\ <<>> \in Seq(Turn) /\ Len(<<>>) = 0
    OBVIOUS
<1>3. CASE Unmount
  <2>1. /\ task' = [q \in Questions |-> IF q = abort THEN "aborted" ELSE task[q]]
        /\ wire' = [q \in Questions |-> IF q = abort THEN <<>> ELSE wire[q]]
        /\ UNCHANGED <<server, stored, turns, entry>>
        /\ mounted' = FALSE /\ abort' = NoQuestion /\ running' = FALSE /\ fetch' = NoFetch
    BY <1>3 DEF Unmount
  <2>2. task' \in [Questions -> {"none", "reading", "aborted", "over"}]
    BY <1>1, <2>1 DEF TypeInv
  <2>3. wire' \in [Questions -> Seq(Arrivals)]
    BY <1>1, <1>2, <2>1 DEF TypeInv
  <2>4. \A q \in Questions : task'[q] # "reading" /\ (task'[q] = "none" => task[q] = "none")
    BY <1>1, <2>1 DEF PanelOK
  <2>5. \A q \in Questions : wire'[q] = <<>>
    BY <1>1, <2>1, <2>3, EmptyWires DEF PanelOK
  <2>6. turns' \in Seq(Turn) /\ Labelled(turns') /\ Ordered(turns', stored) /\ entry' \in Entry
    BY <1>1, <2>1 DEF TypeInv
  <2> QED
    BY <2>1, <2>2, <2>3, <2>4, <2>5, <2>6, ClosedKeeps
<1>4. CASE Reload
  <2>1. /\ task' = [q \in Questions |-> IF task[q] = "none" THEN "none" ELSE "over"]
        /\ wire' = [q \in Questions |-> <<>>]
        /\ UNCHANGED <<server, stored>> /\ turns' = <<>> /\ entry' = "none"
        /\ mounted' = FALSE /\ abort' = NoQuestion /\ running' = FALSE /\ fetch' = NoFetch
    BY <1>4 DEF Reload
  <2>2. /\ task' \in [Questions -> {"none", "reading", "aborted", "over"}]
        /\ wire' \in [Questions -> Seq(Arrivals)] /\ \A q \in Questions : wire'[q] = <<>>
    BY <1>2, <2>1
  <2>3. \A q \in Questions : task'[q] # "reading" /\ (task'[q] = "none" => task[q] = "none")
    BY <2>1
  <2>4. turns' \in Seq(Turn) /\ Labelled(turns') /\ Ordered(turns', stored)
    BY <1>2, <2>1 DEF Labelled, Ordered
  <2> QED
    BY <2>1, <2>2, <2>3, <2>4, ClosedKeeps DEF Entry
<1> QED
    BY <1>3, <1>4

(* What the reducer makes of the transcript while a stream is open.        *)
LEMMA OpenFacts ==
    ASSUME Inv, NEW q \in Questions, task[q] = "reading"
    PROVE  /\ turns \in Seq(Turn) /\ turns # <<>> /\ turns[Len(turns)] \in Turn
           /\ abort = q
           /\ turns[Len(turns)].status = "error" /\ turns[Len(turns)].id = "own" =>
                 turns[Len(turns)].answer = "none"
           /\ turns[Len(turns)].status = "done" => turns[Len(turns)].id = "row"
           /\ wire[q] # <<>> => /\ LastIs(turns, q) /\ turns[Len(turns)].status # "error"
                                /\ turns[Len(turns)].status # "done" /\ Due(turns, stored, q)
<1>1. turns \in Seq(Turn) /\ abort = q /\ Labelled(turns) /\ (Awaited(q) \/ Delivered(q))
    BY DEF Inv, TypeInv, PanelOK, LiveOK
<1>2. turns # <<>>
  <2>1. CASE LastIs(turns, q)
    BY <2>1 DEF LastIs
  <2>2. CASE ShowsAnswer(turns, q)
    BY <2>2 DEF ShowsAnswer
  <2> QED
    BY <1>1, <2>1, <2>2 DEF Awaited, Delivered
<1>3. Len(turns) \in 1..Len(turns)
    BY <1>1, <1>2, EmptySeq
<1>4. turns[Len(turns)] \in Turn
    BY <1>1, <1>3, ElementOfSeq
<1>5. /\ turns[Len(turns)].status = "error" => turns[Len(turns)].answer = "none"
      /\ turns[Len(turns)].status = "done" => turns[Len(turns)].id = "row"
    BY <1>1, <1>3 DEF Labelled, Answered
<1>6. wire[q] # <<>> => /\ LastIs(turns, q) /\ turns[Len(turns)].status # "error"
                        /\ turns[Len(turns)].status # "done" /\ Due(turns, stored, q)
    BY <1>1, <1>5 DEF Awaited, Delivered, LastIs
<1> QED
    BY <1>1, <1>2, <1>4, <1>5, <1>6

(* One patch of the last turn.                                             *)
Patched(ts, status, answer) ==
    [ts EXCEPT ![Len(ts)] =
        [q |-> ts[Len(ts)].q, id |-> IF status = "done" THEN "row" ELSE ts[Len(ts)].id,
         status |-> status, answer |-> answer]]

LEMMA Reduced ==
    ASSUME NEW ts, ts # <<>>
    PROVE  /\ askReducer(ts, "token") = Patched(ts, ts[Len(ts)].status, "draft")
           /\ askReducer(ts, "retry") = Patched(ts, "correcting", ts[Len(ts)].answer)
           /\ askReducer(ts, "done") = Patched(ts, "done", "final")
           /\ askReducer(ts, "error") = Patched(ts, "error", "none")
           /\ askReducer(ts, "cancelled") =
                 IF ts[Len(ts)].status = "done" THEN ts ELSE Patched(ts, "error", "none")
           /\ askReducer(ts, "refused") = SubSeq(ts, 1, Len(ts) - 1)
<1>1. ASSUME NEW patch PROVE updateLast(ts, patch) = Patched(ts, patch.status, patch.answer)
    BY DEF updateLast, Patched
<1>2. askReducer(ts, "token") = updateLast(ts, [status |-> ts[Len(ts)].status, answer |-> "draft"])
    BY DEF askReducer
<1>3. askReducer(ts, "retry") = updateLast(ts, [status |-> "correcting", answer |-> ts[Len(ts)].answer])
    BY DEF askReducer
<1>4. askReducer(ts, "done") = updateLast(ts, [status |-> "done", answer |-> "final"])
    BY DEF askReducer
<1>5. askReducer(ts, "error") = updateLast(ts, [status |-> "error", answer |-> "none"])
    BY DEF askReducer
<1>6. askReducer(ts, "cancelled") =
         IF ts[Len(ts)].status = "done" THEN ts
         ELSE updateLast(ts, [status |-> "error", answer |-> "none"])
    BY DEF askReducer
<1>7. askReducer(ts, "refused") = SubSeq(ts, 1, Len(ts) - 1)
    BY DEF askReducer
<1> HIDE DEF Patched
<1> QED
    BY <1>1, <1>2, <1>3, <1>4, <1>5, <1>6, <1>7

IsPatch(ts, status, answer, t) ==
    LET last == ts[Len(ts)] IN
    /\ Patched(ts, status, answer) = [ts EXCEPT ![Len(ts)] = t]
    /\ t.q = last.q /\ t.status = status /\ t.answer = answer
    /\ t.id = IF status = "done" THEN "row" ELSE last.id
    /\ last.status = status /\ last.answer = answer /\ status # "done" => t = last

LEMMA PatchedTurn ==
    ASSUME NEW ts, ts # <<>>, ts[Len(ts)] \in Turn,
           NEW status \in {"streaming", "correcting", "done", "error"}, NEW answer \in {"none", "draft", "final"}
    PROVE  \E t \in Turn : IsPatch(ts, status, answer, t)
<1> DEFINE last == ts[Len(ts)]
           t == [q |-> last.q, id |-> IF status = "done" THEN "row" ELSE last.id,
                 status |-> status, answer |-> answer]
<1>1. t \in Turn
    BY DEF Turn
<1>2. t.q = last.q /\ t.status = status /\ t.answer = answer
    OBVIOUS
<1>3. t.id = IF status = "done" THEN "row" ELSE last.id
    OBVIOUS
<1>4. ASSUME last.status = status, last.answer = answer, status # "done" PROVE t = last
    BY <1>4 DEF Turn
<1>5. Patched(ts, status, answer) = [ts EXCEPT ![Len(ts)] = t]
    BY DEF Patched
<1> HIDE DEF t
<1> QED
    BY <1>1, <1>2, <1>3, <1>4, <1>5 DEF IsPatch

(* A stream breaks, is stopped or was refused.                             *)
LEMMA ErrorPatch ==
    ASSUME Inv, NEW q \in Questions, task[q] = "reading"
    PROVE  LET new == Patched(turns, "error", "none") IN
           new \in Seq(Turn) /\ Labelled(new) /\ Ordered(new, stored) /\ Keeps(turns, new)
<1>1. /\ turns \in Seq(Turn) /\ turns # <<>> /\ turns[Len(turns)] \in Turn
      /\ turns[Len(turns)].status = "error" /\ turns[Len(turns)].id = "own" =>
            turns[Len(turns)].answer = "none"
    BY OpenFacts
<1>2. Labelled(turns) /\ Ordered(turns, stored)
    BY DEF Inv
<1>3. PICK t \in Turn : IsPatch(turns, "error", "none", t)
    BY <1>1, PatchedTurn
<1>4. /\ Patched(turns, "error", "none") = [turns EXCEPT ![Len(turns)] = t]
      /\ t.status = "error" /\ t.answer = "none"
      /\ (turns[Len(turns)].status = "error" /\ turns[Len(turns)].answer = "none")
            => t = turns[Len(turns)]
    BY <1>3 DEF IsPatch
<1> QED
    BY <1>1, <1>2, <1>4, PatchOpen

LEMMA ThrowKeeps ==
    ASSUME Inv, NEW q \in Questions, task[q] = "reading", NEW action \in {"error", "refused"},
           action = "refused" => wire[q] # <<>>, Throw(q, action)
    PROVE  Inv' /\ Keeps(turns, turns')
<1>1. TypeInv /\ PanelOK /\ Labelled(turns) /\ Ordered(turns, stored)
    BY DEF Inv
<1>2. /\ turns' = askReducer(turns, action) /\ entry' = "fresh"
      /\ task' = [task EXCEPT ![q] = "over"] /\ wire' = [wire EXCEPT ![q] = <<>>]
      /\ abort' = IF abort = q THEN NoQuestion ELSE abort
      /\ running' = IF abort = q THEN FALSE ELSE running
      /\ UNCHANGED <<server, stored, mounted, fetch>>
    BY DEF Throw, dispatch, Finally
<1>3. turns # <<>> /\ abort = q
    BY OpenFacts
<1>4. turns' \in Seq(Turn) /\ Labelled(turns') /\ Ordered(turns', stored) /\ Keeps(turns, turns')
  <2>1. CASE action = "error"
    <3>1. turns' = Patched(turns, "error", "none")
      BY <1>2, <1>3, <2>1, Reduced
    <3> QED
      BY <3>1, ErrorPatch
  <2>2. CASE action = "refused"
    <3>1. turns' = SubSeq(turns, 1, Len(turns) - 1)
      BY <1>2, <1>3, <2>2, Reduced
    <3>2. turns[Len(turns)].status # "error" /\ turns \in Seq(Turn)
      BY <2>2, OpenFacts
    <3> QED
      BY <1>1, <1>3, <3>1, <3>2, DroppedTurn
  <2> QED
    BY <2>1, <2>2
<1>5. <<>> \in Seq(Arrivals)
    OBVIOUS
<1>6. /\ wire' \in [Questions -> Seq(Arrivals)] /\ \A p \in Questions \ {q} : wire'[p] = wire[p]
      /\ wire'[q] = <<>>
    BY <1>1, <1>2, <1>5 DEF TypeInv
<1>7. \A p \in Questions : wire'[p] = <<>>
    BY <1>1, <1>3, <1>6, EmptyWires DEF PanelOK
<1>8. /\ task' \in [Questions -> {"none", "reading", "aborted", "over"}]
      /\ \A p \in Questions : task'[p] # "reading" /\ (task'[p] = "none" => task[p] = "none")
    BY <1>1, <1>2, <1>3 DEF TypeInv, PanelOK
<1>9. abort' = NoQuestion /\ running' = FALSE /\ mounted' \in BOOLEAN /\ entry' \in Entry
    BY <1>1, <1>2, <1>3 DEF TypeInv, Entry
<1> QED
    BY <1>2, <1>4, <1>6, <1>7, <1>8, <1>9, ClosedKeeps

LEMMA StopKeeps ==
    ASSUME Inv, Stop
    PROVE  Inv' /\ Keeps(turns, turns')
<1>1. TypeInv /\ PanelOK /\ Labelled(turns) /\ Ordered(turns, stored)
    BY DEF Inv
<1>2. /\ abort # NoQuestion
      /\ turns' = askReducer(turns, "cancelled") /\ entry' = "fresh"
      /\ task' = [task EXCEPT ![abort] = "aborted"] /\ wire' = [wire EXCEPT ![abort] = <<>>]
      /\ abort' = NoQuestion /\ running' = FALSE
      /\ UNCHANGED <<server, stored, mounted, fetch>>
    BY DEF Stop, dispatch
<1>3. abort \in Questions /\ task[abort] = "reading"
    BY <1>1, <1>2 DEF TypeInv, PanelOK
<1>4. turns # <<>> /\ turns \in Seq(Turn)
    BY <1>3, OpenFacts
<1>5. turns' \in Seq(Turn) /\ Labelled(turns') /\ Ordered(turns', stored) /\ Keeps(turns, turns')
  <2>1. CASE turns[Len(turns)].status = "done"
    <3>1. turns' = turns
      BY <1>2, <1>4, <2>1, Reduced
    <3> QED
      BY <1>1, <1>4, <3>1 DEF Keeps
  <2>2. CASE turns[Len(turns)].status # "done"
    <3>1. turns' = Patched(turns, "error", "none")
      BY <1>2, <1>4, <2>2, Reduced
    <3> QED
      BY <1>3, <3>1, ErrorPatch
  <2> QED
    BY <2>1, <2>2
<1>6. <<>> \in Seq(Arrivals)
    OBVIOUS
<1>7. /\ wire' \in [Questions -> Seq(Arrivals)] /\ \A p \in Questions \ {abort} : wire'[p] = wire[p]
      /\ wire'[abort] = <<>>
    BY <1>1, <1>2, <1>3, <1>6 DEF TypeInv
<1>8. \A p \in Questions : wire'[p] = <<>>
    BY <1>1, <1>3, <1>7, EmptyWires DEF PanelOK
<1>9. /\ task' \in [Questions -> {"none", "reading", "aborted", "over"}]
      /\ \A p \in Questions : task'[p] # "reading" /\ (task'[p] = "none" => task[p] = "none")
    BY <1>1, <1>2, <1>3 DEF TypeInv, PanelOK
<1>10. mounted' \in BOOLEAN /\ entry' \in Entry
    BY <1>1, <1>2 DEF TypeInv, Entry
<1> QED
    BY <1>2, <1>5, <1>7, <1>8, <1>9, <1>10, ClosedKeeps

(* A task ends, the panel's or one that was aborted.                       *)
LEMMA EndKeeps ==
    ASSUME Inv, NEW q \in Questions, StreamEnds(q) \/ TaskUnwinds(q)
    PROVE  Inv' /\ turns' = turns
<1>1. TypeInv /\ StoreOK /\ PanelOK /\ WireOK /\ LiveOK /\ FetchOK /\ Labelled(turns) /\ Ordered(turns, stored)
    BY DEF Inv
<1>2. /\ task[q] \in {"reading", "aborted"} /\ task' = [task EXCEPT ![q] = "over"]
      /\ abort' = IF abort = q THEN NoQuestion ELSE abort
      /\ running' = IF abort = q THEN FALSE ELSE running
      /\ task[q] = "reading" => wire[q] = <<>>
      /\ UNCHANGED <<server, wire, stored, mounted, turns, entry, fetch>>
    BY DEF StreamEnds, TaskUnwinds, Finally, serverVars
<1>3. task[q] = "reading" <=> abort = q
  <2>1. q # NoQuestion
    BY TranscriptAssumption
  <2> QED
    BY <1>1, <2>1 DEF PanelOK
<1>4. /\ task' \in [Questions -> {"none", "reading", "aborted", "over"}] /\ task'[q] = "over"
      /\ \A p \in Questions \ {q} : task'[p] = task[p]
    BY <1>1, <1>2 DEF TypeInv
<1>5. CASE abort = q
  <2>1. wire' \in [Questions -> Seq(Arrivals)] /\ \A p \in Questions : wire'[p] = <<>>
    BY <1>1, <1>2, <1>3, <1>5 DEF TypeInv, PanelOK, WireOK
  <2>2. \A p \in Questions : task'[p] # "reading" /\ (task'[p] = "none" => task[p] = "none")
    BY <1>1, <1>4, <1>5 DEF PanelOK
  <2>3. turns' \in Seq(Turn) /\ mounted' \in BOOLEAN /\ entry' \in Entry
    BY <1>1, <1>2 DEF TypeInv
  <2> QED
    BY <1>1, <1>2, <1>4, <1>5, <2>1, <2>2, <2>3, ClosedKeeps
<1>6. CASE abort # q
  <2>1. UNCHANGED <<abort, running>> /\ task[q] = "aborted"
    BY <1>2, <1>3, <1>6
  <2>2. TypeInv'
    BY <1>1, <1>2, <1>4, <2>1 DEF TypeInv
  <2>3. \A p \in Questions : /\ task'[p] = "reading" <=> task[p] = "reading"
                             /\ task'[p] = "none" => task[p] = "none"
    BY <1>4, <2>1
  <2>4. StoreOK'
    BY <1>1, <1>2, <2>3 DEF StoreOK
  <2>5. PanelOK'
    <3>1. abort # NoQuestion => task'[abort] = "reading"
      BY <1>1, <2>3 DEF PanelOK, TypeInv
    <3> QED
      BY <1>1, <1>2, <2>1, <2>3, <3>1 DEF PanelOK
  <2>6. WireOK'
    BY <1>1, <1>2, <2>3 DEF WireOK
  <2>7. LiveOK'
    BY <1>1, <1>2, <2>3 DEF LiveOK, Awaited, Delivered
  <2> QED
    BY <1>1, <1>2, <2>2, <2>4, <2>5, <2>6, <2>7 DEF Inv, FetchOK
<1> QED
    BY <1>2, <1>5, <1>6

LEMMA AskKeeps ==
    ASSUME Inv, NEW q \in Questions, Ask(q)
    PROVE  Inv' /\ Keeps(turns, turns')
<1>1. TypeInv /\ StoreOK /\ PanelOK /\ WireOK /\ FetchOK /\ Labelled(turns) /\ Ordered(turns, stored)
    BY DEF Inv
<1>2. /\ mounted /\ abort = NoQuestion /\ task[q] = "none" /\ abort' = q /\ running' = TRUE
      /\ turns' = Append(turns, newTurn(q)) /\ entry' = "fresh"
      /\ task' = [task EXCEPT ![q] = "reading"]
      /\ server' = [server EXCEPT ![q].pc = "asked"]
      /\ UNCHANGED <<wire, stored, mounted, fetch>>
    BY DEF Ask
<1>3. /\ server' \in [Questions -> Handler] /\ server'[q].pc = "asked"
      /\ \A p \in Questions \ {q} : server'[p] = server[p]
    BY <1>1, <1>2 DEF TypeInv, Handler
<1>4. /\ task' \in [Questions -> {"none", "reading", "aborted", "over"}] /\ task'[q] = "reading"
      /\ \A p \in Questions \ {q} : task'[p] = task[p]
    BY <1>1, <1>2 DEF TypeInv
<1>5. server[q].pc = "none" /\ ~Has(stored, q)
    BY <1>1, <1>2 DEF StoreOK
<1>6. \A p \in Questions : task[p] # "reading" /\ wire[p] = <<>>
    BY <1>1, <1>2, TranscriptAssumption DEF PanelOK, WireOK
<1>7. /\ turns' \in Seq(Turn) /\ Labelled(turns') /\ Ordered(turns', stored) /\ Keeps(turns, turns')
      /\ LastIs(turns', q) /\ turns'[Len(turns')].status = "streaming"
  <2>1. turns \in Seq(Turn)
    BY <1>1 DEF TypeInv
  <2> QED
    BY <1>1, <1>2, <2>1, AppendedTurn
<1>8. TypeInv'
    BY <1>1, <1>2, <1>3, <1>4, <1>7 DEF TypeInv, Entry
<1>9. StoreOK'
    BY <1>1, <1>2, <1>3, <1>4, <1>5 DEF StoreOK
<1>10. PanelOK'
    BY <1>2, <1>4, <1>6, TranscriptAssumption DEF PanelOK
<1>11. WireOK'
  <2>1. \A p \in Questions : wire'[p] = <<>> /\ Len(<<>>) = 0
    BY <1>2, <1>6
  <2> QED
    BY <2>1 DEF WireOK
<1>12. LiveOK'
  <2>1. Awaited(q)'
    BY <1>2, <1>5, <1>7 DEF Awaited, Due
  <2>2. \A p \in Questions : task'[p] = "reading" => p = q
    BY <1>4, <1>6
  <2> QED
    BY <2>1, <2>2 DEF LiveOK
<1> QED
    BY <1>1, <1>2, <1>7, <1>8, <1>9, <1>10, <1>11, <1>12 DEF Inv, FetchOK

(* A frame arrives.                                                        *)
LEMMA ReceiveKeeps ==
    ASSUME Inv, NEW q \in Questions, Receive(q)
    PROVE  Inv' /\ Keeps(turns, turns')
<1>1. TypeInv /\ StoreOK /\ PanelOK /\ WireOK /\ FetchOK /\ Labelled(turns) /\ Ordered(turns, stored)
    BY DEF Inv
<1> DEFINE f == Head(wire[q])
           rest == Tail(wire[q])
<1>2. /\ task[q] = "reading" /\ wire[q] # <<>> /\ f # "refused"
      /\ turns' = askReducer(turns, f) /\ entry' = "fresh"
      /\ wire' = [wire EXCEPT ![q] = rest]
      /\ UNCHANGED <<server, stored, mounted, abort, running, task, fetch>>
    BY DEF Receive, dispatch, panelVars
<1>3. wire[q] \in Seq(Arrivals)
    BY <1>1 DEF TypeInv
<1>4. Len(wire[q]) \in Nat \ {0} /\ f = wire[q][1]
    BY <1>2, <1>3, EmptySeq
<1>5. /\ f \in Arrivals /\ rest \in Seq(Arrivals) /\ Len(rest) = Len(wire[q]) - 1
      /\ \A i \in 1..Len(rest) : rest[i] = wire[q][i + 1]
    BY <1>2, <1>3, HeadTailProperties
<1>6. 1 \in 1..Len(wire[q])
    BY <1>4
<1>7. /\ f \in {"done", "error"} => Len(wire[q]) = 1 /\ server[q].pc = "ended"
      /\ f = "done" => Has(stored, q)
    BY <1>1, <1>4, <1>6 DEF WireOK
<1> HIDE DEF f, rest
<1>8. /\ turns \in Seq(Turn) /\ turns # <<>> /\ turns[Len(turns)] \in Turn
      /\ LastIs(turns, q) /\ turns[Len(turns)].status # "error"
      /\ turns[Len(turns)].status # "done" /\ Due(turns, stored, q)
    BY <1>2, OpenFacts
<1>9. \A p \in Questions : task[p] = "reading" => p = q
    BY <1>1, <1>2 DEF PanelOK
<1>10. f \in {"token", "retry", "done", "error"}
    BY <1>2, <1>5 DEF Arrivals
<1>11. /\ wire' \in [Questions -> Seq(Arrivals)] /\ wire'[q] = rest
       /\ \A p \in Questions \ {q} : wire'[p] = wire[p]
    BY <1>1, <1>2, <1>5 DEF TypeInv
(* While the answer is not there, the turn stays open.                     *)
<1>12. ASSUME NEW status \in {"streaming", "correcting", "error"}, NEW answer \in {"none", "draft", "final"},
              status = "error" => answer = "none" /\ rest = <<>> /\ server[q].pc = "ended",
              turns' = Patched(turns, status, answer)
       PROVE  /\ turns' \in Seq(Turn) /\ Labelled(turns') /\ Ordered(turns', stored) /\ Keeps(turns, turns')
              /\ Awaited(q)'
  <2>1. status \in {"streaming", "correcting", "done", "error"}
    OBVIOUS
  <2>2. PICK t \in Turn : IsPatch(turns, status, answer, t)
    BY <1>8, <2>1, PatchedTurn
  <2>3. /\ turns' = [turns EXCEPT ![Len(turns)] = t] /\ t.id = turns[Len(turns)].id
        /\ t.q = turns[Len(turns)].q /\ t.status = status /\ t.answer = answer
    BY <1>12, <2>2 DEF IsPatch
  <2>4. /\ turns' \in Seq(Turn) /\ Labelled(turns') /\ Ordered(turns', stored) /\ Keeps(turns, turns')
        /\ \A p : ~Answered(turns, Len(turns)) /\ Due(turns, stored, p) => Due(turns', stored, p)
    <3>1. t.status # "done" /\ (t.status = "error" => t.answer = "none")
      BY <1>12, <2>3
    <3>2. /\ ~(turns[Len(turns)].status = "error" /\ turns[Len(turns)].id = "own")
          /\ turns # <<>>
      BY <1>8
    <3> QED
      BY <1>1, <1>8, <2>3, <3>1, <3>2, PatchOpen
  <2>5. /\ turns' # <<>> /\ Len(turns') = Len(turns) /\ turns'[Len(turns)] = t
    BY <1>8, <2>3, LastPatched
  <2>6. LastIs(turns', q)
    BY <1>8, <2>3, <2>5 DEF LastIs
  <2>7. Due(turns', stored', q)
    BY <1>2, <1>8, <2>4 DEF Answered
  <2>8. (wire'[q] # <<>> \/ server'[q].pc # "ended") => turns'[Len(turns')].status # "error"
    BY <1>2, <1>11, <1>12, <2>3, <2>5
  <2> QED
    BY <2>4, <2>6, <2>7, <2>8 DEF Awaited
<1>13. f = "done" \/ f = "error" => rest = <<>>
  <2>1. f = "done" \/ f = "error" => Len(rest) = 0
    BY <1>5, <1>7
  <2> QED
    BY <1>5, <2>1, EmptySeq
<1>14. /\ turns' \in Seq(Turn) /\ Labelled(turns') /\ Ordered(turns', stored) /\ Keeps(turns, turns')
       /\ (Awaited(q) \/ Delivered(q))'
  <2>1. CASE f = "token"
    <3>1. turns' = Patched(turns, turns[Len(turns)].status, "draft")
      BY <1>2, <1>8, <2>1, Reduced
    <3>2. turns[Len(turns)].status \in {"streaming", "correcting"}
      BY <1>8 DEF Turn
    <3> QED
      BY <1>12, <3>1, <3>2
  <2>2. CASE f = "retry"
    <3>1. turns' = Patched(turns, "correcting", turns[Len(turns)].answer)
      BY <1>2, <1>8, <2>2, Reduced
    <3>2. turns[Len(turns)].answer \in {"none", "draft", "final"}
      BY <1>8 DEF Turn
    <3> QED
      BY <1>12, <3>1, <3>2
  <2>3. CASE f = "error"
    <3>1. turns' = Patched(turns, "error", "none")
      BY <1>2, <1>8, <2>3, Reduced
    <3> QED
      BY <1>7, <1>12, <1>13, <2>3, <3>1
  <2>4. CASE f = "done"
    <3>1. turns' = Patched(turns, "done", "final")
      BY <1>2, <1>8, <2>4, Reduced
    <3>2. PICK t \in Turn : IsPatch(turns, "done", "final", t)
      BY <1>8, PatchedTurn
    <3>3. /\ t.id = "row" /\ t.q = q /\ t.status = "done"
          /\ turns' = [turns EXCEPT ![Len(turns)] = t]
      BY <1>8, <3>1, <3>2 DEF LastIs, IsPatch
    <3>4. /\ turns' \in Seq(Turn) /\ Labelled(turns') /\ Ordered(turns', stored)
          /\ ShowsAnswer(turns', q) /\ Keeps(turns, turns')
      <4>1. LastIs(turns, q) /\ Has(stored, q) /\ stored' = stored
        BY <1>2, <1>7, <1>8, <2>4
      <4> QED
        BY <1>1, <1>8, <3>3, <4>1, PatchDone
    <3>5. Delivered(q)'
      BY <1>2, <1>7, <1>11, <1>13, <2>4, <3>4 DEF Delivered
    <3> QED
      BY <3>4, <3>5
  <2> QED
    BY <1>10, <2>1, <2>2, <2>3, <2>4
<1>15. TypeInv'
  <2>1. Len(rest) <= MaxWire
    <3>1. Len(wire[q]) <= MaxWire /\ MaxWire \in Nat
      BY <1>1, TranscriptAssumption DEF TypeInv
    <3> QED
      BY <1>4, <1>5, <3>1
  <2> QED
    BY <1>1, <1>2, <1>11, <1>14, <2>1 DEF TypeInv, Entry
<1>16. StoreOK' /\ PanelOK'
    BY <1>1, <1>2 DEF StoreOK, PanelOK
<1>17. WireOK'
  <2>1. ASSUME NEW i \in 1..Len(rest)
        PROVE  /\ rest[i] \in {"done", "error", "refused"} => i = Len(rest) /\ server[q].pc = "ended"
               /\ rest[i] = "done" => Has(stored, q)
    <3>1. i + 1 \in 1..Len(wire[q]) /\ (i + 1 = Len(wire[q]) => i = Len(rest))
      BY <1>4, <1>5
    <3> QED
      BY <1>1, <1>5, <3>1 DEF WireOK
  <2> QED
    BY <1>1, <1>2, <1>11, <2>1 DEF WireOK
<1>18. LiveOK'
    BY <1>2, <1>9, <1>14 DEF LiveOK
<1> QED
    BY <1>1, <1>2, <1>14, <1>15, <1>16, <1>17, <1>18 DEF Inv, FetchOK

(* The panel comes back, the transcript is invalidated, and the request    *)
(* for the stored turns.                                                   *)
LEMMA FetchKeeps ==
    ASSUME Inv, Mount \/ Invalidate \/ FetchRead \/ FetchFails
    PROVE  Inv' /\ turns' = turns
<1>1. TypeInv /\ StoreOK /\ PanelOK /\ WireOK /\ LiveOK /\ FetchOK /\ Labelled(turns) /\ Ordered(turns, stored)
    BY DEF Inv
<1>2. /\ UNCHANGED <<server, wire, stored, abort, running, turns, task>>
      /\ mounted' = mounted \/ mounted' = TRUE
      /\ fetch' = fetch \/ fetch' \in {NoFetch, NewFetch, [pc |-> "read", turns |-> stored]}
      /\ entry' = entry \/ entry' \in {"stale", "failed"}
    BY DEF Mount, Invalidate, FetchRead, FetchFails, serverVars, panelVars
<1>3. stored \in Seq(Questions) /\ Len(stored) \in Nat /\ <<>> \in Seq(Questions) /\ Len(<<>>) = 0
  <2>1. stored \in Seq(Questions)
    BY <1>1 DEF TypeInv
  <2> QED
    BY <2>1, LenProperties
<1>4. fetch' \in [pc: {"none", "sent", "read"}, turns: Seq(Questions)]
  <2>1. /\ NoFetch \in [pc: {"none", "sent", "read"}, turns: Seq(Questions)]
        /\ NewFetch \in [pc: {"none", "sent", "read"}, turns: Seq(Questions)]
    BY <1>3 DEF NoFetch, NewFetch
  <2>2. [pc |-> "read", turns |-> stored] \in [pc: {"none", "sent", "read"}, turns: Seq(Questions)]
    BY <1>3
  <2>3. fetch \in [pc: {"none", "sent", "read"}, turns: Seq(Questions)]
    BY <1>1 DEF TypeInv
  <2> QED
    BY <1>2, <2>1, <2>2, <2>3
<1>5. Len(fetch'.turns) <= Len(stored) /\ \A i \in 1..Len(fetch'.turns) : fetch'.turns[i] = stored[i]
  <2>1. CASE fetch' = fetch
    BY <1>1, <2>1 DEF FetchOK
  <2>2. CASE fetch' # fetch
    BY <1>2, <1>3, <2>2 DEF NoFetch, NewFetch
  <2> QED
    BY <2>1, <2>2
<1>6. mounted' \in BOOLEAN /\ (mounted => mounted')
  <2>1. mounted \in BOOLEAN
    BY <1>1 DEF TypeInv
  <2>2. CASE mounted' = mounted
    BY <2>1, <2>2
  <2>3. CASE mounted' = TRUE
    BY <2>3
  <2> QED
    BY <1>2, <2>2, <2>3
<1>7. TypeInv' /\ FetchOK'
  <2>1. entry' \in Entry
    BY <1>1, <1>2 DEF TypeInv, Entry
  <2> QED
    BY <1>1, <1>2, <1>4, <1>5, <1>6, <2>1 DEF TypeInv, FetchOK
<1>8. StoreOK' /\ PanelOK' /\ WireOK'
    BY <1>1, <1>2, <1>6 DEF StoreOK, PanelOK, WireOK
<1>9. LiveOK'
    BY <1>1, <1>2 DEF LiveOK, Awaited, Delivered
<1> QED
    BY <1>1, <1>2, <1>7, <1>8, <1>9 DEF Inv

LEMMA ArrivalKeeps ==
    ASSUME Inv, FetchArrives
    PROVE  Inv' /\ Keeps(turns, turns')
<1>1. TypeInv /\ StoreOK /\ PanelOK /\ WireOK /\ LiveOK /\ FetchOK /\ Labelled(turns) /\ Ordered(turns, stored)
    BY DEF Inv
<1>2. /\ turns' = Merged(fetch.turns, turns)[1] \o Merged(fetch.turns, turns)[2]
      /\ entry' = "fresh" /\ fetch' = NoFetch
      /\ UNCHANGED <<server, wire, stored, mounted, abort, running, task>>
    BY DEF FetchArrives, serverVars, panelVars
<1>3. /\ turns \in Seq(Turn) /\ stored \in Seq(Questions) /\ Once(stored)
      /\ fetch.turns \in Seq(Questions) /\ Len(fetch.turns) <= Len(stored)
      /\ \A i \in 1..Len(fetch.turns) : fetch.turns[i] = stored[i]
    BY <1>1 DEF TypeInv, StoreOK, FetchOK
<1>4. CarriesOver(turns, turns', stored)
    BY <1>1, <1>2, <1>3, MergedKeeps
<1>5. Keeps(turns, turns')
    BY <1>4 DEF Keeps, CarriesOver
<1>6. /\ NoFetch \in [pc: {"none", "sent", "read"}, turns: Seq(Questions)]
      /\ Len(NoFetch.turns) = 0 /\ Len(stored) \in Nat
  <2>1. <<>> \in Seq(Questions) /\ Len(<<>>) = 0
    OBVIOUS
  <2> QED
    BY <1>3, <2>1, LenProperties DEF NoFetch
<1>7. TypeInv' /\ FetchOK'
    BY <1>1, <1>2, <1>4, <1>6 DEF TypeInv, Entry, FetchOK, CarriesOver
<1>8. StoreOK' /\ PanelOK' /\ WireOK'
    BY <1>1, <1>2 DEF StoreOK, PanelOK, WireOK
<1>9. LiveOK'
    BY <1>1, <1>2, <1>4 DEF LiveOK, Awaited, Delivered, CarriesOver
<1> QED
    BY <1>2, <1>4, <1>5, <1>7, <1>8, <1>9 DEF Inv, CarriesOver
-----------------------------------------------------------------------------
LEMMA InitInv == Init => Inv
<1> SUFFICES ASSUME Init PROVE Inv
    OBVIOUS
<1>1. /\ server = [q \in Questions |-> NewHandler] /\ wire = [q \in Questions |-> <<>>]
      /\ stored = <<>> /\ turns = <<>> /\ entry = "none"
      /\ mounted = FALSE /\ abort = NoQuestion /\ running = FALSE
      /\ task = [q \in Questions |-> "none"] /\ fetch = NoFetch
    BY DEF Init
<1>2. \A S : <<>> \in Seq(S)
    OBVIOUS
<1>3. Len(<<>>) = 0 /\ MaxWire \in Nat /\ MaxFrames \in Nat
    BY TranscriptAssumption
<1>4. NewHandler \in Handler /\ NewHandler.pc = "none"
    BY <1>3 DEF NewHandler, Handler
<1>5. NoFetch \in [pc: {"none", "sent", "read"}, turns: Seq(Questions)] /\ Len(NoFetch.turns) = 0
    BY <1>2, <1>3 DEF NoFetch
<1>6. \A q \in Questions : server[q].pc = "none" /\ wire[q] = <<>> /\ task[q] = "none"
    BY <1>1, <1>4
<1>7. TypeInv
  <2>1. wire \in [Questions -> Seq(Arrivals)] /\ \A q \in Questions : Len(wire[q]) <= MaxWire
    BY <1>1, <1>2, <1>3
  <2> QED
    BY <1>1, <1>2, <1>4, <1>5, <2>1 DEF TypeInv, Entry
<1>8. Labelled(turns) /\ Ordered(turns, stored) /\ Once(stored) /\ \A q : ~Has(stored, q)
    BY <1>1, <1>3 DEF Labelled, Ordered, Once, Has
<1>9. StoreOK /\ PanelOK /\ WireOK /\ LiveOK /\ FetchOK
    BY <1>1, <1>3, <1>5, <1>6, <1>8 DEF StoreOK, PanelOK, WireOK, LiveOK, FetchOK
<1> QED
    BY <1>7, <1>8, <1>9 DEF Inv

LEMMA InvNext == Inv /\ [Next]_vars => Inv' /\ (Keeps(turns, turns') \/ turns' = <<>>)
<1> SUFFICES ASSUME Inv, [Next]_vars PROVE Inv' /\ (Keeps(turns, turns') \/ turns' = <<>>)
    OBVIOUS
<1>1. Keeps(turns, turns)
    BY DEF Keeps
<1>2. CASE UNCHANGED vars
  <2>1. UNCHANGED <<server, wire, stored, mounted, abort, running, turns, entry, task, fetch>>
    BY <1>2 DEF vars, serverVars, panelVars
  <2>2. (TypeInv /\ StoreOK /\ PanelOK /\ WireOK /\ FetchOK)'
    BY <2>1 DEF Inv, TypeInv, StoreOK, PanelOK, WireOK, FetchOK
  <2>3. LiveOK'
    BY <2>1 DEF Inv, LiveOK, Awaited, Delivered
  <2> QED
    BY <1>1, <2>1, <2>2, <2>3 DEF Inv
<1>3. ASSUME NEW q \in Questions, ServerStep(q) \/ ServerDies(q)
      PROVE  Inv' /\ (Keeps(turns, turns') \/ turns' = <<>>)
    BY <1>1, <1>3, ServerKeeps
<1>4. ASSUME NEW q \in Questions, TaskStep(q) \/ ConnectionBreaks(q)
      PROVE  Inv' /\ (Keeps(turns, turns') \/ turns' = <<>>)
  <2>1. CASE Receive(q)
    BY <2>1, ReceiveKeeps
  <2>2. CASE ReceiveRefusal(q)
    BY <2>2, ThrowKeeps DEF ReceiveRefusal
  <2>3. CASE ConnectionBreaks(q)
    BY <2>3, ThrowKeeps DEF ConnectionBreaks
  <2>4. CASE StreamEnds(q) \/ TaskUnwinds(q)
    BY <1>1, <2>4, EndKeeps
  <2> QED
    BY <1>4, <2>1, <2>2, <2>3, <2>4 DEF TaskStep
<1>5. ASSUME NEW q \in Questions, Ask(q) PROVE Inv' /\ (Keeps(turns, turns') \/ turns' = <<>>)
    BY <1>5, AskKeeps
<1>6. CASE Unmount \/ Reload
    BY <1>1, <1>6, LeaveKeeps
<1>7. CASE Stop
    BY <1>7, StopKeeps
<1>8. CASE Mount \/ Invalidate \/ FetchRead \/ FetchFails
    BY <1>1, <1>8, FetchKeeps
<1>9. CASE FetchArrives
    BY <1>9, ArrivalKeeps
<1> QED
    BY <1>2, <1>3, <1>4, <1>5, <1>6, <1>7, <1>8, <1>9 DEF Next

LEMMA InvImplies == Inv => PanelIsConsistent /\ DoneIsStored
<1> SUFFICES ASSUME Inv PROVE PanelIsConsistent /\ DoneIsStored
    OBVIOUS
<1>1. TypeInv /\ StoreOK /\ PanelOK /\ LiveOK /\ Ordered(turns, stored)
    BY DEF Inv
<1>2. TypeOK
  <2>1. \A q \in Questions : \A i \in 1..Len(wire[q]) : wire[q][i] \in Arrivals
    BY <1>1, ElementOfSeq DEF TypeInv
  <2>2. \A i \in 1..Len(stored) : stored[i] \in Questions
    BY <1>1, ElementOfSeq DEF TypeInv
  <2>3. \A i \in 1..Len(turns) : turns[i] \in Turn
    BY <1>1, ElementOfSeq DEF TypeInv
  <2>4. fetch.pc \in {"none", "sent", "read"} /\ \A i \in 1..Len(fetch.turns) : fetch.turns[i] \in Questions
    BY <1>1, ElementOfSeq DEF TypeInv
  <2>5. \A i, j \in 1..Len(stored) : stored[i] = stored[j] => i = j
    BY <1>1 DEF StoreOK, Once
  <2> QED
    BY <1>1, <2>1, <2>2, <2>3, <2>4, <2>5 DEF TypeOK, TypeInv
<1>3. OpenTurnIsLast
  <2> SUFFICES ASSUME NEW q \in Questions, MayHear(q)
               PROVE  turns # <<>> /\ turns[Len(turns)].q = q
    BY DEF OpenTurnIsLast
  <2>2. Awaited(q)
    BY <1>1 DEF LiveOK, Delivered, MayHear
  <2> QED
    BY <2>2 DEF Awaited, LastIs
<1>4. RunningIsHonest
  <2>1. abort # NoQuestion => abort \in Questions
    BY <1>1 DEF TypeInv
  <2>2. \A q \in Questions : q # NoQuestion
    BY TranscriptAssumption
  <2>3. (abort # NoQuestion) <=> \E q \in Questions : task[q] = "reading"
    BY <1>1, <2>1, <2>2 DEF PanelOK
  <2> QED
    BY <1>1, <2>3 DEF PanelOK, RunningIsHonest
<1>5. DoneIsStored
  <2>1. \A q : Place(stored, q) = Position(q)
    BY DEF Place, Position
  <2>2. \A j \in 1..Len(turns) : Earlier(turns, j) <=> ShownBefore(j)
    BY DEF Earlier, ShownBefore, Answered, IsDone
  <2> QED
    BY <1>1, <2>1, <2>2 DEF Ordered, DoneIsStored, Has, Answered, IsDone
<1> QED
    BY <1>2, <1>3, <1>4, <1>5 DEF PanelIsConsistent

(* While a stream is open its question is the last turn of the transcript, *)
(* and the Stop button shows exactly then, for any number of questions,    *)
(* stops, mounts, invalidations and late or failed fetches.                *)
THEOREM PanelSound == Spec => []PanelIsConsistent
<1>1. Inv /\ [Next]_vars => Inv'
    BY InvNext
<1> QED
    BY <1>1, InitInv, InvImplies, PTL DEF Spec

(* What is shown as answered was stored, and stands in the order in which  *)
(* it was stored: the merges of use-ask-stream.ts:53-57, however many and  *)
(* whenever they come, lose and reorder nothing.                           *)
THEOREM AnswersAreStored == Spec => []DoneIsStored
<1>1. Inv /\ [Next]_vars => Inv'
    BY InvNext
<1> QED
    BY <1>1, InitInv, InvImplies, PTL DEF Spec

(* A question that failed or was stopped stays on the page as it is, until *)
(* the page is loaded anew.                                                *)
THEOREM FailuresStay == Spec => FailedStays
<1>1. Inv /\ [Next]_vars => Inv'
    BY InvNext
<1>2. Inv /\ [Next]_vars =>
        [\A i \in 1..Len(turns) : turns[i].status = "error" /\ turns[i].id = "own" =>
            \/ turns' = <<>>
            \/ \E j \in 1..Len(turns') : turns'[j] = turns[i]]_vars
    BY InvNext DEF Keeps
<1> QED
    BY <1>1, <1>2, InitInv, PTL DEF Spec, FailedStays
=============================================================================
