------------------------------- MODULE Scoring -------------------------------
(***************************************************************************)
(* The numbers of the evaluation (eval/src): extraction accuracy over gold *)
(* fields, precision, recall and F1 of the flags, the ranks of gold        *)
(* clauses in the results of a search, and the gates on all of them.       *)
(* A ratio is <<numerator, denominator>>.                                  *)
(*                                                                         *)
(* What values count as equal is shared/schemas/extraction/normalize.ts:   *)
(* numbers as German and English documents write them.  A number is read   *)
(* from "d" (a digit), "." and ","; what is read is the number of its      *)
(* digits before and after the decimal separator, which is all a separator *)
(* can get wrong.                                                          *)
(***************************************************************************)
EXTENDS Integers, Sequences, FiniteSets, FiniteSetsExt, SequencesExt

NaN == <<-1, -1>>
At(s, sep) == {i \in DOMAIN s : s[i] = sep}
Without(s, sep) == SelectSeq(s, LAMBDA c : c # sep)
FirstAsPoint(s, sep) ==
    IF At(s, sep) = {} THEN s ELSE [s EXCEPT ![Min(At(s, sep))] = "point"]
(* A separator before exactly n digits.                                    *)
BeforeAtLeast(s, sep, n) ==
    \E i \in At(s, sep) : i + n <= Len(s) /\ \A k \in i + 1 .. i + n : s[k] = "d"
Before(s, sep, n) ==
    \E i \in At(s, sep) :
       /\ i + n <= Len(s) /\ \A k \in i + 1 .. i + n : s[k] = "d"
       /\ i + n = Len(s) \/ s[i + n + 1] # "d"
Thousands(s, sep) == Before(s, sep, 3) /\ ~Before(s, sep, 1) /\ ~Before(s, sep, 2)

(* Number(): digits with at most one decimal point, and something there.   *)
Number(s) ==
    LET points == At(s, "point") \cup At(s, ".")
    IN  IF Cardinality(points) > 1 \/ At(s, ",") # {} \/ At(s, "d") = {} THEN NaN
        ELSE IF points = {} THEN <<Len(s), 0>>
        ELSE LET p == CHOOSE p \in points : TRUE IN <<p - 1, Len(s) - p>>
parseGroupedNumber(s) ==
    LET dots == At(s, ".")
        commas == At(s, ",")
    IN  Number(CASE dots # {} /\ commas # {} ->
                      IF Max(commas) > Max(dots) THEN FirstAsPoint(Without(s, "."), ",") ELSE Without(s, ",")
                 [] dots = {} /\ commas # {} ->
                      IF Thousands(s, ",") THEN Without(s, ",") ELSE FirstAsPoint(s, ",")
                 [] dots # {} /\ commas = {} -> IF Thousands(s, ".") THEN Without(s, ".") ELSE s
                 [] OTHER -> s)

(* Values that are equal within the tolerance; arrays are multisets, each  *)
(* expected value taking the first one left that matches it.               *)
arraysMatchAny(expected, actual) ==
    Len(expected) = Len(actual) /\ \A i \in DOMAIN expected : \E j \in DOMAIN actual : actual[j] = expected[i]
arraysMatch(expected, actual) ==
    LET take(left, e) ==
          IF left.ok /\ \E i \in DOMAIN left.rest : left.rest[i] = e
          THEN [left EXCEPT !.rest = RemoveAt(@, Min({i \in DOMAIN @ : @[i] = e}))]
          ELSE [left EXCEPT !.ok = FALSE]
    IN  Len(expected) = Len(actual) /\ FoldLeft(take, [ok |-> TRUE, rest |-> actual], expected).ok

Count(s, Test(_)) == Len(SelectSeq(s, Test))
ratio(num, den) == IF den = 0 THEN <<1, 1>> ELSE <<num, den>>
Leq(a, b) == a[1] * b[2] <= b[1] * a[2]
Percent(n) == <<n, 100>>
Minus(a, b) == <<a[1] * b[2] - b[1] * a[2], a[2] * b[2]>>

(* Fields: what the gold says, what the model did, whether they agree.     *)
Right    == [goldNotFound |-> FALSE, extracted |-> TRUE,  valueMatch |-> TRUE]
Wrong    == [goldNotFound |-> FALSE, extracted |-> TRUE,  valueMatch |-> FALSE]
Missed   == [goldNotFound |-> FALSE, extracted |-> FALSE, valueMatch |-> FALSE]
Abstains == [goldNotFound |-> TRUE,  extracted |-> FALSE, valueMatch |-> FALSE]
Invents  == [goldNotFound |-> TRUE,  extracted |-> TRUE,  valueMatch |-> FALSE]
ScoredFields == {Right, Wrong, Missed, Abstains, Invents}
AccuracyOfExtracted(fields) ==
    ratio(Count(fields, LAMBDA f : ~f.goldNotFound /\ f.extracted /\ f.valueMatch),
          Count(fields, LAMBDA f : ~f.goldNotFound /\ f.extracted))
extractionAccuracy(fields) ==
    ratio(Count(fields, LAMBDA f : ~f.goldNotFound /\ f.extracted /\ f.valueMatch),
          Count(fields, LAMBDA f : ~f.goldNotFound))
overallAccuracy(fields) ==
    ratio(Count(fields, LAMBDA f : IF f.goldNotFound THEN ~f.extracted ELSE f.extracted /\ f.valueMatch),
          Len(fields))
hallucinationRate(fields) ==
    ratio(Count(fields, LAMBDA f : f.goldNotFound /\ f.extracted), Count(fields, LAMBDA f : f.goldNotFound))

(* Flags: one observation for a rule of a document that the gold expects   *)
(* or the engine fires, under the severity it fired with.                  *)
Severities == {"red", "amber"}
Observations ==
    {o \in [expected : BOOLEAN, fired : BOOLEAN, severity : Severities] : o.expected \/ o.fired}
prfTrusting(obs) ==
    LET tp == Count(obs, LAMBDA o : o.expected /\ o.fired)
        fn == Count(obs, LAMBDA o : o.expected /\ ~o.fired)
    IN  ratio(tp, tp + fn)
f1(obs) ==
    LET tp == Count(obs, LAMBDA o : o.expected /\ o.fired)
        precision == ratio(tp, Count(obs, LAMBDA o : o.fired))
        recall    == ratio(tp, Count(obs, LAMBDA o : o.expected))
        sum == precision[1] * recall[2] + recall[1] * precision[2]
    IN  IF sum = 0 THEN <<0, 1>> ELSE <<2 * precision[1] * recall[1], sum>>
OfSeverity(obs, sev) == SelectSeq(obs, LAMBDA o : o.severity = sev)

(* Ranks: the clauses that a search returned, best first, by whether the   *)
(* gold names them, and how many it names.                                 *)
Plus(a, b) == <<a[1] * b[2] + b[1] * a[2], a[2] * b[2]>>
Found(q) == Count(q.hits, LAMBDA h : h)
firstGoldRankLast(q) == IF Found(q) = 0 THEN 0 ELSE SelectLastInSeq(q.hits, LAMBDA h : h)
firstGoldRank(q) == SelectInSeq(q.hits, LAMBDA h : h)      \* 0 if there is none
recallAtK(qs) == <<Count(qs, LAMBDA q : firstGoldRank(q) # 0), Len(qs)>>
mrrAtK(qs) ==
    LET sum == FoldLeft(LAMBDA acc, q : IF firstGoldRank(q) = 0 THEN acc ELSE Plus(acc, <<1, firstGoldRank(q)>>),
                        <<0, 1>>, qs)
    IN  <<sum[1], sum[2] * Len(qs)>>
coverageAtK(qs) == <<Count(qs, LAMBDA q : Found(q) = q.gold), Len(qs)>>

(* The gates: a floor, and no more than a few points below the baseline.   *)
Gate(score, floor, baseline, points) ==
    Leq(Percent(floor), score) /\ Leq(Minus(baseline, Percent(points)), score)
gateExtraction(fields, baseline) == Gate(extractionAccuracy(fields), 80, baseline, 2)
gateRules(obs, baseline) == Gate(f1(obs), 90, baseline, 2)
gateRetrieval(qs, baseline) == Gate(recallAtK(qs), 85, baseline, 3)

-----------------------------------------------------------------------------
(* n digits with thousands separated by group, then m decimals.            *)
Digits(n) == [i \in 1 .. n |-> "d"]
RECURSIVE Grouped(_, _)
Grouped(n, group) ==
    IF n <= 3 THEN Digits(n) ELSE Grouped(n - 3, group) \o <<group>> \o Digits(3)
Styles == {[group |-> ".", point |-> ","], [group |-> ",", point |-> "."],
           [group |-> "", point |-> ","], [group |-> "", point |-> "."]}
Written(n, m, style) ==
    (IF style.group = "" THEN Digits(n) ELSE Grouped(n, style.group))
    \o (IF m = 0 THEN <<>> ELSE <<style.point>> \o Digits(m))

(* A number reads back as it was written, in either language, grouped or   *)
(* not; with one exception that two languages cannot tell apart: three     *)
(* digits after the only separator are a group of thousands.               *)
ReadsBack(n, m, style) ==
    parseGroupedNumber(Written(n, m, style)) =
        IF m = 3 /\ (n <= 3 \/ style.group = "") THEN <<n + 3, 0>> ELSE <<n, m>>

(* Arrays match exactly if one is a rearrangement of the other.            *)
Times(s, v) == Cardinality({i \in DOMAIN s : s[i] = v})
MatchesAsMultisets(s, t) ==
    arraysMatch(s, t) <=> \A v \in ToSet(s) \cup ToSet(t) : Times(s, v) = Times(t, v)

WorseField(f) ==
    CASE f = Right -> {Wrong, Missed} [] f = Abstains -> {Invents} [] OTHER -> {}
(* One field read worse never scores higher: no accuracy rises and the     *)
(* hallucination rate does not fall, so a run that is worse on every field *)
(* passes no gate that a better one failed, whatever the baseline.         *)
WorseReadingScoresLower(fields) ==
    \A k \in DOMAIN fields : \A w \in WorseField(fields[k]) :
       LET worse == [fields EXCEPT ![k] = w]
       IN  /\ Leq(extractionAccuracy(worse), extractionAccuracy(fields))
           /\ fields[k] = Right => ~Leq(extractionAccuracy(fields), extractionAccuracy(worse))
           /\ overallAccuracy(worse)[1] < overallAccuracy(fields)[1]
           /\ Leq(hallucinationRate(fields), hallucinationRate(worse))
           /\ \A b \in {Percent(n) : n \in {80, 90, 100}} :
                 gateExtraction(worse, b) => gateExtraction(fields, b)

(* The same of flags: an expected flag that no longer fires, or one that   *)
(* fires and should not, lowers F1, of all rules and of the rules of its   *)
(* severity, and passes no gate that was failed before.                    *)
WorseFlagsScoreLower(obs) ==
    \A o \in Observations :
       LET worse == IF o.expected /\ o.fired THEN obs ELSE Append(obs, o)
           missed(k) == [obs EXCEPT ![k].fired = FALSE]
       IN  /\ Leq(f1(worse), f1(obs))
           /\ (o.fired /\ ~o.expected /\ Leq(Percent(1), f1(obs))) => ~Leq(f1(obs), f1(worse))
           /\ Leq(f1(OfSeverity(worse, o.severity)), f1(OfSeverity(obs, o.severity)))
           /\ \A k \in {i \in DOMAIN obs : obs[i].expected /\ obs[i].fired} :
                 /\ ~Leq(f1(obs), f1(missed(k)))
                 /\ \A b \in {Percent(n) : n \in {80, 95, 100}} :
                       gateRules(missed(k), b) => gateRules(obs, b)

(* A better ranking never scores lower: a gold clause that moves up by one *)
(* place, or takes the place of another result, lowers no number, raises   *)
(* those it should, and fails no gate that was passed before.              *)
Swapped(q, i) == [q EXCEPT !.hits[i] = q.hits[i + 1], !.hits[i + 1] = q.hits[i]]
Promoted(q) == {Swapped(q, i) : i \in {k \in 1 .. Len(q.hits) - 1 : ~q.hits[k] /\ q.hits[k + 1]}}
Added(q) == IF Found(q) = q.gold THEN {} ELSE {[q EXCEPT !.hits[i] = TRUE] : i \in DOMAIN q.hits}
BetterRanksScoreHigher(qs) ==
    \A k \in DOMAIN qs : \A q \in Promoted(qs[k]) \cup Added(qs[k]) :
       LET better == [qs EXCEPT ![k] = q]
       IN  /\ Leq(recallAtK(qs), recallAtK(better))
           /\ Leq(mrrAtK(qs), mrrAtK(better))
           /\ Leq(coverageAtK(qs), coverageAtK(better))
           /\ firstGoldRank(q) # firstGoldRank(qs[k]) => ~Leq(mrrAtK(better), mrrAtK(qs))
           /\ q \in Promoted(qs[k]) => recallAtK(better) = recallAtK(qs)
           /\ Leq(mrrAtK(qs), recallAtK(qs)) /\ Leq(coverageAtK(qs), recallAtK(qs))
           /\ \A b \in {Percent(n) : n \in {85, 100}} : gateRetrieval(qs, b) => gateRetrieval(better, b)
=============================================================================
