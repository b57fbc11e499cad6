------------------------------ MODULE EvalCache ------------------------------
(***************************************************************************)
(* The evaluation's caches (eval/src/cache.ts and llm-cache.ts): files of  *)
(* lines that are committed, so that an evaluation is cheap and gives the  *)
(* same numbers again.  One evaluation runs at a time, opens both caches   *)
(* for the provider it is configured with, and asks for vectors of batches *)
(* of texts and for answers to prompts, one call after the other; it may   *)
(* end, or die, at any point.                                              *)
(***************************************************************************)
EXTENDS Integers, Sequences, FiniteSets

CONSTANTS Providers, InputTypes, Texts, Prompts,
          Answers,      \* a model may give any of them, each time it is asked
          MaxBatch, MaxCalls

VARIABLES vectors,      \* embeddings.jsonl
          answers,      \* llm.jsonl
          run,          \* the evaluation that runs
          said          \* the answers evaluations have worked with
vars == <<vectors, answers, run, said>>

NoEntry == "none"
CacheAssumption == NoEntry \notin Providers /\ MaxBatch \in Nat /\ MaxCalls \in Nat
(* The embedding of a text: deterministic, given provider and input type.  *)
Vector(p, type, text) == [provider |-> p, inputType |-> type, text |-> text]
NoVector == Vector(NoEntry, NoEntry, NoEntry)

key(p, type, text) == <<p, type, text>>
Lookup(map, k) == {e \in map : e.key = k}

NoRun == [phase |-> "none", provider |-> NoEntry, known |-> {}, learned |-> {}, ask |-> <<>>, out |-> <<>>,
          calls |-> 0]
Init == vectors = <<>> /\ answers = <<>> /\ run = NoRun /\ said = {}

(* Loading: of a key that was written twice the later line counts.         *)
LoadVectors(file) ==
    {[key |-> key(file[i].provider, file[i].inputType, file[i].text), value |-> file[i].vector] :
       i \in DOMAIN file}
loadAny(file, p) ==
    {[key |-> file[i].prompt, value |-> file[i].result] :
       i \in {j \in DOMAIN file :
                 ~\E k \in j + 1 .. Len(file) : file[k].prompt = file[j].prompt}}
load(file, p) ==
    {[key |-> file[i].prompt, value |-> file[i].result] :
       i \in {j \in DOMAIN file :
                 /\ file[j].provider = p
                 /\ ~\E k \in j + 1 .. Len(file) : file[k].provider = p /\ file[k].prompt = file[j].prompt}}
Open(p) ==
    /\ run.phase = "none"
    /\ run' = [NoRun EXCEPT !.phase = "idle", !.provider = p, !.calls = run.calls,
                            !.known = LoadVectors(vectors), !.learned = load(answers, p)]
    /\ UNCHANGED <<vectors, answers, said>>
End ==
    /\ run.phase # "none"
    /\ run' = [NoRun EXCEPT !.calls = run.calls]
    /\ UNCHANGED <<vectors, answers, said>>

(* embed: what is known is filled in, the rest is asked for in one call;   *)
(* the answers fill the empty places in order.                             *)
Begin == run.phase \in {"idle", "given"} /\ run.calls < MaxCalls
embed(texts, type) ==
    LET hit(i) == Lookup(run.known, key(run.provider, type, texts[i]))
        out == [i \in DOMAIN texts |-> IF hit(i) = {} THEN NoVector ELSE (CHOOSE e \in hit(i) : TRUE).value]
    IN  /\ Begin
        /\ run' = [run EXCEPT !.phase = IF \E i \in DOMAIN out : out[i] = NoVector THEN "embedding" ELSE "given",
                              !.ask = [type |-> type, texts |-> texts], !.out = out, !.calls = @ + 1]
        /\ UNCHANGED <<vectors, answers, said>>
(* The places to fill, and which of them a place is.                       *)
Missing == {i \in DOMAIN run.out : run.out[i] = NoVector}
Nth(i) == Cardinality({j \in Missing : j <= i})
missingIdx == [n \in 1 .. Cardinality(Missing) |-> CHOOSE i \in Missing : Nth(i) = n]
(* The n-th vector that came back, in the place that was asked for.        *)
PlacedFirst(fresh) == [i \in DOMAIN run.out |-> IF i <= Len(fresh) THEN fresh[i] ELSE run.out[i]]
Placed(fresh) == [i \in DOMAIN run.out |-> IF i \in Missing THEN fresh[Nth(i)] ELSE run.out[i]]
Fresh(i) == Vector(run.provider, run.ask.type, run.ask.texts[i])
Filled ==
    LET fresh == [n \in DOMAIN missingIdx |-> Fresh(missingIdx[n])]
        lines == [n \in DOMAIN missingIdx |->
                    [provider |-> run.provider, inputType |-> run.ask.type,
                     text |-> run.ask.texts[missingIdx[n]], vector |-> fresh[n]]]
    IN  /\ run.phase = "embedding"
        /\ run' = [run EXCEPT !.phase = "given", !.out = Placed(fresh), !.known = @ \cup LoadVectors(lines)]
        /\ vectors' = vectors \o lines
        /\ UNCHANGED <<answers, said>>

(* extract: an answer is remembered and written before it is worked with.  *)
extract(prompt) ==
    /\ Begin
    /\ LET hit == Lookup(run.learned, prompt)
       IN  IF hit = {}
           THEN run' = [run EXCEPT !.phase = "asking", !.ask = prompt, !.calls = @ + 1] /\ UNCHANGED said
           ELSE /\ run' = [run EXCEPT !.phase = "idle", !.calls = @ + 1]
                /\ said' = said \cup {[provider |-> run.provider, prompt |-> prompt,
                                       result |-> (CHOOSE e \in hit : TRUE).value]}
    /\ UNCHANGED <<vectors, answers>>
Line(result) == [provider |-> run.provider, prompt |-> run.ask, result |-> result]
AnswerUnwritten(result) ==
    /\ run.phase = "asking"
    /\ run' = [run EXCEPT !.phase = "idle", !.learned = @ \cup {[key |-> run.ask, value |-> result]}]
    /\ said' = said \cup {Line(result)}
    /\ answers' \in {answers, Append(answers, Line(result))}
    /\ UNCHANGED vectors
Answer(result) ==
    /\ run.phase = "asking"
    /\ run' = [run EXCEPT !.phase = "idle", !.learned = @ \cup {[key |-> run.ask, value |-> result]}]
    /\ answers' = Append(answers, Line(result))
    /\ said' = said \cup {Line(result)}
    /\ UNCHANGED vectors

TextBatches == UNION {[1 .. n -> Texts] : n \in 1 .. MaxBatch}
Next ==
    \/ \E p \in Providers : Open(p)
    \/ End
    \/ \E texts \in TextBatches, type \in InputTypes : embed(texts, type)
    \/ Filled
    \/ \E prompt \in Prompts : extract(prompt)
    \/ \E result \in Answers : Answer(result)
Spec == Init /\ [][Next]_vars

-----------------------------------------------------------------------------
(* An evaluation works with the vectors of its own provider, for the kind  *)
(* of text it asked about, in the order it asked, whatever mixture of      *)
(* cached and fresh ones they are.                                         *)
VectorsAreTheTexts ==
    run.phase = "given" =>
       run.out = [i \in DOMAIN run.ask.texts |-> Vector(run.provider, run.ask.type, run.ask.texts[i])]

(* A prompt has one answer per model, ever: the numbers of an evaluation   *)
(* do not change until its prompts do.                                     *)
Reproducible ==
    \A a, b \in said : a.provider = b.provider /\ a.prompt = b.prompt => a.result = b.result
(* ... and it is that model's: nothing another one said.                   *)
AnsweredByItsModel ==
    \A a \in said : \E i \in DOMAIN answers : answers[i] = a
=============================================================================
