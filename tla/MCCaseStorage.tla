---------------------------- MODULE MCCaseStorage ----------------------------
(* Values of the constants of CaseStorage for the model checker.            *)
EXTENDS CaseStorage, TLC

CONSTANTS
    t1,             \* a session
    k1, k2, demo1,  \* cases, the last one adopted from the demo corpus
    b1, b2, b3      \* hashes; b1 is the document of the demo corpus

File(sha, ext) == [sha |-> sha, ext |-> ext]
MCTemplateFiles == {File(b1, ".pdf")}
MCFiles == {File(b1, ".docx"), File(b2, ".pdf"), File(b3, ".pdf")}

MCOwner == [c \in Cases |-> t1]

(* At most two of the three cases are ever made; and while a third document *)
(* is in play, to fill a case beyond its cap, one case and no deletion.     *)
ThirdInPlay ==
    \/ File(b3, ".pdf") \in files
    \/ \E u \in Uploaders : \E r \in upload[u].row : r.file.sha = b3
TwoCases ==
    /\ Cardinality({c \in Cases : case[c] # "none"}) <= 2
    /\ ThirdInPlay =>
          /\ Cardinality({c \in Cases : case[c] # "none"}) = 1
          /\ parsing = {} /\ \A s \in Sweepers : sweep[s].pc = "idle"

Same == Permutations(UploadCases) \cup Permutations(Uploaders)
=============================================================================
