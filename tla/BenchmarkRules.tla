---------------------------- MODULE BenchmarkRules ----------------------------
(***************************************************************************)
(* packages/rules: the deterministic checks over what was extracted from a *)
(* document, and the fields each document type has.  ex maps a field to    *)
(* its status and its value; a value is a record of its keys, a scalar has *)
(* the one key "value", and a key that is null or of another type is not   *)
(* in the record.                                                          *)
(***************************************************************************)
EXTENDS Integers, Sequences

(* The families of shared/src/schemas/extraction, by document type.        *)
EmploymentFields ==
    {"base_salary", "bonus", "signing_bonus", "benefits_summary", "equity_instrument",
     "equity_grant", "strike_price", "vesting", "acceleration", "good_leaver_definition",
     "bad_leaver_definition", "leaver_forfeiture", "start_date", "probation_period_months",
     "notice_period_employee", "notice_period_employer", "working_hours_per_week",
     "overtime_treatment", "vacation_days", "remote_policy", "non_compete", "non_solicit",
     "ip_assignment", "confidentiality_survival", "governing_law", "contract_type",
     "fixed_term_months", "exclusivity"}
TermSheetFields ==
    {"instrument", "round_amount", "pre_money_valuation", "post_money_valuation",
     "price_per_share_basis", "liquidation_preference", "anti_dilution", "dividends",
     "esop_pool", "board_composition", "consent_matters", "information_rights",
     "founder_vesting", "lockup_months", "drag_along_threshold_percent", "tag_along",
     "pro_rata_rights", "exclusivity_no_shop_days", "expenses_cap", "binding_sections"}
VsopFields ==
    {"allocation", "vesting", "settlement", "exit_definition", "payout_trigger",
     "board_discretion", "good_leaver_definition", "bad_leaver_definition", "leaver_matrix",
     "anti_dilution_protection", "transfer_restrictions", "tax_remark_present",
     "pool_size_percent"}
Employment == {"employment_offer", "employment_contract"}
TermSheet == {"term_sheet"}
Vsop == {"vsop_esop_agreement"}
DocumentTypes == Employment \cup TermSheet \cup Vsop \cup {"shareholders_agreement", "side_letter", "other"}
SchemaOf(type) ==
    CASE type \in Employment -> EmploymentFields
      [] type \in TermSheet -> TermSheetFields
      [] type \in Vsop -> VsopFields
      [] OTHER -> {}
AllFields == UNION {SchemaOf(type) : type \in DocumentTypes}

(* benchmarkDocument: ex is put together of the rows of all versions by    *)
(* the paths of their fields, each over the one before, and the rows come  *)
(* in no order.  own is what was read under the schema of the document,    *)
(* left those of the other rows that win over it, or are alone.            *)
NoRow == [status |-> "no row", value |-> <<>>]
Merged(own, left) ==
    [f \in AllFields |-> IF f \in DOMAIN left THEN left[f]
                         ELSE IF f \in DOMAIN own THEN own[f] ELSE NoRow]

(* What a check asks of one field; a field counts only when extracted.     *)
KnownAnyStatus(ex, f, k) == k \in DOMAIN ex[f].value
Known(ex, f, k) == ex[f].status = "extracted" /\ k \in DOMAIN ex[f].value
NotFoundOrFailed(ex, f) == ex[f].status # "extracted"
NotFound(ex, f) == ex[f].status = "not_found"
Of(ex, f, k) == ex[f].value[k]
Cond(f, k, op, v) == [field |-> f, key |-> k, op |-> op, v |-> v]
Is(f, k, v) == Cond(f, k, "=", v)
Over(f, k, v) == Cond(f, k, ">", v)
Under(f, k, v) == Cond(f, k, "<", v)
Holds(ex, c) ==
    CASE c.op = "=" -> Known(ex, c.field, c.key) /\ Of(ex, c.field, c.key) = c.v
      [] c.op = "/=" -> Known(ex, c.field, c.key) /\ Of(ex, c.field, c.key) # c.v
      [] c.op = "in" -> Known(ex, c.field, c.key) /\ Of(ex, c.field, c.key) \in c.v
      [] c.op = ">" -> Known(ex, c.field, c.key) /\ Of(ex, c.field, c.key) > c.v
      [] c.op = ">=" -> Known(ex, c.field, c.key) /\ Of(ex, c.field, c.key) >= c.v
      [] c.op = "<" -> Known(ex, c.field, c.key) /\ Of(ex, c.field, c.key) < c.v
      [] c.op = "missing" -> ~Known(ex, c.field, c.key)
      [] c.op = "missing or <" -> Known(ex, c.field, c.key) => Of(ex, c.field, c.key) < c.v
      [] c.op = "over" -> Known(ex, c.field, c.key) /\ Known(ex, c.v[1], c.v[2])
                          /\ Of(ex, c.field, c.key) > Of(ex, c.v[1], c.v[2])
      [] c.op = "not under" -> Known(ex, c.field, c.key) /\ Known(ex, c.v[1], c.v[2])
                               /\ Of(ex, c.field, c.key) >= Of(ex, c.v[1], c.v[2])
      [] c.op = "not both" -> Known(ex, c.field, c.key[1]) /\ Known(ex, c.field, c.key[2])
                              /\ <<Of(ex, c.field, c.key[1]), Of(ex, c.field, c.key[2])>> # c.v
      [] c.op = "not found" -> NotFound(ex, c.field)

(* CHECKS with the types of rules.yaml, in the order of the file: a rule   *)
(* is raised when all its conditions hold, on the fields it names.         *)
Rule(id, types, when, fields) == [id |-> id, types |-> types, when |-> when, fields |-> fields]
Rules == <<
 Rule("DE-NONCOMP-KARENZ", Employment, <<Is("non_compete", "present", TRUE),
        Cond("non_compete", "karenzentschaedigung_percent", "missing or <", 50)>>, {"non_compete"}),
 Rule("DE-NONCOMP-DURATION", Employment, <<Is("non_compete", "present", TRUE),
        Over("non_compete", "duration_months", 24)>>, {"non_compete"}),
 Rule("DE-PROBEZEIT-MAX", Employment, <<Over("probation_period_months", "value", 6)>>, {"probation_period_months"}),
 Rule("EMP-CONTRACT-BEFRISTET", Employment, <<Is("contract_type", "value", "befristet")>>, {"contract_type"}),
 Rule("EMP-NOTICE-ASYM", Employment,
        <<Cond("notice_period_employee", "months", "over", <<"notice_period_employer", "months">>)>>,
        {"notice_period_employee", "notice_period_employer"}),
 Rule("EMP-IP-NOCARVEOUT", Employment, <<Is("ip_assignment", "present", TRUE),
        Is("ip_assignment", "side_project_carveout", FALSE)>>, {"ip_assignment"}),
 Rule("EMP-CONFIDENTIALITY-INDEF", Employment,
        <<Is("confidentiality_survival", "value", "indefinite")>>, {"confidentiality_survival"}),
 Rule("EMP-CLAWBACK-SIGNING", Employment, <<Cond("signing_bonus", "clawback_months", ">=", 12)>>, {"signing_bonus"}),
 Rule("EMP-BONUS-DISCRETIONARY", Employment, <<Is("bonus", "type", "discretionary")>>, {"bonus"}),
 Rule("EMP-OVERTIME-UNPAID", Employment,
        <<Is("overtime_treatment", "value", "covered_by_salary")>>, {"overtime_treatment"}),
 Rule("EMP-VACATION-LOW", Employment, <<Under("vacation_days", "value", 25)>>, {"vacation_days"}),
 Rule("EMP-EQUITY-DEFERRED", Employment, <<Cond("equity_instrument", "value", "/=", "none"),
        Cond("vesting", "", "not found", 0)>>, {"equity_instrument"}),
 Rule("EQ-VEST-STD", Employment \cup Vsop, <<Cond("vesting", <<"duration_months", "cliff_months">>,
        "not both", <<48, 12>>)>>, {"vesting"}),
 Rule("TS-LIQPREF-GT1X", TermSheet, <<Over("liquidation_preference", "multiple", 1)>>, {"liquidation_preference"}),
 Rule("TS-LIQPREF-PARTICIPATING", TermSheet,
        <<Is("liquidation_preference", "participating", TRUE)>>, {"liquidation_preference"}),
 Rule("TS-LIQPREF-UNCAPPED", TermSheet, <<Is("liquidation_preference", "participating", TRUE),
        Cond("liquidation_preference", "cap_multiple", "missing", 0)>>, {"liquidation_preference"}),
 Rule("TS-FULLRATCHET", TermSheet, <<Is("anti_dilution", "value", "full_ratchet")>>, {"anti_dilution"}),
 Rule("TS-ANTIDILUTION-WA", TermSheet,
        <<Cond("anti_dilution", "value", "in", {"broad_based_wa", "narrow_based_wa"})>>, {"anti_dilution"}),
 Rule("TS-ESOP-PREMONEY", TermSheet, <<Is("esop_pool", "timing", "pre_money")>>, {"esop_pool"}),
 Rule("TS-ESOP-LARGE", TermSheet, <<Cond("esop_pool", "percent", ">=", 15)>>, {"esop_pool"}),
 Rule("TS-BOARD-INVESTOR-CONTROL", TermSheet,
        <<Cond("board_composition", "investor", "not under", <<"board_composition", "founder">>)>>,
        {"board_composition"}),
 Rule("TS-DRAG-LOW", TermSheet, <<Under("drag_along_threshold_percent", "value", 66)>>,
        {"drag_along_threshold_percent"}),
 Rule("TS-FOUNDER-REVEST", TermSheet, <<Is("founder_vesting", "reverse", TRUE)>>, {"founder_vesting"}),
 Rule("TS-NOSHOP-LONG", TermSheet, <<Over("exclusivity_no_shop_days", "value", 45)>>, {"exclusivity_no_shop_days"}),
 Rule("TS-DIVIDEND-CUMULATIVE", TermSheet, <<Is("dividends", "cumulative", TRUE)>>, {"dividends"}),
 Rule("EQ-BADLEAVER-BROAD", Vsop, <<Is("leaver_matrix", "bad_leaver_vested", "forfeit")>>, {"leaver_matrix"}),
 Rule("EQ-VSOP-EXITONLY", Vsop, <<Is("payout_trigger", "value", "exit_only"),
        Is("board_discretion", "value", TRUE)>>, {"payout_trigger", "board_discretion"}),
 Rule("EQ-VSOP-EXIT-NARROW", Vsop, <<Is("exit_definition", "financing_round_excluded", TRUE)>>, {"exit_definition"}),
 Rule("EQ-VSOP-NODILUTION", Vsop, <<Is("anti_dilution_protection", "value", FALSE)>>, {"anti_dilution_protection"}),
 Rule("EQ-VSOP-CASHSETTLE", Vsop, <<Is("settlement", "value", "cash_settled")>>, {"settlement"}),
 Rule("EQ-VSOP-BASEPRICE", Vsop, <<Over("allocation", "base_price", 0)>>, {"allocation"})>>

(* What is raised, by its place in the file.                               *)
AllHold(ex, r) == \A i \in DOMAIN r.when : Holds(ex, r.when[i])
runBenchmarkAllTypes(ex, type) == {n \in DOMAIN Rules : AllHold(ex, Rules[n])}
runBenchmark(ex, type) == {n \in DOMAIN Rules : type \in Rules[n].types /\ AllHold(ex, Rules[n])}

-----------------------------------------------------------------------------
(* A flag rests on fields that were extracted: what was not found, or what *)
(* could not be extracted, never raises one in its own name, so a flag has *)
(* clauses to cite.                                                        *)
CiteExtracted(ex, type) ==
    \A n \in runBenchmark(ex, type) : \A f \in Rules[n].fields : ex[f].status = "extracted"

(* Knowing less raises no more flags: an extraction that failed on a field *)
(* it might have had never adds a flag to those it would have had.         *)
LessIsNotMore(ex, type) ==
    \A f \in SchemaOf(type) :
       runBenchmark([ex EXCEPT ![f].status = "extraction_failed"], type) \subseteq runBenchmark(ex, type)

(* What an analysis under another version has left behind adds or takes    *)
(* away no flag but of a rule that reads a field which the document's own  *)
(* schema has too, and whose leftover was merged over its value: a rule is *)
(* never raised on what the schema of its type does not have.              *)
ReadBy(rule) ==
    UNION {LET c == rule.when[i]
           IN  {c.field} \cup (IF c.op \in {"over", "not under"} THEN {c.v[1]} ELSE {})
             : i \in DOMAIN rule.when}
NotFromLeftovers(own, left, type) ==
    LET alone  == runBenchmark(Merged(own, <<>>), type)
        merged == runBenchmark(Merged(own, left), type)
    IN  \A n \in (merged \ alone) \cup (alone \ merged) :
           ReadBy(Rules[n]) \cap SchemaOf(type) \cap DOMAIN left # {}
=============================================================================
