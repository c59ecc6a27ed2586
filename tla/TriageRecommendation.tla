------------------------ MODULE TriageRecommendation ------------------------
(***************************************************************************)
(* How a recommendation comes about, for the realtime agent and for the    *)
(* phase-4 loader: the provider call (triage_service/openai_provider.py),  *)
(* the rule-based fallback (recommendations.py, models.py), the agent's    *)
(* generator and validator (flink_agents/diagnosis_generator.py and        *)
(* output_validator.py) and the loader's choice between the model's answer *)
(* and the fallback (scripts/phase4-load-incidents.py, validation.py).     *)
(*                                                                         *)
(* A recommendation is kept as what the validators tell apart: its field   *)
(* names, the identity fields that equal the evidence's, the lists that    *)
(* are not empty, how its runbook references read, whether its values have *)
(* the contract's types, and the banned claims in its values.  Operators   *)
(* only; a definition named like another one with an added suffix is a     *)
(* faulty variant of it, which the properties are to detect and no         *)
(* specification uses.                                                     *)
(***************************************************************************)
EXTENDS FiniteSets

\* Fields the system prompt asks for: "exactly these fields".
PromptFields ==
    { "schema_version", "tenant_id", "anomaly_id", "evidence_version",
      "asset_id", "component_id", "summary", "findings", "possible_causes",
      "recommended_checks", "runbook_references", "related_signals",
      "related_failure_modes", "suggested_action", "confidence_label",
      "quality_caveats" }

\* Fields generate_llm_recommendation adds to a parsed object.
ProviderFields ==
    { "model_name", "token_cost", "latency_ms", "created_at", "status" }

\* Fields of Recommendation.as_dict.
FallbackFields ==
    PromptFields \union ProviderFields
                 \union { "recommendation_id", "prompt_version" }

\* "required" of contracts/agent_explanation.schema.json, which also forbids
\* any property it does not list.
SchemaRequired ==
    { "recommendation_id", "schema_version", "tenant_id", "anomaly_id",
      "evidence_version", "summary", "findings", "possible_causes",
      "recommended_checks", "runbook_references", "confidence_label",
      "quality_caveats", "model_name", "prompt_version", "token_cost",
      "latency_ms", "created_at", "status" }
SchemaAllowed ==
    SchemaRequired \union
    { "asset_id", "component_id", "related_signals", "related_failure_modes",
      "suggested_action", "quality_event_ids", "failure_mode_hypothesis",
      "failure_mode_hypothesis_confidence" }

IdentityFields == { "tenant_id", "anomaly_id", "evidence_version" }
ListFields     == { "findings", "possible_causes", "recommended_checks" }

\* A banned claim: a phrase of both validators' patterns, or one only the
\* agent's pattern has, in a text both read, in a field only the agent reads
\* (suggested_action), or in a value that is neither a string nor a list (a
\* summary that is an object), which only the loader reads.
Claims == [ phrase: {"both", "agent_only"},
            text: {"both", "agent_only", "loader_only"} ]

\* The runbook references: all of the evidence, not all of it, or a value the
\* loader cannot go through or look up (a number, a list of lists).
RunbookKinds == { "known", "unknown", "raises" }

\* The contract wants strings and lists of strings: a value of another kind
\* does not have its types.
Recommendations ==
    { rec \in [ fields: SUBSET (SchemaAllowed \union {"diagnosis_id", "unlisted"}),
                copies: SUBSET IdentityFields, filled: SUBSET ListFields,
                runbooks: RunbookKinds, typed: BOOLEAN, claims: SUBSET Claims ] :
        rec.typed => /\ rec.runbooks # "raises"
                     /\ \A claim \in rec.claims : claim.text # "loader_only" }

\* What comes back from the provider.  "object" carries a recommendation.
ReplyKinds == { "transport_exception", "not_200", "bad_envelope", "not_json",
                "json_not_object", "object" }
NoRecommendation == [ kind |-> "none" ]

-----------------------------------------------------------------------------
(* The provider and the fallback.                                          *)

parsed_status(enabled, kind) ==
    CASE ~enabled -> "provider_disabled"
      [] enabled /\ kind = "object" -> "parsed_json"
      [] enabled /\ kind \in {"not_json", "json_not_object"} -> "non_json"
      [] OTHER -> "api_failure"

\* The parsed object; any other answer carries nothing a caller accepts.
generate_llm_recommendation(enabled, reply) ==
    IF parsed_status(enabled, reply.kind) = "parsed_json"
    THEN [ reply.rec EXCEPT !.fields = @ \union ProviderFields ]
    ELSE NoRecommendation

generate_fallback_recommendation_no_prompt_version ==
    [ fields |-> FallbackFields \ {"prompt_version"}, copies |-> IdentityFields,
      filled |-> ListFields, runbooks |-> "known", typed |-> TRUE,
      claims |-> {} ]

generate_fallback_recommendation ==
    [ fields |-> FallbackFields, copies |-> IdentityFields,
      filled |-> ListFields, runbooks |-> "known", typed |-> TRUE,
      claims |-> {} ]

-----------------------------------------------------------------------------
(* The realtime agent.                                                     *)

\* The two setdefault calls complete an answer of the model.
llm_diagnosis(enabled, reply) ==
    LET rec == generate_llm_recommendation(enabled, reply)
    IN  IF rec = NoRecommendation
        THEN generate_fallback_recommendation
        ELSE [ rec EXCEPT
                   !.fields = @ \union {"recommendation_id", "prompt_version"} ]

\* _assert_no_banned_wording lets a diagnosis through: it joins the strings
\* and the lists of its fields and skips any other value.
wording_allowed(rec) ==
    \A claim \in rec.claims : claim.text = "loader_only"

validate_diagnosis_identity_unchecked(rec) ==
    rec.filled = ListFields /\ wording_allowed(rec)

validate_diagnosis(rec) ==
    rec.copies = IdentityFields /\ rec.filled = ListFields /\ wording_allowed(rec)

\* What _process_event makes of a diagnosis before it produces anything.
agent_verdict(enabled, reply) ==
    LET rec == llm_diagnosis(enabled, reply) IN
    CASE ~wording_allowed(rec) -> "raises"
      [] wording_allowed(rec) /\ validate_diagnosis(rec) -> "valid"
      [] OTHER -> "quarantined"

-----------------------------------------------------------------------------
(* The phase-4 loader.                                                     *)

schema_errors(rec) ==
    \/ ~(SchemaRequired \subseteq rec.fields)
    \/ ~(rec.fields \subseteq SchemaAllowed)
    \/ ~rec.typed

\* The errors of validate_recommendation's own checks; every value is text.
content_errors(rec) ==
    { error \in {"identity", "evidence_free", "runbook", "wording"} :
        \/ error = "identity" /\ rec.copies # IdentityFields
        \/ /\ error = "evidence_free"
           /\ ~({"findings", "recommended_checks"} \subseteq rec.filled)
        \/ error = "runbook" /\ rec.runbooks # "known"
        \/ /\ error = "wording"
           /\ \E claim \in rec.claims :
                claim.phrase = "both" /\ claim.text # "agent_only" }

validation_errors(rec) ==
    content_errors(rec) \union (IF schema_errors(rec) THEN {"schema"} ELSE {})

validate_recommendation_no_schema(rec) ==
    rec.runbooks # "raises" /\ content_errors(rec) = {}

validate_recommendation(rec) ==
    rec.runbooks # "raises" /\ validation_errors(rec) = {}

\* The loader died of an exception nothing catches before it wrote anything.
Died == [ kind |-> "died" ]

\* The recommendation the loader stores with the validation_status and the
\* quarantine_reason of its audit rows, the reason as a set; an answer whose
\* runbook references cannot be gone through ends the loader instead.
loader_choice(enabled, reply) ==
    LET llm    == generate_llm_recommendation(enabled, reply)
        parsed == llm # NoRecommendation
        raw    == [ llm EXCEPT !.fields = @ \union {"recommendation_id"} ]
        valid  == parsed /\ validate_recommendation(raw)
    IN  IF parsed /\ raw.runbooks = "raises"
        THEN Died
        ELSE [ recommendation |-> IF valid THEN raw
                                  ELSE generate_fallback_recommendation,
               inv_status |-> IF valid THEN "valid"
                              ELSE IF parsed THEN "quarantined" ELSE "fallback",
               reason |-> IF parsed THEN validation_errors(raw)
                          ELSE { parsed_status(enabled, reply.kind) } ]

\* The keys _recommendation_row indexes: a missing one is a KeyError.
RowFields ==
    { "recommendation_id", "tenant_id", "anomaly_id", "evidence_version",
      "summary", "confidence_label", "model_name", "prompt_version",
      "token_cost", "latency_ms", "status", "created_at" }

=============================================================================
