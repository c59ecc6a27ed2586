-------------------------- MODULE TriageFlowProofs --------------------------
(***************************************************************************)
(* Proofs about TriageFlow, for every set of answers the provider may give *)
(* in the shape of Replies: any subset of the field names, identity fields *)
(* and lists, and any claims.                                              *)
(***************************************************************************)
EXTENDS TriageFlow, TLAPS

\* What the two callers have made of the one answer, if anything yet.
FlowInv ==
    /\ enabled \in BOOLEAN
    /\ reply \in [ kind: ReplyKinds, rec: Recommendations ]
    /\ agent \in { "none", agent_verdict(enabled, reply) }
    /\ loader \in { NoRecommendation, loader_choice(enabled, reply) }

LEMMA FlowInit == Init => FlowInv
BY ReplyAssumption DEF Init, FlowInv

LEMMA FlowStep == FlowInv /\ [Next]_vars => FlowInv'
BY DEF FlowInv, Next, vars, AgentTriages, LoaderTriages

\* Each caller's result is what its code computes of the answer.
THEOREM FlowInvariance == Spec => []FlowInv
BY FlowInit, FlowStep, PTL DEF Spec

-----------------------------------------------------------------------------
(* The provider's answer and the fallback.                                 *)

\* An answer is no recommendation exactly if it was not parsed as an object.
LEMMA ParsedAnswer ==
    ASSUME enabled \in BOOLEAN,
           reply \in [ kind: ReplyKinds, rec: Recommendations ]
    PROVE  LET rec == generate_llm_recommendation(enabled, reply) IN
           IF enabled /\ reply.kind = "object"
           THEN /\ rec = [ reply.rec EXCEPT !.fields = @ \union ProviderFields ]
                /\ rec \in [ fields: SUBSET (SchemaAllowed \union ProviderFields
                                               \union {"diagnosis_id", "unlisted"}),
                             copies: SUBSET IdentityFields,
                             filled: SUBSET ListFields, runbooks: RunbookKinds,
                             typed: BOOLEAN, claims: SUBSET Claims ]
                /\ rec # NoRecommendation
           ELSE rec = NoRecommendation
<1> DEFINE rec == generate_llm_recommendation(enabled, reply)
<1>1. parsed_status(enabled, reply.kind) = "parsed_json"
        <=> enabled /\ reply.kind = "object"
  BY DEF parsed_status, ReplyKinds
<1>2. CASE enabled /\ reply.kind = "object"
  <2>1. rec = [ reply.rec EXCEPT !.fields = @ \union ProviderFields ]
    BY <1>1, <1>2 DEF generate_llm_recommendation
  <2>2. reply.rec \in Recommendations
    OBVIOUS
  <2>3. rec \in [ fields: SUBSET (SchemaAllowed \union ProviderFields
                                    \union {"diagnosis_id", "unlisted"}),
                  copies: SUBSET IdentityFields,
                  filled: SUBSET ListFields, runbooks: RunbookKinds,
                  typed: BOOLEAN, claims: SUBSET Claims ]
    <3> HIDE DEF rec
    <3> QED
      BY <2>1, <2>2 DEF Recommendations
  <2>4. rec # NoRecommendation
    <3> HIDE DEF rec
    <3>1. DOMAIN rec = { "fields", "copies", "filled", "runbooks",
                         "typed", "claims" }
      BY <2>3
    <3>2. DOMAIN NoRecommendation = {"kind"}
      BY DEF NoRecommendation
    <3> QED
      BY <3>1, <3>2
  <2> QED
    BY <1>2, <2>1, <2>3, <2>4
<1>3. CASE ~(enabled /\ reply.kind = "object")
  BY <1>1, <1>3 DEF generate_llm_recommendation
<1> QED
  BY <1>2, <1>3

\* The fallback passes both validators.
LEMMA FallbackPasses ==
    /\ validate_recommendation(generate_fallback_recommendation)
    /\ validate_diagnosis(generate_fallback_recommendation)
    /\ wording_allowed(generate_fallback_recommendation)
    /\ RowFields \subseteq generate_fallback_recommendation.fields
<1> DEFINE fallback == generate_fallback_recommendation
<1>1. /\ fallback.fields = FallbackFields /\ fallback.copies = IdentityFields
      /\ fallback.filled = ListFields /\ fallback.runbooks = "known"
      /\ fallback.typed = TRUE /\ fallback.claims = {}
  BY DEF generate_fallback_recommendation
<1> HIDE DEF fallback
<1>2. /\ SchemaRequired \subseteq FallbackFields /\ RowFields \subseteq FallbackFields
      /\ FallbackFields \subseteq SchemaAllowed
  BY DEF SchemaRequired, SchemaAllowed, FallbackFields, PromptFields,
         ProviderFields, RowFields
<1>3. validate_recommendation(fallback)
  BY <1>1, <1>2 DEF validate_recommendation, validation_errors, content_errors,
                    schema_errors, ListFields
<1>4. validate_diagnosis(fallback) /\ wording_allowed(fallback)
  BY <1>1 DEF validate_diagnosis, wording_allowed
<1> QED
  BY <1>1, <1>2, <1>3, <1>4 DEF fallback

-----------------------------------------------------------------------------
(* The two callers.                                                        *)

\* What the loader stores, once it has stored something.
LEMMA StoredChoice ==
    ASSUME FlowInv, Stored
    PROVE  LET llm   == generate_llm_recommendation(enabled, reply)
               raw   == [ llm EXCEPT !.fields = @ \union {"recommendation_id"} ]
               valid == llm # NoRecommendation /\ validate_recommendation(raw)
           IN  /\ loader.recommendation = IF valid THEN raw
                                          ELSE generate_fallback_recommendation
               /\ loader.inv_status = IF valid THEN "valid"
                      ELSE IF llm # NoRecommendation THEN "quarantined"
                                                     ELSE "fallback"
               /\ llm # NoRecommendation => /\ loader.reason = validation_errors(raw)
                                            /\ raw.runbooks # "raises"
<1>1. loader = loader_choice(enabled, reply) /\ loader # Died
  BY DEF FlowInv, Stored
<1> QED
  BY <1>1 DEF loader_choice

\* Whatever goes wrong with the provider, and if it is not configured at all,
\* both callers end with a recommendation their own validator accepts.
THEOREM FailureStillTriaged == Spec => []ProviderFailureStillTriaged
<1>1. FlowInv => ProviderFailureStillTriaged
  <2> SUFFICES ASSUME FlowInv, ~enabled \/ reply.kind # "object"
               PROVE  /\ agent \in {"none", "valid"}
                      /\ loader # Died
                      /\ Stored => /\ loader.inv_status = "fallback"
                                   /\ validate_recommendation(loader.recommendation)
    BY DEF ProviderFailureStillTriaged
  <2>1. generate_llm_recommendation(enabled, reply) = NoRecommendation
    BY ParsedAnswer DEF FlowInv
  <2>2. agent_verdict(enabled, reply) = "valid"
    BY <2>1, FallbackPasses DEF agent_verdict, llm_diagnosis
  <2>3. Stored => /\ loader.inv_status = "fallback"
                  /\ loader.recommendation = generate_fallback_recommendation
    BY <2>1, StoredChoice
  <2>4. loader # Died
    <3>1. DOMAIN loader_choice(enabled, reply) =
            {"recommendation", "inv_status", "reason"}
      BY <2>1 DEF loader_choice
    <3>2. DOMAIN Died = {"kind"} /\ NoRecommendation # Died
      BY DEF Died, NoRecommendation
    <3> QED
      BY <3>1, <3>2 DEF FlowInv
  <2> QED
    BY <2>2, <2>3, <2>4, FallbackPasses DEF FlowInv
<1> QED
  BY <1>1, FlowInvariance, PTL

\* Whatever fields the model left out, the loader's row has every key.
THEOREM StoredRowComplete == Spec => []StoredRowIsComplete
<1>1. FlowInv => StoredRowIsComplete
  <2> SUFFICES ASSUME FlowInv, Stored
               PROVE  RowFields \subseteq loader.recommendation.fields
    BY DEF StoredRowIsComplete
  <2> DEFINE llm == generate_llm_recommendation(enabled, reply)
             raw == [ llm EXCEPT !.fields = @ \union {"recommendation_id"} ]
  <2>1. \/ loader.recommendation = generate_fallback_recommendation
        \/ loader.recommendation = raw /\ validate_recommendation(raw)
    BY StoredChoice
  <2> HIDE DEF raw
  <2>2. validate_recommendation(raw) => SchemaRequired \subseteq raw.fields
    BY DEF validate_recommendation, validation_errors, schema_errors
  <2>3. RowFields \subseteq SchemaRequired
    BY DEF RowFields, SchemaRequired
  <2> QED
    BY <2>1, <2>2, <2>3, FallbackPasses
<1> QED
  BY <1>1, FlowInvariance, PTL

\* Of what the loader quarantines, the agent publishes only what fails the
\* loader's schema or names an unknown runbook: never another identity or an
\* empty list, and a banned phrase only with a schema error beside it.
THEOREM AgentNoLaxer == Spec => []AgentNoLaxerOnContent
<1>1. FlowInv => AgentNoLaxerOnContent
  <2> SUFFICES ASSUME FlowInv, agent = "valid", Stored,
                      loader.inv_status = "quarantined"
               PROVE  /\ loader.reason \cap {"schema", "runbook"} # {}
                      /\ loader.reason \cap {"identity", "evidence_free"} = {}
                      /\ "wording" \in loader.reason => "schema" \in loader.reason
    BY DEF AgentNoLaxerOnContent
  <2> DEFINE llm == generate_llm_recommendation(enabled, reply)
             raw == [ llm EXCEPT !.fields = @ \union {"recommendation_id"} ]
             own == [ reply.rec EXCEPT !.fields = @ \union ProviderFields
                                                    \union {"recommendation_id"} ]
             diagnosis == [ llm EXCEPT !.fields =
                                @ \union {"recommendation_id", "prompt_version"} ]
  <2>1. /\ llm # NoRecommendation /\ ~validate_recommendation(raw)
        /\ loader.reason = validation_errors(raw) /\ raw.runbooks # "raises"
    BY StoredChoice
  <2>2. enabled /\ reply.kind = "object" /\ reply.rec \in Recommendations
    BY <2>1, ParsedAnswer DEF FlowInv
  <2>3. llm = [ reply.rec EXCEPT !.fields = @ \union ProviderFields ]
    BY <2>2, ParsedAnswer DEF FlowInv
  <2>4. wording_allowed(diagnosis) /\ validate_diagnosis(diagnosis)
    <3>1. agent_verdict(enabled, reply) = "valid"
      BY DEF FlowInv
    <3>2. llm_diagnosis(enabled, reply) = diagnosis
      BY <2>1 DEF llm_diagnosis
    <3> HIDE DEF diagnosis
    <3> QED
      BY <3>1, <3>2 DEF agent_verdict
  <2>5. raw = own
    <3> HIDE DEF llm
    <3> QED
      BY <2>2, <2>3 DEF Recommendations
  <2>6. /\ \A claim \in reply.rec.claims : claim.text = "loader_only"
        /\ reply.rec.copies = IdentityFields /\ reply.rec.filled = ListFields
    <3>1. /\ diagnosis.claims = reply.rec.claims
          /\ diagnosis.copies = reply.rec.copies
          /\ diagnosis.filled = reply.rec.filled
      <4> HIDE DEF llm
      <4> QED
        BY <2>2, <2>3 DEF Recommendations
    <3> HIDE DEF diagnosis
    <3> QED
      BY <2>4, <3>1 DEF validate_diagnosis, wording_allowed
  <2>7. /\ own.claims = reply.rec.claims /\ own.copies = IdentityFields
        /\ own.filled = ListFields /\ own.runbooks = reply.rec.runbooks
        /\ own.typed = reply.rec.typed
    BY <2>2, <2>6 DEF Recommendations
  \* A phrase that got past the agent stands in a value of the wrong type.
  <2>8. own.claims # {} => schema_errors(own)
    <3> SUFFICES ASSUME own.claims # {} PROVE schema_errors(own)
      OBVIOUS
    <3>1. PICK claim \in reply.rec.claims : claim.text = "loader_only"
      BY <2>6, <2>7
    <3>2. ~reply.rec.typed
      BY <2>2, <3>1 DEF Recommendations
    <3> HIDE DEF own
    <3> QED
      BY <2>7, <3>2 DEF schema_errors
  <2>9. /\ loader.reason = validation_errors(own)
        /\ validation_errors(own) # {}
    <3>1. validation_errors(own) # {}
      <4>1. ~validate_recommendation(own) /\ own.runbooks # "raises"
        BY <2>1, <2>5
      <4> HIDE DEF own
      <4> QED
        BY <4>1 DEF validate_recommendation
    <3> QED
      BY <2>1, <2>5, <3>1
  <2> HIDE DEF own
  <2>10. /\ "identity" \notin content_errors(own)
         /\ "evidence_free" \notin content_errors(own)
         /\ "wording" \in content_errors(own) => own.claims # {}
         /\ content_errors(own) \subseteq
              {"identity", "evidence_free", "runbook", "wording"}
    BY <2>7 DEF content_errors, ListFields
  <2>11. /\ "schema" \in validation_errors(own) <=> schema_errors(own)
         /\ \A error \in validation_errors(own) :
              error \in content_errors(own) \/ error = "schema"
         /\ content_errors(own) \subseteq validation_errors(own)
    BY <2>10 DEF validation_errors
  <2> QED
    BY <2>8, <2>9, <2>10, <2>11
<1> QED
  BY <1>1, FlowInvariance, PTL

=============================================================================
