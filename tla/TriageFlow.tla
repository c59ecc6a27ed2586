----------------------------- MODULE TriageFlow -----------------------------
(***************************************************************************)
(* One anomaly triaged with one answer of the provider, once by the        *)
(* realtime agent and once by the phase-4 loader.                          *)
(***************************************************************************)
EXTENDS TriageRecommendation

CONSTANTS
    Replies       \* the answers the provider may give

ASSUME ReplyAssumption ==
    Replies \subseteq [ kind: ReplyKinds, rec: Recommendations ]

VARIABLES
    enabled,      \* an API key and a model are configured
    reply,        \* the provider's answer
    agent,        \* the agent's verdict, "none" before it
    loader        \* what the loader stores, or Died; NoRecommendation before it

vars == <<enabled, reply, agent, loader>>

Init ==
    /\ enabled \in BOOLEAN
    /\ reply \in Replies
    /\ agent = "none"
    /\ loader = NoRecommendation

AgentTriages ==
    /\ agent = "none"
    /\ agent' = agent_verdict(enabled, reply)
    /\ UNCHANGED <<enabled, reply, loader>>

LoaderTriages ==
    /\ loader = NoRecommendation
    /\ loader' = loader_choice(enabled, reply)
    /\ UNCHANGED <<enabled, reply, agent>>

Next == AgentTriages \/ LoaderTriages

Spec == Init /\ [][Next]_vars

Stored == loader \notin {NoRecommendation, Died}

-----------------------------------------------------------------------------
\* Whatever the provider does short of answering with an object, both callers
\* end with a recommendation: the fallback of recommendations.py passes the
\* agent's validator, and the loader's with its JSON schema
\* (phase3-load-triage.py:96 relies on that).
ProviderFailureStillTriaged ==
    ~enabled \/ reply.kind # "object" =>
        /\ agent \in {"none", "valid"}
        /\ loader # Died
        /\ Stored => /\ loader.inv_status = "fallback"
                     /\ validate_recommendation(loader.recommendation)

\* The loader never fails on a missing key: what it stores has every key
\* _recommendation_row indexes, whatever fields the model left out.
StoredRowIsComplete ==
    Stored => RowFields \subseteq loader.recommendation.fields

\* Of what the loader quarantines, the agent publishes only what fails the
\* loader's schema or names an unknown runbook, though its pattern and its
\* checks are its own: never an answer of another identity or with an empty
\* list, and one with a banned phrase only in a value that is neither string
\* nor list, which fails the schema as well.
AgentNoLaxerOnContent ==
    agent = "valid" /\ Stored /\ loader.inv_status = "quarantined" =>
        /\ loader.reason \cap {"schema", "runbook"} # {}
        /\ loader.reason \cap {"identity", "evidence_free"} = {}
        /\ "wording" \in loader.reason => "schema" \in loader.reason

\* An answer that follows the system prompt (openai_provider.py:55-98) to the
\* letter is used by the loader.
FollowsPrompt(rec) ==
    /\ rec.fields = PromptFields /\ rec.copies = IdentityFields
    /\ rec.filled = ListFields /\ rec.runbooks = "known" /\ rec.typed
    /\ rec.claims = {}
PromptedAnswerIsUsed ==
    enabled /\ reply.kind = "object" /\ FollowsPrompt(reply.rec) /\ Stored =>
        loader.inv_status = "valid"

=============================================================================
