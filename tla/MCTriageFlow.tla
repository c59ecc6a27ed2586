---------------------------- MODULE MCTriageFlow ----------------------------
(***************************************************************************)
(* Instance of TriageFlow for TLC: every way to be wrong in identity,      *)
(* lists, runbooks, types and wording, with seven sets of field names.     *)
(***************************************************************************)
EXTENDS TriageFlow

MCFields ==
    { PromptFields, PromptFields \ {"summary"}, PromptFields \ {"asset_id"},
      PromptFields \union {"prompt_version"},
      PromptFields \union {"prompt_version", "recommendation_id"},
      PromptFields \union {"prompt_version", "unlisted"},
      PromptFields \union {"diagnosis_id"} }

\* With at most one banned claim: no check looks at two of them together.
MCObjects ==
    [ kind: {"object"},
      rec: { rec \in [ fields: MCFields, copies: SUBSET IdentityFields,
                       filled: SUBSET ListFields, runbooks: RunbookKinds,
                       typed: BOOLEAN,
                       claims: {{}} \union { {claim} : claim \in Claims } ] :
                 rec \in Recommendations } ]

\* An answer that is no object holds no recommendation worth varying.
MCFailures ==
    [ kind: ReplyKinds \ {"object"}, rec: {generate_fallback_recommendation} ]

MCReplies == MCObjects \union MCFailures
=============================================================================
