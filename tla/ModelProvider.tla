---------------------------- MODULE ModelProvider ----------------------------
(***************************************************************************)
(* The OpenAI-compatible planner (xgeny-provider-openai/src/lib.rs): what  *)
(* a configuration commits to, and what one exchange with the endpoint     *)
(* becomes: a proposal, or one of the closed planner failures.             *)
(*                                                                         *)
(* An exchange x is what the network did: sent ("ok" or the transport      *)
(* error of sending), status, long (a declared or real body over the       *)
(* limit), read (as sent, for the body) and the body itself.  The json of  *)
(* a body or of a content is its text: parses, unique (no key twice in an  *)
(* object), depth, and typed (the fields serde wants of it).               *)
(***************************************************************************)
EXTENDS Integers, Sequences, FiniteSets, SequencesExt

\* The first of a list of checks <<it fails, its failure>> that fails, or "ok".
FirstFailure(checks) ==
    LET i == SelectInSeq(checks, LAMBDA c : c[1]) IN IF i = 0 THEN "ok" ELSE checks[i][2]

-----------------------------------------------------------------------------
(* Configuration.  An endpoint e is what the host supplies: scheme, loopback *)
(* (a literal loopback address), path ("/v1" or not), credential, model,     *)
(* format, artifact (a schema for the atomic dialect: None, "local" or       *)
(* "remote"), thinking, tokens and timeout.                                  *)

MaxOutputTokens == 65536
MaxTimeoutSeconds == 3600

\* api_endpoints
ApiEndpoints(e) ==
    FirstFailure(<< <<e.scheme \notin {"http", "https"}, "InvalidBaseUrl">>,
                    <<e.path # "/v1", "InvalidBasePath">> >>)

\* validate_transport_security, in front of every planner and checker.
ValidateTransportSecurity(e) ==
    FirstFailure(<< <<e.scheme # "https" /\ e.credential, "InsecureCredentialTransport">>,
                    <<e.scheme # "https" /\ ~e.loopback, "InsecureEndpointTransport">> >>)

\* with_max_output_tokens and with_timeout
LimitsOk(e) == e.tokens \in 1..MaxOutputTokens /\ e.timeout \in 1..MaxTimeoutSeconds

\* with_artifact_schema: only the atomic dialect takes one, and only of a
\* vocabulary that loads nothing.
ArtifactOk(e) == e.artifact # "none" => e.format = "atomic" /\ e.artifact = "local"

\* OpenAiPlannerConfig::new and its builders, then OpenAiPlanner::new.
PlannerConfig(e) ==
    FirstFailure(<< <<ApiEndpoints(e) # "ok", ApiEndpoints(e)>>,
                    <<~LimitsOk(e), "InvalidLimit">>,
                    <<~ArtifactOk(e), "InvalidProfileField">>,
                    <<ValidateTransportSecurity(e) # "ok", ValidateTransportSecurity(e)>> >>)

\* The plain catalog check: OpenAiPlannerConfig::new, without limits of its own,
\* then OpenAiModelChecker::new.
CheckerConfig(e) ==
    FirstFailure(<< <<ApiEndpoints(e) # "ok", ApiEndpoints(e)>>,
                    <<ValidateTransportSecurity(e) # "ok", ValidateTransportSecurity(e)>> >>)

\* seed, temperature, thinking_request, chat_template_request, reasoning_effort
Sampling(e) ==
    [seed        |-> e.format = "schema" /\ e.thinking = "default",
     temperature |-> e.thinking # "enabled",
     thinking    |-> e.thinking \in {"disabled", "enabled"},
     template    |-> e.thinking = "template_disabled",
     effort      |-> e.thinking = "enabled"]

\* prompt_template_revision, system_prompt, prompt_with_schema
PromptRevision(e, constrained) == <<e.format, constrained>>

\* proposal_schema and atomic_json_proposal_schema, with the artifact schema.
ProposalSchema(e) == <<e.format, e.artifact>>

\* refresh_profile_digest: everything the request depends on but where it goes
\* and who signs it.
RequestProfile(e, constrained) ==
    [model    |-> e.model,
     prompt   |-> PromptRevision(e, constrained),
     schema   |-> ProposalSchema(e),
     sampling |-> Sampling(e),
     limits   |-> <<e.tokens, e.timeout>>]

-----------------------------------------------------------------------------
(* Transport *)

\* map_transport_error
MapTransportError(error) ==
    CASE error = "timeout"       -> "Timeout"
      [] error = "exceeds_limit" -> "InvalidResponse"
      [] OTHER                   -> "Unavailable"

\* map_status
MapStatus(status) ==
    CASE status \in {408, 504}                      -> "Timeout"
      [] status = 413                               -> "RequestTooLarge"
      [] status = 429                               -> "RateLimited"
      [] status \in 300..499 \ {408, 413, 429}      -> "ProviderRejected"
      [] OTHER                                      -> "Unavailable"

\* UreqTransport::send
Send(x) ==
    FirstFailure(<< <<x.sent # "ok", MapTransportError(x.sent)>>,
                    <<x.status # 200, MapStatus(x.status)>>,
                    <<x.long, "InvalidResponse">>,
                    <<x.read # "ok", MapTransportError(x.read)>> >>)

-----------------------------------------------------------------------------
(* Texts *)

MaxJsonDepth == 64

\* parse_unique_json, then the conversion to the expected type.
ParsesAs(t) == t.depth <= MaxJsonDepth /\ t.parses /\ t.unique /\ t.typed

-----------------------------------------------------------------------------
(* Decoding.  A chat body has json, model and choices; a choice has index, *)
(* role, finish, clean (no refusal, tool or function call) and content; a  *)
(* content has long, json, version, kind, summary (non-empty) and steps.   *)

\* The envelope checks decode_chat_response_with_codec makes before the content.
Envelope(body, model) ==
    FirstFailure(<< <<~ParsesAs(body.json) \/ body.model # model, "InvalidResponse">>,
                    <<Len(body.choices) # 1, "InvalidResponse">> >>)

\* ... and the ones of its only choice.
Choice(c) ==
    FirstFailure(<< <<c.index # 0 \/ c.role # "assistant", "InvalidResponse">>,
                    <<c.finish = "length", "OutputTruncated">>,
                    <<c.finish # "stop" \/ ~c.clean, "InvalidResponse">>,
                    <<c.content.long \/ ~ParsesAs(c.content.json), "InvalidResponse">> >>)

\* decode_dependency: exactly the field of its kind (an absent step is <<>>, an
\* absent key "").
DependencyOk(d) ==
    IF d.kind = "existing" THEN d.step # <<>> /\ d.key = "" ELSE d.step = <<>> /\ d.key # ""

\* decode_atomic_json_arguments: the atomic wire carries one capability.
AtomicArgumentsOk(e, s) == e.format = "atomic" => s.cap = "write" /\ s.shape

\* The proposal rules of decode_chat_response_with_codec.
Document(e, d) ==
    FirstFailure(<< <<d.version # 1, "InvalidResponse">>,
                    <<d.kind = "plan" /\ d.summary, "InvalidResponse">>,
                    <<d.kind = "plan" /\ \E i \in DOMAIN d.steps :
                        \/ ~AtomicArgumentsOk(e, d.steps[i])
                        \/ \E k \in DOMAIN d.steps[i].deps : ~DependencyOk(d.steps[i].deps[k]),
                      "InvalidResponse">>,
                    <<d.kind = "complete" /\ (d.steps # <<>> \/ ~d.summary), "InvalidResponse">> >>)

\* validate_artifact_response
ValidateArtifact(e, d) ==
    IF e.artifact # "none" /\ \E i \in DOMAIN d.steps : ~d.steps[i].artifact
    THEN "InvalidResponse" ELSE "ok"

Decode(e, body) ==
    LET envelope == Envelope(body, e.model) IN
    IF envelope # "ok" THEN envelope
    ELSE LET c == body.choices[1] IN
         IF Choice(c) # "ok" THEN Choice(c)
         ELSE FirstFailure(<< <<Document(e, c.content) # "ok", Document(e, c.content)>>,
                              <<ValidateArtifact(e, c.content) # "ok", "InvalidResponse">> >>)

\* PlannerPort::plan up to the transport: a request that is never sent.
Refused(constrained, required, requestLong) ==
    FirstFailure(<< <<constrained # required, "ProviderLimit">>,
                    <<requestLong, "RequestTooLarge">> >>)

\* The rest of plan.
Reply(e, x) == IF Send(x) # "ok" THEN Send(x) ELSE Decode(e, x.body)

Proposal(x) == x.body.choices[1].content

-----------------------------------------------------------------------------
(* The two checkers, which keep no state *)

\* map_model_check_transport_error and map_model_check_status
MapModelCheck(x) ==
    FirstFailure(<< <<x.sent # "ok", MapTransportError(x.sent)>>,
                    <<x.status \in {401, 403}, "AuthenticationRejected">>,
                    <<x.status # 200 /\ MapStatus(x.status) \in {"ProviderRejected", "RequestTooLarge"},
                      "RequestRejected">>,
                    <<x.status # 200, MapStatus(x.status)>>,
                    <<x.long, "InvalidResponse">>,
                    <<x.read # "ok", MapTransportError(x.read)>> >>)

\* decode_model_catalog_models: an empty, oversized or repeating catalog is invalid.
MaxModelCatalogEntries == 4096

CatalogOk(body) ==
    /\ ParsesAs(body.json)
    /\ Len(body.models) \in 1..MaxModelCatalogEntries
    /\ IsInjective(body.models)

\* OpenAiModelChecker::check
CheckModel(e, x) ==
    LET fetched == MapModelCheck(x) IN
    IF fetched # "ok" THEN fetched
    ELSE FirstFailure(<< <<~CatalogOk(x.body), "InvalidResponse">>,
                         <<e.model \notin ToSet(x.body.models), "ModelNotAdvertised">> >>)

\* map_compatibility_transport_failure
MapCompatibilityFailure(failure) ==
    CASE failure \in {"Timeout", "Unavailable", "ok"}          -> failure
      [] failure \in {"InvalidResponse", "OutputTruncated"}    -> "InvalidResponse"
      [] failure \in {"ProviderLimit", "RateLimited"}          -> "ProviderLimit"
      [] failure \in {"RequestTooLarge", "ProviderRejected"}   -> "RequestRejected"

\* decode_compatibility_response: a completion of the production shape.
DecodeCompatibility(e, body) ==
    LET envelope == Envelope(body, e.model) IN
    IF envelope # "ok" THEN envelope
    ELSE LET c == body.choices[1] IN
         IF Choice(c) # "ok" THEN Choice(c)
         ELSE IF c.content.version = 1 /\ c.content.kind = "complete"
                 /\ c.content.steps = <<>> /\ c.content.summary
              THEN "ok" ELSE "InvalidResponse"

\* OpenAiCompatibilityChecker::check
CheckCompatibility(e, x) ==
    IF Send(x) # "ok" THEN MapCompatibilityFailure(Send(x)) ELSE DecodeCompatibility(e, x.body)
=============================================================================
