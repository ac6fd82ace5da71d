----------------------------- MODULE ToolBoundary -----------------------------
(****************************************************************************)
(* One tool call on its way through the MCP server, src/self_nomad/         *)
(* mcp_server: the middleware checks the arguments, the SDK converts them   *)
(* for the handler, the handler calls a service, what the service raises is *)
(* mapped to a public code, and what the SDK could not convert is rewritten *)
(* as an internal error.  Then the caller and the operator do, one by one,  *)
(* what the answer suggests.                                                *)
(*                                                                          *)
(* An argument is the class of values it belongs to; of a request that      *)
(* Pydantic refuses the location of the error matters too.                  *)
(* McpServerProofs extends this module and ToolServer, hence the longer     *)
(* names of BoundarySpec and its parts.                                     *)
(****************************************************************************)
EXTENDS Integers, SequencesExt

CONSTANT
    CallerNames     \* property names a caller makes up

VARIABLES
    pc,         \* where the call is
    tool, args, \* what was called
    location,   \* where Pydantic finds an error in the request, or <<>>
    ran,        \* whether a handler has run
    raised,     \* the class of what the handler raised, or "nothing"
    answer,     \* the envelope
    proposal,   \* the status of the proposal the call is about
    todo        \* the suggested steps not yet taken

boundaryVars == <<pc, tool, args, location, ran, raised, answer, proposal, todo>>

ProposalTools == {"proposal_get", "proposal_validate"}
IntakeTools == {"intake_preview", "intake_submit"}
Tools == {"repository_status", "repository_validate", "proposal_list"} \cup ProposalTools \cup IntakeTools

-----------------------------------------------------------------------------
(* Where an error of a request is *)

RequestFields == {"schema_version", "request_id", "reason", "target_branch", "source", "operations"}
SourceFields == {"runtime", "agent_identifier", "correlation_id"}
OperationFields == {"kind", "path", "content", "expected_before_sha256", "expected_after_sha256"}
Kinds == {"add", "replace", "delete"}
Indexes == {"0", "1"}

\* Anything may be the name of a property that should not be there.
PropertyNames == RequestFields \cup SourceFields \cup OperationFields \cup CallerNames

\* The locations Pydantic reports; in a list of operations they name the kind.
Locations ==
    {<<n>> : n \in PropertyNames} \cup {<<"source", n>> : n \in PropertyNames}
    \cup {<<"operations", i>> : i \in Indexes}
    \cup {<<"operations", i, k, n>> : i \in Indexes, k \in Kinds, n \in PropertyNames}

FieldsOf(context) ==
    CASE context = "request" -> RequestFields
      [] context = "source" -> SourceFields
      [] context = "operation" -> OperationFields

ContextAfter(name, context) ==
    CASE context = "request" /\ name = "source" -> "source"
      [] context = "request" /\ name = "operations" -> "operation"
      [] OTHER -> context

\* Mutant: the name is put on the path before it is looked up.
WalkOnThenLook(at, name) ==
    IF at.stopped THEN at
    ELSE [parts |-> Append(at.parts, name),
          context |-> ContextAfter(name, at.context),
          stopped |-> name \notin Indexes \cup FieldsOf(at.context)]

\* One round of the loop of safe_path_from_loc.
WalkOn(at, name) ==
    IF at.stopped THEN at
    ELSE IF name \in Indexes THEN [at EXCEPT !.parts = Append(at.parts, name)]
    ELSE IF name \notin FieldsOf(at.context) THEN [at EXCEPT !.stopped = TRUE]
    ELSE [parts |-> Append(at.parts, name), context |-> ContextAfter(name, at.context), stopped |-> FALSE]

AtRequest == [parts |-> <<"request">>, context |-> "request", stopped |-> FALSE]

\* Where the loop is after each name of the location.
SafePathLoop(loc) ==
    LET after[i \in 0..Len(loc)] == IF i = 0 THEN AtRequest ELSE WalkOn(after[i - 1], loc[i])
    IN  after

SafePath(loc) == SafePathLoop(loc)[Len(loc)].parts

-----------------------------------------------------------------------------
(* Arguments *)

Keys == [repository_status |-> {}, repository_validate |-> {"strict"}, proposal_list |-> {"status", "limit", "cursor"},
         proposal_get |-> {"proposal_id"}, proposal_validate |-> {"proposal_id"},
         intake_preview |-> {"request"}, intake_submit |-> {"request"}]

Required == {"proposal_id", "request"}

\* The classes of values of each argument.  "loose" are ids that UUID reads
\* and the SDK does not: numbers of 32 digits, hyphens in other places.
\* "not an object" is base64 of JSON that is not an object.
Values == [strict |-> {"boolean", "other"},
           status |-> {"null", "known", "unknown"},
           limit |-> {"in range", "out of range", "boolean", "other"},
           cursor |-> {"null", "ours", "empty", "garbage", "not an object", "other"},
           proposal_id |-> {"canonical", "loose", "other"},
           request |-> {"valid", "refused", "other"}]

\* What a caller makes up is nothing that the tools know.
ASSUME CallerNamesAssumption ==
    CallerNames \cap (RequestFields \cup SourceFields \cup OperationFields \cup Kinds \cup Indexes
                     \cup DOMAIN Values \cup {"$"}) = {}

Value == UNION {Values[k] : k \in DOMAIN Values}

Given(keys) == {a \in [keys -> Value] : \A k \in keys : a[k] \in Values[k]}

Arguments(t) ==
    UNION {Given(keys) : keys \in SUBSET Keys[t]} \cup {[x \in {n} |-> "other"] : n \in CallerNames}

Root == <<"$">>
Nothing == <<>>

\* What is wrong with the cursor; decode_cursor takes ["after"] of whatever it
\* has parsed, and nobody expects the TypeError.
CursorRaises(a) == "cursor" \in DOMAIN a /\ a["cursor"] = "not an object"

BadCursor == {"other", "empty", "garbage"}

\* Where the first argument that validate_tool_arguments refuses is.
ArgumentError(t, a) ==
    LET Bad(key, values) == key \in DOMAIN a /\ a[key] \in values
        missing == (Keys[t] \cap {"proposal_id", "request"}) \ DOMAIN a
    IN  CASE ~(DOMAIN a \subseteq Keys[t]) -> Root
          [] DOMAIN a \subseteq Keys[t] /\ missing # {} -> <<CHOOSE k \in missing : TRUE>>
          [] OTHER ->
               IF Bad("strict", {"other"}) THEN <<"strict">>
               ELSE IF Bad("proposal_id", {"other"}) THEN <<"proposal_id">>
               ELSE IF Bad("status", {"unknown"}) THEN <<"status">>
               ELSE IF Bad("limit", {"out of range", "boolean", "other"}) THEN <<"limit">>
               ELSE IF Bad("cursor", BadCursor) THEN <<"cursor">>
               ELSE IF Bad("request", {"other"}) THEN <<"request">>
               ELSE IF Bad("request", {"refused"}) THEN SafePath(location)
               ELSE Nothing

-----------------------------------------------------------------------------
(* Errors *)

\* The classes that the services raise, each with its base.
Base == [RepositoryNotFoundError |-> "SelfNomadError", ManifestError |-> "SelfNomadError",
         UnsupportedSchemaError |-> "ManifestError", ConflictError |-> "SelfNomadError",
         GitOperationError |-> "SelfNomadError", ProposalNotFoundError |-> "SelfNomadError",
         ProposalStateError |-> "SelfNomadError", ProposalStaleError |-> "SelfNomadError",
         ValidationFailedError |-> "SelfNomadError", PolicyDeniedError |-> "SelfNomadError",
         IntakeError |-> "SelfNomadError", IntakeContentTooLargeError |-> "IntakeError",
         IntakeContentUnsafeError |-> "IntakeError", IntakeRequestTooLargeError |-> "IntakeError",
         IntakeIdConflictError |-> "IntakeError", IntakeTargetMovedError |-> "IntakeError",
         IntakePolicyRejectedError |-> "IntakeError", IntakeSubmissionFailedError |-> "IntakeError",
         SelfNomadError |-> "Exception", McpServerError |-> "Exception", OSError |-> "Exception",
         McpInvalidArgumentError |-> "McpServerError"]

\* A class and what it derives from.
Lineage[class \in DOMAIN Base \cup {"Exception"}] ==
    {class} \cup (IF class = "Exception" THEN {} ELSE Lineage[Base[class]])

IsA(class, other) == other \in Lineage[class]

\* The handler of proposal_list decodes the cursor once more.
Failures(t, a) ==
    CASE t = "repository_status" -> {"ManifestError", "UnsupportedSchemaError", "OSError"}
      [] t = "repository_validate" -> {"OSError"}
      [] t = "proposal_list" -> {"OSError"} \cup (IF "cursor" \in DOMAIN a /\ a["cursor"] = "garbage"
                                                 THEN {"McpInvalidArgumentError"} ELSE {})
      [] t = "proposal_get" -> {"ProposalNotFoundError", "OSError"}
      [] t = "proposal_validate" -> {"ProposalNotFoundError", "ProposalStateError", "ProposalStaleError",
                                     "ValidationFailedError", "GitOperationError", "OSError"}
      [] t \in IntakeTools -> {"ConflictError", "GitOperationError", "IntakeContentTooLargeError",
                               "IntakeContentUnsafeError", "IntakeRequestTooLargeError", "IntakeIdConflictError",
                               "IntakeTargetMovedError", "IntakePolicyRejectedError",
                               "IntakeSubmissionFailedError", "OSError"}

\* The order in which map_exception asks for the class.  A code stands here for
\* the class it is named after.
Clauses == <<"McpInvalidArgumentError", "McpServerError", "ProposalNotFoundError", "ProposalStaleError",
             "ProposalStateError", "ValidationFailedError", "PolicyDeniedError", "IntakeIdConflictError",
             "IntakeTargetMovedError", "IntakePolicyRejectedError", "IntakeContentUnsafeError",
             "IntakeContentTooLargeError", "IntakeRequestTooLargeError", "IntakeSubmissionFailedError",
             "IntakeError", "GitOperationError", "SelfNomadError">>

Internal == {"GitOperationError", "SelfNomadError", "Exception"}

CodeOf(class) == IF class \in Internal THEN "MCP_INTERNAL_ERROR" ELSE class

MapException(class) ==
    LET i == SelectInSeq(Clauses, LAMBDA c : IsA(class, c))
    IN  CodeOf(IF i = 0 THEN "Exception" ELSE Clauses[i])

-----------------------------------------------------------------------------
(* What the answer suggests *)

\* Mutant: a materialized proposal is sent to its approval at once.
SuggestedApproval(status) ==
    CASE status \in {"materialized", "validated"} -> <<"approve", "apply">>
      [] status = "approved" -> <<"apply">>
      [] OTHER -> <<>>

Suggested(status) ==
    CASE status = "materialized" -> <<"proposal_validate", "review", "approve", "apply">>
      [] status = "validated" -> <<"approve", "apply">>
      [] status = "approved" -> <<"apply">>
      [] OTHER -> <<>>

\* The statuses in which the proposal service takes a step, and what it makes of them.
Accepted(step, status) ==
    CASE step = "intake_submit" -> status = "none"
      [] step = "proposal_validate" -> status \in {"materialized", "validated"}
      [] step = "review" -> status # "none"
      [] step = "approve" -> status = "validated"
      [] step = "apply" -> status = "approved"

Result(step, status) ==
    CASE step = "intake_submit" -> "materialized"
      [] step = "proposal_validate" -> "validated"
      [] step = "approve" -> "approved"
      [] step = "apply" -> "applied"
      [] OTHER -> status

Statuses == {"materialized", "validated", "approved", "applied", "rejected", "stale", "failed"}

-----------------------------------------------------------------------------

NoAnswer == [code |-> "none", path |-> Nothing]

BoundaryInit ==
    /\ pc = "received"
    /\ tool \in Tools \cup {"another"}
    /\ args \in IF tool = "another" THEN {Nothing} ELSE Arguments(tool)
    /\ location \in IF "request" \in DOMAIN args /\ args["request"] = "refused" THEN Locations ELSE {Nothing}
    /\ ran = FALSE
    /\ raised = "nothing"
    /\ answer = NoAnswer
    /\ proposal \in IF tool \in ProposalTools THEN Statuses ELSE {"none"}
    /\ todo = <<>>

Answer(code, path) ==
    /\ answer' = [code |-> code, path |-> path]
    /\ pc' = "answered"

\* EnvelopeBoundaryMiddleware, before call_next.
Receive ==
    /\ pc = "received"
    /\ IF tool \notin Tools THEN pc' = "protocol" /\ UNCHANGED answer
       ELSE IF ArgumentError(tool, args) # Nothing
       THEN Answer("McpInvalidArgumentError", ArgumentError(tool, args))
       ELSE pc' = (IF CursorRaises(args) THEN "escaped" ELSE "converting") /\ UNCHANGED answer
    /\ UNCHANGED <<tool, args, location, ran, raised, proposal, todo>>

\* The SDK converts the arguments to the parameters of the handler.
Convert ==
    /\ pc = "converting"
    /\ pc' = IF "proposal_id" \in DOMAIN args /\ args["proposal_id"] = "loose" THEN "refused" ELSE "called"
    /\ UNCHANGED <<tool, args, location, ran, raised, answer, proposal, todo>>

\* The middleware, after call_next.
RewriteResidual ==
    /\ pc = "refused"
    /\ Answer("MCP_INTERNAL_ERROR", Nothing)
    /\ UNCHANGED <<tool, args, location, ran, raised, proposal, todo>>

HandlerFails(class) ==
    /\ pc = "called"
    /\ ran' = TRUE
    /\ raised' = class
    /\ Answer(MapException(class), Nothing)
    /\ UNCHANGED <<tool, args, location, proposal, todo>>

\* status is that of the proposal the answer is about.
HandlerReturns(status, steps) ==
    /\ pc = "called"
    /\ ran' = TRUE
    /\ Answer("ok", Nothing)
    /\ proposal' = status
    /\ todo' = steps
    /\ UNCHANGED <<tool, args, location, raised>>

Reads == tool \in {"repository_status", "repository_validate", "proposal_list"} /\ HandlerReturns(proposal, <<>>)
ProposalGet == tool = "proposal_get" /\ HandlerReturns(proposal, Suggested(proposal))
ProposalValidate ==
    /\ tool = "proposal_validate"
    /\ Accepted(tool, proposal)
    /\ HandlerReturns("validated", Suggested("validated"))

\* A preview finds the request new and eligible, not eligible, or submitted before.
IntakePreview ==
    /\ tool = "intake_preview"
    /\ \/ HandlerReturns("none", <<"intake_submit">>)
       \/ HandlerReturns("none", <<>>)
       \/ \E status \in Statuses : HandlerReturns(status, Suggested(status))

IntakeSubmit ==
    /\ tool = "intake_submit"
    /\ \E status \in Statuses : HandlerReturns(status, Suggested(status))

\* The caller or the operator takes the next step that was suggested.
Follow ==
    /\ todo # <<>>
    /\ Accepted(Head(todo), proposal)
    /\ proposal' = Result(Head(todo), proposal)
    /\ todo' = IF Head(todo) = "intake_submit" THEN Suggested("materialized") ELSE Tail(todo)
    /\ UNCHANGED <<pc, tool, args, location, ran, raised, answer>>

BoundaryNext ==
    \/ Receive \/ Convert \/ RewriteResidual
    \/ tool \in Tools /\ \E class \in Failures(tool, args) : HandlerFails(class)
    \/ Reads \/ ProposalGet \/ ProposalValidate \/ IntakePreview \/ IntakeSubmit
    \/ Follow

\* The server answers, and whoever reads the answer does what it suggests.
BoundarySpec == BoundaryInit /\ [][BoundaryNext]_boundaryVars /\ WF_boundaryVars(BoundaryNext)

-----------------------------------------------------------------------------

Answered == pc = "answered"

BoundaryTypeOK ==
    /\ pc \in {"received", "protocol", "escaped", "converting", "refused", "called", "answered"}
    /\ tool \in Tools \cup {"another"}
    /\ ran \in BOOLEAN
    /\ raised \in DOMAIN Base \cup {"nothing"}
    /\ answer.code \in {"none", "ok", "MCP_INTERNAL_ERROR"} \cup (ToSet(Clauses) \ Internal)
    /\ answer.path \in Seq(STRING)
    /\ proposal \in Statuses \cup {"none"}
    /\ todo \in Seq({"intake_submit", "proposal_validate", "review", "approve", "apply"})

\* docs/mcp.md: an error path uses "only known schema field names and numeric
\* indexes", whatever the caller calls its properties, at every depth; and what
\* it points to is there: after "request" it is a beginning of the location.
PathsArePublic ==
    Answered /\ answer.path # Nothing =>
        /\ ToSet(answer.path) \cap CallerNames = {}
        /\ answer.path[1] = "request" => IsPrefix(Tail(answer.path), location)
        /\ \A i \in DOMAIN answer.path : i > 2 /\ answer.path[i - 1] = "source" => answer.path[i] \in SourceFields

\* What an answer suggests, done in its order, is refused nowhere and brings
\* the proposal to the target branch.
SuggestionsWork == todo # <<>> ~> todo = <<>> /\ proposal = "applied"

-----------------------------------------------------------------------------
(* Statements of the documentation that the code does not keep *)

\* docs/mcp.md: malformed arguments "always return the envelope".
MalformedIsEnveloped == pc # "escaped"

\* docs/mcp.md: malformed arguments "are validated before handler execution",
\* and the internal envelope is for what comes after; no handler has failed.
InternalMeansServer == answer.code = "MCP_INTERNAL_ERROR" => raised # "nothing"
===============================================================================
