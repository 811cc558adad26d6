------------------------------- MODULE HttpApi -------------------------------
(***************************************************************************)
(* One request through the HTTP API: the client method builds it, the      *)
(* request_context middleware looks at its length, the first matching      *)
(* handler is chosen, principal_context derives the caller, FastAPI        *)
(* validates the body, the handler calls its operations, the exception     *)
(* handlers turn what they raise into an error envelope, and the client    *)
(* decodes the answer.  Requests of other clients address a handler        *)
(* directly with any headers.                                              *)
(***************************************************************************)
EXTENDS ApiModels, ApiRoutes, SdkCalls, Naturals

CONSTANT AuthModes     \* the values of settings.auth_required to look at
VARIABLES authRequired, http
httpVars == <<authRequired, http>>
------------------------------------------------------------------------------
Credentials == {"none", "token", "key", "session", "disabled", "unknown"}
DefaultScope == [tenant |-> "default", project |-> "default"]
NoScope == [tenant |-> "none", project |-> "none"]
OwnScope == [tenant |-> "t1", project |-> "p1"]
Lengths == {"absent", "fits", "tooLarge", "invalid"}

\* The headers principal_context and request_context read.
Headers == [cred : Credentials, principal : {"absent", "given", "malformed"},
            tenant : {"absent", "default", "t1", "malformed"},
            project : {"absent", "default", "p1", "malformed"}, length : Lengths]
Bearer(cred, scope) == [cred |-> cred, principal |-> "absent", tenant |-> scope.tenant,
                        project |-> scope.project, length |-> "fits"]

NoExchange == [stage |-> "idle"]
------------------------------------------------------------------------------
\* Starlette: the first route whose verb and path match; 405 when only the path does.
PathFits(path, route) ==
    /\ Len(path) = Len(route)
    /\ \A i \in 1 .. Len(path) : route[i] \in {path[i], "*"}

PathMatches(path) == {i \in 1 .. Len(Routes) : PathFits(path, Routes[i].path)}

Routed(verb, path) ==
    LET full == {i \in PathMatches(path) : Routes[i].verb = verb}
    IN IF full # {} THEN CHOOSE i \in full : \A j \in full : i <= j ELSE 0

SdkRoute == [n \in 1 .. Len(SdkCalls) |-> Routed(SdkCalls[n].verb, SdkCalls[n].path)]
RawRoute == [n \in 1 .. Len(Routes) |-> Routed(Routes[n].verb, Routes[n].path)]
------------------------------------------------------------------------------
Refusal(when, status) == [when |-> when, status |-> status]
Malformed(h) == "malformed" \in {h.tenant, h.project}
OutOf(header, own) == header \notin {"absent", own}

\* Mutant.
OutOfScope_TenantOnly(h) == <<Refusal(OutOf(h.tenant, OwnScope.tenant), 403)>>

\* A key and a session carry their tenant and project; headers may only repeat them.
OutOfScope(h) ==
    <<Refusal(OutOf(h.tenant, OwnScope.tenant), 403), Refusal(OutOf(h.project, OwnScope.project), 403)>>

\* The checks of principal_context in their order, for each kind of credential.
Checks(h) ==
    LET derived == Refusal(h.principal # "absent", 400)
    IN [none     |-> <<Refusal(authRequired, 401),
                       Refusal(Malformed(h) \/ h.principal = "malformed", 400)>>,
        token    |-> <<derived, Refusal(Malformed(h), 400)>>,
        key      |-> <<derived>> \o OutOfScope(h),
        session  |-> <<derived>> \o OutOfScope(h),
        disabled |-> <<Refusal(TRUE, 401)>>,
        unknown  |-> <<Refusal(TRUE, 401)>>]

principal_context(h) ==
    LET failing == SelectSeq(Checks(h)[h.cred], LAMBDA r : r.when)
        given(header, default) == IF header = "absent" THEN default ELSE header
    IN IF failing # <<>>
       THEN [status |-> Head(failing).status, scope |-> NoScope]
       ELSE [status |-> 200,
             scope |-> IF h.cred \in {"key", "session"} THEN OwnScope
                       ELSE [tenant |-> given(h.tenant, "default"),
                             project |-> given(h.project, "default")]]
------------------------------------------------------------------------------
\* The exception handlers: the status and code each class is answered with.
Handled ==
    [ResourceNotFound |-> <<404, "NOT_FOUND">>, WebhookNotFound |-> <<404, "WEBHOOK_NOT_FOUND">>,
     InvalidTransition |-> <<409, "INVALID_RUN_TRANSITION">>,
     StateConflict |-> <<409, "STATE_CONFLICT">>,
     FeedbackNotFound |-> <<404, "FEEDBACK_NOT_FOUND">>,
     FeedbackConflict |-> <<409, "FEEDBACK_CONFLICT">>,
     PortraitNotFound |-> <<404, "PORTRAIT_NOT_FOUND">>,
     PortraitConflict |-> <<409, "PORTRAIT_CONFLICT">>,
     PortraitEncodingError |-> <<422, "PORTRAIT_ENCODING_ERROR">>,
     TrajectoryNotFound |-> <<404, "TRAJECTORY_NOT_FOUND">>,
     TrajectoryConflict |-> <<409, "TRAJECTORY_CONFLICT">>,
     SurveillanceNotFound |-> <<404, "SURVEILLANCE_NOT_FOUND">>,
     SurveillanceConflict |-> <<409, "SURVEILLANCE_CONFLICT">>,
     DatasetNotFound |-> <<404, "DATASET_NOT_FOUND">>,
     DatasetConflict |-> <<409, "DATASET_CONFLICT">>]

HandledByStores ==
    [SavedSearchNotFound |-> <<404, "SAVED_SEARCH_NOT_FOUND">>,
     SavedSearchConflict |-> <<409, "SAVED_SEARCH_CONFLICT">>,
     AccessNotFound |-> <<404, "ACCESS_NOT_FOUND">>,
     FeatureStoreError |-> <<409, "FEATURE_SPACE_CONFLICT">>,
     IndexStoreError |-> <<409, "INDEX_CONTRACT_ERROR">>,
     PolicyDenied |-> <<403, "POLICY_DENIED">>,
     PolicyUnavailable |-> <<503, "POLICY_UNAVAILABLE">>,
     AuditUnavailable |-> <<503, "AUDIT_UNAVAILABLE">>,
     PipelineError |-> <<422, "PIPELINE_ERROR">>,
     ObjectAlreadyExistsError |-> <<409, "IMMUTABLE_OBJECT_CONFLICT">>,
     ObjectIntegrityError |-> <<409, "OBJECT_INTEGRITY_ERROR">>,
     ObjectStoreCapabilityError |-> <<409, "OBJECT_CAPABILITY_UNAVAILABLE">>,
     ValueError |-> <<400, "INVALID_ARGUMENT">>]

\* The data platform answers with its own status and code, which may be any.
Remote == {<<409, "DATASET_CONFLICT">>, <<502, "DATA_PLATFORM_PROTOCOL_ERROR">>, <<422, "vendor_code">>}
Unhandled == {"SecretNotFound", "ModelRegistryError", "ObjectStoreError"}

REGISTERED_ERROR_CODES ==
    {"HTTP_ERROR", "VALIDATION_ERROR", "NOT_FOUND", "INVALID_ARGUMENT", "POLICY_DENIED",
     "POLICY_UNAVAILABLE", "AUDIT_UNAVAILABLE", "ACCESS_NOT_FOUND", "DATASET_NOT_FOUND",
     "DATASET_CONFLICT", "FEEDBACK_NOT_FOUND", "FEEDBACK_CONFLICT", "PORTRAIT_NOT_FOUND",
     "PORTRAIT_CONFLICT", "PORTRAIT_ENCODING_ERROR", "TRAJECTORY_NOT_FOUND", "TRAJECTORY_CONFLICT",
     "WEBHOOK_NOT_FOUND", "SAVED_SEARCH_NOT_FOUND", "SAVED_SEARCH_CONFLICT",
     "FEATURE_SPACE_CONFLICT", "INDEX_CONTRACT_ERROR", "SURVEILLANCE_NOT_FOUND",
     "SURVEILLANCE_CONFLICT", "INVALID_RUN_TRANSITION", "STATE_CONFLICT", "PIPELINE_ERROR",
     "IMMUTABLE_OBJECT_CONFLICT", "OBJECT_INTEGRITY_ERROR", "OBJECT_CAPABILITY_UNAVAILABLE",
     "DATA_PLATFORM_PROTOCOL_ERROR", "QUEUE_UNAVAILABLE", "REQUEST_BODY_TOO_LARGE",
     "INTERNAL_SERVER_ERROR"}

registered_error_code(code) ==
    IF code \in REGISTERED_ERROR_CODES THEN code ELSE "INTERNAL_SERVER_ERROR"

\* What an exception of an operation becomes; one no handler names is a plain 500.
Raised ==
    {Handled[e] : e \in DOMAIN Handled} \cup {HandledByStores[e] : e \in DOMAIN HandledByStores}
    \cup Remote \cup {<<500, "none">> : e \in Unhandled}

NoHeaders == Bearer("none", DefaultScope)

error_response(status, code) ==
    http' = [http EXCEPT !.stage = "answered", !.headers = NoHeaders, !.status = status,
                         !.code = IF code = "none" THEN "none" ELSE registered_error_code(code)]
------------------------------------------------------------------------------
\* A request under way; n is the client's method or the handler a request addresses.
Sent(from, n, route, h) ==
    [stage |-> "sent", from |-> from, n |-> n, route |-> route, cred |-> h.cred, headers |-> h,
     scope |-> NoScope, done |-> 0, status |-> 0, code |-> "none", failed |-> FALSE]

\* A method of the client: always a tenant and a project header, never a principal.
SdkSends ==
    /\ http.stage = "idle"
    /\ \E n \in 1 .. Len(SdkCalls), cred \in Credentials, scope \in {DefaultScope, OwnScope} :
          http' = Sent("sdk", n, SdkRoute[n], Bearer(cred, scope))

\* Any other client, which may also ask for a path nothing serves (n = 0).
RawSends ==
    /\ http.stage = "idle"
    /\ \E n \in 0 .. Len(Routes), h \in Headers :
          /\ h.length # "fits" => n > 0
          /\ n > 0 => (h.length = "fits" \/ Routes[n].body = "form")
          /\ http' = Sent("raw", n, IF n = 0 THEN 0 ELSE RawRoute[n], h)

Multipart == IF http.from = "sdk" THEN SdkCalls[http.n].kind = "form"
             ELSE http.n > 0 /\ Routes[http.n].body = "form"

\* The declared length of an upload is refused before a handler is looked for.
request_context ==
    /\ http.stage = "sent"
    /\ IF Multipart /\ http.headers.length = "invalid" THEN error_response(400, "INVALID_ARGUMENT")
       ELSE IF Multipart /\ http.headers.length = "tooLarge"
            THEN error_response(413, "REQUEST_BODY_TOO_LARGE")
       ELSE IF http.route = 0 THEN error_response(404, "none")
       ELSE http' = [http EXCEPT !.stage = "routed"]

route == Routes[http.route]

\* The dependency of a handler runs before its body is validated.
Authenticate ==
    /\ http.stage = "routed"
    /\ LET p == principal_context(http.headers)
       IN IF route.auth /\ p.status # 200
          THEN error_response(p.status, "HTTP_ERROR")
          ELSE http' = [http EXCEPT !.stage = "scoped", !.headers.principal = "absent",
                                    !.scope = IF route.auth THEN p.scope ELSE NoScope]

\* pydantic refuses a missing field and one the model does not have.
Accepts(model, call) ==
    \/ model = "values" \/ call.always = AsGiven
    \/ /\ model \in ModelNames
       /\ ModelOf[model].need \subseteq call.always
       /\ (call.always \cup call.maybe) \subseteq (ModelOf[model].need \cup ModelOf[model].may)

BodyAccepted(call) ==
    /\ route.key => call.key
    /\ CASE call.kind = "json" -> Accepts(route.body, call)
         [] call.kind = "form" -> route.body = "form"
         [] OTHER -> \/ route.body = "none"
                     \/ route.body \in ModelNames /\ ModelOf[route.body].need = {}

\* A filter the caller leaves out is sent as an empty string, which no enumeration has.
Validate ==
    /\ http.stage = "scoped"
    /\ \E valid \in BOOLEAN :
          /\ http.from = "sdk" =>
                valid = (BodyAccepted(SdkCalls[http.n]) /\ SdkCalls[http.n].blank = {})
          /\ IF valid THEN http' = [http EXCEPT !.stage = "running"]
             ELSE error_response(422, "VALIDATION_ERROR")

\* The next operation of the handler succeeds.
OperationReturns ==
    /\ http.stage = "running" /\ http.done < Len(route.ops)
    /\ http' = [http EXCEPT !.done = @ + 1]

\* An operation raises, or the handler refuses by itself.
OperationRaises ==
    /\ http.stage = "running"
    /\ \E e \in (IF http.done < Len(route.ops) THEN Raised ELSE {})
                \cup {<<s, "HTTP_ERROR">> : s \in route.own} :
          http' = [http EXCEPT !.stage = "answered", !.status = e[1], !.failed = TRUE,
                               !.cred = "none", !.headers = NoHeaders, !.scope = NoScope,
                               !.code = IF e[2] = "none" THEN "none" ELSE registered_error_code(e[2])]

Answers ==
    /\ http.stage = "running" /\ http.done = Len(route.ops)
    /\ http' = [http EXCEPT !.stage = "answered",
                            !.status = IF route.answer = "empty" THEN 204 ELSE 200]

\* The client: nothing for 204, ScenaraError for an error, and for an answer without data.
_request ==
    /\ http.stage = "answered" /\ http.from = "sdk"
    /\ LET bytes == SdkCalls[http.n].type = "bytes"
           outcome == CASE http.status >= 400 -> "error"
                        [] http.status = 204 -> "empty"
                        [] bytes -> "bytes"
                        [] ~bytes /\ route.answer = "raw" -> "invalid"
                        [] OTHER -> "data"
       IN http' = [http EXCEPT !.stage = outcome]

\* The next request.
Ends ==
    /\ \/ http.stage = "answered" /\ http.from = "raw"
       \/ http.stage \in {"error", "empty", "bytes", "data", "invalid"}
    /\ http' = NoExchange
------------------------------------------------------------------------------
HttpInit == authRequired \in AuthModes /\ http = NoExchange

HttpNext ==
    /\ UNCHANGED authRequired
    /\ \/ SdkSends \/ RawSends \/ request_context \/ Authenticate \/ Validate
       \/ OperationReturns \/ OperationRaises \/ Answers \/ _request \/ Ends

\* The fields a declared type names that the answer's model does not have.
NotSent(call) ==
    IF call.type \in DOMAIN TypeOf /\ route.answer \in ModelNames
    THEN TypeOf[call.type].fields \ (ModelOf[route.answer].need \cup ModelOf[route.answer].may)
    ELSE {}

\* The client and the server agree.  A request reaches the handler it addresses,
\* whatever handlers with parameters precede it.  A method called with a
\* credential of the scope it names, none of whose operations fails, returns data
\* of the declared type and never an error: its body has what the model needs and
\* nothing else, its key is sent where one is needed, and the answer is an
\* envelope.  The exceptions are the two methods that send absent filters as empty
\* strings, and updated_at, which PresignedMediaDownload declares and no answer has.
\* No operation runs without a caller principal_context accepted, nor for a key or
\* a session outside its own tenant and project, and every error the server words
\* has a registered code.
ApiContract ==
    /\ http.stage = "routed" /\ http.from = "raw" => http.route = http.n
    /\ (/\ http.stage \in {"error", "empty", "bytes", "data", "invalid"}
        /\ ~http.failed /\ http.scope # NoScope /\ SdkCalls[http.n].blank = {}) =>
          /\ http.stage \notin {"error", "invalid"}
          /\ http.stage = "data" => NotSent(SdkCalls[http.n]) \subseteq {"updated_at"}
    /\ (http.stage = "running" /\ route.auth) =>
          /\ http.scope # NoScope /\ http.cred \notin {"disabled", "unknown"}
          /\ authRequired => http.cred # "none"
          /\ http.cred \in {"key", "session"} =>
                /\ http.scope = OwnScope
                /\ http.headers.tenant \in {"absent", OwnScope.tenant}
                /\ http.headers.project \in {"absent", OwnScope.project}
    /\ http.stage = "answered" /\ http.code # "none" => http.code \in REGISTERED_ERROR_CODES
==============================================================================
