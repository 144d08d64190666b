----------------------------- MODULE ErrorPath -----------------------------
(***************************************************************************)
(* The way of an error from Redis or the database through StorageError     *)
(* and the error enums of src/crates/data_models/src/errors to the         *)
(* response of src/crates/api_models/src/errors that a client receives.    *)
(*                                                                         *)
(* Each step of an error is a conversion that some caller applies; cause   *)
(* remembers why it was raised, which the conversions do not know.  The    *)
(* messages are left out.  UserErrors are compiled only with the feature   *)
(* olap, which data_models does not declare at this commit; they are here  *)
(* as they are written.                                                    *)
(***************************************************************************)
EXTENDS Naturals, Sequences

CONSTANT ConnectorStatuses   \* HTTP statuses that connectors answer

VARIABLES
  cause,    \* why the error was raised
  raised,   \* the error that was raised, as <<enum, variant, inner or "none">>
  err,      \* what it has become
  path,     \* the conversions it went through
  answer    \* the status and code that are sent

vars == <<cause, raised, err, path, answer>>

NoAnswer == [status |-> 0, code |-> "none"]

-----------------------------------------------------------------------------
(* The enums *)

\* ApiErrorResponse: the code each variant declares, which Display logs.
DeclaredRequestErrors == {
  <<"IR_00", {"NotImplemented"}>>,
  <<"IR_01", {"Unauthorized"}>>,
  <<"IR_02", {"InvalidRequestUrl"}>>,
  <<"IR_03", {"InvalidHttpMethod"}>>,
  <<"IR_04", {"MissingRequiredField"}>>,
  <<"IR_05", {"InvalidDataFormat"}>>,
  <<"IR_06", {"InvalidRequestData"}>>,
  <<"IR_07", {"InvalidDataValue"}>>,
  <<"IR_08", {"ClientSecretNotGiven", "ClientSecretExpired"}>>,
  <<"IR_09", {"ClientSecretInvalid"}>>,
  <<"IR_10", {"MandateActive"}>>,
  <<"IR_11", {"CustomerRedacted"}>>,
  <<"IR_12", {"MaximumRefundCount"}>>,
  <<"IR_13", {"RefundAmountExceedsPaymentAmount"}>>,
  <<"IR_14", {"PaymentUnexpectedState"}>>,
  <<"IR_15", {"InvalidEphemeralKey"}>>,
  <<"IR_16", {"PreconditionFailed"}>>,
  <<"IR_17", {"InvalidJwtToken"}>>,
  <<"IR_18", {"GenericUnauthorized"}>>,
  <<"IR_19", {"NotSupported"}>>,
  <<"IR_20", {"FlowNotSupported"}>>,
  <<"IR_21", {"MissingRequiredFields"}>>,
  <<"IR_22", {"AccessForbidden"}>>,
  <<"IR_23", {"FileProviderNotSupported", "UnprocessableEntity"}>>,
  <<"CE_00", {"ExternalConnectorError"}>>,
  <<"CE_01", {"PaymentAuthorizationFailed"}>>,
  <<"CE_02", {"PaymentAuthenticationFailed"}>>,
  <<"CE_03", {"PaymentCaptureFailed"}>>,
  <<"CE_04", {"InvalidCardData", "PayoutFailed"}>>,
  <<"CE_05", {"CardExpired"}>>,
  <<"CE_06", {"RefundFailed"}>>,
  <<"CE_07", {"VerificationFailed"}>>,
  <<"CE_08", {"DisputeFailed"}>>,
  <<"HE_00", {"InternalServerError", "ResourceBusy"}>>,
  <<"HE_01",
    {"DuplicateRefundRequest", "DuplicateMandate",
     "DuplicateMerchantAccount", "DuplicateMerchantConnectorAccount",
     "DuplicatePaymentMethod"}>>}

\* The rest of the enum.
DeclaredObjectErrors == {
  <<"HE_01",
    {"DuplicatePayment", "DuplicatePayout", "DuplicateConfig",
     "GenericDuplicateError", "CurrencyConversionFailed"}>>,
  <<"HE_02",
    {"RefundNotFound", "CustomerNotFound", "PaymentNotFound",
     "PaymentMethodNotFound", "MerchantAccountNotFound",
     "MerchantConnectorAccountNotFound", "BusinessProfileNotFound",
     "ResourceIdNotFound", "MandateNotFound", "MandateUpdateFailed",
     "ApiKeyNotFound", "PayoutNotFound", "EventNotFound",
     "PaymentLinkNotFound"}>>,
  <<"RE_02", {"ConfigNotFound"}>>,
  <<"HE_03",
    {"MandateSerializationFailed", "MandateDeserializationFailed",
     "ReturnUrlUnavailable", "RefundNotPossible",
     "MandateValidationFailed", "PaymentNotSucceeded",
     "MerchantConnectorAccountDisabled", "PaymentBlockedError",
     "FileValidationFailed"}>>,
  <<"HE_04",
    {"SuccessfulPaymentNotFound", "IncorrectConnectorNameGiven",
     "AddressNotFound", "DisputeNotFound", "FileNotFound",
     "FileNotAvailable", "DisputeStatusValidationFailed",
     "InvalidCardIin", "InvalidCardIinLength", "MissingFile",
     "MissingDisputeId", "MissingFilePurpose", "MissingFileContentType",
     "IncorrectPaymentMethodConfiguration"}>>,
  <<"HE_05", {"GenericNotFoundError"}>>,
  <<"WE_01", {"WebhookAuthenticationFailed"}>>,
  <<"WE_04", {"WebhookResourceNotFound"}>>,
  <<"WE_02", {"WebhookBadRequest"}>>,
  <<"WE_03", {"WebhookProcessingFailure"}>>,
  <<"WE_05", {"WebhookUnprocessableEntity", "WebhookInvalidMerchantSecret"}>>,
  <<"IR_19", {"CurrencyNotSupported"}>>,
  <<"HE_00", {"HealthCheckError"}>>,
  <<"IR_24", {"InvalidConnectorConfiguration"}>>,
  <<"IR_25", {"PaymentMethodDeleteFailed"}>>}

\* ErrorSwitch for ApiErrorResponse: the class and the code that are sent.
SwitchRequestErrors == {
  <<"NotImplemented", "IR_00", {"NotImplemented"}>>,
  <<"Unauthorized", "IR_01", {"Unauthorized"}>>,
  <<"NotFound", "IR_02", {"InvalidRequestUrl"}>>,
  <<"MethodNotAllowed", "IR_03", {"InvalidHttpMethod"}>>,
  <<"BadRequest", "IR_04", {"MissingRequiredField"}>>,
  <<"Unprocessable", "IR_05", {"InvalidDataFormat"}>>,
  <<"Unprocessable", "IR_06", {"InvalidRequestData"}>>,
  <<"BadRequest", "IR_07", {"InvalidDataValue"}>>,
  <<"BadRequest", "IR_08", {"ClientSecretNotGiven"}>>,
  <<"BadRequest", "IR_09", {"ClientSecretInvalid", "CurrencyNotSupported"}>>,
  <<"BadRequest", "IR_10", {"MandateActive"}>>,
  <<"BadRequest", "IR_11", {"CustomerRedacted"}>>,
  <<"BadRequest", "IR_12", {"MaximumRefundCount"}>>,
  <<"BadRequest", "IR_13", {"RefundAmountExceedsPaymentAmount"}>>,
  <<"BadRequest", "IR_14", {"PaymentUnexpectedState"}>>,
  <<"Unauthorized", "IR_15", {"InvalidEphemeralKey"}>>,
  <<"BadRequest", "IR_16", {"PreconditionFailed"}>>,
  <<"Unauthorized", "IR_17", {"InvalidJwtToken"}>>,
  <<"Unauthorized", "IR_18", {"GenericUnauthorized"}>>,
  <<"BadRequest", "IR_19", {"ClientSecretExpired"}>>,
  <<"BadRequest", "IR_21", {"MissingRequiredFields"}>>,
  <<"ForbiddenCommonResource", "IR_22", {"AccessForbidden"}>>,
  <<"BadRequest", "IR_23", {"FileProviderNotSupported"}>>,
  <<"Unprocessable", "IR_23", {"UnprocessableEntity"}>>,
  <<"ConnectorError", "CE_00", {"ExternalConnectorError"}>>,
  <<"BadRequest", "CE_01", {"PaymentAuthorizationFailed", "DisputeFailed"}>>,
  <<"BadRequest", "CE_02", {"PaymentAuthenticationFailed"}>>,
  <<"BadRequest", "CE_03", {"PaymentCaptureFailed"}>>,
  <<"BadRequest", "CE_04", {"InvalidCardData", "PayoutFailed"}>>,
  <<"BadRequest", "CE_05", {"CardExpired"}>>,
  <<"BadRequest", "CE_06", {"RefundFailed"}>>,
  <<"BadRequest", "CE_07", {"VerificationFailed"}>>,
  <<"InternalServerError", "HE_00",
    {"MandateUpdateFailed", "MandateSerializationFailed",
     "MandateDeserializationFailed", "InternalServerError",
     "HealthCheckError"}>>,
  <<"BadRequest", "HE_01",
    {"DuplicateRefundRequest", "DuplicateMandate",
     "DuplicateMerchantAccount", "DuplicateMerchantConnectorAccount",
     "DuplicatePaymentMethod", "DuplicatePayment"}>>}

\* The rest of the match.
SwitchObjectErrors == {
  <<"BadRequest", "HE_01",
    {"DuplicatePayout", "GenericDuplicateError", "DuplicateConfig"}>>,
  <<"NotFound", "HE_02",
    {"RefundNotFound", "CustomerNotFound", "ConfigNotFound",
     "PaymentNotFound", "PaymentMethodNotFound",
     "MerchantAccountNotFound", "MerchantConnectorAccountNotFound",
     "ResourceIdNotFound", "MandateNotFound", "PayoutNotFound",
     "EventNotFound", "ApiKeyNotFound", "DisputeNotFound",
     "BusinessProfileNotFound", "FileNotFound", "FileNotAvailable",
     "PaymentLinkNotFound"}>>,
  <<"BadRequest", "HE_03",
    {"MerchantConnectorAccountDisabled", "RefundNotPossible",
     "MandateValidationFailed", "PaymentNotSucceeded", "NotSupported",
     "InvalidCardIin", "InvalidCardIinLength"}>>,
  <<"NotFound", "HE_03", {"ReturnUrlUnavailable"}>>,
  <<"DomainError", "HE_03", {"PaymentBlockedError"}>>,
  <<"NotFound", "HE_04",
    {"SuccessfulPaymentNotFound", "IncorrectConnectorNameGiven",
     "AddressNotFound"}>>,
  <<"NotFound", "HE_05", {"GenericNotFoundError"}>>,
  <<"BadRequest", "IR_20", {"FlowNotSupported"}>>,
  <<"BadRequest", "HE_02",
    {"DisputeStatusValidationFailed", "FileValidationFailed",
     "MissingFile", "MissingFilePurpose", "MissingFileContentType",
     "MissingDisputeId"}>>,
  <<"Unauthorized", "WE_01", {"WebhookAuthenticationFailed"}>>,
  <<"NotFound", "WE_04", {"WebhookResourceNotFound"}>>,
  <<"BadRequest", "WE_02",
    {"WebhookBadRequest", "WebhookInvalidMerchantSecret"}>>,
  <<"InternalServerError", "WE_03", {"WebhookProcessingFailure"}>>,
  <<"BadRequest", "HE_04", {"IncorrectPaymentMethodConfiguration"}>>,
  <<"Unprocessable", "WE_05", {"WebhookUnprocessableEntity", "ResourceBusy"}>>,
  <<"BadRequest", "IR_24", {"InvalidConnectorConfiguration"}>>,
  <<"Unprocessable", "HE_02", {"CurrencyConversionFailed"}>>,
  <<"BadRequest", "IR_25", {"PaymentMethodDeleteFailed"}>>}

\* ErrorSwitch for UserErrors: <<variant, code>> by class.
SwitchUserErrors == {
  <<"InternalServerError",
    {<<"InternalServerError", "HE_00">>,
      <<"MerchantAccountCreationError", "UR_15">>,
      <<"DuplicateOrganizationId", "UR_21">>,
      <<"IpAddressParsingFailed", "UR_24">>}>>,
  <<"Unauthorized",
    {<<"InvalidCredentials", "UR_01">>, <<"UserNotFound", "UR_02">>,
      <<"LinkInvalid", "UR_04">>, <<"UnverifiedUser", "UR_05">>,
      <<"UserAlreadyVerified", "UR_11">>}>>,
  <<"BadRequest",
    {<<"UserExists", "UR_03">>, <<"InvalidOldPassword", "UR_06">>,
      <<"EmailParsingError", "UR_07">>, <<"NameParsingError", "UR_08">>,
      <<"PasswordParsingError", "UR_09">>,
      <<"CompanyNameParsingError", "UR_14">>,
      <<"InvalidEmailError", "UR_16">>, <<"MerchantIdNotFound", "UR_18">>,
      <<"MetadataAlreadySet", "UR_19">>, <<"InvalidRoleId", "UR_22">>,
      <<"InvalidRoleOperation", "UR_23">>,
      <<"InvalidMetadataRequest", "UR_26">>,
      <<"MerchantIdParsingError", "UR_28">>,
      <<"ChangePasswordError", "UR_29">>,
      <<"InvalidDeleteOperation", "UR_30">>,
      <<"MaxInvitationsError", "UR_31">>, <<"RoleNotFound", "UR_32">>,
      <<"InvalidRoleOperationWithMessage", "UR_33">>,
      <<"RoleNameParsingError", "UR_34">>,
      <<"RoleNameAlreadyExists", "UR_35">>}>>}

-----------------------------------------------------------------------------
(* What can be raised *)

ApiErrors == UNION {e[2] : e \in DeclaredRequestErrors \cup DeclaredObjectErrors}

Declared(v) ==
  (CHOOSE e \in DeclaredRequestErrors \cup DeclaredObjectErrors : v \in e[2])[1]

\* The errors of each cause.  GetFailed stands for the Redis errors no match
\* names, Others for those of the database.  sadd reports its own failure as
\* SetAddMembersFailed, check_for_constraints a member that exists.
Raisable ==
  {<<"absent", <<"Redis", "NotFound", "none">>>>,
   <<"absent", <<"Database", "NotFound", "none">>>>,
   <<"duplicate", <<"Redis", "SetNxFailed", "none">>>>,
   <<"duplicate", <<"Redis", "SetAddMembersFailed", "none">>>>,
   <<"duplicate", <<"Database", "UniqueViolation", "none">>>>,
   <<"redacted", <<"Storage", "CustomerRedacted", "none">>>>,
   <<"fault", <<"Redis", "SetAddMembersFailed", "none">>>>,
   <<"fault", <<"Redis", "GetFailed", "none">>>>,
   <<"fault", <<"Database", "DatabaseConnectionError", "none">>>>,
   <<"fault", <<"Database", "Others", "none">>>>,
   <<"fault", <<"Storage", "DecryptionError", "none">>>>,
   <<"fault", <<"Application", "IoError", "none">>>>}
  \cup {<<"request", <<"Api", v, "none">>>> : v \in ApiErrors}

Init ==
  /\ \E r \in Raisable : cause = r[1] /\ raised = r[2] /\ err = r[2]
  /\ path = <<>>
  /\ answer = NoAnswer

Is(enum) == answer = NoAnswer /\ err[1] = enum

Become(conversion, new) ==
  /\ err' = new
  /\ path' = Append(path, conversion)
  /\ UNCHANGED <<cause, raised, answer>>

-----------------------------------------------------------------------------
(* Into StorageError *)

Duplicate == <<"Storage", "DuplicateValue", "none">>

Missing == <<"Storage", "ValueNotFound", "none">>

\* RedisErrorExt of errors.rs, the one storage_impl uses.
ToRedisFailedResponse ==
  /\ Is("Redis")
  /\ Become("redis", CASE err[2] = "NotFound" -> Missing
                       [] err[2] \in {"SetNxFailed", "SetAddMembersFailed"} -> Duplicate
                       [] OTHER -> <<"Storage", "KVError", "none">>)

\* RedisErrorExt of errors/utils.rs.
ToRedisFailedResponseUtils ==
  /\ Is("Redis")
  /\ Become("redis_utils", CASE err[2] = "NotFound"    -> Missing
                             [] err[2] = "SetNxFailed" -> Duplicate
                             [] OTHER -> <<"Storage", "KVError", "none">>)

\* From<Report<RedisError>> and From<Report<DatabaseError>>.
FromReport ==
  /\ Is("Redis") \/ Is("Database")
  /\ Become("from", <<"Storage", IF err[1] = "Redis" THEN "RedisError"
                                                     ELSE "DatabaseError", err[2]>>)

DieselErrorToDataError ==
  /\ Is("Database")
  /\ Become("diesel", CASE err[2] = "NotFound"        -> Missing
                        [] err[2] = "UniqueViolation" -> Duplicate
                        [] err[2] = "DatabaseConnectionError" ->
                             <<"Storage", "DatabaseConnectionError", "none">>
                        [] OTHER -> <<"Storage", "DatabaseError", err[2]>>)

IsDbNotFound(e) ==
  \/ e[2] = "DatabaseError" /\ e[3] = "NotFound"
  \/ e[2] = "ValueNotFound"

IsDbUniqueViolation(e) == e[2] = "DatabaseError" /\ e[3] = "UniqueViolation"

-----------------------------------------------------------------------------
(* Into the error of a domain *)

\* Mutant of NotFoundOf: every storage error is a missing object.
NotFoundOfAny(e, domain) ==
  CASE domain = "Api"       -> "ApiKeyNotFound"
    [] domain = "Customers" -> "CustomerNotFound"
    [] domain = "Users"     -> "UserNotFound"

\* to_not_found_response, for each domain with the response its callers give.
NotFoundOf(e, domain) ==
  CASE domain = "Api" ->
         CASE e[2] = "ValueNotFound"    -> "ApiKeyNotFound"
           [] e[2] = "CustomerRedacted" -> "CustomerRedacted"
           [] OTHER                     -> "InternalServerError"
    [] domain = "Customers" ->
         CASE IsDbNotFound(e)           -> "CustomerNotFound"
           [] e[2] = "CustomerRedacted" -> "CustomerRedacted"
           [] OTHER                     -> "InternalServerError"
    [] domain = "Users" ->
         IF IsDbNotFound(e) THEN "UserNotFound" ELSE "InternalServerError"

\* to_duplicate_response.
DuplicateOf(e, domain) ==
  CASE domain = "Api" ->
         IF e[2] = "DuplicateValue" THEN "GenericDuplicateError" ELSE "InternalServerError"
    [] domain = "Customers" ->
         IF IsDbUniqueViolation(e) THEN "CustomerAlreadyExists" ELSE "InternalServerError"
    [] domain = "Users" ->
         IF IsDbUniqueViolation(e) THEN "UserExists" ELSE "InternalServerError"

ToNotFoundResponse(domain) ==
  /\ Is("Storage")
  /\ Become("not_found", <<domain, NotFoundOf(err, domain), "none">>)

ToDuplicateResponse(domain) ==
  /\ Is("Storage")
  /\ Become("duplicate", <<domain, DuplicateOf(err, domain), "none">>)

\* ErrorSwitch<CustomersErrorResponse> for StorageError.
StorageSwitch ==
  /\ Is("Storage")
  /\ Become("not_found", <<"Customers", NotFoundOf(err, "Customers"), "none">>)

\* ErrorSwitch<CustomersErrorResponse> for ApiErrorResponse.
ApiSwitch ==
  /\ Is("Api")
  /\ Become("switch", <<"Customers",
       IF err[2] \in {"MandateActive", "CustomerNotFound"} THEN err[2]
       ELSE "InternalServerError", "none">>)

-----------------------------------------------------------------------------
(* Into a response *)

SwitchCustomers(v) ==
  CASE v = "CustomerRedacted"      -> <<"BadRequest", "IR_11">>
    [] v = "InternalServerError"   -> <<"InternalServerError", "HE_00">>
    [] v = "MandateActive"         -> <<"BadRequest", "IR_10">>
    [] v = "CustomerNotFound"      -> <<"NotFound", "HE_02">>
    [] v = "CustomerAlreadyExists" -> <<"BadRequest", "IR_12">>

\* ErrorSwitch<api_models ApiErrorResponse> of the three enums.
Switch(e) ==
  CASE e[1] = "Api" ->
         LET s == CHOOSE x \in SwitchRequestErrors \cup SwitchObjectErrors : e[2] \in x[3]
         IN  <<s[1], s[2]>>
    [] e[1] = "Customers" -> SwitchCustomers(e[2])
    [] e[1] = "Users" ->
         LET s == CHOOSE x \in SwitchUserErrors : \E p \in x[2] : p[1] = e[2]
         IN  <<s[1], (CHOOSE p \in s[2] : p[1] = e[2])[2]>>

\* status_code of each class but ConnectorError.
StatusCode ==
  [Unauthorized |-> 401, ForbiddenCommonResource |-> 403,
   ForbiddenPrivateResource |-> 404, Conflict |-> 409, Gone |-> 410,
   Unprocessable |-> 422, InternalServerError |-> 500, NotImplemented |-> 501,
   MethodNotAllowed |-> 405, NotFound |-> 404, BadRequest |-> 400,
   DomainError |-> 200]

\* error_response of the three enums.
ErrorResponse ==
  /\ Is("Api") \/ Is("Customers") \/ Is("Users")
  /\ LET s == Switch(err) IN
     \E status \in IF s[1] = "ConnectorError" THEN ConnectorStatuses ELSE {StatusCode[s[1]]} :
       answer' = [status |-> status, code |-> s[2]]
  /\ UNCHANGED <<cause, raised, err, path>>

\* ApplicationError: status_code says 500, error_response builds a 400.
ApplicationErrorResponse ==
  /\ Is("Application")
  /\ answer' = [status |-> 400, code |-> "none"]
  /\ UNCHANGED <<cause, raised, err, path>>

Next ==
  \/ ToRedisFailedResponse
  \/ ToRedisFailedResponseUtils
  \/ FromReport
  \/ DieselErrorToDataError
  \/ \E domain \in {"Api", "Customers", "Users"} :
       ToNotFoundResponse(domain) \/ ToDuplicateResponse(domain)
  \/ StorageSwitch
  \/ ApiSwitch
  \/ ErrorResponse
  \/ ApplicationErrorResponse

Spec == Init /\ [][Next]_vars

-----------------------------------------------------------------------------
(* Properties *)

Answered == answer # NoAnswer

Took(conversion) == \E i \in 1..Len(path) : path[i] = conversion

\* The two ways on which the code does answer a failure of the server as the
\* client's: the conversion of errors.rs takes a failed SADD for a duplicate,
\* which to_duplicate_response reports, and ApplicationError answers 400.
KnownBlame ==
  \/ raised[2] = "SetAddMembersFailed" /\ Took("redis") /\ Took("duplicate")
  \/ raised[1] = "Application"

\* The chains that do lose what the storage knew: the API matches
\* ValueNotFound and DuplicateValue, the others the DatabaseError inside.
Mismatched ==
  \/ err[1] = "Api" /\ Took("from")
  \/ Took("duplicate") /\ err[1] \in {"Customers", "Users"} /\ ~Took("from")
  \/ Took("redis_utils") /\ raised[2] = "SetAddMembersFailed"
  \/ raised[1] = "Redis" /\ Took("from")

Asked == {<<"absent", "not_found">>, <<"duplicate", "duplicate">>}

\* The status an error is answered with fits its cause, which the conversions
\* do not know.  A failure of Redis, of the database or of decryption is a 500
\* or more, through every chain of conversions but KnownBlame.  A missing
\* object and a duplicate are the client's error when the caller asked for that
\* conversion, through every chain but Mismatched.
StatusFitsCause ==
  Answered =>
    /\ cause = "fault" /\ ~KnownBlame => answer.status >= 500
    /\ (path # <<>> /\ <<cause, path[Len(path)]>> \in Asked) =>
         (answer.status \in 400..499 <=> ~Mismatched)

\* The code that ApiErrorResponse declares for a variant, which Display writes to
\* the log, is the code its ErrorSwitch sends to the client.  Violated: 22 of the
\* variants send another one.
CodeAsDeclared ==
  Answered /\ err[1] = "Api" => answer.code = Declared(err[2])

=============================================================================
