------------------------------ MODULE ApiModels ------------------------------
(***************************************************************************)
(* The request models of the HTTP API, and the answers a client declares a *)
(* type for: which fields each has, inherited ones included. Types and     *)
(* bounds of the values are left out.                                      *)
(***************************************************************************)

\* A pydantic model: the fields it needs and those that have a default.
Takes(name, need, may) == [name |-> name, need |-> need, may |-> may]
------------------------------------------------------------------------------
PortraitBodies == {
    Takes("CreateIdentityRequest", {"display_name"}, {"metadata"}),
    Takes("EnrollIdentityRequest", {"embedding", "feature_space_id", "modality", "model_id",
         "model_version", "quality"}, {"distance_metric", "expires_at", "threshold"}),
    Takes("PortraitSearchRequest", {"embedding", "feature_space_id"}, {"limit", "threshold"}),
    Takes("PortraitCompareRequest", {"feature_space_id", "left", "right"}, {})}

PortraitAssetCompareRequestFields == {
    Takes("PortraitAssetCompareRequest", {"left_asset_id", "right_asset_id"}, {"feature_space_id",
         "threshold"})}

CameraBodies == {
    Takes("RegisterCameraRequest", {"camera_id"}, {"display_name", "location", "metadata"}),
    Takes("UpdateCameraRequest", {}, {"display_name", "location", "metadata"})}

TrajectoryBodies == {
    Takes("SetCameraTransitionsRequest", {}, {"transitions"}),
    Takes("UpdateIdentityRequest", {}, {"display_name", "metadata", "status"}),
    Takes("MergeIdentitiesRequest", {"source_identity_ids", "target_identity_id"}, {}),
    Takes("SplitIdentityRequest", {"segment_ids"}, {"display_name"})}

IncidentBodies == {
    Takes("CreateIncidentRequest", {"severity", "title"}, {"started_at", "summary"}),
    Takes("ResolveIncidentRequest", {}, {"summary"})}

CreateSupportCaseRequestFields == {
    Takes("CreateSupportCaseRequest", {"description", "subject"}, {"priority"})}

CreateComplianceEvidenceRequestFields == {
    Takes("CreateComplianceEvidenceRequest", {"evidence_type", "object_ref", "sha256", "signed_by"},
         {"metadata"})}

AuditEventViewFields == {
    Takes("AuditEventView", {"action", "created_at", "event_id", "outcome", "principal_id",
         "project_id", "resource_type", "tenant_id"}, {"evidence", "request_id", "resource_id"})}

CreateIdentityProviderRequestFields == {
    Takes("CreateIdentityProviderRequest", {"client_id", "display_name", "issuer_url", "kind"},
         {"scopes"})}

CreateSessionRequestFields == {Takes("CreateSessionRequest", {"user_id"}, {"ttl_seconds"})}

CreateProjectLifecycleRequestFields == {
    Takes("CreateProjectLifecycleRequest", {"action", "project_id"}, {"reason"})}

DecideProjectLifecycleRequestFields == {
    Takes("DecideProjectLifecycleRequest", {"approved"}, {"comment"})}

AuditBodies == {
    Takes("SetAuditRetentionPolicyRequest", {"retention_days"}, {"enabled",
         "export_approval_required"}),
    Takes("PurgeAuditRequest", {"reason"}, {"dry_run"})}

CreateBillingAccountRequestFields == {
    Takes("CreateBillingAccountRequest", {"plan_id"}, {"currency", "period_seconds", "seat_limit"})}

RecordMeterEventRequestFields == {
    Takes("RecordMeterEventRequest", {"account_id", "amount", "idempotency_key", "metric"},
         {"metadata"})}

AssignSeatRequestFields == {Takes("AssignSeatRequest", {"account_id", "user_id"}, {})}

CreateAnnotationProviderRequestFields == {
    Takes("CreateAnnotationProviderRequest", {"endpoint", "kind", "name"}, {})}

CreateIndexBackendRequestFields == {
    Takes("CreateIndexBackendRequest", {"endpoint", "kind", "name"}, {"capabilities"})}

CreateSearchRerankerRequestFields == {
    Takes("CreateSearchRerankerRequest", {"endpoint", "kind", "name"}, {})}

CreateQuotaPlanRequestFields == {
    Takes("CreateQuotaPlanRequest", {"name"}, {"limits", "window_seconds"})}

QuotaCheckRequestFields == {Takes("QuotaCheckRequest", {"metric"}, {"amount"})}

AnnotationBodies == {
    Takes("CreateAnnotationTaskRequest", {"asset_ids", "schema_name"}, {"assignee", "labels"}),
    Takes("ReviewAnnotationTaskRequest", {"approved", "consistency_score"}, {"comment"})}

CreateSearchRankingProfileRequestFields == {
    Takes("CreateSearchRankingProfileRequest", {"name"}, {"exact_weight", "reranker",
         "vector_weight"})}

CreateSearchRelevanceFeedbackRequestFields == {
    Takes("CreateSearchRelevanceFeedbackRequest", {"hit_record_id", "relevant", "search_id"}, {})}

CreateSearchEvaluationRequestFields == {
    Takes("CreateSearchEvaluationRequest", {"query"}, {"expected_record_ids", "profile_id",
         "result_record_ids"})}

EdgeBodies == {
    Takes("CreateIndexRebuildRequest", {"index_id"}, {}),
    Takes("EdgeHeartbeatRequest", {}, {"metadata", "status"}),
    Takes("AcknowledgeEdgeSyncRequest", {}, {"acknowledged"}),
    Takes("AcknowledgeEdgeDeploymentRequest", {}, {"applied", "error"})}

WorkerBodies == {
    Takes("RegisterWorkerRequest", {"lane", "worker_id"}, {"capacity", "lease_seconds"}),
    Takes("WorkerHeartbeatRequest", {}, {"lease_seconds"}),
    Takes("ModelMetricPoint", {"capability", "created_at", "latency_ms", "model_id",
         "model_version", "project_id", "record_id", "tenant_id"}, {"error_rate", "quality_score",
         "throughput"})}

AutoRollbackModelRequestFields == {
    Takes("AutoRollbackModelRequest", {"capability", "model_id", "model_version", "reason"}, {})}

CreateFlowRequestFields == {
    Takes("CreateFlowRequest", {"entry_node_id", "name", "nodes", "version"}, {})}

FlowBodiesTaken == {
    Takes("ExecuteFlowRequest", {}, {"context"}),
    Takes("DecideApprovalRequest", {"approved"}, {"comment"})}

CreateAgentTraceRequestFields == {
    Takes("CreateAgentTraceRequest", {"trace_type"}, {"action_id", "payload"})}

CreateAgentEvaluationRequestFields == {
    Takes("CreateAgentEvaluationRequest", {"sample_count", "success_rate", "suite_name"},
         {"policy_violation_count"})}

PutAgentMemoryRequestFields == {
    Takes("PutAgentMemoryRequest", {"key", "namespace"}, {"ttl_seconds", "value"})}

CreatePortraitClusterRequestFields == {
    Takes("CreatePortraitClusterRequest", {"feature_space_id", "member_record_ids"}, {"confidence",
         "label"})}

CreatePortraitAssociationRequestFields == {
    Takes("CreatePortraitAssociationRequest", {"feature_space_id", "left_record_id",
         "right_record_id", "score"}, {"source"})}

CreatePortraitEventRequestFields == {
    Takes("CreatePortraitEventRequest", {"event_type", "started_at"}, {"confidence", "ended_at",
         "metadata", "source_ids", "subject_record_ids"})}

RegisterEdgeDeviceRequestFields == {
    Takes("RegisterEdgeDeviceRequest", {"name"}, {"capabilities", "metadata"})}

CreateEdgeDeploymentRequestFields == {
    Takes("CreateEdgeDeploymentRequest", {"artifact_sha256", "device_id", "model_id",
         "model_version", "pipeline_id", "pipeline_version"}, {})}

RegisterAgentToolRequestFields == {
    Takes("RegisterAgentToolRequest", {"description", "name"}, {"requires_approval", "scopes"})}

AgentBodies == {
    Takes("ProposeAgentActionRequest", {"tool_id"}, {"input"}),
    Takes("ApproveAgentActionRequest", {"approved"}, {"comment"})}

DataEventEnvelopeFields == {
    Takes("DataEventEnvelope", {"data", "event_id", "event_type", "event_version", "occurred_at",
         "producer", "project_id", "request_id", "tenant_id", "trace_id"}, {})}

FeedbackModels == {
    Takes("CreateFeedbackRequest", {"correction", "kind", "model_id", "model_version", "run_id"},
         {"annotation_schema_id", "authorized_for_training", "deidentified"}),
    Takes("ReviewFeedbackRequest", {"status"}, {"notes"}),
    Takes("FeedbackRecord", {"authorized_for_training", "correction", "created_at", "deidentified",
         "feedback_id", "kind", "media_ref", "model_id", "model_version", "pipeline_id",
         "pipeline_version", "project_id", "result_ref", "run_id", "submitted_by", "tenant_id",
         "updated_at"}, {"annotation_schema_id", "domain", "review_notes", "reviewed_by",
         "schema_version", "status"}),
    Takes("CreateHardSampleManifestRequest", {"dataset_id", "feedback_ids", "version"},
         {"label_schema", "split"})}

ManifestModels == {
    Takes("HardSampleManifest", {"created_at", "created_by", "dataset_id", "items", "manifest_id",
         "project_id", "sha256", "tenant_id", "version"}, {"label_schema", "schema_version",
         "split"}),
    Takes("CreateModelReleaseRequest", {"model_id", "package_sha256", "version"},
         {"evidence_refs"})}

ReleaseModels == {
    Takes("TransitionModelReleaseRequest", {"reason", "status"}, {}),
    Takes("RollbackModelReleaseRequest", {"reason", "target_version"}, {}),
    Takes("ModelRelease", {"capability", "created_at", "created_by", "model_id", "package_sha256",
         "project_id", "runtime_model_id", "tenant_id", "updated_at", "version"}, {"activated_at",
         "domain", "evidence_refs", "retired_at", "schema_version", "status"}),
    Takes("ModelDeploymentEvent", {"action", "audit_id", "capability", "created_at", "event_id",
         "from_status", "model_id", "operator_id", "package_sha256", "project_id", "reason",
         "runtime_model_id", "tenant_id", "to_status", "version"}, {"domain", "schema_version"})}

IndexDefinitionFields == {
    Takes("IndexDefinition", {"domain", "index_id", "record_kind"}, {"created_at",
         "distance_metric", "schema_version", "text_analyzer", "threshold", "vector_dimension",
         "vector_model_id", "vector_model_version"})}

IndexQueryBodies == {
    Takes("IndexTextQueryRequest", {"query"}, {"limit"}),
    Takes("IndexVectorQueryRequest", {"vector"}, {"limit", "threshold"})}

ModelPackageManifestFields == {
    Takes("ModelPackageManifest", {"adapter", "capability", "evaluation_evidence", "license_id",
         "model_card", "model_id", "regression_samples", "runtime_model_id", "sha256", "source_uri",
         "version", "vram_mb"}, {"artifact_files", "artifact_format", "domain", "input_schema",
         "output_schema", "production_ready", "schema_version"})}

MediaModels == {
    Takes("MediaTechnicalMetadata", {}, {"codec", "container", "decode_seek_used", "duration_ms",
         "elapsed_ms", "format", "fps", "frame_count", "frame_max_edge", "frames_read", "height",
         "keyframe_count", "native_text_available", "page_count", "reconnect_count",
         "sample_end_ms", "sample_interval_ms", "sample_start_ms", "sample_strategy",
         "sampled_units", "scene_change_count", "stream_segment_duration_ms",
         "stream_segment_index", "timestamp_source", "width"}),
    Takes("MediaAsset", {"asset_id", "content_type", "created_at", "kind", "object_key",
         "project_id", "sha256", "size_bytes", "tenant_id"}, {"deleted_at", "domain", "expires_at",
         "filename", "metadata", "original_deleted_at", "preview_content_type",
         "preview_object_key", "preview_sha256", "temporary"}),
    Takes("PresignMediaUploadRequest", {"content_type", "kind", "sha256", "size_bytes"}, {"domain",
         "filename"}),
    Takes("PresignedMediaUpload", {"expires_at", "headers", "upload_id", "upload_token", "url"},
         {"method"}),
    Takes("CompleteMediaUploadRequest", {"content_type", "expires_at", "kind", "sha256",
         "size_bytes", "upload_id", "upload_token"}, {"domain", "filename"}),
    Takes("PresignedMediaDownload", {"expires_at", "url"}, {"headers", "method"}),
    Takes("CreateMediaSourceRequest", {"name", "url"}, {"metadata"})}

MediaSourceModels == {
    Takes("MediaSourceView", {"created_at", "masked_url", "name", "source_id"}, {"kind",
         "metadata"}),
    Takes("MediaSourceProbe", {"checked_at", "latency_ms", "reachable", "source_id"}, {"metadata"})}

DatasetModels == {
    Takes("DatasetRecord", {"created_at", "dataset_id", "name", "project_id", "tenant_id",
         "updated_at"}, {"description", "metadata", "status"}),
    Takes("DatasetVersion", {"created_at", "created_by", "dataset_id", "manifest_sha256",
         "project_id", "tenant_id", "updated_at", "version", "version_id"}, {"annotation_summary",
         "asset_ids", "item_count", "lineage", "quality_score", "status"}),
    Takes("CreateDatasetRequest", {"name"}, {"description", "metadata"}),
    Takes("UpdateDatasetRequest", {}, {"description", "metadata", "name", "status"}),
    Takes("CreateDatasetVersionRequest", {"manifest_sha256", "version"}, {"annotation_summary",
         "asset_ids", "lineage", "quality_score"}),
    Takes("TransitionDatasetVersionRequest", {"status"}, {})}

SavedSearchModels == {
    Takes("SavedSearch", {"created_at", "created_by", "mode", "name", "project_id",
         "saved_search_id", "tenant_id", "updated_at"}, {"definition", "description",
         "last_run_at"}),
    Takes("CreateSavedSearchRequest", {"mode", "name"}, {"definition", "description"}),
    Takes("UpdateSavedSearchRequest", {}, {"definition", "description", "name"})}

CreateWebhookSubscriptionRequestFields == {
    Takes("CreateWebhookSubscriptionRequest", {"event_types", "name", "secret", "url"}, {})}

WebhookViewModels == {
    Takes("WebhookSubscriptionView", {"created_at", "enabled", "endpoint_id", "event_types", "name",
         "url"}, {}),
    Takes("WebhookDeliveryRecord", {"created_at", "delivery_id", "endpoint_id", "event_id",
         "event_type", "next_attempt_at", "payload", "project_id", "tenant_id", "updated_at"},
         {"attempts", "delivered_at", "last_error", "status", "status_code"}),
    Takes("PipelineRef", {"pipeline_id", "version"}, {})}

RunModels == {
    Takes("PipelineTransitionRequest", {"status"}, {}),
    Takes("CreateRunRequest", {"domain", "pipeline"}, {"asset_id", "parameters", "priority",
         "source_id", "wait_ms"}),
    Takes("RunRecord", {"created_at", "domain", "pipeline", "project_id", "run_id", "tenant_id",
         "updated_at"}, {"asset_id", "completed_at", "error_code", "next_run_id", "parameters",
         "previous_run_id", "principal_id", "priority", "progress", "request_id", "revision",
         "source_id", "started_at", "status", "stream_segment_index", "stream_session_id",
         "termination_reason", "trace_id"})}

ResultEnvelopeFields == {
    Takes("ResultEnvelope", {"created_at", "domain", "domain_payload", "pipeline", "run_id"},
         {"artifacts", "asset_id", "media_metadata", "models", "provenance", "relations",
         "schema_version", "source_id", "timings", "units", "warnings"})}

ResultModels == {
    Takes("ResultPage", {"result", "unit_limit", "unit_offset", "unit_total"}, {}),
    Takes("ParseImageResponse", {"asset", "run"}, {"result"}),
    Takes("ParseVideoResponse", {"asset", "run"}, {"result"}),
    Takes("ParseDocumentResponse", {"asset", "run"}, {"result"}),
    Takes("ParseStreamRequest", {"domain", "pipeline", "source_id"}, {"parameters", "priority",
         "wait_ms"})}

ProductCatalogItemFields == {
    Takes("ProductCatalogItem", {"layer", "maturity", "name", "next_gate", "product_id", "summary"},
         {"api_paths", "console_route", "current_scope", "depends_on", "not_in_scope_yet"})}

TopologyModels == {
    Takes("RepositoryTopologyItem", {"kind", "lifecycle", "name", "next_gate", "repository_id"},
         {"current_repository", "excluded_responsibilities", "integration_product_ids",
         "primary_product_ids", "responsibilities"}),
    Takes("RepositoryIntegrationContract", {"consumer_repository_id", "contract_id", "payload_type",
         "producer_repository_id", "release_version", "schema_path", "transport"}, {"compatibility",
         "invariants"}),
    Takes("RepositoryTopology", {"boundary_rules", "current_repository_id", "integration_contracts",
         "repositories"}, {"schema_version"})}

FoundationModels == {
    Takes("AccessCapabilityItem", {"capability_id", "name", "next_gate", "status", "summary"},
         {"current_scope", "not_in_scope_yet"}),
    Takes("AccessFoundationStatus", {"auth_mode", "capabilities", "policy_provider", "principal_id",
         "principal_source", "project_id", "tenant_id"}, {"schema_version"})}

TenantModels == {
    Takes("Organization", {"created_at", "display_name", "tenant_id", "updated_at"}, {}),
    Takes("Project", {"created_at", "display_name", "project_id", "tenant_id", "updated_at"}, {}),
    Takes("UserAccount", {"created_at", "display_name", "tenant_id", "updated_at", "user_id"},
         {"disabled", "email", "phone"})}

IamModels == {
    Takes("Role", {"created_at", "display_name", "role_id", "scopes", "tenant_id", "updated_at"},
         {"product_ids"}),
    Takes("Membership", {"created_at", "principal_id", "principal_type", "project_id", "role_ids",
         "tenant_id", "updated_at"}, {}),
    Takes("ServiceAccount", {"created_at", "display_name", "project_id", "scopes",
         "service_account_id", "tenant_id", "updated_at"}, {"disabled", "product_ids"}),
    Takes("ApiKeyRecord", {"created_at", "key_id", "name", "project_id", "scopes",
         "service_account_id", "tenant_id", "token_prefix"}, {"expires_at", "last_used_at",
         "product_ids", "revoked_at"}),
    Takes("ProductEntitlement", {"created_at", "product_id", "project_id", "tenant_id",
         "updated_at"}, {"source", "status"}),
    Takes("CreateOrganizationRequest", {"display_name"}, {}),
    Takes("CreateProjectRequest", {"display_name"}, {"project_id"}),
    Takes("CreateUserRequest", {"display_name"}, {"email", "password", "phone", "user_id"}),
    Takes("LoginRequest", {"password", "username"}, {"ttl_seconds"}),
    Takes("CreateRoleRequest", {"display_name", "scopes"}, {"product_ids", "role_id"}),
    Takes("CreateMembershipRequest", {"principal_id", "principal_type", "role_ids"},
         {"project_id"}),
    Takes("CreateServiceAccountRequest", {"display_name", "scopes"}, {"product_ids",
         "service_account_id"}),
    Takes("CreateApiKeyRequest", {"name"}, {"expires_at", "product_ids", "scopes"}),
    Takes("CreateApiKeyResponse", {"api_key", "record"}, {}),
    Takes("CreateProductEntitlementRequest", {"product_id"}, {"project_id", "source", "status"}),
    Takes("UpdateProductEntitlementRequest", {"status"}, {"source"}),
    Takes("IamInventory", {"api_keys", "memberships", "organizations", "product_entitlements",
         "projects", "roles", "service_accounts", "users"}, {}),
    Takes("IamSummary", {"default_admin_scopes", "inventory", "project_id", "tenant_id"},
         {"schema_version"})}

IntelligenceModels == {
    Takes("PortraitCapabilityItem", {"capability_id", "production_ready", "readiness"},
         {"current_model", "embedding_dimension", "target_embedding_dimension", "target_model"}),
    Takes("PortraitModuleItem", {"maturity", "module_id", "name", "next_gate",
         "owner_repository_id", "summary"}, {"current_scope", "not_in_scope_yet"}),
    Takes("PortraitAssetItem", {"asset_id", "maturity", "name", "next_gate", "summary"},
         {"depends_on_modules"}),
    Takes("PortraitIntelligenceStatus", {"assets", "capabilities", "modules"}, {"positioning",
         "schema_version"})}

ContractModels == {
    Takes("RepositoryContractArtifact", {"consumer_repository_id", "contract_id", "example_path",
         "example_sha256", "payload_schema_version", "payload_type", "producer_repository_id",
         "release_version", "schema_path", "schema_sha256", "transport"}, {"compatibility"}),
    Takes("RepositoryContractCatalog", {"contracts", "package_name", "release_version"},
         {"schema_version"})}

SearchBodies == {
    Takes("SearchTextRequest", {"query"}, {"domains", "limit", "media_kinds", "profile_id"}),
    Takes("SearchAssetRequest", {"asset_id"}, {"feature_space_id", "limit", "media_kinds",
         "profile_id", "threshold"})}

SurveillanceModels == {
    Takes("Watchlist", {"created_by", "name", "project_id", "tenant_id", "watchlist_id"},
         {"category", "created_at", "description", "revision", "status", "updated_at"}),
    Takes("WatchlistMember", {"created_by", "member_id", "portrait_identity_id", "project_id",
         "tenant_id", "watchlist_id"}, {"created_at", "display_label", "revision", "status",
         "updated_at", "valid_from", "valid_until"}),
    Takes("SurveillanceTask", {"bindings", "created_by", "name", "project_id", "task_id",
         "tenant_id", "threshold_policy", "watchlist_ids"}, {"alert_level", "cooldown_seconds",
         "created_at", "match_policy", "revision", "schedule", "status", "updated_at"}),
    Takes("AlertRecord", {"alert_id", "binding_id", "camera_id", "first_seen_at", "idempotency_key",
         "last_seen_at", "match_score", "max_score", "member_id", "modality",
         "portrait_identity_id", "project_id", "run_id", "source_id", "task_id", "tenant_id",
         "threshold_policy_version", "triggered_at", "watchlist_id"}, {"created_at",
         "model_bindings", "occurrence_count", "revision", "snapshot_artifact_id",
         "snapshot_retention_expires_at", "status", "track_id", "trajectory_identity_id",
         "trajectory_segment_id", "triage_notes", "triage_reason", "triaged_at", "triaged_by",
         "unit_id", "updated_at"})}

SurveillanceBodies == {
    Takes("CreateWatchlistRequest", {"name"}, {"category", "description"}),
    Takes("UpdateWatchlistRequest", {"expected_revision"}, {"category", "description", "name",
         "status"}),
    Takes("CreateWatchlistMemberRequest", {"portrait_identity_id"}, {"display_label", "valid_from",
         "valid_until"}),
    Takes("UpdateWatchlistMemberRequest", {"expected_revision"}, {"display_label", "status",
         "valid_from", "valid_until"}),
    Takes("CreateSurveillanceTaskRequest", {"bindings", "name", "threshold_policy",
         "watchlist_ids"}, {"alert_level", "cooldown_seconds", "match_policy", "schedule"}),
    Takes("UpdateSurveillanceTaskRequest", {"expected_revision"}, {"alert_level", "bindings",
         "cooldown_seconds", "match_policy", "name", "schedule", "threshold_policy",
         "watchlist_ids"}),
    Takes("TriageAlertRequest", {"expected_revision", "reason", "status"}, {"notes"}),
    Takes("CreateAlertFeedbackRequest", {}, {"correction"})}
------------------------------------------------------------------------------
Models == UNION {PortraitBodies, PortraitAssetCompareRequestFields, CameraBodies, TrajectoryBodies,
     IncidentBodies, CreateSupportCaseRequestFields, CreateComplianceEvidenceRequestFields,
     AuditEventViewFields, CreateIdentityProviderRequestFields, CreateSessionRequestFields,
     CreateProjectLifecycleRequestFields, DecideProjectLifecycleRequestFields, AuditBodies,
     CreateBillingAccountRequestFields, RecordMeterEventRequestFields, AssignSeatRequestFields,
     CreateAnnotationProviderRequestFields, CreateIndexBackendRequestFields,
     CreateSearchRerankerRequestFields, CreateQuotaPlanRequestFields, QuotaCheckRequestFields,
     AnnotationBodies, CreateSearchRankingProfileRequestFields,
     CreateSearchRelevanceFeedbackRequestFields, CreateSearchEvaluationRequestFields, EdgeBodies,
     WorkerBodies, AutoRollbackModelRequestFields, CreateFlowRequestFields, FlowBodiesTaken,
     CreateAgentTraceRequestFields, CreateAgentEvaluationRequestFields, PutAgentMemoryRequestFields,
     CreatePortraitClusterRequestFields, CreatePortraitAssociationRequestFields,
     CreatePortraitEventRequestFields, RegisterEdgeDeviceRequestFields,
     CreateEdgeDeploymentRequestFields, RegisterAgentToolRequestFields, AgentBodies,
     DataEventEnvelopeFields, FeedbackModels, ManifestModels, ReleaseModels, IndexDefinitionFields,
     IndexQueryBodies, ModelPackageManifestFields, MediaModels, MediaSourceModels, DatasetModels,
     SavedSearchModels, CreateWebhookSubscriptionRequestFields, WebhookViewModels, RunModels,
     ResultEnvelopeFields, ResultModels, ProductCatalogItemFields, TopologyModels, FoundationModels,
     TenantModels, IamModels, IntelligenceModels, ContractModels, SearchBodies, SurveillanceModels,
     SurveillanceBodies}

ModelNames == {m.name : m \in Models}
ModelOf == [n \in ModelNames |-> CHOOSE m \in Models : m.name = n]
==============================================================================
