------------------------------ MODULE SdkCalls ------------------------------
(***************************************************************************)
(* The requests the Python client sends and the types it gives the         *)
(* answers. "*" in a path is an identifier the caller gave.                *)
(***************************************************************************)
EXTENDS Sequences

\* One request of a client method: the fields its body always has and those it
\* leaves out when they are not given (AsGiven: the caller's own dictionary), the
\* type it casts the data to, and the query parameters it sends as None.
AsGiven == {"..."}
Request(name, verb, path, kind, always, maybe) ==
    [name |-> name, verb |-> verb, path |-> <<"api", "v1">> \o path, kind |-> kind,
     always |-> always, maybe |-> maybe, key |-> FALSE, type |-> "any", blank |-> {}]

Send(name, verb, path, always, maybe) == Request(name, verb, path, "json", always, maybe)
UploadForm(name, path) == Request(name, "POST", path, "form", {}, {})
Plain(name, verb, path) == Request(name, verb, path, "none", {}, {})
Fetch(name, path) == Plain(name, "GET", path)
Download(name, path) == [Fetch(name, path) EXCEPT !.type = "bytes"]
------------------------------------------------------------------------------
UploadAndRunCalls == <<
    [UploadForm("upload_asset", <<"media", "assets">>) EXCEPT !.type = "MediaAsset"],
    [Send("upload_asset_direct:presign", "POST", <<"media", "uploads", "presign">>, {"content_type",
         "filename", "kind", "sha256", "size_bytes"}, {}) EXCEPT !.type = "PresignedMediaUpload"],
    [Send("upload_asset_direct:complete", "POST", <<"media", "uploads", "complete">>,
         {"content_type", "expires_at", "filename", "kind", "sha256", "size_bytes", "upload_id",
         "upload_token"}, {}) EXCEPT !.type = "MediaAsset"],
    [Fetch("get_asset_download_url", <<"media", "assets", "*",
         "download-url">>) EXCEPT !.type = "PresignedMediaDownload"],
    [Send("create_run", "POST", <<"runs">>, {"asset_id", "domain", "parameters", "pipeline",
         "priority", "source_id", "wait_ms"}, {}) EXCEPT !.key = TRUE, !.type = "Run"],
    [Fetch("get_run", <<"runs", "*">>) EXCEPT !.type = "Run"],
    [Fetch("list_runs", <<"runs">>) EXCEPT !.blank = {"status", "domain"}],
    [Plain("cancel_run", "POST", <<"runs", "*", "cancel">>) EXCEPT !.type = "Run"]>>

ResultCalls == <<
    [Fetch("get_result_page", <<"runs", "*", "result">>) EXCEPT !.type = "ResultPage"],
    Download("get_result_artifact", <<"runs", "*", "artifacts", "*">>)>>

ParseCalls == <<
    [UploadForm("parse_image", <<"parse", "image">>) EXCEPT !.key = TRUE,
         !.type = "ParseImageResponse"],
    [UploadForm("parse_video", <<"parse", "video">>) EXCEPT !.key = TRUE,
         !.type = "ParseVideoResponse"],
    [UploadForm("parse_document", <<"parse", "document">>) EXCEPT !.key = TRUE,
         !.type = "ParseDocumentResponse"]>>

SessionAndDatasetCalls == <<
    [Send("parse_stream", "POST", <<"parse", "stream">>, {"domain", "parameters", "pipeline",
         "priority", "source_id", "wait_ms"}, {}) EXCEPT !.key = TRUE, !.type = "Run"],
    Fetch("get_stream_session", <<"stream-sessions", "*">>),
    Plain("cancel_stream_session", "POST", <<"stream-sessions", "*", "cancel">>),
    Fetch("list_assets", <<"media", "assets">>),
    Plain("delete_asset", "DELETE", <<"media", "assets", "*">>),
    Fetch("list_datasets", <<"datasets">>),
    [Send("create_dataset", "POST", <<"datasets">>, {"description", "metadata", "name"},
         {}) EXCEPT !.type = "DatasetRecord"],
    [Fetch("get_dataset", <<"datasets", "*">>) EXCEPT !.type = "DatasetRecord"],
    [Send("update_dataset", "PATCH", <<"datasets", "*">>, {}, {"description", "metadata", "name",
         "status"}) EXCEPT !.type = "DatasetRecord"]>>

VersionAndSearchCalls == <<
    [Send("create_dataset_version", "POST", <<"datasets", "*", "versions">>, {"annotation_summary",
         "asset_ids", "lineage", "manifest_sha256", "quality_score", "version"},
         {}) EXCEPT !.type = "DatasetVersion"],
    Fetch("list_dataset_versions", <<"datasets", "*", "versions">>),
    [Send("transition_dataset_version", "POST", <<"dataset-versions", "*", "transition">>,
         {"status"}, {}) EXCEPT !.type = "DatasetVersion"],
    Fetch("list_audit_events", <<"audit", "events">>),
    [Send("create_saved_search", "POST", <<"search", "saved">>, {"definition", "description",
         "mode", "name"}, {}) EXCEPT !.type = "SavedSearch"],
    Fetch("list_saved_searches", <<"search", "saved">>),
    [Fetch("get_saved_search", <<"search", "saved", "*">>) EXCEPT !.type = "SavedSearch"],
    [Send("update_saved_search", "PATCH", <<"search", "saved", "*">>, {}, {"definition",
         "description", "name"}) EXCEPT !.type = "SavedSearch"],
    Plain("run_saved_search", "POST", <<"search", "saved", "*", "run">>),
    Plain("delete_saved_search", "DELETE", <<"search", "saved", "*">>),
    [Send("create_watchlist", "POST", <<"surveillance", "watchlists">>, {"category", "description",
         "name"}, {}) EXCEPT !.type = "Watchlist"]>>

SurveillanceCalls == <<
    Fetch("list_watchlists", <<"surveillance", "watchlists">>),
    [Send("add_watchlist_member", "POST", <<"surveillance", "watchlists", "*", "members">>,
         {"display_label", "portrait_identity_id", "valid_from", "valid_until"},
         {}) EXCEPT !.type = "WatchlistMember"],
    [Send("create_surveillance_task", "POST", <<"surveillance", "tasks">>, AsGiven,
         {}) EXCEPT !.type = "SurveillanceTask"],
    Fetch("list_surveillance_tasks", <<"surveillance", "tasks">>),
    [Plain("start_surveillance_task", "POST", <<"surveillance", "tasks", "*",
         "start">>) EXCEPT !.type = "SurveillanceTask"],
    [Plain("pause_surveillance_task", "POST", <<"surveillance", "tasks", "*",
         "pause">>) EXCEPT !.type = "SurveillanceTask"],
    Fetch("list_surveillance_alerts", <<"surveillance", "alerts">>),
    [Send("triage_surveillance_alert", "PATCH", <<"surveillance", "alerts", "*", "status">>,
         {"expected_revision", "notes", "reason", "status"},
         {}) EXCEPT !.type = "SurveillanceAlert"],
    [Send("create_surveillance_alert_feedback", "POST", <<"surveillance", "alerts", "*",
         "feedback">>, {"correction"}, {}) EXCEPT !.type = "FeedbackRecord"],
    Download("export_audit", <<"audit", "export">>),
    Download("get_asset_preview", <<"media", "assets", "*", "preview">>),
    [Send("create_source", "POST", <<"media", "sources">>, {"metadata", "name", "url"},
         {}) EXCEPT !.type = "MediaSource"],
    Fetch("list_sources", <<"media", "sources">>),
    [Fetch("get_source", <<"media", "sources", "*">>) EXCEPT !.type = "MediaSource"]>>

SourceAndAccessCalls == <<
    [Plain("probe_source", "POST", <<"media", "sources", "*",
         "probe">>) EXCEPT !.type = "MediaSourceProbe"],
    Plain("delete_source", "DELETE", <<"media", "sources", "*">>),
    [Plain("pause_run", "POST", <<"runs", "*", "pause">>) EXCEPT !.type = "Run"],
    [Plain("resume_run", "POST", <<"runs", "*", "resume">>) EXCEPT !.type = "Run"],
    Fetch("list_pipelines", <<"pipelines">>),
    Fetch("list_domains", <<"domains">>),
    [Fetch("list_products", <<"platform", "products">>) EXCEPT !.type = "ProductCatalogItem"],
    [Fetch("get_repository_topology", <<"platform",
         "repositories">>) EXCEPT !.type = "RepositoryTopology"],
    [Fetch("get_repository_contracts", <<"platform",
         "contracts">>) EXCEPT !.type = "RepositoryContractCatalog"],
    [Fetch("get_access_foundation", <<"platform",
         "access-foundation">>) EXCEPT !.type = "AccessFoundationStatus"],
    [Fetch("get_portrait_intelligence", <<"platform",
         "portrait-intelligence">>) EXCEPT !.type = "PortraitIntelligenceStatus"],
    [Fetch("get_iam_summary", <<"platform", "iam", "summary">>) EXCEPT !.type = "IamSummary"],
    [Send("create_organization", "POST", <<"platform", "organizations">>, {"display_name"},
         {}) EXCEPT !.type = "Organization"],
    [Fetch("list_organizations", <<"platform", "organizations">>) EXCEPT !.type = "Organization"],
    [Send("create_project", "POST", <<"platform", "projects">>, {"display_name", "project_id"},
         {}) EXCEPT !.type = "Project"],
    [Fetch("list_projects", <<"platform", "projects">>) EXCEPT !.type = "Project"],
    [Send("create_user", "POST", <<"platform", "users">>, {"display_name", "email", "password",
         "user_id"}, {}) EXCEPT !.type = "UserAccount"],
    [Fetch("list_users", <<"platform", "users">>) EXCEPT !.type = "UserAccount"],
    [Send("create_role", "POST", <<"platform", "roles">>, {"display_name", "product_ids", "role_id",
         "scopes"}, {}) EXCEPT !.type = "Role"],
    [Fetch("list_roles", <<"platform", "roles">>) EXCEPT !.type = "Role"]>>

MemberAndKeyCalls == <<
    [Send("create_membership", "POST", <<"platform", "memberships">>, {"principal_id",
         "principal_type", "project_id", "role_ids"}, {}) EXCEPT !.type = "Membership"],
    [Fetch("list_memberships", <<"platform", "memberships">>) EXCEPT !.type = "Membership"],
    [Send("create_service_account", "POST", <<"platform", "service-accounts">>, {"display_name",
         "product_ids", "scopes", "service_account_id"}, {}) EXCEPT !.type = "ServiceAccount"],
    [Fetch("list_service_accounts", <<"platform",
         "service-accounts">>) EXCEPT !.type = "ServiceAccount"],
    [Send("create_api_key", "POST", <<"platform", "service-accounts", "*", "api-keys">>,
         {"expires_at", "name", "product_ids", "scopes"},
         {}) EXCEPT !.type = "CreateApiKeyResponse"],
    [Fetch("list_api_keys", <<"platform", "api-keys">>) EXCEPT !.type = "ApiKeyRecord"],
    [Plain("revoke_api_key", "POST", <<"platform", "api-keys", "*",
         "revoke">>) EXCEPT !.type = "ApiKeyRecord"],
    [Send("create_product_entitlement", "POST", <<"platform", "product-entitlements">>,
         {"product_id", "project_id", "source", "status"},
         {}) EXCEPT !.type = "ProductEntitlement"],
    [Fetch("list_product_entitlements", <<"platform",
         "product-entitlements">>) EXCEPT !.type = "ProductEntitlement"],
    [Send("update_product_entitlement", "PUT", <<"platform", "product-entitlements", "*">>,
         {"source", "status"}, {}) EXCEPT !.type = "ProductEntitlement"],
    [Fetch("list_models", <<"models">>) EXCEPT !.type = "ModelPackage"]>>

WebhookCalls == <<
    [Send("create_webhook_subscription", "POST", <<"webhooks", "subscriptions">>, {"event_types",
         "name", "secret", "url"}, {}) EXCEPT !.type = "WebhookSubscription"],
    [Fetch("list_webhook_subscriptions", <<"webhooks",
         "subscriptions">>) EXCEPT !.type = "WebhookSubscription"],
    Plain("delete_webhook_subscription", "DELETE", <<"webhooks", "subscriptions", "*">>),
    [Fetch("list_webhook_deliveries", <<"webhooks",
         "deliveries">>) EXCEPT !.type = "WebhookDelivery"]>>

IdentityCalls == <<
    Send("create_portrait_identity", "POST", <<"portrait", "identities">>, {"display_name",
         "metadata"}, {}),
    Plain("delete_portrait_identity", "DELETE", <<"portrait", "identities", "*">>),
    Send("enroll_portrait_identity", "POST", <<"portrait", "identities", "*", "enrollments">>,
         AsGiven, {}),
    Send("search_portrait", "POST", <<"portrait", "search">>, AsGiven, {}),
    Send("compare_portrait", "POST", <<"portrait", "compare">>, AsGiven, {}),
    Fetch("list_long_term_identities", <<"portrait", "trajectories", "identities">>),
    Fetch("get_long_term_identity", <<"portrait", "trajectories", "identities", "*">>),
    Send("update_long_term_identity", "PATCH", <<"portrait", "trajectories", "identities", "*">>,
         AsGiven, {}),
    Plain("delete_long_term_identity", "DELETE", <<"portrait", "trajectories", "identities", "*">>),
    Fetch("list_long_term_identity_segments", <<"portrait", "trajectories", "identities", "*",
         "segments">>),
    Fetch("get_long_term_identity_timeline", <<"portrait", "trajectories", "identities", "*",
         "timeline">>),
    Send("merge_long_term_identities", "POST", <<"portrait", "trajectories", "identities",
         "merge">>, {"source_identity_ids", "target_identity_id"}, {})>>

CameraCalls == <<
    Send("split_long_term_identity", "POST", <<"portrait", "trajectories", "identities", "*",
         "split">>, {"display_name", "segment_ids"}, {}),
    Send("register_portrait_camera", "POST", <<"portrait", "cameras">>, {"camera_id",
         "display_name", "location", "metadata"}, {}),
    Fetch("list_portrait_cameras", <<"portrait", "cameras">>),
    Send("update_portrait_camera", "PATCH", <<"portrait", "cameras", "*">>, AsGiven, {}),
    Plain("delete_portrait_camera", "DELETE", <<"portrait", "cameras", "*">>),
    Fetch("list_portrait_camera_transitions", <<"portrait", "cameras", "*", "transitions">>),
    Send("set_portrait_camera_transitions", "PUT", <<"portrait", "cameras", "*", "transitions">>,
         {"transitions"}, {}),
    UploadForm("enroll_portrait_identity_image", <<"portrait", "identities", "*", "enrollments",
         "image">>),
    UploadForm("search_portrait_image", <<"portrait", "search", "image">>)>>

CompareCalls == <<
    UploadForm("compare_portrait_images", <<"portrait", "compare", "images">>),
    UploadForm("compare_portrait_asset_image", <<"portrait", "compare", "asset-image">>),
    UploadForm("compare_portrait_image_asset", <<"portrait", "compare", "image-asset">>),
    Send("search_text", "POST", <<"search", "text">>, {"domains", "limit", "media_kinds", "query"},
         {}),
    UploadForm("search_portrait_results", <<"search", "image">>)>>

IndexAndFeedbackCalls == <<
    Send("search_portrait_asset", "POST", <<"search", "asset">>, {"asset_id", "feature_space_id",
         "limit", "media_kinds", "threshold"}, {}),
    Fetch("list_search_indexes", <<"indexes">>),
    [Fetch("list_search_index_records", <<"indexes", "*",
         "records">>) EXCEPT !.blank = {"source_type", "source_id"}],
    Send("query_search_index_text", "POST", <<"indexes", "*", "query", "text">>, {"limit", "query"},
         {}),
    Send("query_search_index_vector", "POST", <<"indexes", "*", "query", "vector">>, {"limit",
         "threshold", "vector"}, {}),
    [Send("create_feedback", "POST", <<"feedback">>, AsGiven, {}) EXCEPT !.type = "FeedbackRecord"],
    [Fetch("list_feedback", <<"feedback">>) EXCEPT !.type = "FeedbackRecord"],
    [Send("review_feedback", "POST", <<"feedback", "*", "review">>, {"notes", "status"},
         {}) EXCEPT !.type = "FeedbackRecord"],
    [Send("create_hard_sample_manifest", "POST", <<"hard-sample-manifests">>, {"dataset_id",
         "feedback_ids", "label_schema", "split", "version"},
         {}) EXCEPT !.type = "HardSampleManifest"],
    [Send("create_model_release", "POST", <<"model-releases">>, AsGiven,
         {}) EXCEPT !.type = "ModelRelease"],
    [Send("admit_model_package", "POST", <<"model-packages", "admissions">>, AsGiven,
         {}) EXCEPT !.type = "ModelPackage"],
    [Fetch("list_model_releases", <<"model-releases">>) EXCEPT !.type = "ModelRelease"]>>

ReleaseAndGovernanceCalls == <<
    [Send("transition_model_release", "POST", <<"model-releases", "*", "versions", "*",
         "transition">>, {"reason", "status"}, {}) EXCEPT !.type = "ModelRelease"],
    [Send("rollback_model_release", "POST", <<"model-releases", "*", "rollback">>, {"reason",
         "target_version"}, {}) EXCEPT !.type = "ModelRelease"],
    [Fetch("list_model_deployment_events",
         <<"model-deployment-events">>) EXCEPT !.type = "ModelDeploymentEvent"],
    Send("create_identity_provider", "POST", <<"platform", "identity-providers">>, AsGiven, {}),
    Fetch("list_identity_providers", <<"platform", "identity-providers">>),
    Plain("probe_identity_provider", "POST", <<"platform", "identity-providers", "*", "probe">>),
    Send("request_project_lifecycle", "POST", <<"platform", "projects", "lifecycle-requests">>,
         AsGiven, {}),
    Send("decide_project_lifecycle", "POST", <<"platform", "projects", "lifecycle-requests", "*",
         "decide">>, AsGiven, {}),
    Send("set_audit_retention", "PUT", <<"platform", "audit", "retention">>, AsGiven, {}),
    Send("purge_audit", "POST", <<"platform", "audit", "purge">>, AsGiven, {}),
    Send("create_session", "POST", <<"platform", "sessions">>, {"ttl_seconds", "user_id"}, {}),
    Send("create_annotation_task", "POST", <<"data", "annotation-tasks">>, AsGiven, {}),
    Send("register_annotation_provider", "POST", <<"data", "annotation-providers">>, AsGiven, {}),
    Plain("probe_annotation_provider", "POST", <<"data", "annotation-providers", "*", "probe">>)>>

FlowAndEdgeCalls == <<
    Send("review_annotation_task", "POST", <<"data", "annotation-tasks", "*", "review">>, AsGiven,
         {}),
    Send("create_flow", "POST", <<"flows">>, AsGiven, {}),
    Send("execute_flow", "POST", <<"flows", "*", "execute">>, {"context"}, {}),
    Send("decide_flow_approval", "POST", <<"flows", "approvals", "*", "decide">>, AsGiven, {}),
    Send("create_search_ranking_profile", "POST", <<"search", "ranking-profiles">>, AsGiven, {}),
    Send("register_index_backend", "POST", <<"search", "index-backends">>, AsGiven, {}),
    Plain("probe_index_backend", "POST", <<"search", "index-backends", "*", "probe">>),
    Send("register_search_reranker", "POST", <<"search", "rerankers">>, AsGiven, {}),
    Plain("probe_search_reranker", "POST", <<"search", "rerankers", "*", "probe">>),
    Send("evaluate_search", "POST", <<"search", "evaluations">>, AsGiven, {}),
    Send("rebuild_index", "POST", <<"indexes", "rebuild">>, {"index_id"}, {}),
    Send("create_index", "POST", <<"indexes">>, AsGiven, {}),
    Send("register_edge_device", "POST", <<"edge", "devices">>, AsGiven, {}),
    Send("heartbeat_edge_device", "POST", <<"edge", "devices", "*", "heartbeat">>, AsGiven, {}),
    Send("deploy_edge", "POST", <<"edge", "deployments">>, AsGiven, {}),
    Send("acknowledge_edge_deployment", "POST", <<"edge", "deployments", "*", "acknowledge">>,
         AsGiven, {}),
    Send("register_agent_tool", "POST", <<"agents", "tools">>, AsGiven, {}),
    Send("propose_agent_action", "POST", <<"agents", "actions">>, AsGiven, {})>>

AgentCalls == <<
    Send("decide_agent_action", "POST", <<"agents", "actions", "*", "decide">>, AsGiven, {}),
    Plain("execute_agent_action", "POST", <<"agents", "actions", "*", "execute">>),
    Send("record_agent_trace", "POST", <<"agents", "traces">>, AsGiven, {}),
    Send("record_agent_evaluation", "POST", <<"agents", "evaluations">>, AsGiven, {}),
    Send("put_agent_memory", "PUT", <<"agents", "memory">>, AsGiven, {}),
    Fetch("get_agent_memory", <<"agents", "memory">>)>>
SdkCalls ==
    UploadAndRunCalls \o ResultCalls \o ParseCalls \o SessionAndDatasetCalls \o
    VersionAndSearchCalls \o SurveillanceCalls \o SourceAndAccessCalls \o MemberAndKeyCalls \o
    WebhookCalls \o IdentityCalls \o CameraCalls \o CompareCalls \o IndexAndFeedbackCalls \o
    ReleaseAndGovernanceCalls \o FlowAndEdgeCalls \o AgentCalls
------------------------------------------------------------------------------
\* The TypedDict classes.
Type(name, fields) == [name |-> name, fields |-> fields]

SdkTypes1 == {
    Type("PipelineRef", {"pipeline_id", "version"}),
    Type("MediaTechnicalMetadata", {"codec", "container", "decode_seek_used", "duration_ms",
         "elapsed_ms", "format", "fps", "frame_count", "frame_max_edge", "frames_read", "height",
         "keyframe_count", "page_count", "reconnect_count", "sample_end_ms", "sample_interval_ms",
         "sample_start_ms", "sample_strategy", "sampled_units", "scene_change_count",
         "stream_segment_duration_ms", "stream_segment_index", "timestamp_source", "width"}),
    Type("MediaAsset", {"asset_id", "content_type", "created_at", "filename", "kind", "metadata",
         "original_deleted_at", "preview_content_type", "preview_object_key", "preview_sha256",
         "sha256", "size_bytes", "temporary"}),
    Type("MediaSource", {"created_at", "kind", "masked_url", "metadata", "name", "source_id"}),
    Type("MediaSourceProbe", {"checked_at", "latency_ms", "metadata", "reachable", "source_id"}),
    Type("DatasetRecord", {"created_at", "dataset_id", "description", "metadata", "name",
         "project_id", "status", "tenant_id"}),
    Type("PresignedMediaUpload", {"expires_at", "headers", "method", "upload_id", "upload_token",
         "url"}),
    Type("PresignedMediaDownload", {"expires_at", "headers", "method", "updated_at", "url"}),
    Type("DatasetVersion", {"annotation_summary", "asset_ids", "created_at", "created_by",
         "dataset_id", "item_count", "lineage", "manifest_sha256", "project_id", "quality_score",
         "status", "tenant_id", "updated_at", "version", "version_id"}),
    Type("AuditEvent", {"action", "created_at", "event_id", "evidence", "outcome", "principal_id",
         "project_id", "request_id", "resource_id", "resource_type", "tenant_id"}),
    Type("SavedSearch", {"created_at", "created_by", "definition", "description", "last_run_at",
         "mode", "name", "project_id", "saved_search_id", "tenant_id", "updated_at"})}

SdkTypes2 == {
    Type("Watchlist", {"category", "created_at", "created_by", "description", "name", "project_id",
         "revision", "status", "tenant_id", "updated_at", "watchlist_id"}),
    Type("WatchlistMember", {"display_label", "member_id", "portrait_identity_id", "revision",
         "status", "valid_from", "valid_until", "watchlist_id"}),
    Type("SurveillanceTask", {"alert_level", "bindings", "cooldown_seconds", "name", "project_id",
         "revision", "status", "task_id", "tenant_id", "threshold_policy", "watchlist_ids"}),
    Type("SurveillanceAlert", {"alert_id", "camera_id", "match_score", "modality",
         "occurrence_count", "portrait_identity_id", "revision", "run_id", "snapshot_artifact_id",
         "status", "task_id"}),
    Type("ModelPackage", {"adapter", "capability", "evaluation_evidence", "license_id",
         "model_card", "model_id", "production_ready", "regression_samples", "runtime_model_id",
         "schema_version", "sha256", "source_uri", "version", "vram_mb"}),
    Type("ProductCatalogItem", {"api_paths", "console_route", "current_scope", "depends_on",
         "layer", "maturity", "name", "next_gate", "not_in_scope_yet", "product_id", "summary"}),
    Type("RepositoryTopologyItem", {"current_repository", "excluded_responsibilities",
         "integration_product_ids", "kind", "lifecycle", "name", "next_gate", "primary_product_ids",
         "repository_id", "responsibilities"}),
    Type("RepositoryIntegrationContract", {"compatibility", "consumer_repository_id", "contract_id",
         "invariants", "payload_type", "producer_repository_id", "release_version", "schema_path",
         "transport"}),
    Type("RepositoryContractArtifact", {"compatibility", "consumer_repository_id", "contract_id",
         "example_path", "example_sha256", "payload_schema_version", "payload_type",
         "producer_repository_id", "release_version", "schema_path", "schema_sha256", "transport"}),
    Type("RepositoryContractCatalog", {"contracts", "package_name", "release_version",
         "schema_version"}),
    Type("RepositoryTopology", {"boundary_rules", "current_repository_id", "integration_contracts",
         "repositories", "schema_version"}),
    Type("AccessCapabilityItem", {"capability_id", "current_scope", "name", "next_gate",
         "not_in_scope_yet", "status", "summary"})}

SdkTypes3 == {
    Type("AccessFoundationStatus", {"auth_mode", "capabilities", "policy_provider", "principal_id",
         "principal_source", "project_id", "schema_version", "tenant_id"}),
    Type("PortraitCapabilityItem", {"capability_id", "current_model", "embedding_dimension",
         "production_ready", "readiness", "target_embedding_dimension", "target_model"}),
    Type("PortraitModuleItem", {"current_scope", "maturity", "module_id", "name", "next_gate",
         "not_in_scope_yet", "owner_repository_id", "summary"}),
    Type("PortraitAssetItem", {"asset_id", "depends_on_modules", "maturity", "name", "next_gate",
         "summary"}),
    Type("PortraitIntelligenceStatus", {"assets", "capabilities", "modules", "positioning",
         "schema_version"}),
    Type("Organization", {"created_at", "display_name", "tenant_id", "updated_at"}),
    Type("Project", {"created_at", "display_name", "project_id", "tenant_id", "updated_at"}),
    Type("UserAccount", {"created_at", "disabled", "display_name", "email", "tenant_id",
         "updated_at", "user_id"}),
    Type("Role", {"created_at", "display_name", "product_ids", "role_id", "scopes", "tenant_id",
         "updated_at"}),
    Type("Membership", {"created_at", "principal_id", "principal_type", "project_id", "role_ids",
         "tenant_id", "updated_at"}),
    Type("ServiceAccount", {"created_at", "disabled", "display_name", "product_ids", "project_id",
         "scopes", "service_account_id", "tenant_id", "updated_at"}),
    Type("ApiKeyRecord", {"created_at", "expires_at", "key_id", "last_used_at", "name",
         "product_ids", "project_id", "revoked_at", "scopes", "service_account_id", "tenant_id",
         "token_prefix"}),
    Type("CreateApiKeyResponse", {"api_key", "record"}),
    Type("ProductEntitlement", {"created_at", "product_id", "project_id", "source", "status",
         "tenant_id", "updated_at"}),
    Type("IamInventory", {"api_keys", "memberships", "organizations", "product_entitlements",
         "projects", "roles", "service_accounts", "users"})}

SdkTypes4 == {
    Type("IamSummary", {"default_admin_scopes", "inventory", "project_id", "schema_version",
         "tenant_id"}),
    Type("WebhookSubscription", {"created_at", "enabled", "endpoint_id", "event_types", "name",
         "url"}),
    Type("WebhookDelivery", {"attempts", "created_at", "delivery_id", "endpoint_id", "event_id",
         "event_type", "last_error", "status", "status_code", "updated_at"}),
    Type("FeedbackRecord", {"annotation_schema_id", "authorized_for_training", "correction",
         "created_at", "deidentified", "feedback_id", "kind", "media_ref", "model_id",
         "model_version", "pipeline_id", "pipeline_version", "result_ref", "review_notes",
         "reviewed_by", "run_id", "schema_version", "status", "submitted_by", "updated_at"}),
    Type("HardSampleManifest", {"created_at", "created_by", "dataset_id", "items", "label_schema",
         "manifest_id", "schema_version", "sha256", "split", "version"}),
    Type("ModelRelease", {"activated_at", "capability", "created_at", "created_by", "evidence_refs",
         "model_id", "package_sha256", "retired_at", "runtime_model_id", "schema_version", "status",
         "updated_at", "version"}),
    Type("ModelDeploymentEvent", {"action", "audit_id", "capability", "created_at", "event_id",
         "from_status", "model_id", "operator_id", "package_sha256", "project_id", "reason",
         "runtime_model_id", "schema_version", "tenant_id", "to_status", "version"}),
    Type("Run", {"asset_id", "completed_at", "created_at", "domain", "error_code", "next_run_id",
         "parameters", "pipeline", "previous_run_id", "priority", "progress", "revision", "run_id",
         "source_id", "started_at", "status", "stream_segment_index", "stream_session_id",
         "termination_reason", "updated_at"}),
    Type("ResultEnvelope", {"artifacts", "asset_id", "created_at", "domain", "domain_payload",
         "media_metadata", "models", "pipeline", "provenance", "relations", "run_id",
         "schema_version", "source_id", "timings", "units", "warnings"}),
    Type("ResultPage", {"result", "unit_limit", "unit_offset", "unit_total"})}

SdkTypes5 == {
    Type("ParseImageResponse", {"asset", "result", "run"}),
    Type("ParseVideoResponse", {"asset", "result", "run"}),
    Type("ParseDocumentResponse", {"asset", "result", "run"})}
SdkTypes == SdkTypes1 \cup SdkTypes2 \cup SdkTypes3 \cup SdkTypes4 \cup SdkTypes5
TypeOf == [n \in {t.name : t \in SdkTypes} |-> CHOOSE t \in SdkTypes : t.name = n]
==============================================================================
