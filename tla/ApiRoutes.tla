------------------------------ MODULE ApiRoutes ------------------------------
(***************************************************************************)
(* The handlers of the HTTP API, in the order in which a request is        *)
(* matched against them. A path is the sequence of its segments, with "*"  *)
(* for a parameter.                                                        *)
(***************************************************************************)
EXTENDS Sequences

\* One handler: the operations it calls in order, the body model it takes (form:
\* multipart; none), whether it needs an Idempotency-Key, the model it wraps in
\* an envelope (values: a plain dictionary; raw: no envelope; empty: 204), whether
\* it depends on principal_context, and the statuses it raises itself.  A call whose
\* every exception the handler catches is left out of the operations.
Handler(verb, path, ops, body, answer) ==
    [verb |-> verb, path |-> <<"api", "v1">> \o path, ops |-> ops, body |-> body, key |-> FALSE,
     answer |-> answer, auth |-> TRUE, own |-> {}]

Get(path, ops, answer) == Handler("GET", path, ops, "none", answer)
Post(path, ops, body, answer) == Handler("POST", path, ops, body, answer)
Put(path, ops, body, answer) == Handler("PUT", path, ops, body, answer)
Patch(path, ops, body, answer) == Handler("PATCH", path, ops, body, answer)
Delete(path, ops) == Handler("DELETE", path, ops, "none", "empty")
------------------------------------------------------------------------------
AuditRoutes == <<
    Get(<<"audit", "events">>, <<"policy.require_allowed", "state.audit_events",
         "state.count_audit_events">>, "AuditEventPage"),
    Get(<<"audit", "export">>, <<"policy.require_allowed", "state.count_audit_events",
         "state.audit_events">>, "raw")>>

AccessRoutes1 == <<
    Get(<<"platform", "iam", "summary">>, <<"access.summary">>, "IamSummary"),
    [Post(<<"auth", "login">>, <<"access.authenticate_user",
         "control_plane.create_authenticated_session">>, "LoginRequest",
         "SessionResponse") EXCEPT !.auth = FALSE, !.own = {401}],
    Post(<<"platform", "organizations">>, <<"access.create_organization">>,
         "CreateOrganizationRequest", "Organization"),
    Get(<<"platform", "organizations">>, <<"access.list_organizations">>, "Organization"),
    Post(<<"platform", "projects">>, <<"access.create_project">>, "CreateProjectRequest",
         "Project"),
    Get(<<"platform", "projects">>, <<"access.list_projects">>, "Project"),
    Post(<<"platform", "users">>, <<"access.create_user">>, "CreateUserRequest", "UserAccount"),
    Get(<<"platform", "users">>, <<"access.list_users">>, "UserAccount"),
    Post(<<"platform", "users", "*", "disable">>, <<"access.set_user_disabled">>, "none",
         "UserAccount"),
    Post(<<"platform", "users", "*", "restore">>, <<"access.set_user_disabled">>, "none",
         "UserAccount"),
    Post(<<"platform", "roles">>, <<"access.create_role">>, "CreateRoleRequest", "Role"),
    Get(<<"platform", "roles">>, <<"access.list_roles">>, "Role"),
    Post(<<"platform", "memberships">>, <<"access.create_membership">>, "CreateMembershipRequest",
         "Membership"),
    Get(<<"platform", "memberships">>, <<"access.list_memberships">>, "Membership"),
    Post(<<"platform", "service-accounts">>, <<"access.create_service_account">>,
         "CreateServiceAccountRequest", "ServiceAccount"),
    Get(<<"platform", "service-accounts">>, <<"access.list_service_accounts">>, "ServiceAccount"),
    Post(<<"platform", "service-accounts", "*", "disable">>,
         <<"access.set_service_account_disabled">>, "none", "ServiceAccount")>>

AccessRoutes2 == <<
    Post(<<"platform", "service-accounts", "*", "restore">>,
         <<"access.set_service_account_disabled">>, "none", "ServiceAccount"),
    Post(<<"platform", "service-accounts", "*", "api-keys">>, <<"access.create_api_key">>,
         "CreateApiKeyRequest", "CreateApiKeyResponse"),
    Get(<<"platform", "api-keys">>, <<"access.list_api_keys">>, "ApiKeyRecord"),
    Post(<<"platform", "api-keys", "*", "revoke">>, <<"access.revoke_api_key">>, "none",
         "ApiKeyRecord"),
    Post(<<"platform", "product-entitlements">>, <<"access.create_product_entitlement">>,
         "CreateProductEntitlementRequest", "ProductEntitlement"),
    Get(<<"platform", "product-entitlements">>, <<"access.list_product_entitlements">>,
         "ProductEntitlement"),
    Put(<<"platform", "product-entitlements", "*">>, <<"access.update_product_entitlement">>,
         "UpdateProductEntitlementRequest", "ProductEntitlement")>>

CatalogRoutes == <<
    Get(<<"models">>, <<"policy.require_allowed", "state.list_model_packages">>, "values"),
    Get(<<"domains">>, <<"plugins.default_pipeline_id", "plugins.manifests">>, "values"),
    Get(<<"platform", "products">>, <<"plugins.manifests">>, "ProductCatalogItem"),
    Get(<<"platform", "repositories">>, <<>>, "RepositoryTopology"),
    Get(<<"platform", "contracts">>, <<>>, "RepositoryContractCatalog"),
    [Get(<<"platform", "contracts", "*", "schema">>, <<>>, "raw") EXCEPT !.own = {404}],
    Get(<<"platform", "access-foundation">>, <<>>, "AccessFoundationStatus"),
    Get(<<"platform", "portrait-intelligence">>, <<"plugins.manifests">>,
         "PortraitIntelligenceStatus")>>

DatasetRoutes == <<
    Post(<<"datasets">>, <<"data.create_dataset">>, "CreateDatasetRequest", "DatasetRecord"),
    Get(<<"datasets">>, <<"data.list_datasets">>, "DatasetPage"),
    Get(<<"datasets", "*">>, <<"data.get_dataset">>, "DatasetRecord"),
    Patch(<<"datasets", "*">>, <<"data.update_dataset">>, "UpdateDatasetRequest", "DatasetRecord"),
    Post(<<"datasets", "*", "versions">>, <<"data.create_dataset_version">>,
         "CreateDatasetVersionRequest", "DatasetVersion"),
    Get(<<"datasets", "*", "versions">>, <<"data.list_dataset_versions">>, "DatasetVersionPage"),
    Post(<<"dataset-versions", "*", "transition">>, <<"data.transition_dataset_version">>,
         "TransitionDatasetVersionRequest", "DatasetVersion")>>

MediaRoutes1 == <<
    Post(<<"media", "assets">>, <<"spool_upload", "runs.create_asset_from_path">>, "form",
         "MediaAsset"),
    [Post(<<"media", "uploads", "presign">>, <<"policy.require_allowed", "objects.presign_upload">>,
         "PresignMediaUploadRequest", "PresignedMediaUpload") EXCEPT !.own = {404, 409, 503}],
    [Post(<<"media", "uploads", "complete">>, <<"objects.exists", "objects.verify",
         "objects.get_to_file", "runs.create_asset_from_path", "objects.delete">>,
         "CompleteMediaUploadRequest", "MediaAsset") EXCEPT !.own = {403, 404, 409, 410, 503}],
    [Get(<<"media", "assets", "*", "download-url">>, <<"policy.require_allowed", "state.get_asset",
         "objects.verify", "objects.presign_download">>,
         "PresignedMediaDownload") EXCEPT !.own = {404, 409}]>>

MediaRoutes2 == <<
    Get(<<"media", "assets">>, <<"policy.require_allowed", "state.list_assets",
         "state.count_assets">>, "MediaAssetPage"),
    Get(<<"media", "assets", "*">>, <<"policy.require_allowed", "state.get_asset">>, "MediaAsset"),
    Get(<<"media", "assets", "*", "preview">>, <<"runs.get_asset_preview">>, "raw"),
    Delete(<<"media", "assets", "*">>, <<"runs.delete_asset">>),
    Post(<<"media", "sources">>, <<"runs.create_source">>, "CreateMediaSourceRequest",
         "MediaSourceView"),
    Get(<<"media", "sources">>, <<"policy.require_allowed", "state.list_sources",
         "state.count_sources">>, "MediaSourcePage"),
    Get(<<"media", "sources", "*">>, <<"runs.get_source">>, "MediaSourceView"),
    Post(<<"media", "sources", "*", "probe">>, <<"runs.probe_source">>, "none", "MediaSourceProbe"),
    Get(<<"media", "sources", "*", "preview">>, <<"runs.get_source_preview">>, "raw"),
    Delete(<<"media", "sources", "*">>, <<"runs.delete_source">>)>>

RunRoutes1 == <<
    [Post(<<"runs">>, <<"runs.create_run">>, "CreateRunRequest", "RunRecord") EXCEPT !.key = TRUE],
    Get(<<"runs">>, <<"runs.list_runs">>, "RunPage"),
    Get(<<"runs", "*">>, <<"runs.get_run">>, "RunRecord"),
    Get(<<"stream-sessions", "*">>, <<"runs.stream_session">>, "StreamSessionView"),
    Post(<<"stream-sessions", "*", "cancel">>, <<"runs.cancel_stream_session">>, "none",
         "StreamSessionView"),
    Post(<<"runs", "*", "cancel">>, <<"runs.transition">>, "none", "RunRecord"),
    Post(<<"runs", "*", "pause">>, <<"runs.transition">>, "none", "RunRecord"),
    Post(<<"runs", "*", "resume">>, <<"runs.transition">>, "none", "RunRecord"),
    Get(<<"runs", "*", "result">>, <<"runs.result_page">>, "ResultPage"),
    Get(<<"results">>, <<"runs.list_results">>, "ResultSummaryPage"),
    Get(<<"runs", "*", "artifacts", "*">>, <<"runs.result_artifact">>, "raw")>>

RunRoutes2 == <<
    Get(<<"runs", "*", "events">>, <<"runs.get_run", "state.events_after">>, "raw")>>

SurveillanceRoutes1 == <<
    Post(<<"surveillance", "watchlists">>, <<"surveillance.create_watchlist">>,
         "CreateWatchlistRequest", "Watchlist"),
    Get(<<"surveillance", "watchlists">>, <<"surveillance.list_watchlists">>, "WatchlistPage"),
    Get(<<"surveillance", "watchlists", "*">>, <<"surveillance.get_watchlist">>, "Watchlist"),
    Patch(<<"surveillance", "watchlists", "*">>, <<"surveillance.update_watchlist">>,
         "UpdateWatchlistRequest", "Watchlist"),
    Delete(<<"surveillance", "watchlists", "*">>, <<"surveillance.delete_watchlist">>),
    Post(<<"surveillance", "watchlists", "*", "members">>, <<"surveillance.create_member">>,
         "CreateWatchlistMemberRequest", "WatchlistMember"),
    Get(<<"surveillance", "watchlists", "*", "members">>, <<"surveillance.list_members">>,
         "WatchlistMemberPage"),
    Patch(<<"surveillance", "watchlists", "*", "members", "*">>, <<"surveillance.update_member">>,
         "UpdateWatchlistMemberRequest", "WatchlistMember"),
    Delete(<<"surveillance", "watchlists", "*", "members", "*">>, <<"surveillance.delete_member">>),
    Post(<<"surveillance", "tasks">>, <<"surveillance.create_task">>,
         "CreateSurveillanceTaskRequest", "SurveillanceTask"),
    Get(<<"surveillance", "tasks">>, <<"surveillance.list_tasks">>, "SurveillanceTaskPage"),
    Get(<<"surveillance", "tasks", "*">>, <<"surveillance.get_task">>, "SurveillanceTask")>>

SurveillanceRoutes2 == <<
    Patch(<<"surveillance", "tasks", "*">>, <<"surveillance.update_task">>,
         "UpdateSurveillanceTaskRequest", "SurveillanceTask"),
    Post(<<"surveillance", "tasks", "*", "start">>, <<"surveillance.start_task">>, "none",
         "SurveillanceTask"),
    Post(<<"surveillance", "tasks", "*", "pause">>, <<"surveillance.pause_task">>, "none",
         "SurveillanceTask"),
    Post(<<"surveillance", "tasks", "*", "resume">>, <<"surveillance.resume_task">>, "none",
         "SurveillanceTask"),
    Get(<<"surveillance", "alerts">>, <<"surveillance.list_alerts">>, "AlertPage"),
    Get(<<"surveillance", "alerts", "live-stream">>, <<"surveillance.events_after">>, "raw"),
    Get(<<"surveillance", "alerts", "*">>, <<"surveillance.get_alert">>, "AlertRecord"),
    Patch(<<"surveillance", "alerts", "*", "status">>, <<"surveillance.triage_alert">>,
         "TriageAlertRequest", "AlertRecord")>>

SurveillanceRoutes3 == <<
    Post(<<"surveillance", "alerts", "*", "feedback">>, <<"surveillance.get_alert",
         "feedback.create">>, "CreateAlertFeedbackRequest", "FeedbackRecord")>>

ParseRoutes1 == <<
    Post(<<"parse", "image">>, <<"spool_upload", "runs.create_asset_from_path",
         "plugins.default_pipeline_id", "runs.resolve_pipeline_ref", "runs.create_run",
         "runs.result">>, "form", "ParseImageResponse"),
    Post(<<"parse", "video">>, <<"spool_upload", "runs.create_asset_from_path",
         "plugins.default_pipeline_id", "runs.resolve_pipeline_ref", "runs.create_run",
         "runs.result">>, "form", "ParseVideoResponse")>>

ParseRoutes2 == <<
    Post(<<"parse", "document">>, <<"spool_upload", "runs.create_asset_from_path",
         "plugins.default_pipeline_id", "runs.resolve_pipeline_ref", "runs.create_run",
         "runs.result">>, "form", "ParseDocumentResponse"),
    Post(<<"parse", "stream">>, <<"runs.resolve_pipeline_ref", "runs.create_run">>,
         "ParseStreamRequest", "RunRecord")>>

PortraitRoutes1 == <<
    Post(<<"portrait", "identities">>, <<"portrait.create_identity">>, "CreateIdentityRequest",
         "PortraitIdentity"),
    Get(<<"portrait", "identities">>, <<"portrait.list_identities">>, "PortraitIdentityPage"),
    Get(<<"portrait", "identities", "*">>, <<"portrait.get_identity">>, "PortraitIdentity"),
    Delete(<<"portrait", "identities", "*">>, <<"portrait.delete_identity">>),
    Get(<<"portrait", "trajectories", "identities">>, <<"trajectory.list_identities">>,
         "IdentityPage"),
    Get(<<"portrait", "trajectories", "identities", "*">>, <<"trajectory.get_identity">>,
         "LongTermIdentity"),
    Patch(<<"portrait", "trajectories", "identities", "*">>, <<"trajectory.update_identity">>,
         "UpdateIdentityRequest", "LongTermIdentity"),
    Delete(<<"portrait", "trajectories", "identities", "*">>, <<"trajectory.delete_identity">>),
    Get(<<"portrait", "trajectories", "identities", "*", "segments">>,
         <<"trajectory.list_segments">>, "SegmentPage"),
    Get(<<"portrait", "trajectories", "identities", "*", "timeline">>, <<"trajectory.timeline">>,
         "TimelineEntry")>>

PortraitRoutes2 == <<
    Post(<<"portrait", "trajectories", "identities", "merge">>, <<"trajectory.merge_identities">>,
         "MergeIdentitiesRequest", "LongTermIdentity"),
    Post(<<"portrait", "trajectories", "identities", "*", "split">>,
         <<"trajectory.split_identity">>, "SplitIdentityRequest", "LongTermIdentity"),
    Post(<<"portrait", "cameras">>, <<"trajectory.register_camera">>, "RegisterCameraRequest",
         "CameraRecord"),
    Get(<<"portrait", "cameras">>, <<"trajectory.list_cameras">>, "CameraRecord"),
    Patch(<<"portrait", "cameras", "*">>, <<"trajectory.update_camera">>, "UpdateCameraRequest",
         "CameraRecord"),
    Delete(<<"portrait", "cameras", "*">>, <<"trajectory.delete_camera">>),
    Get(<<"portrait", "cameras", "*", "transitions">>, <<"trajectory.list_camera_transitions">>,
         "CameraTransition"),
    Put(<<"portrait", "cameras", "*", "transitions">>, <<"trajectory.set_camera_transitions">>,
         "SetCameraTransitionsRequest", "CameraTransition"),
    Post(<<"portrait", "identities", "*", "enrollments">>, <<"portrait.enroll">>,
         "EnrollIdentityRequest", "PortraitEnrollment"),
    Post(<<"portrait", "identities", "*", "enrollments", "image">>, <<"portrait.enroll_image">>,
         "form", "PortraitEnrollment"),
    Post(<<"portrait", "search">>, <<"portrait.search">>, "PortraitSearchRequest",
         "PortraitSearchResponse")>>

PortraitRoutes3 == <<
    Post(<<"portrait", "search", "image">>, <<"portrait.search_image">>, "form",
         "PortraitSearchResponse"),
    Post(<<"portrait", "compare">>, <<"portrait.compare">>, "PortraitCompareRequest",
         "PortraitCompareResponse"),
    Post(<<"portrait", "compare", "images">>, <<"portrait.compare_images">>, "form",
         "PortraitCompareResponse"),
    Post(<<"portrait", "compare", "assets">>, <<"policy.require_allowed", "state.get_asset",
         "objects.get", "portrait.compare_images">>, "PortraitAssetCompareRequest",
         "PortraitCompareResponse"),
    Post(<<"portrait", "compare", "asset-image">>, <<"policy.require_allowed", "state.get_asset",
         "objects.get", "portrait.compare_images">>, "form", "PortraitCompareResponse")>>

PortraitRoutes4 == <<
    Post(<<"portrait", "compare", "image-asset">>, <<"policy.require_allowed", "state.get_asset",
         "objects.get", "portrait.compare_images">>, "form", "PortraitCompareResponse")>>

SearchRoutes1 == <<
    Post(<<"search", "text">>, <<"search.text">>, "SearchTextRequest", "SearchResponse"),
    Post(<<"search", "image">>, <<"search.portrait_image">>, "form", "SearchResponse"),
    Post(<<"search", "asset">>, <<"policy.require_allowed", "state.get_asset", "objects.get",
         "search.portrait_image">>, "SearchAssetRequest", "SearchResponse"),
    Post(<<"search", "saved">>, <<"search.create_saved_search">>, "CreateSavedSearchRequest",
         "SavedSearch"),
    Get(<<"search", "saved">>, <<"search.list_saved_searches">>, "SavedSearchPage"),
    Get(<<"search", "saved", "*">>, <<"search.get_saved_search">>, "SavedSearch"),
    Patch(<<"search", "saved", "*">>, <<"search.update_saved_search">>, "UpdateSavedSearchRequest",
         "SavedSearch"),
    Delete(<<"search", "saved", "*">>, <<"search.delete_saved_search">>),
    Post(<<"search", "saved", "*", "run">>, <<"search.run_saved_search">>, "none",
         "SearchResponse"),
    Get(<<"indexes">>, <<"policy.require_allowed", "indexes.list_indexes">>, "IndexDefinition")>>

SearchRoutes2 == <<
    Post(<<"indexes">>, <<"policy.require_allowed", "indexes.create_index", "audit.record">>,
         "IndexDefinition", "IndexDefinition"),
    Get(<<"indexes", "*", "records">>, <<"policy.require_allowed", "indexes.get_index",
         "indexes.list_records">>, "IndexRecordView"),
    Post(<<"indexes", "*", "query", "text">>, <<"policy.require_allowed", "indexes.get_index",
         "indexes.query_text", "audit.record">>, "IndexTextQueryRequest", "values"),
    Post(<<"indexes", "*", "query", "vector">>, <<"policy.require_allowed", "indexes.get_index",
         "indexes.query_vector", "audit.record">>, "IndexVectorQueryRequest", "IndexHit"),
    Post(<<"search", "ranking-profiles">>, <<"control_plane.create_search_profile">>,
         "CreateSearchRankingProfileRequest", "SearchRankingProfile"),
    Get(<<"search", "ranking-profiles">>, <<"control_plane.list_search_profiles">>,
         "SearchRankingProfile")>>

SearchRoutes3 == <<
    Post(<<"search", "index-backends">>, <<"control_plane.register_index_backend">>,
         "CreateIndexBackendRequest", "IndexBackend"),
    Get(<<"search", "index-backends">>, <<"control_plane.list_index_backends">>, "IndexBackend"),
    Post(<<"search", "index-backends", "*", "probe">>, <<"control_plane.probe_index_backend">>,
         "none", "IndexBackend"),
    Post(<<"search", "rerankers">>, <<"control_plane.register_search_reranker">>,
         "CreateSearchRerankerRequest", "SearchReranker"),
    Get(<<"search", "rerankers">>, <<"control_plane.list_search_rerankers">>, "SearchReranker"),
    Post(<<"search", "rerankers", "*", "probe">>, <<"control_plane.probe_search_reranker">>, "none",
         "SearchReranker"),
    Post(<<"search", "relevance-feedback">>, <<"control_plane.submit_search_feedback">>,
         "CreateSearchRelevanceFeedbackRequest", "SearchRelevanceFeedback"),
    Post(<<"search", "evaluations">>, <<"control_plane.evaluate_search">>,
         "CreateSearchEvaluationRequest", "SearchEvaluation"),
    Post(<<"indexes", "rebuild">>, <<"control_plane.rebuild_index">>, "CreateIndexRebuildRequest",
         "IndexRebuildJob")>>

EnterpriseRoutes == <<
    [Get(<<"enterprise", "status">>, <<"enterprise.status">>,
         "EnterpriseStatus") EXCEPT !.own = {503}],
    [Post(<<"enterprise", "sla", "evaluate">>, <<"enterprise.sla">>, "values",
         "SlaSnapshot") EXCEPT !.own = {503}],
    [Get(<<"enterprise", "incidents">>, <<"enterprise.list_incidents">>,
         "Incident") EXCEPT !.own = {503}],
    [Post(<<"enterprise", "incidents">>, <<"enterprise.create_incident">>, "CreateIncidentRequest",
         "Incident") EXCEPT !.own = {503}],
    [Post(<<"enterprise", "incidents", "*", "resolve">>, <<"enterprise.resolve_incident">>,
         "ResolveIncidentRequest", "Incident") EXCEPT !.own = {503}],
    [Get(<<"enterprise", "support", "cases">>, <<"enterprise.list_support_cases">>,
         "SupportCase") EXCEPT !.own = {503}],
    [Post(<<"enterprise", "support", "cases">>, <<"enterprise.create_support_case">>,
         "CreateSupportCaseRequest", "SupportCase") EXCEPT !.own = {503}],
    [Get(<<"enterprise", "compliance", "evidence">>, <<"enterprise.list_evidence">>,
         "ComplianceEvidence") EXCEPT !.own = {503}],
    [Post(<<"enterprise", "compliance", "evidence">>, <<"enterprise.create_evidence">>,
         "CreateComplianceEvidenceRequest", "ComplianceEvidence") EXCEPT !.own = {503}]>>

FeedbackRoutes1 == <<
    Get(<<"pipelines">>, <<"policy.require_allowed", "runs.sync_pipeline_catalog">>, "values"),
    Post(<<"pipelines", "*", "versions", "*", "transition">>, <<"runs.transition_pipeline">>,
         "PipelineTransitionRequest", "values"),
    Post(<<"feedback">>, <<"feedback.create">>, "CreateFeedbackRequest", "FeedbackRecord"),
    Get(<<"feedback">>, <<"feedback.feedback_records">>, "FeedbackRecord"),
    Post(<<"feedback", "*", "review">>, <<"feedback.review">>, "ReviewFeedbackRequest",
         "FeedbackRecord"),
    Post(<<"hard-sample-manifests">>, <<"feedback.create_manifest",
         "data.submit_hard_sample_manifest">>, "CreateHardSampleManifestRequest",
         "HardSampleManifest"),
    Get(<<"hard-sample-manifests">>, <<"feedback.list_manifests">>, "HardSampleManifest"),
    Post(<<"model-releases">>, <<"feedback.create_release">>, "CreateModelReleaseRequest",
         "ModelRelease"),
    Post(<<"model-packages", "admissions">>, <<"feedback.admit_package">>, "ModelPackageManifest",
         "ModelPackageManifest"),
    Get(<<"model-releases">>, <<"feedback.list_releases">>, "ModelRelease"),
    Post(<<"model-releases", "*", "versions", "*", "transition">>,
         <<"feedback.transition_release">>, "TransitionModelReleaseRequest", "ModelRelease"),
    Post(<<"model-releases", "*", "rollback">>, <<"feedback.rollback">>,
         "RollbackModelReleaseRequest", "ModelRelease"),
    Get(<<"model-deployment-events">>, <<"feedback.deployment_events">>, "ModelDeploymentEvent"),
    Post(<<"webhooks", "subscriptions">>, <<"webhooks.create">>, "CreateWebhookSubscriptionRequest",
         "WebhookSubscriptionView")>>

FeedbackRoutes2 == <<
    Get(<<"webhooks", "subscriptions">>, <<"webhooks.subscriptions">>, "WebhookSubscriptionView"),
    Delete(<<"webhooks", "subscriptions", "*">>, <<"webhooks.delete">>),
    Get(<<"webhooks", "deliveries">>, <<"webhooks.deliveries">>, "WebhookDeliveryRecord")>>

IamRoutes1 == <<
    Post(<<"platform", "identity-providers">>, <<"control_plane.create_identity_provider">>,
         "CreateIdentityProviderRequest", "IdentityProvider"),
    Get(<<"platform", "identity-providers">>, <<"control_plane.list_identity_providers">>,
         "IdentityProvider"),
    Post(<<"platform", "identity-providers", "*", "probe">>,
         <<"control_plane.probe_identity_provider">>, "none", "IdentityProvider"),
    [Post(<<"platform", "sessions">>, <<"access.is_user_disabled", "control_plane.create_session">>,
         "CreateSessionRequest", "SessionResponse") EXCEPT !.own = {403}],
    Post(<<"platform", "projects", "lifecycle-requests">>,
         <<"control_plane.request_project_lifecycle">>, "CreateProjectLifecycleRequest",
         "ProjectLifecycleRequest"),
    Get(<<"platform", "projects", "lifecycle-requests">>,
         <<"control_plane.list_project_lifecycle_requests">>, "ProjectLifecycleRequest"),
    Post(<<"platform", "projects", "lifecycle-requests", "*", "decide">>,
         <<"control_plane.decide_project_lifecycle">>, "DecideProjectLifecycleRequest",
         "ProjectLifecycleRequest"),
    Put(<<"platform", "audit", "retention">>, <<"control_plane.set_audit_retention_policy">>,
         "SetAuditRetentionPolicyRequest", "AuditRetentionPolicy"),
    Get(<<"platform", "audit", "retention">>, <<"control_plane.get_audit_retention_policy">>,
         "AuditRetentionPolicy"),
    Post(<<"platform", "audit", "purge">>, <<"control_plane.purge_audit_events">>,
         "PurgeAuditRequest", "PurgeAuditResponse"),
    Post(<<"platform", "lifecycle", "*", "*", "*">>, <<"control_plane.lifecycle">>, "none",
         "ResourceLifecycleRecord"),
    Post(<<"platform", "quotas", "plans">>, <<"control_plane.create_quota_plan">>,
         "CreateQuotaPlanRequest", "QuotaPlan"),
    Get(<<"platform", "quotas", "plans">>, <<"control_plane.list_quota_plans">>, "QuotaPlan")>>

IamRoutes2 == <<
    Post(<<"platform", "quotas", "check">>, <<"control_plane.check_quota">>, "QuotaCheckRequest",
         "QuotaCheckResponse"),
    Post(<<"platform", "billing", "accounts">>, <<"control_plane.create_billing_account">>,
         "CreateBillingAccountRequest", "BillingAccount"),
    Get(<<"platform", "billing", "accounts">>, <<"control_plane.list_billing_accounts">>,
         "BillingAccount"),
    Post(<<"platform", "billing", "meter-events">>, <<"control_plane.record_meter_event">>,
         "RecordMeterEventRequest", "MeterEvent"),
    Get(<<"platform", "billing", "usage">>, <<"control_plane.list_billing_usage">>, "BillingUsage"),
    Post(<<"platform", "billing", "seats">>, <<"control_plane.assign_billing_seat">>,
         "AssignSeatRequest", "SeatAssignment"),
    Get(<<"platform", "billing", "seats">>, <<"control_plane.list_billing_seats">>,
         "SeatAssignment")>>

DataRoutes == <<
    Post(<<"data", "annotation-tasks">>, <<"data.create_annotation_task">>,
         "CreateAnnotationTaskRequest", "AnnotationTask"),
    Get(<<"data", "annotation-tasks">>, <<"data.list_annotation_tasks">>, "AnnotationTask"),
    Post(<<"data", "annotation-providers">>, <<"data.register_annotation_provider">>,
         "CreateAnnotationProviderRequest", "AnnotationProvider"),
    Get(<<"data", "annotation-providers">>, <<"data.list_annotation_providers">>,
         "AnnotationProvider"),
    Post(<<"data", "annotation-providers", "*", "probe">>, <<"data.probe_annotation_provider">>,
         "none", "AnnotationProvider"),
    Post(<<"data", "annotation-tasks", "*", "review">>, <<"data.review_annotation_task">>,
         "ReviewAnnotationTaskRequest", "AnnotationTask"),
    Post(<<"platform", "model-metrics">>, <<"control_plane.record_model_metric">>,
         "ModelMetricPoint", "ModelMetricPoint"),
    Get(<<"platform", "model-health">>, <<"control_plane.model_health">>, "ModelHealthSnapshot"),
    Post(<<"platform", "model-health", "auto-rollback">>, <<"control_plane.model_health",
         "feedback.auto_rollback">>, "AutoRollbackModelRequest", "values")>>

FlowRoutes == <<
    Post(<<"flows">>, <<"control_plane.create_flow">>, "CreateFlowRequest", "FlowDefinition"),
    Get(<<"flows">>, <<"control_plane.list_flows">>, "FlowDefinition"),
    Post(<<"flows", "*", "execute">>, <<"control_plane.execute_flow">>, "ExecuteFlowRequest",
         "FlowExecution"),
    Get(<<"flows", "*", "executions", "*", "approvals">>, <<"control_plane.list_flow_approvals">>,
         "FlowApproval"),
    Post(<<"flows", "approvals", "*", "decide">>, <<"control_plane.decide_flow_approval">>,
         "DecideApprovalRequest", "FlowApproval")>>

IntelligenceRoutes == <<
    Post(<<"portrait", "clusters">>, <<"control_plane.create_cluster">>,
         "CreatePortraitClusterRequest", "PortraitCluster"),
    Get(<<"portrait", "clusters">>, <<"control_plane.list_clusters">>, "PortraitCluster"),
    Post(<<"portrait", "associations">>, <<"control_plane.create_association">>,
         "CreatePortraitAssociationRequest", "PortraitAssociation"),
    Get(<<"portrait", "associations">>, <<"control_plane.list_associations">>,
         "PortraitAssociation"),
    Post(<<"portrait", "events">>, <<"control_plane.create_event">>, "CreatePortraitEventRequest",
         "PortraitEvent"),
    Get(<<"portrait", "events">>, <<"control_plane.list_events">>, "PortraitEvent")>>

EdgeRoutes == <<
    Post(<<"edge", "devices">>, <<"control_plane.register_device">>, "RegisterEdgeDeviceRequest",
         "EdgeDevice"),
    Get(<<"edge", "devices">>, <<"control_plane.list_devices">>, "EdgeDevice"),
    Post(<<"edge", "deployments">>, <<"control_plane.deploy_edge">>, "CreateEdgeDeploymentRequest",
         "EdgeDeployment"),
    Get(<<"edge", "deployments">>, <<"control_plane.list_edge_deployments">>, "EdgeDeployment"),
    Post(<<"edge", "deployments", "*", "acknowledge">>,
         <<"control_plane.acknowledge_edge_deployment">>, "AcknowledgeEdgeDeploymentRequest",
         "EdgeDeployment"),
    Post(<<"edge", "devices", "*", "sync">>, <<"control_plane.edge_sync">>, "none", "EdgeSyncItem"),
    Post(<<"edge", "devices", "*", "heartbeat">>, <<"control_plane.edge_heartbeat">>,
         "EdgeHeartbeatRequest", "EdgeDevice"),
    Post(<<"edge", "sync", "*", "acknowledge">>, <<"control_plane.acknowledge_edge_sync">>,
         "AcknowledgeEdgeSyncRequest", "EdgeSyncItem")>>

AgentRoutes == <<
    Post(<<"agents", "tools">>, <<"control_plane.register_tool">>, "RegisterAgentToolRequest",
         "AgentTool"),
    Get(<<"agents", "tools">>, <<"control_plane.list_tools">>, "AgentTool"),
    Post(<<"agents", "actions">>, <<"control_plane.propose_action">>, "ProposeAgentActionRequest",
         "AgentAction"),
    Post(<<"agents", "actions", "*", "decide">>, <<"control_plane.decide_action">>,
         "ApproveAgentActionRequest", "AgentAction"),
    Post(<<"agents", "actions", "*", "execute">>, <<"control_plane.execute_action">>, "none",
         "AgentAction"),
    Post(<<"agents", "traces">>, <<"control_plane.record_agent_trace">>, "CreateAgentTraceRequest",
         "AgentTrace"),
    Get(<<"agents", "traces">>, <<"control_plane.list_agent_traces">>, "AgentTrace"),
    Post(<<"agents", "evaluations">>, <<"control_plane.record_agent_evaluation">>,
         "CreateAgentEvaluationRequest", "AgentEvaluation"),
    Get(<<"agents", "evaluations">>, <<"control_plane.list_agent_evaluations">>, "AgentEvaluation"),
    Put(<<"agents", "memory">>, <<"control_plane.put_agent_memory">>, "PutAgentMemoryRequest",
         "AgentMemoryEntry"),
    Get(<<"agents", "memory">>, <<"control_plane.get_agent_memory">>, "AgentMemoryEntry")>>

OperationRoutes == <<
    Post(<<"platform", "workers">>, <<"control_plane.register_worker">>, "RegisterWorkerRequest",
         "WorkerLease"),
    Post(<<"platform", "workers", "*", "heartbeat">>, <<"control_plane.heartbeat_worker">>,
         "WorkerHeartbeatRequest", "WorkerLease"),
    Get(<<"platform", "workers">>, <<"control_plane.list_workers">>, "WorkerLease"),
    Get(<<"platform", "deployment", "topology">>, <<"control_plane.topology">>,
         "DeploymentTopology"),
    Get(<<"system", "status">>, <<"policy.require_allowed">>, "SystemStatus")>>

ServerRoutes == <<
    [Get(<<>>, <<>>, "values") EXCEPT !.path = <<"healthz">>, !.auth = FALSE],
    [Get(<<>>, <<>>, "values") EXCEPT !.path = <<"livez">>, !.auth = FALSE],
    [Get(<<>>, <<>>, "values") EXCEPT !.path = <<"readyz">>, !.auth = FALSE, !.own = {503}],
    [Post(<<>>, <<"state.append_external_event_audit">>, "DataEventEnvelope",
         "raw") EXCEPT !.path = <<"internal", "v1", "data", "events">>, !.auth = FALSE,
         !.own = {400, 401}],
    [Get(<<>>, <<"policy.require_allowed">>, "raw") EXCEPT !.path = <<"metrics">>],
    [Get(<<>>, <<>>, "raw") EXCEPT !.path = <<>>, !.auth = FALSE],
    [Get(<<>>, <<>>, "raw") EXCEPT !.path = <<"console", "favicon.svg">>, !.auth = FALSE,
         !.own = {503}],
    [Get(<<>>, <<>>, "raw") EXCEPT !.path = <<"console", "*">>, !.auth = FALSE, !.own = {503}],
    [Get(<<>>, <<>>, "raw") EXCEPT !.path = <<"console">>, !.auth = FALSE, !.own = {503}]>>
------------------------------------------------------------------------------
\* The order in which create_app includes the routers, and then adds its own.
Routes ==
    AuditRoutes \o AccessRoutes1 \o AccessRoutes2 \o CatalogRoutes \o DatasetRoutes \o
    MediaRoutes1 \o MediaRoutes2 \o RunRoutes1 \o RunRoutes2 \o SurveillanceRoutes1 \o
    SurveillanceRoutes2 \o SurveillanceRoutes3 \o ParseRoutes1 \o ParseRoutes2 \o
    PortraitRoutes1 \o PortraitRoutes2 \o PortraitRoutes3 \o PortraitRoutes4 \o SearchRoutes1 \o
    SearchRoutes2 \o SearchRoutes3 \o EnterpriseRoutes \o FeedbackRoutes1 \o FeedbackRoutes2 \o
    IamRoutes1 \o IamRoutes2 \o DataRoutes \o FlowRoutes \o IntelligenceRoutes \o EdgeRoutes \o
    AgentRoutes \o OperationRoutes \o ServerRoutes
==============================================================================
