------------------------------- MODULE AdminOps -------------------------------
(* The registry of the self-managed tools (handlers, without the fixtures): what *)
(* the TOOLS of each module tell a client about a tool, and what its handle does: *)
(* the request it ends in and what it does first.  Schemas, descriptions and the  *)
(* shape of each answer are left out.  The admin_ prefix of the names is dropped. *)
EXTENDS Naturals

Hinted(hint, names) == [name : names, hint : {hint}]

\* request: the method of the REST request, QUERY or DDL for a statement through the
\* SDK, or nothing.  flags: direct, flat, nested (a destination is authorised, and
\* how); declared (arguments the schema has not are refused); merge (the settings are
\* read first and written back whole); statement (the caller may give the SQL++);
\* gate (asks for 8.x first); probes (asks for the version only to tell it); computes
\* (a POST that only computes an answer).
Requests(request, flags, names) == [name : names, request : {request}, flags : {flags}]

ClusterTools1 ==
         Hinted("read",
             {"cluster_info", "cluster_details", "cluster_tasks", "node_list",
             "node_services_list"})
  \union Hinted("write", {"cluster_name_set"})
  \union Hinted("destructive",
             {"cluster_memory_set", "node_add", "node_remove", "rebalance_start"})

ClusterTools2 ==
         Hinted("read", {"rebalance_progress", "autofailover_get", "server_groups_get"})
  \union Hinted("write", {"recovery_type_set", "autofailover_reset", "server_group_create"})
  \union Hinted("destructive",
             {"rebalance_stop", "failover_hard", "failover_graceful", "autofailover_set"})

ClusterTools3 ==
         Hinted("read", {"autocompaction_get", "alerts_get"})
  \union Hinted("write",
             {"server_group_rename", "logs_collect_cancel", "autocompaction_set"})
  \union Hinted("destructive", {"server_group_delete", "logs_collect_start"})

ClusterTools4 ==
         Hinted("write", {"alerts_set", "alerts_test_email"})

SecurityTools1 ==
         Hinted("read", {"user_list", "user_get", "group_list", "group_get"})
  \union Hinted("write", {"group_create"})
  \union Hinted("destructive", {"user_create", "user_delete", "user_change_password"})

SecurityTools2 ==
         Hinted("read",
             {"role_list", "whoami", "audit_get", "password_policy_get",
             "security_settings_get"})
  \union Hinted("destructive", {"group_delete", "audit_set", "password_policy_set"})

SecurityTools3 ==
         Hinted("destructive", {"security_settings_set"})

BucketsTools1 ==
         Hinted("read", {"bucket_list", "bucket_get"})
  \union Hinted("write", {"bucket_create", "bucket_compact", "bucket_cancel_compaction"})
  \union Hinted("destructive", {"bucket_update", "bucket_delete", "bucket_flush"})

BucketsTools2 ==
         Hinted("read", {"sample_buckets_list"})
  \union Hinted("write", {"sample_buckets_install"})

CollectionsTools ==
         Hinted("read", {"scope_list"})
  \union Hinted("write", {"scope_create", "collection_create"})
  \union Hinted("destructive", {"scope_delete", "collection_delete"})

XdcrTools1 ==
         Hinted("read", {"xdcr_references_list", "xdcr_replications_list"})
  \union Hinted("write", {"xdcr_reference_create"})
  \union Hinted("destructive", {"xdcr_reference_delete", "xdcr_replication_create"})

XdcrTools2 ==
         Hinted("read", {"xdcr_settings_get"})
  \union Hinted("write",
             {"xdcr_replication_pause", "xdcr_replication_resume", "xdcr_settings_set"})
  \union Hinted("destructive", {"xdcr_replication_delete"})

IndexesTools1 ==
         Hinted("read", {"index_list", "index_settings_get"})
  \union Hinted("write", {"index_create", "index_build"})
  \union Hinted("destructive", {"index_drop"})

IndexesTools2 ==
         Hinted("write", {"index_settings_set"})

EventingTools1 ==
         Hinted("read", {"eventing_list", "eventing_get"})
  \union Hinted("write", {"eventing_pause"})
  \union Hinted("destructive",
             {"eventing_create_or_update", "eventing_delete", "eventing_deploy",
             "eventing_undeploy"})

EventingTools2 ==
         Hinted("read", {"eventing_stats", "eventing_status"})
  \union Hinted("write", {"eventing_resume"})

SearchTools ==
         Hinted("read",
             {"fts_index_list", "fts_index_get", "fts_index_stats", "fts_index_doc_count",
             "fts_settings_get"})
  \union Hinted("write", {"fts_index_ingest_pause", "fts_index_ingest_resume"})
  \union Hinted("destructive", {"fts_index_create", "fts_index_delete"})

StatsTools1 ==
         Hinted("read",
             {"stats_bucket", "stats_single", "stats_multi", "system_events",
             "node_self_info", "internal_settings_get"})

StatsTools2 ==
         Hinted("read", {"query_settings_get", "prometheus_targets"})
  \union Hinted("write", {"query_settings_set"})
  \union Hinted("destructive", {"internal_settings_set"})

EncryptionTools ==
         Hinted("read", {"encryption_get", "kmip_get"})
  \union Hinted("destructive", {"encryption_set", "kmip_set"})

EightXTools1 ==
         Hinted("write",
             {"vector_index_create_hyperscale", "vector_index_create_composite",
             "user_unlock"})
  \union Hinted("destructive", {"user_lock"})

EightXTools2 ==
         Hinted("read", {"xdcr_conflict_log_query"})
  \union Hinted("destructive", {"user_create_temporary"})

DiagnosticsTools1 ==
         Hinted("read",
             {"cb_get_schema_for_collection", "cb_index_advisor", "cb_explain_query",
             "cb_perf_longest_running", "cb_perf_most_frequent", "cb_perf_largest_responses"})

DiagnosticsTools2 ==
         Hinted("read",
             {"cb_perf_large_result_count", "cb_perf_using_primary_index",
             "cb_perf_not_using_covering_index", "cb_perf_not_selective"})

BackupTools1 ==
         Hinted("read",
             {"backup_repository_list", "backup_plans_list", "backup_repository_get",
             "backup_list"})
  \union Hinted("write", {"backup_repository_create", "backup_run"})

BackupTools2 ==
         Hinted("destructive", {"backup_restore_run"})

CatalogTools1 ==
         Hinted("read", {"cb_backup_catalog_list", "cb_backup_catalog_get"})
  \union Hinted("write", {"cb_backup_catalog_record", "cb_backup_catalog_update"})

CatalogTools2 ==
         Hinted("write", {"cb_backup_catalog_sync"})
  \union Hinted("destructive", {"cb_backup_catalog_delete"})

StatusTools ==
         Hinted("read", {"cb_mcp_status", "cb_mcp_list_tools", "cb_mcp_get_tool_info"})

Tools ==
  ClusterTools1 \union ClusterTools2 \union ClusterTools3 \union ClusterTools4
  \union SecurityTools1 \union SecurityTools2 \union SecurityTools3
  \union BucketsTools1 \union BucketsTools2 \union CollectionsTools \union XdcrTools1
  \union XdcrTools2 \union IndexesTools1 \union IndexesTools2 \union EventingTools1
  \union EventingTools2 \union SearchTools \union StatsTools1 \union StatsTools2
  \union EncryptionTools \union EightXTools1 \union EightXTools2
  \union DiagnosticsTools1 \union DiagnosticsTools2 \union BackupTools1
  \union BackupTools2 \union CatalogTools1 \union CatalogTools2 \union StatusTools
--------------------------------------------------------------------------------
ClusterCalls1 ==
         Requests("DELETE", {}, {"server_group_delete"})
  \union Requests("GET", {},
             {"cluster_info", "cluster_details", "cluster_tasks", "node_list",
             "node_services_list", "rebalance_progress", "autofailover_get",
             "server_groups_get"})
  \union Requests("POST", {},
             {"cluster_name_set", "node_remove", "rebalance_start", "rebalance_stop",
             "failover_hard", "failover_graceful", "recovery_type_set", "autofailover_set",
             "autofailover_reset", "server_group_create"})
  \union Requests("POST", {"declared"}, {"cluster_memory_set"})
  \union Requests("POST", {"direct"}, {"node_add"})

ClusterCalls2 ==
         Requests("GET", {}, {"autocompaction_get", "alerts_get"})
  \union Requests("POST", {}, {"logs_collect_cancel", "alerts_test_email"})
  \union Requests("PUT", {}, {"server_group_rename"})
  \union Requests("POST", {"declared"}, {"autocompaction_set"})
  \union Requests("POST", {"direct"}, {"logs_collect_start"})
  \union Requests("POST", {"declared", "direct", "merge"}, {"alerts_set"})

SecurityCalls1 ==
         Requests("DELETE", {}, {"user_delete", "group_delete"})
  \union Requests("GET", {},
             {"user_list", "user_get", "group_list", "group_get", "role_list", "whoami",
             "audit_get", "password_policy_get", "security_settings_get"})
  \union Requests("PUT", {}, {"user_create", "group_create"})
  \union Requests("POST", {"declared"}, {"audit_set", "password_policy_set"})
  \union Requests("PUT", {"merge"}, {"user_change_password"})

SecurityCalls2 ==
         Requests("POST", {"declared"}, {"security_settings_set"})

BucketsCalls ==
         Requests("DELETE", {}, {"bucket_delete"})
  \union Requests("GET", {}, {"bucket_list", "bucket_get", "sample_buckets_list"})
  \union Requests("POST", {},
             {"bucket_create", "bucket_update", "bucket_flush", "bucket_compact",
             "bucket_cancel_compaction", "sample_buckets_install"})

CollectionsCalls ==
         Requests("DELETE", {}, {"scope_delete", "collection_delete"})
  \union Requests("GET", {}, {"scope_list"})
  \union Requests("POST", {}, {"scope_create", "collection_create"})

XdcrCalls ==
         Requests("DELETE", {}, {"xdcr_reference_delete", "xdcr_replication_delete"})
  \union Requests("GET", {},
             {"xdcr_references_list", "xdcr_replications_list", "xdcr_settings_get"})
  \union Requests("POST", {},
             {"xdcr_replication_create", "xdcr_replication_pause", "xdcr_replication_resume"})
  \union Requests("POST", {"declared"}, {"xdcr_settings_set"})
  \union Requests("POST", {"direct"}, {"xdcr_reference_create"})

IndexesCalls1 ==
         Requests("QUERY", {}, {"index_list"})
  \union Requests("DDL", {"statement"}, {"index_create", "index_drop"})

IndexesCalls2 ==
         Requests("DDL", {}, {"index_build"})
  \union Requests("GET", {}, {"index_settings_get"})
  \union Requests("POST", {"declared"}, {"index_settings_set"})

EventingCalls ==
         Requests("DELETE", {}, {"eventing_delete"})
  \union Requests("GET", {},
             {"eventing_list", "eventing_get", "eventing_stats", "eventing_status"})
  \union Requests("POST", {},
             {"eventing_deploy", "eventing_undeploy", "eventing_pause", "eventing_resume"})
  \union Requests("POST", {"nested"}, {"eventing_create_or_update"})

SearchCalls ==
         Requests("DELETE", {}, {"fts_index_delete"})
  \union Requests("GET", {},
             {"fts_index_list", "fts_index_get", "fts_index_stats", "fts_index_doc_count",
             "fts_settings_get"})
  \union Requests("POST", {}, {"fts_index_ingest_pause", "fts_index_ingest_resume"})
  \union Requests("PUT", {"nested"}, {"fts_index_create"})

StatsCalls ==
         Requests("GET", {},
             {"stats_bucket", "stats_single", "system_events", "node_self_info",
             "internal_settings_get", "query_settings_get", "prometheus_targets"})
  \union Requests("POST", {}, {"internal_settings_set"})
  \union Requests("POST", {"computes"}, {"stats_multi"})
  \union Requests("POST", {"declared"}, {"query_settings_set"})

EncryptionCalls ==
         Requests("GET", {}, {"encryption_get", "kmip_get"})
  \union Requests("POST", {"flat"}, {"encryption_set"})
  \union Requests("nothing", {"flat"}, {"kmip_set"})

EightXCalls ==
         Requests("DDL", {"gate"},
             {"vector_index_create_hyperscale", "vector_index_create_composite"})
  \union Requests("POST", {"gate"}, {"user_lock", "user_unlock"})
  \union Requests("PUT", {"gate"}, {"user_create_temporary"})
  \union Requests("QUERY", {"gate"}, {"xdcr_conflict_log_query"})

DiagnosticsCalls ==
         Requests("QUERY", {},
             {"cb_get_schema_for_collection", "cb_perf_longest_running",
             "cb_perf_most_frequent", "cb_perf_largest_responses",
             "cb_perf_large_result_count", "cb_perf_using_primary_index",
             "cb_perf_not_using_covering_index", "cb_perf_not_selective"})
  \union Requests("QUERY", {"statement"}, {"cb_index_advisor", "cb_explain_query"})

BackupCalls ==
         Requests("GET", {},
             {"backup_repository_list", "backup_plans_list", "backup_repository_get",
             "backup_list"})
  \union Requests("POST", {}, {"backup_run"})
  \union Requests("POST", {"nested"}, {"backup_repository_create", "backup_restore_run"})

StatusCalls ==
         Requests("nothing", {}, {"cb_mcp_list_tools", "cb_mcp_get_tool_info"})
  \union Requests("nothing", {"probes"}, {"cb_mcp_status"})

CallsOfTools ==
  ClusterCalls1 \union ClusterCalls2 \union SecurityCalls1 \union SecurityCalls2
  \union BucketsCalls \union CollectionsCalls \union XdcrCalls \union IndexesCalls1
  \union IndexesCalls2 \union EventingCalls \union SearchCalls \union StatsCalls
  \union EncryptionCalls \union EightXCalls \union DiagnosticsCalls \union BackupCalls
  \union StatusCalls

ToolNames == {t.name : t \in Tools}
HintOf == [n \in ToolNames |-> (CHOOSE t \in Tools : t.name = n).hint]

CallNames == {c.name : c \in CallsOfTools}
CallOf == [n \in CallNames |-> CHOOSE c \in CallsOfTools : c.name = n]
Request(name) == CallOf[name].request
Does(name, flag) == flag \in CallOf[name].flags
================================================================================
