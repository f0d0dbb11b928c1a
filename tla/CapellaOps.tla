------------------------------ MODULE CapellaOps ------------------------------
(* The registry of Capella v4 operations (handlers/capella/spec.py): for each    *)
(* tool the method, how deep its path goes in organization / project / cluster,  *)
(* and the flags dispatch and guardrails read.  Schemas, summaries and the       *)
(* verification record carry no control and are left out.                        *)
EXTENDS Naturals

Ops(method, place, flags, names) ==
  [name : names, method : {method}, place : {place}, flags : {flags}]

ProjectOps ==
         Ops("GET", "top", {"paginated"}, {"organizations_list"})
  \union Ops("GET", "organization", {"paginated"}, {"projects_list"})
  \union Ops("GET", "project", {}, {"project_get"})
  \union Ops("POST", "organization", {"guarded"}, {"project_create"})
  \union Ops("PUT", "project", {"guarded"}, {"project_update"})
  \union Ops("DELETE", "project", {"destructive", "guarded"}, {"project_delete"})
  \union Ops("GET", "project", {"paginated"}, {"clusters_list"})
  \union Ops("GET", "cluster", {}, {"cluster_get"})
  \union Ops("POST", "project", {"guarded"}, {"cluster_create"})

PowerOps ==
         Ops("PUT", "cluster", {"guarded"}, {"cluster_update"})
  \union Ops("DELETE", "cluster", {"destructive", "guarded"}, {"cluster_delete"})
  \union Ops("POST", "cluster", {"guarded"},
             {"cluster_turn_on", "cluster_onoff_schedule_set"})
  \union Ops("DELETE", "cluster", {"guarded"}, {"cluster_turn_off"})
  \union Ops("GET", "cluster", {}, {"cluster_onoff_schedule_get"})

DataApiOps ==
         Ops("GET", "cluster", {}, {"data_api_get", "bucket_get"})
  \union Ops("PUT", "cluster", {"guarded"},
             {"data_api_set", "cluster_onoff_schedule_update"})
  \union Ops("DELETE", "cluster", {"destructive", "guarded"},
             {"cluster_onoff_schedule_delete"})
  \union Ops("GET", "cluster", {"paginated"}, {"buckets_list"})
  \union Ops("POST", "cluster", {"guarded"}, {"bucket_create"})

BucketOps ==
         Ops("PUT", "cluster", {"guarded"}, {"bucket_update", "collection_update"})
  \union Ops("DELETE", "cluster", {"destructive", "guarded"},
             {"bucket_delete", "scope_delete"})
  \union Ops("PUT", "cluster", {"destructive", "guarded"}, {"bucket_flush"})
  \union Ops("GET", "cluster", {}, {"scopes_list", "collections_list"})
  \union Ops("POST", "cluster", {"guarded"}, {"scope_create", "collection_create"})

CollectionOps ==
         Ops("DELETE", "cluster", {"destructive", "guarded"},
             {"collection_delete", "sample_bucket_delete", "bucket_backup_schedule_delete"})
  \union Ops("GET", "cluster", {},
             {"app_service_admin_user_get", "sample_buckets_list", "sample_bucket_get",
             "bucket_backup_cycles_list", "bucket_backup_schedules_list",
             "bucket_backup_cycle_get"})

CredentialOps ==
         Ops("POST", "cluster", {"guarded"}, {"sample_bucket_load"})
  \union Ops("GET", "cluster", {"paginated"},
             {"database_credentials_list", "allowed_cidrs_list"})
  \union Ops("GET", "cluster", {}, {"database_credential_get"})
  \union Ops("POST", "cluster", {"guarded", "sensitive"}, {"database_credential_create"})
  \union Ops("PUT", "cluster", {"guarded", "sensitive"}, {"database_credential_update"})
  \union Ops("DELETE", "cluster", {"destructive", "guarded"},
             {"database_credential_delete"})

AppServiceOps ==
         Ops("POST", "cluster", {"guarded"},
             {"allowed_cidr_create", "app_service_create", "app_service_turn_on"})
  \union Ops("DELETE", "cluster", {"destructive", "guarded"},
             {"allowed_cidr_delete", "app_service_delete"})
  \union Ops("GET", "organization", {"paginated"}, {"app_services_list"})
  \union Ops("GET", "cluster", {}, {"app_service_get"})
  \union Ops("PUT", "cluster", {"guarded"}, {"app_service_update"})

AppServiceAccessOps ==
         Ops("DELETE", "cluster", {"guarded"}, {"app_service_turn_off"})
  \union Ops("GET", "cluster", {}, {"app_service_certificate_get"})
  \union Ops("GET", "cluster", {"paginated"},
             {"app_service_allowed_cidrs_list", "app_service_admin_users_list",
             "app_endpoints_list"})
  \union Ops("POST", "cluster", {"guarded"}, {"app_service_allowed_cidr_create"})
  \union Ops("DELETE", "cluster", {"destructive", "guarded"},
             {"app_service_allowed_cidr_delete", "app_service_admin_user_delete"})
  \union Ops("POST", "cluster", {"guarded", "sensitive"},
             {"app_service_admin_user_create"})

AppEndpointOps ==
         Ops("GET", "cluster", {}, {"app_endpoint_get"})
  \union Ops("POST", "cluster", {"guarded"},
             {"app_endpoint_create", "app_endpoint_online"})
  \union Ops("PUT", "cluster", {"guarded"}, {"app_endpoint_update"})
  \union Ops("DELETE", "cluster", {"destructive", "guarded"}, {"app_endpoint_delete"})
  \union Ops("DELETE", "cluster", {"guarded"}, {"app_endpoint_offline"})

AppEndpointCodeOps ==
         Ops("PUT", "cluster", {"guarded"},
             {"app_endpoint_access_control_function_set", "app_endpoint_import_filter_set"})
  \union Ops("GET", "cluster", {},
             {"app_endpoint_access_control_function_get", "app_endpoint_import_filter_get"})

AppEndpointStateOps ==
         Ops("DELETE", "cluster", {"destructive", "guarded"},
             {"app_endpoint_import_filter_delete",
             "app_endpoint_access_control_function_delete", "app_endpoint_resync_stop"})
  \union Ops("GET", "cluster", {},
             {"app_endpoint_cors_get", "app_endpoint_admin_users_list",
             "app_endpoint_collections_list"})
  \union Ops("PUT", "cluster", {"guarded"}, {"app_endpoint_cors_set"})
  \union Ops("POST", "cluster", {"guarded"}, {"app_endpoint_resync_start"})

BackupOps ==
         Ops("GET", "cluster", {},
             {"app_endpoint_resync_status", "cluster_certificate_get"})
  \union Ops("GET", "organization", {"paginated"}, {"events_list"})
  \union Ops("GET", "project", {"paginated"}, {"project_events_list"})
  \union Ops("POST", "cluster", {}, {"backup_create"})
  \union Ops("GET", "cluster", {"paginated"}, {"backups_list", "eventing_functions_list"})
  \union Ops("POST", "cluster", {"guarded"},
             {"query_index_manage", "eventing_function_create"})

ReplicationOps ==
         Ops("GET", "cluster", {"paginated"},
             {"replications_list", "cluster_audit_log_events_list",
             "cluster_audit_log_exports_list"})
  \union Ops("POST", "cluster", {"guarded"}, {"replication_create"})
  \union Ops("GET", "cluster", {}, {"cluster_stats_get", "cluster_audit_log_config_get"})
  \union Ops("GET", "project", {}, {"event_get"})
  \union Ops("PUT", "cluster", {"guarded"}, {"cluster_audit_log_config_set"})
  \union Ops("POST", "cluster", {}, {"cluster_audit_log_export_create"})

EventingOps ==
         Ops("GET", "project", {"paginated"}, {"alert_integrations_list"})
  \union Ops("POST", "project", {"guarded"},
             {"alert_integration_create", "alert_integration_test"})
  \union Ops("GET", "cluster", {},
             {"eventing_function_get", "eventing_function_code_get",
             "eventing_function_logs_get", "replication_get"})
  \union Ops("DELETE", "cluster", {"destructive", "guarded"}, {"eventing_function_delete"})
  \union Ops("PUT", "cluster", {"guarded"},
             {"eventing_function_update", "eventing_function_state_set"})

SnapshotOps ==
         Ops("DELETE", "cluster", {"destructive", "guarded"},
             {"replication_delete", "backup_cycle_delete"})
  \union Ops("GET", "cluster", {"paginated"},
             {"cloud_snapshot_backups_list", "cloud_snapshot_restores_list"})
  \union Ops("GET", "cluster", {}, {"cloud_snapshot_regions_list", "backup_get"})

RestoreOps ==
         Ops("POST", "cluster", {"destructive", "guarded"}, {"backup_restore"})
  \union Ops("GET", "cluster", {},
             {"query_index_definitions_list", "query_index_properties_get"})

AlertOps ==
         Ops("GET", "cluster", {}, {"query_index_build_status"})
  \union Ops("GET", "cluster", {"sensitive"}, {"cluster_audit_log_export_get"})
  \union Ops("GET", "project", {"sensitive"}, {"alert_integration_get"})
  \union Ops("PUT", "project", {"guarded"}, {"alert_integration_update"})
  \union Ops("DELETE", "project", {"destructive", "guarded"}, {"alert_integration_delete"})
  \union Ops("PUT", "cluster", {"guarded"}, {"eventing_function_code_set"})
Registry ==
  ProjectOps \union PowerOps \union DataApiOps \union BucketOps \union CollectionOps
  \union CredentialOps \union AppServiceOps \union AppServiceAccessOps
  \union AppEndpointOps \union AppEndpointCodeOps \union AppEndpointStateOps
  \union BackupOps \union ReplicationOps \union EventingOps \union SnapshotOps
  \union RestoreOps \union AlertOps

OpNames == {op.name : op \in Registry}
OpsByName == [n \in OpNames |-> CHOOSE op \in Registry : op.name = n]

\* read_only is set on the GETs and on nothing else.
ReadOnly(name) == OpsByName[name].method = "GET"
Has(name, flag) == flag \in OpsByName[name].flags
================================================================================
