--------------------------- MODULE CKANOperations ---------------------------
(***************************************************************************)
(* The operations of the CKAN services                                     *)
(* (src/src/datasluice/connectors/catalog/ckan/services/ and the native    *)
(* groups of ckan/clients.py), with the mutation class the checked-in      *)
(* action manifest gives each action.  Every action is a POST.             *)
(***************************************************************************)
EXTENDS CatalogOperations

Looks(names) == Reads(names)

Changes(names) == {[r EXCEPT !.guard = "none"] : r \in Writes(names)}

Purges(names) == {[r EXCEPT !.guard = "none"] : r \in Deletions(names)}

CKANSyncDatasets == Sync("ckan",
    Looks({"package_list", "current_package_list_with_resources", "package_show",
        "package_search", "package_autocomplete"})
    \cup Changes({"package_create", "package_update", "package_patch", "package_revise",
        "package_resource_reorder", "package_owner_org_update", "package_delete"})
    \cup Purges({"dataset_purge"}))

CKANSyncDatasetsMore == Sync("ckan",
    Looks({"package_collaborator_list", "package_collaborator_list_for_user"})
    \cup Changes({"bulk_update_private", "bulk_update_public", "bulk_update_delete",
        "package_collaborator_create", "package_collaborator_delete"}))

CKANAsyncDatasets == Awaited(CKANSyncDatasets)

CKANAsyncDatasetsMore == Awaited(CKANSyncDatasetsMore)

-----------------------------------------------------------------------------

CKANSyncDatastore == Sync("ckan",
    Looks({"datastore_search", "datastore_info", "datastore_search_sql"})
    \cup Changes({"datastore_create", "datastore_upsert", "datastore_records_delete",
        "datastore_function_create", "datastore_function_delete",
        "datastore_run_triggers"})
    \cup Purges({"datastore_delete"}))

CKANAsyncDatastore == Awaited(CKANSyncDatastore)

-----------------------------------------------------------------------------

CKANSyncExtensions == Sync("ckan",
    Looks({"job_list", "job_show", "task_status_show", "config_option_show",
        "config_option_list"})
    \cup Changes({"job_cancel", "task_status_update", "task_status_update_many",
        "config_option_update"})
    \cup Purges({"job_clear", "task_status_delete"}))

CKANAsyncExtensions == Awaited(CKANSyncExtensions)

-----------------------------------------------------------------------------

CKANSyncGroups == Sync("ckan",
    Looks({"group_list", "group_list_authz", "group_show", "group_package_show",
        "group_autocomplete"})
    \cup Changes({"group_create", "group_update", "group_patch", "group_delete",
        "group_member_create", "group_member_delete"})
    \cup Purges({"group_purge"}))

CKANAsyncGroups == Awaited(CKANSyncGroups)

-----------------------------------------------------------------------------

CKANSyncOrganizations == Sync("ckan",
    Looks({"organization_list", "organization_list_for_user", "organization_show",
        "organization_autocomplete", "member_list", "member_roles_list"})
    \cup Changes({"organization_create", "organization_update", "organization_patch",
        "organization_delete", "organization_member_create",
        "organization_member_delete", "member_create", "member_delete"})
    \cup Purges({"organization_purge"}))

CKANAsyncOrganizations == Awaited(CKANSyncOrganizations)

-----------------------------------------------------------------------------

CKANSyncRelationshipsActivity == Sync("ckan",
    Looks({"package_relationships_list", "am_following_dataset",
        "am_following_group", "am_following_user", "dataset_follower_count",
        "dataset_follower_list", "group_follower_count", "group_follower_list",
        "organization_follower_count", "organization_follower_list",
        "user_follower_count", "user_follower_list", "dataset_followee_count",
        "dataset_followee_list", "group_followee_count", "group_followee_list",
        "organization_followee_count", "organization_followee_list",
        "user_followee_count", "user_followee_list", "followee_count",
        "followee_list", "package_activity_list"})
    \cup Changes({"package_relationship_create", "package_relationship_update",
        "package_relationship_delete", "follow_dataset", "unfollow_dataset",
        "follow_group", "unfollow_group", "follow_user", "unfollow_user"}))

CKANSyncRelationshipsActivityMore == Sync("ckan",
    Looks({"group_activity_list", "organization_activity_list", "user_activity_list",
        "recently_changed_packages_activity_list", "dashboard_activity_list",
        "dashboard_new_activities_count", "activity_show", "activity_data_show",
        "activity_diff"})
    \cup Changes({"dashboard_mark_activities_old", "activity_create",
        "send_email_notifications"}))

CKANAsyncRelationshipsActivity == Async("ckan",
    Looks({"package_relationships_list", "am_following_dataset",
        "am_following_group", "am_following_user", "dataset_follower_count",
        "dataset_follower_list", "group_follower_count", "group_follower_list",
        "organization_follower_count", "organization_follower_list",
        "user_follower_count", "user_follower_list", "dataset_followee_count",
        "dataset_followee_list", "group_followee_count", "group_followee_list",
        "organization_followee_count", "organization_followee_list",
        "user_followee_count", "user_followee_list", "followee_count",
        "followee_list"})
    \cup Changes({"package_relationship_create", "package_relationship_update",
        "package_relationship_delete", "follow_dataset", "unfollow_dataset",
        "follow_group", "unfollow_group", "follow_user", "unfollow_user"}))

CKANAsyncRelationshipsActivityMore == Async("ckan",
    Looks({"package_activity_list", "group_activity_list",
        "organization_activity_list", "user_activity_list",
        "recently_changed_packages_activity_list", "dashboard_activity_list",
        "dashboard_new_activities_count", "activity_show", "activity_data_show",
        "activity_diff"})
    \cup Changes({"dashboard_mark_activities_old", "activity_create",
        "send_email_notifications"}))

-----------------------------------------------------------------------------

CKANSyncResources == Sync("ckan",
    Looks({"resource_show", "resource_search"})
    \cup Changes({"resource_create", "resource_update", "resource_patch", "resource_delete"})
    \cup Carrying("bytes", Changes({"resource_create", "resource_update", "resource_patch"})))

CKANAsyncResources == Awaited(CKANSyncResources)

-----------------------------------------------------------------------------

CKANSyncUsers == Sync("ckan",
    Looks({"user_list", "user_show", "user_autocomplete", "api_token_list"})
    \cup Changes({"user_create", "user_invite", "user_update", "user_patch", "user_delete",
        "get_site_user", "api_token_create", "api_token_revoke"}))

CKANAsyncUsers == Awaited(CKANSyncUsers)

-----------------------------------------------------------------------------

CKANSyncViews == Sync("ckan",
    Looks({"resource_view_show", "resource_view_list"})
    \cup Changes({"resource_view_create", "resource_view_update", "resource_view_reorder",
        "resource_view_delete", "resource_view_clear",
        "package_create_default_resource_views",
        "resource_create_default_resource_views"}))

CKANAsyncViews == Awaited(CKANSyncViews)

-----------------------------------------------------------------------------

CKANSyncVocabulariesLicenses == Sync("ckan",
    Looks({"tag_list", "tag_show", "tag_search", "tag_autocomplete",
        "vocabulary_list", "vocabulary_show", "license_list",
        "format_autocomplete", "term_translation_show"})
    \cup Changes({"tag_create", "tag_delete", "vocabulary_create", "vocabulary_update",
        "vocabulary_delete", "term_translation_update",
        "term_translation_update_many"}))

CKANAsyncVocabulariesLicenses == Awaited(CKANSyncVocabulariesLicenses)

-----------------------------------------------------------------------------

\* clients.py: the normalized get and list, and the umbrella methods of a family or
\* a native group, which take any action of their group and return no receipt.
CKANSyncFamilies == Sync("ckanNative",
    Looks({"get", "list", "list_show_search"})
    \cup Changes({"create_update_patch_delete_purge",
        "list_show_create_update_patch_delete_upload",
        "list_show_create_update_delete_members"})
    \cup Purges({"create_update_patch_delete_purge",
        "list_show_create_update_delete_members"}))

CKANAsyncFamilies == Awaited(CKANSyncFamilies)

CKANSyncNativeGroups == Sync("ckanNative",
    Looks({"discovery_help_and_status", "list_show_search", "extension_probes"})
    \cup Changes({"create_update_patch_delete_purge",
        "list_show_create_update_patch_delete_upload",
        "list_show_create_update_delete_members",
        "list_show_create_update_delete_token_management",
        "tags_vocabularies_and_licenses", "relationships_followers_and_activity",
        "resource_views", "query_and_record_crud", "extension_probes"})
    \cup Purges({"create_update_patch_delete_purge",
        "list_show_create_update_delete_members", "query_and_record_crud",
        "extension_probes"}))

CKANAsyncNativeGroups == Awaited(CKANSyncNativeGroups)

CKANSyncDiscovery == Sync("ckanNative",
    Looks({"discovery_help_and_status", "status_show", "help_show"}))

CKANAsyncDiscovery == Awaited(CKANSyncDiscovery)

\* filestore.py: an upload through the resource service, whose receipt is dropped.
CKANSyncFilestore == Sync("ckanNative",
    Carrying("bytes", Changes({"upload_and_resource_file_replacement"})))

CKANAsyncFilestore == Awaited(CKANSyncFilestore)

CKANSyncOperations == UNION {
    CKANSyncDatasets, CKANSyncDatasetsMore, CKANSyncDatastore, CKANSyncExtensions,
    CKANSyncGroups, CKANSyncOrganizations, CKANSyncRelationshipsActivity,
    CKANSyncRelationshipsActivityMore, CKANSyncResources, CKANSyncUsers, CKANSyncViews,
    CKANSyncVocabulariesLicenses, CKANSyncFamilies, CKANSyncNativeGroups,
    CKANSyncDiscovery, CKANSyncFilestore}

CKANAsyncOperations == UNION {
    CKANAsyncDatasets, CKANAsyncDatasetsMore, CKANAsyncDatastore, CKANAsyncExtensions,
    CKANAsyncGroups, CKANAsyncOrganizations, CKANAsyncRelationshipsActivity,
    CKANAsyncRelationshipsActivityMore, CKANAsyncResources, CKANAsyncUsers,
    CKANAsyncViews, CKANAsyncVocabulariesLicenses, CKANAsyncFamilies,
    CKANAsyncNativeGroups, CKANAsyncDiscovery, CKANAsyncFilestore}
=============================================================================
