--------------------------- MODULE UDataContract ---------------------------
(***************************************************************************)
(* The protocols of src/src/datasluice/contracts/catalog/native/udata.py   *)
(* that the uData services have to satisfy: the operations of each, and    *)
(* whether their signatures ask for permission evidence and for a mutation *)
(* policy.  A runtime_checkable protocol only compares names; here the     *)
(* signatures are compared with what the services enforce.                 *)
(***************************************************************************)
EXTENDS UDataOperations

Promise(names, permissions, policy) ==
    {[name |-> n, permissions |-> permissions, policy |-> policy] : n \in names}

Open(names) == Promise(names, FALSE, FALSE)

Guarded(names) == Promise(names, TRUE, FALSE)

Receipted(names) == Promise(names, TRUE, TRUE)

-----------------------------------------------------------------------------

PromisesSite ==
    Open({"get", "data_portal", "rdf_catalog", "rdf_catalog_format", "datasets_csv",
          "resources_csv", "organizations_csv", "reuses_csv", "dataservices_csv",
          "harvests_csv", "tags_csv", "jsonld_context"})
    \cup Receipted({"set_site"})

AwaitedPromisesSite == PromisesSite

PromisesResources ==
    Open({"redirect", "get", "list_community", "get_community", "resource_types",
          "get_dataset_v2", "list_v2", "get_v2", "get_extras_v2"})
    \cup Receipted({"create", "reorder", "upload", "upload_community", "reupload_community",
                    "update", "delete", "create_community", "update_community",
                    "delete_community", "update_extras_v2", "delete_extras_v2"})

AwaitedPromisesResources == PromisesResources

PromisesOrganizations ==
    Open({"list_organizations", "get_organization", "organization_datasets_csv",
          "organization_dataservices_csv", "organization_discussions_csv",
          "organization_datasets_resources_csv", "rdf_organization",
          "rdf_organization_format", "available_organization_badges",
          "get_organization_contact_point", "suggest_org_contact_points"})
    \cup Guarded({"list_membership_requests"})
    \cup Receipted({"create_organization", "update_organization", "delete_organization",
                    "add_organization_badge", "delete_organization_badge",
                    "membership_request", "accept_membership", "refuse_membership",
                    "cancel_membership"})

AwaitedPromisesOrganizations == PromisesOrganizations

PromisesMembers ==
    Open({"suggest_organizations", "list_organization_datasets", "list_organization_reuses",
          "list_organization_discussions", "org_roles", "search_organizations",
          "get_organization_extras", "list_organization_followers"})
    \cup Guarded({"list_organization_assignments"})
    \cup Receipted({"invite_organization_member", "update_organization_member",
                    "delete_organization_member", "sync_member_assignments",
                    "organization_logo", "resize_organization_logo",
                    "update_organization_extras", "delete_organization_extras",
                    "follow_organization", "unfollow_organization"})

AwaitedPromisesMembers == PromisesMembers

PromisesDiscussions ==
    Open({"activity", "list_discussions", "get_discussion", "search_discussions"})
    \cup Receipted({"create_discussion", "comment_discussion", "update_discussion",
                    "delete_discussion", "edit_discussion_comment",
                    "delete_discussion_comment"})

AwaitedPromisesDiscussions == PromisesDiscussions

PromisesSpatial ==
    Open({"suggest_zones", "spatial_zones", "spatial_zone_datasets", "spatial_zone",
          "spatial_levels", "spatial_granularities", "spatial_coverage"})

AwaitedPromisesSpatial == PromisesSpatial

PromisesDataservices ==
    Open({"list_dataservices", "recent_dataservices_atom_feed", "get_dataservice",
          "rdf_dataservice", "rdf_dataservice_format", "search_dataservices",
          "list_dataservice_followers"})
    \cup Receipted({"create_dataservice", "update_dataservice", "delete_dataservice",
                    "feature_dataservice", "unfeature_dataservice",
                    "dataservice_datasets_add", "dataservice_dataset_remove",
                    "follow_dataservice", "unfollow_dataservice"})

AwaitedPromisesDataservices == PromisesDataservices

PromisesReuses ==
    Open({"list_reuses", "recent_reuses_atom_feed", "get_reuse", "available_reuse_badges",
          "suggest_reuses", "reuse_types", "reuse_topics", "search_v2", "list_v2",
          "list_reuse_followers"})
    \cup Receipted({"create_reuse", "update_reuse", "delete_reuse", "reuse_add_dataset",
                    "reuse_add_dataservice", "add_reuse_badge", "delete_reuse_badge",
                    "feature_reuse", "unfeature_reuse", "reuse_image", "follow_reuse",
                    "unfollow_reuse"})

AwaitedPromisesReuses == PromisesReuses

PromisesPosts ==
    Open({"list_reports_reasons", "list_posts", "recent_posts_atom_feed", "get_post",
          "search_posts"})
    \cup Guarded({"list_reports", "get_report", "list_notifications"})
    \cup Receipted({"create_report", "update_report", "create_post", "update_post",
                    "delete_post", "publish_post", "unpublish_post", "post_image",
                    "resize_post_image", "read_notification"})

AwaitedPromisesPosts == PromisesPosts

PromisesTaxonomies ==
    Open({"available_badges", "suggest_formats", "suggest_mime", "licenses", "frequencies",
          "extensions", "schemas", "dataset_schemas"})
    \cup Receipted({"add_badge", "delete_badge"})

AwaitedPromisesTaxonomies == PromisesTaxonomies

PromisesHarvest ==
    Open({"preview_bulk"})
    \cup Guarded({"list_sources", "get_source", "preview_source", "list_jobs", "get_job",
                  "list_job_items", "backends", "wait_for_job"})
    \cup Receipted({"create_source", "update_source", "delete_source", "validate_source",
                    "run_source", "schedule_source", "unschedule_source",
                    "preview_source_config", "run_bulk"})

AwaitedPromisesHarvest == PromisesHarvest

PromisesTopics ==
    Open({"search_topics", "list_topics", "get_topic", "topic_elements"})
    \cup Receipted({"create_topic", "update_topic", "delete_topic", "topic_elements_create",
                    "topic_elements_delete", "topic_element_update", "topic_element_delete",
                    "feature_topic", "unfeature_topic"})

AwaitedPromisesTopics == PromisesTopics

PromisesTransfers ==
    Guarded({"list_transfers", "get_transfer"})
    \cup Receipted({"request_transfer", "respond_to_transfer"})

AwaitedPromisesTransfers == PromisesTransfers

PromisesWorkerJobs ==
    Guarded({"list_jobs", "get_job", "get_task", "list_schedulables", "wait_for_task"})
    \cup Receipted({"create_job", "update_job", "delete_job"})

AwaitedPromisesWorkerJobs == PromisesWorkerJobs

PromisesVisualizations ==
    Open({"list_visualizations", "get_visualization", "get_contact_point",
          "contact_point_roles"})
    \cup Receipted({"create_visualization", "update_visualization", "delete_visualization",
                    "visualization_image", "create_contact_point", "update_contact_point",
                    "delete_contact_point"})

AwaitedPromisesVisualizations == PromisesVisualizations

PromisesUsers ==
    Open({"get_user", "get_user_contact_point", "suggest_users", "user_roles",
          "list_user_followers"})
    \cup Guarded({"get_me", "my_reuses", "my_datasets", "my_metrics", "my_org_datasets",
                  "my_org_community_resources", "my_org_reuses", "my_org_discussions",
                  "list_api_tokens", "list_org_invitations", "list_users", "my_org_topics"})
    \cup Receipted({"update_me", "delete_me", "my_avatar", "create_api_token",
                    "revoke_api_token", "accept_org_invitation", "refuse_org_invitation",
                    "create_user", "user_avatar", "update_user", "delete_user",
                    "rotate_user_password", "follow_user", "unfollow_user"})

AwaitedPromisesUsers == PromisesUsers

PromisesAuthOAuth ==
    Open({"oauth_error"})
    \cup Guarded({"access_token", "client_info", "authorize"})
    \cup Receipted({"revoke_token", "authorize_post"})

AwaitedPromisesAuthOAuth == PromisesAuthOAuth

PromisesDatasets ==
    Open({"list_dataset_followers"})
    \cup Receipted({"follow_dataset", "unfollow_dataset"})

AwaitedPromisesDatasets == PromisesDatasets

-----------------------------------------------------------------------------

\* Operations of a protocol that are not one call: bulk runs and waits make several,
\* the exports stream.
Composed ==
    {"preview_bulk", "run_bulk", "wait_for_job", "wait_for_task", "rdf_catalog_format",
     "datasets_csv", "resources_csv", "organizations_csv", "reuses_csv", "dataservices_csv",
     "harvests_csv", "tags_csv"}

\* An upload with or without a resource to replace, and the two answers to a transfer,
\* are checked differently by the services.
Implementing(name) ==
    CASE name = "upload" -> {"upload_new", "upload_replace"}
      [] name = "respond_to_transfer" -> {"accept_transfer", "refuse_transfer"}
      [] OTHER -> {name} \ Composed

\* The service has the operation, takes a policy exactly when it changes something
\* (but for the token exchange), and asks for evidence only where the signature does.
Keeps(promises, rows) ==
    \A p \in promises : \A n \in Implementing(p.name) :
        LET served == {r \in rows : r.name = n}
        IN /\ \A r \in served : p.policy = (~r.reads /\ n # "access_token")
           /\ p.permissions <=> \E r \in served : r.guard # "none"
           /\ served # {}

ASSUME ServicesKeepContract ==
    /\ Keeps(PromisesDatasets, SyncDatasets \cup SyncDatasetsFeatured)
    /\ Keeps(PromisesResources, SyncResources \cup SyncResourcesEdited \cup SyncResourcesV2)
    /\ Keeps(PromisesOrganizations, SyncOrganizations \cup SyncMemberships)
    /\ Keeps(PromisesMembers, SyncMembers \cup SyncOrganizationPages)
    /\ Keeps(PromisesUsers, SyncUserReads \cup SyncUserWrites)
    /\ Keeps(PromisesTaxonomies, SyncTaxonomies)
    /\ Keeps(PromisesSpatial, SyncSpatial)
    /\ Keeps(PromisesTopics, SyncTopics \cup SyncTopicElements)
    /\ Keeps(PromisesReuses, SyncReuses \cup SyncReusesFollowed)
    /\ Keeps(PromisesDataservices, SyncDataservices \cup SyncDataservicesFollowed)
    /\ Keeps(PromisesPosts, SyncPosts \cup SyncPostImages)
    /\ Keeps(PromisesVisualizations, SyncVisualizations)
    /\ Keeps(PromisesDiscussions, SyncDiscussions)
    /\ Keeps(PromisesHarvest, SyncHarvest \cup SyncHarvestSchedules)
    /\ Keeps(PromisesWorkerJobs, SyncWorkerJobs)
    /\ Keeps(PromisesTransfers, SyncTransfers)
    /\ Keeps(PromisesAuthOAuth, SyncAuthOAuth)
    /\ Keeps(PromisesSite, SyncSite)
    /\ Keeps(AwaitedPromisesDatasets, AsyncDatasets \cup AsyncDatasetsFeatured)
    /\ Keeps(AwaitedPromisesResources, AsyncResources \cup AsyncResourcesEdited \cup AsyncResourcesV2)
    /\ Keeps(AwaitedPromisesOrganizations, AsyncOrganizations \cup AsyncMemberships)
    /\ Keeps(AwaitedPromisesMembers, AsyncMembers \cup AsyncOrganizationPages)
    /\ Keeps(AwaitedPromisesUsers, AsyncUserReads \cup AsyncUserWrites)
    /\ Keeps(AwaitedPromisesTaxonomies, AsyncTaxonomies)
    /\ Keeps(AwaitedPromisesSpatial, AsyncSpatial)
    /\ Keeps(AwaitedPromisesTopics, AsyncTopics \cup AsyncTopicElements)
    /\ Keeps(AwaitedPromisesReuses, AsyncReuses \cup AsyncReusesFollowed)
    /\ Keeps(AwaitedPromisesDataservices, AsyncDataservices \cup AsyncDataservicesFollowed)
    /\ Keeps(AwaitedPromisesPosts, AsyncPosts \cup AsyncPostImages)
    /\ Keeps(AwaitedPromisesVisualizations, AsyncVisualizations)
    /\ Keeps(AwaitedPromisesDiscussions, AsyncDiscussions)
    /\ Keeps(AwaitedPromisesHarvest, AsyncHarvest \cup AsyncHarvestSchedules)
    /\ Keeps(AwaitedPromisesWorkerJobs, AsyncWorkerJobs)
    /\ Keeps(AwaitedPromisesTransfers, AsyncTransfers)
    /\ Keeps(AwaitedPromisesAuthOAuth, AsyncAuthOAuth)
    /\ Keeps(AwaitedPromisesSite, AsyncSite)
=============================================================================
