-------------------------- MODULE UDataOperations --------------------------
(***************************************************************************)
(* The operations of the uData services                                    *)
(* (src/src/datasluice/connectors/catalog/udata/services/).  The           *)
(* synchronous and the asynchronous class of a service are translated one  *)
(* by one.                                                                 *)
(***************************************************************************)
EXTENDS UDataWire

-----------------------------------------------------------------------------
(* datasets.py                                                              *)

SyncDatasets == Sync("datasets",
    Reads({"list_dataset_followers", "list", "recent_atom", "get"})
    \cup Writes({"follow_dataset", "create", "update"})
    \cup Deletions({"unfollow_dataset", "delete"}))

SyncDatasetsFeatured == Sync("datasets",
    ByAdmin(Writes({"feature"}) \cup Deletions({"unfeature"}))
    \cup Reads({"rdf", "rdf_format", "suggest", "search_v2", "list_v2", "get_v2",
                "get_extras_v2"})
    \cup Writes({"update_extras_v2"})
    \cup Deletions({"delete_extras_v2"}))

AsyncDatasets == Awaited(SyncDatasets)

AsyncDatasetsFeatured == Awaited(SyncDatasetsFeatured)

-----------------------------------------------------------------------------
(* resources.py: replacing an uploaded file is destructive, a first upload   *)
(* is not.                                                                  *)

SyncResources == Sync("resources",
    Reads({"redirect"})
    \cup Writes({"create", "reorder"})
    \cup Carrying("stream", Writes({"upload_new", "upload_community"})
                            \cup Deletions({"upload_replace"})))

SyncResourcesEdited == Sync("resources",
    Carrying("stream", Deletions({"reupload_community"}))
    \cup Reads({"get", "list_community", "get_community"})
    \cup Writes({"update", "create_community", "update_community"})
    \cup Deletions({"delete", "delete_community"}))

SyncResourcesV2 == Sync("resources",
    Reads({"resource_types", "list_v2", "get_v2", "get_dataset_v2", "get_extras_v2"})
    \cup Writes({"update_extras_v2"})
    \cup Deletions({"delete_extras_v2"}))

AsyncResources == Async("resources",
    Reads({"redirect", "get"})
    \cup Writes({"create", "reorder", "update"})
    \cup Deletions({"delete"})
    \cup Carrying("stream", Writes({"upload_new"}) \cup Deletions({"upload_replace"})))

AsyncResourcesEdited == Async("resources",
    Carrying("stream", Writes({"upload_community"})
                       \cup Deletions({"reupload_community"}))
    \cup Reads({"list_community", "get_community", "resource_types", "list_v2", "get_v2"})
    \cup Writes({"create_community", "update_community"}))

AsyncResourcesV2 == Async("resources",
    Reads({"get_dataset_v2", "get_extras_v2"})
    \cup Writes({"update_extras_v2"})
    \cup Deletions({"delete_community", "delete_extras_v2"}))

-----------------------------------------------------------------------------
(* organizations_memberships.py                                             *)

SyncOrganizations == Sync("organizations",
    Reads({"list_organizations", "get_organization", "organization_datasets_csv",
           "organization_dataservices_csv", "organization_discussions_csv",
           "organization_datasets_resources_csv", "rdf_organization",
           "rdf_organization_format", "available_organization_badges"})
    \cup Writes({"create_organization", "update_organization"})
    \cup Deletions({"delete_organization"})
    \cup ByAdmin(Writes({"add_organization_badge"})))

SyncMemberships == Sync("organizations",
    ByAdmin(Deletions({"delete_organization_badge"}))
    \cup Reads({"get_organization_contact_point", "suggest_org_contact_points"})
    \cup ByUser(Reads({"list_membership_requests"}))
    \cup Writes({"membership_request", "accept_membership", "refuse_membership",
                 "cancel_membership"}))

SyncMembers == Sync("organizations",
    Writes({"invite_organization_member", "update_organization_member",
            "sync_member_assignments"})
    \cup Deletions({"delete_organization_member"})
    \cup ByUser(Reads({"list_organization_assignments"}))
    \cup Reads({"suggest_organizations"})
    \cup Carrying("stream", Writes({"organization_logo", "resize_organization_logo"})))

SyncOrganizationPages == Sync("organizations",
    Reads({"list_organization_datasets", "list_organization_reuses",
           "list_organization_discussions", "org_roles", "search_organizations",
           "get_organization_extras", "list_organization_followers"})
    \cup Writes({"update_organization_extras", "follow_organization"})
    \cup Deletions({"delete_organization_extras", "unfollow_organization"}))

AsyncOrganizations == Awaited(SyncOrganizations)

AsyncMemberships == Awaited(SyncMemberships)

AsyncMembers == Awaited(SyncMembers)

AsyncOrganizationPages == Awaited(SyncOrganizationPages)

-----------------------------------------------------------------------------
(* users_tokens.py.  _PUBLIC, _ADMIN and _DESTRUCTIVE name the exceptions;   *)
(* update_me with roles or an active flag asks for an administrator.        *)

SyncUserReads == Sync("users",
    ByUser(Reads({"get_me", "my_reuses", "my_datasets", "my_metrics", "my_org_datasets",
                  "my_org_community_resources", "my_org_reuses", "my_org_discussions",
                  "list_api_tokens", "list_org_invitations", "my_org_topics"}))
    \cup ByAdmin(Reads({"list_users"}))
    \cup Reads({"get_user", "get_user_contact_point", "suggest_users", "user_roles",
                "list_user_followers"}))

SyncUserWrites == Sync("users",
    Writes({"update_me", "create_api_token", "accept_org_invitation",
            "refuse_org_invitation", "follow_user"})
    \cup Deletions({"delete_me", "revoke_api_token", "unfollow_user"})
    \cup ByAdmin(Writes({"update_me", "create_user", "update_user", "rotate_user_password"}))
    \cup ByAdmin(Deletions({"delete_user"}))
    \cup Carrying("stream", Writes({"my_avatar"}) \cup ByAdmin(Writes({"user_avatar"}))))

AsyncUserReads == Awaited(SyncUserReads)

AsyncUserWrites == Awaited(SyncUserWrites)

-----------------------------------------------------------------------------
(* The services that share _run_mutation (taxonomies.py)                    *)

SyncTaxonomies == Sync("prepared",
    Reads({"available_badges", "suggest_formats", "suggest_mime", "licenses",
           "frequencies", "extensions", "schemas", "dataset_schemas"})
    \cup ByAdmin(Writes({"add_badge"}) \cup Deletions({"delete_badge"})))

AsyncTaxonomies == Awaited(SyncTaxonomies)

SyncSpatial == Sync("prepared",
    Reads({"suggest_zones", "spatial_zones", "spatial_zone_datasets", "spatial_zone",
           "spatial_levels", "spatial_granularities", "spatial_coverage"}))

AsyncSpatial == Awaited(SyncSpatial)

SyncTopics == Sync("prepared",
    Reads({"search_topics", "list_topics", "get_topic", "topic_elements"})
    \cup Writes({"create_topic", "update_topic", "topic_elements_create"})
    \cup Deletions({"delete_topic", "topic_elements_delete"}))

SyncTopicElements == Sync("prepared",
    Writes({"topic_element_update"})
    \cup Deletions({"topic_element_delete"})
    \cup ByAdmin(Writes({"feature_topic"}) \cup Deletions({"unfeature_topic"})))

AsyncTopics == Awaited(SyncTopics)

AsyncTopicElements == Awaited(SyncTopicElements)

SyncReuses == Sync("prepared",
    Reads({"list_reuses", "recent_reuses_atom_feed", "get_reuse",
           "available_reuse_badges"})
    \cup Writes({"create_reuse", "update_reuse", "reuse_add_dataset",
                 "reuse_add_dataservice"})
    \cup Deletions({"delete_reuse"})
    \cup ByAdmin(Writes({"add_reuse_badge"}) \cup Deletions({"delete_reuse_badge"})))

SyncReusesFollowed == Sync("prepared",
    ByAdmin(Writes({"feature_reuse"}) \cup Deletions({"unfeature_reuse"}))
    \cup Reads({"suggest_reuses", "reuse_types", "reuse_topics", "search_v2", "list_v2",
                "list_reuse_followers"})
    \cup Carrying("bytes", Writes({"reuse_image"}))
    \cup Writes({"follow_reuse"})
    \cup Deletions({"unfollow_reuse"}))

AsyncReuses == Awaited(SyncReuses)

AsyncReusesFollowed == Awaited(SyncReusesFollowed)

SyncDataservices == Sync("prepared",
    Reads({"list_dataservices", "recent_dataservices_atom_feed", "get_dataservice"})
    \cup Writes({"create_dataservice", "update_dataservice", "dataservice_datasets_add"})
    \cup Deletions({"delete_dataservice"})
    \cup ByAdmin(Writes({"feature_dataservice", "unfeature_dataservice"})))

SyncDataservicesFollowed == Sync("prepared",
    Deletions({"dataservice_dataset_remove", "unfollow_dataservice"})
    \cup Reads({"rdf_dataservice", "rdf_dataservice_format", "search_dataservices",
                "list_dataservice_followers"})
    \cup Writes({"follow_dataservice"}))

AsyncDataservices == Awaited(SyncDataservices)

AsyncDataservicesFollowed == Awaited(SyncDataservicesFollowed)

\* A report may be filed without permission evidence (_create_report).
SyncPosts == Sync("prepared",
    ByAdmin(Reads({"list_reports", "get_report"}) \cup Writes({"update_report"}))
    \cup Writes({"create_report"})
    \cup {[r EXCEPT !.guard = "none"] : r \in Writes({"create_report"})}
    \cup Reads({"list_reports_reasons", "list_posts", "recent_posts_atom_feed", "get_post"})
    \cup ByAdmin(Writes({"create_post", "update_post", "publish_post"})
                 \cup Deletions({"delete_post"})))

SyncPostImages == Sync("prepared",
    ByAdmin(Deletions({"unpublish_post"})
            \cup Carrying("bytes", Writes({"post_image", "resize_post_image"})))
    \cup Reads({"search_posts"})
    \cup ByUser(Reads({"list_notifications"}))
    \cup Writes({"read_notification"}))

AsyncPosts == Awaited(SyncPosts)

AsyncPostImages == Awaited(SyncPostImages)

SyncVisualizations == Sync("prepared",
    Reads({"list_visualizations", "get_visualization", "get_contact_point",
           "contact_point_roles"})
    \cup Writes({"create_visualization", "update_visualization", "create_contact_point",
                 "update_contact_point"})
    \cup Deletions({"delete_visualization", "delete_contact_point"})
    \cup Carrying("bytes", Writes({"visualization_image"})))

AsyncVisualizations == Awaited(SyncVisualizations)

SyncDiscussions == Sync("prepared",
    Reads({"activity", "list_discussions", "get_discussion", "search_discussions"})
    \cup Writes({"create_discussion", "comment_discussion", "update_discussion",
                 "edit_discussion_comment"})
    \cup Deletions({"delete_discussion", "delete_discussion_comment"}))

AsyncDiscussions == Awaited(SyncDiscussions)

\* harvest.py and jobs.py serve administrators only.
SyncHarvest == Sync("prepared", ByAdmin(
    Reads({"list_sources", "get_source", "preview_source", "list_jobs", "get_job",
           "list_job_items", "backends"})
    \cup Writes({"create_source", "update_source", "validate_source", "run_source"})
    \cup Deletions({"delete_source"})))

SyncHarvestSchedules == Sync("prepared", ByAdmin(
    Writes({"schedule_source", "preview_source_config"})
    \cup Deletions({"unschedule_source"})))

AsyncHarvest == Awaited(SyncHarvest)

AsyncHarvestSchedules == Awaited(SyncHarvestSchedules)

SyncWorkerJobs == Sync("prepared", ByAdmin(
    Reads({"list_jobs", "get_job", "get_task", "list_schedulables"})
    \cup Writes({"create_job", "update_job"})
    \cup Deletions({"delete_job"})))

AsyncWorkerJobs == Awaited(SyncWorkerJobs)

SyncExtensions == Sync("prepared",
    Reads({"reason_categories", "suggest_tags", "avatar", "captchetat"}))

AsyncExtensions == Awaited(SyncExtensions)

-----------------------------------------------------------------------------
(* The services with a way of their own to settle a failure                 *)

\* transfers.py: accepting a transfer is destructive, refusing it is not.
SyncTransfers == Sync("transfers",
    ByUser(Reads({"list_transfers", "get_transfer"}))
    \cup Writes({"request_transfer", "refuse_transfer"})
    \cup Deletions({"accept_transfer"}))

AsyncTransfers == Awaited(SyncTransfers)

\* auth_oauth.py
SyncAuthOAuth == Sync("oauth",
    Carrying("form", Writes({"access_token", "authorize_post"})
                     \cup Deletions({"revoke_token"}))
    \cup ByUser(Reads({"client_info", "authorize"}))
    \cup Reads({"oauth_error"}))

AsyncAuthOAuth == Awaited(SyncAuthOAuth)

\* root_profile.py, without its streamed exports
SyncSite == Sync("site",
    Writes({"set_site"}) \cup Reads({"get", "data_portal", "rdf_catalog", "jsonld_context"}))

AsyncSite == Awaited(SyncSite)

-----------------------------------------------------------------------------
(* The services a client exposes                                            *)

SyncOperations == UNION {
    Over(WireDatasets \cup WireDatasetFollowers, SyncDatasets \cup SyncDatasetsFeatured),
    Over(WireResourceUploads \cup WireResources,
         SyncResources \cup SyncResourcesEdited \cup SyncResourcesV2),
    Over(WireOrganizations \cup WireMembers,
         SyncOrganizations \cup SyncMemberships \cup SyncMembers \cup SyncOrganizationPages),
    Over(WireUsers, SyncUserReads \cup SyncUserWrites),
    Over(WireTaxonomies, SyncTaxonomies),
    Over(WireSpatial, SyncSpatial),
    Over(WireTopics, SyncTopics \cup SyncTopicElements),
    Over(WireReuses, SyncReuses \cup SyncReusesFollowed),
    Over(WireDataservices, SyncDataservices \cup SyncDataservicesFollowed),
    Over(WirePosts, SyncPosts \cup SyncPostImages),
    Over(WireVisualizations, SyncVisualizations),
    Over(WireDiscussions, SyncDiscussions),
    Over(WireHarvest, SyncHarvest \cup SyncHarvestSchedules),
    Over(WireJobs, SyncWorkerJobs),
    Over(WireExtensions, SyncExtensions),
    Over(WireTransfers, SyncTransfers),
    Over(WireOAuth, SyncAuthOAuth),
    Over(WireSite, SyncSite)}

AsyncOperations == UNION {
    Over(WireDatasets \cup WireDatasetFollowers, AsyncDatasets \cup AsyncDatasetsFeatured),
    Over(WireResourceUploads \cup WireResources,
         AsyncResources \cup AsyncResourcesEdited \cup AsyncResourcesV2),
    Over(WireOrganizations \cup WireMembers,
         AsyncOrganizations \cup AsyncMemberships \cup AsyncMembers \cup AsyncOrganizationPages),
    Over(WireUsers, AsyncUserReads \cup AsyncUserWrites),
    Over(WireTaxonomies, AsyncTaxonomies),
    Over(WireSpatial, AsyncSpatial),
    Over(WireTopics, AsyncTopics \cup AsyncTopicElements),
    Over(WireReuses, AsyncReuses \cup AsyncReusesFollowed),
    Over(WireDataservices, AsyncDataservices \cup AsyncDataservicesFollowed),
    Over(WirePosts, AsyncPosts \cup AsyncPostImages),
    Over(WireVisualizations, AsyncVisualizations),
    Over(WireDiscussions, AsyncDiscussions),
    Over(WireHarvest, AsyncHarvest \cup AsyncHarvestSchedules),
    Over(WireJobs, AsyncWorkerJobs),
    Over(WireExtensions, AsyncExtensions),
    Over(WireTransfers, AsyncTransfers),
    Over(WireOAuth, AsyncAuthOAuth),
    Over(WireSite, AsyncSite)}

-----------------------------------------------------------------------------

\* The services and the wire modules agree: what a service treats as a read is a GET,
\* and every DELETE asks for a destructive policy, but for unfeature_dataservice.
ASSUME ServicesMatchWire ==
    \A r \in SyncOperations \cup AsyncOperations :
        /\ r.reads <=> r.method = "GET"
        /\ r.method = "DELETE" /\ r.name # "unfeature_dataservice" => r.destructive
=============================================================================
