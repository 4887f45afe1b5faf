----------------------------- MODULE UDataWire -----------------------------
(***************************************************************************)
(* The requests of the uData operations                                    *)
(* (src/src/datasluice/connectors/catalog/udata/wire/): one table for each *)
(* wire module, with the HTTP method of every builder that is not a GET    *)
(* and whether the request it builds has a body.  The builders a table     *)
(* does not name are GETs without a body.                                  *)
(***************************************************************************)
EXTENDS CatalogOperations

\* The builders of a method, with a body or without one.
Wire(method, names) == {[name |-> n, method |-> method, body |-> "json"] : n \in names}

Bare(method, names) == {[name |-> n, method |-> method, body |-> "none"] : n \in names}

\* The rows of a service as its wire module sends them.  An upload or a form stays
\* what it is: the service hands it to the call beside the built request.
Over(wire, rows) ==
    {LET built == {w \in wire : w.name = r.name}
     IN IF built = {} THEN [r EXCEPT !.method = "GET", !.body = "none"]
        ELSE LET w == CHOOSE w \in built : TRUE
             IN [r EXCEPT !.method = w.method, !.body = IF @ = "json" THEN w.body ELSE @]
     : r \in rows}

WireDatasets ==
    Wire("POST", {"create"}) \cup Wire("PUT", {"update", "update_extras_v2"})
    \cup Wire("DELETE", {"delete_extras_v2"})
    \cup Bare("POST", {"feature"}) \cup Bare("DELETE", {"delete", "unfeature"})

WireDatasetFollowers == Bare("POST", {"follow_dataset"}) \cup Bare("DELETE", {"unfollow_dataset"})

\* upload_new, upload_replace and the community uploads build a POST around a file.
WireResourceUploads ==
    Wire("POST", {"create", "upload_new", "upload_replace", "upload_community",
                  "reupload_community"})
    \cup Wire("PUT", {"reorder", "update_extras_v2"})
    \cup Wire("DELETE", {"delete_extras_v2"})

WireResources ==
    Wire("POST", {"create_community"}) \cup Wire("PUT", {"update", "update_community"})
    \cup Bare("DELETE", {"delete", "delete_community"})

WireOrganizations ==
    Wire("POST", {"create_organization", "add_organization_badge", "membership_request",
                  "refuse_membership"})
    \cup Wire("PUT", {"update_organization"})
    \cup Bare("POST", {"accept_membership", "cancel_membership"})
    \cup Bare("DELETE", {"delete_organization", "delete_organization_badge"})

WireMembers ==
    Wire("POST", {"invite_organization_member", "organization_logo"})
    \cup Wire("PUT", {"update_organization_member", "sync_member_assignments",
                      "resize_organization_logo", "update_organization_extras"})
    \cup Wire("DELETE", {"delete_organization_extras"})
    \cup Bare("POST", {"follow_organization"})
    \cup Bare("DELETE", {"delete_organization_member", "unfollow_organization"})

WireUsers ==
    Wire("POST", {"my_avatar", "user_avatar", "create_user", "create_api_token"})
    \cup Wire("PUT", {"update_me", "update_user"})
    \cup Bare("POST", {"accept_org_invitation", "refuse_org_invitation",
                       "rotate_user_password", "follow_user"})
    \cup Bare("DELETE", {"delete_me", "delete_user", "revoke_api_token", "unfollow_user"})

WireTaxonomies == Wire("POST", {"add_badge"}) \cup Bare("DELETE", {"delete_badge"})

\* Suggestions, zones, levels, granularities and coverage are read only.
WireSpatial == {}

WireTopics ==
    Wire("POST", {"create_topic", "topic_elements_create"})
    \cup Wire("PUT", {"update_topic", "topic_element_update"})
    \cup Bare("POST", {"feature_topic"})
    \cup Bare("DELETE", {"delete_topic", "topic_elements_delete", "topic_element_delete",
                         "unfeature_topic"})

WireReuses ==
    Wire("POST", {"create_reuse", "reuse_add_dataset", "reuse_add_dataservice",
                  "add_reuse_badge", "reuse_image"})
    \cup Wire("PUT", {"update_reuse"})
    \cup Bare("POST", {"feature_reuse", "follow_reuse"})
    \cup Bare("DELETE", {"delete_reuse", "delete_reuse_badge", "unfeature_reuse",
                         "unfollow_reuse"})

WireDataservices ==
    Wire("POST", {"create_dataservice", "dataservice_datasets_add"})
    \cup Wire("PATCH", {"update_dataservice"})
    \cup Bare("POST", {"feature_dataservice", "follow_dataservice"})
    \cup Bare("DELETE", {"delete_dataservice", "unfeature_dataservice",
                         "dataservice_dataset_remove", "unfollow_dataservice"})

WirePosts ==
    Wire("POST", {"create_report", "create_post", "post_image"})
    \cup Wire("PUT", {"update_post", "resize_post_image"}) \cup Wire("PATCH", {"update_report"})
    \cup Bare("POST", {"publish_post", "read_notification"})
    \cup Bare("DELETE", {"delete_post", "unpublish_post"})

WireVisualizations ==
    Wire("POST", {"create_visualization", "visualization_image", "create_contact_point"})
    \cup Wire("PATCH", {"update_visualization"}) \cup Wire("PUT", {"update_contact_point"})
    \cup Bare("DELETE", {"delete_visualization", "delete_contact_point"})

WireDiscussions ==
    Wire("POST", {"create_discussion", "comment_discussion"})
    \cup Wire("PUT", {"update_discussion", "edit_discussion_comment"})
    \cup Bare("DELETE", {"delete_discussion", "delete_discussion_comment"})

WireHarvest ==
    Wire("POST", {"create_source", "validate_source", "schedule_source", "preview_source_config"})
    \cup Wire("PUT", {"update_source"})
    \cup Bare("POST", {"run_source"}) \cup Bare("DELETE", {"delete_source", "unschedule_source"})

WireJobs ==
    Wire("POST", {"create_job"}) \cup Wire("PUT", {"update_job"}) \cup Bare("DELETE", {"delete_job"})

\* Tag suggestions, avatars and the captcha document are read only.
WireExtensions == {}

WireTransfers == Wire("POST", {"request_transfer", "accept_transfer", "refuse_transfer"})

WireOAuth == Wire("POST", {"access_token", "revoke_token", "authorize_post"})

WireSite == Wire("PATCH", {"set_site"})
=============================================================================
