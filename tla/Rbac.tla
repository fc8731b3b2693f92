-------------------------------- MODULE Rbac --------------------------------
(***************************************************************************)
(* The roles of rbac.yaml, the users of users.yaml and the expansion of a  *)
(* role into the permissions it holds.  Only the permissions that some     *)
(* command or gate checks are kept.                                        *)
(***************************************************************************)

Roles == {"DEVELOPER", "TECH_LEAD", "RELEASE_MANAGER", "ADMIN"}

\* The permissions a role lists itself.
OwnPermissions ==
    [r \in Roles |->
        CASE r = "DEVELOPER"       -> {"trigger_run"}
          [] r = "TECH_LEAD"       -> {"approve_architecture", "approve_schema_change"}
          [] r = "RELEASE_MANAGER" -> {"approve_release"}
          [] r = "ADMIN"           -> {"emergency_override"}]

\* The "inherits" field; DEVELOPER has none.
InheritsFrom ==
    [r \in Roles \ {"DEVELOPER"} |->
        CASE r = "TECH_LEAD"       -> "DEVELOPER"
          [] r = "RELEASE_MANAGER" -> "TECH_LEAD"
          [] r = "ADMIN"           -> "RELEASE_MANAGER"]

\* _expand_permissions: a role's own permissions and, up the chain, its parents'.
ExpandPermissions[r \in Roles] ==
    OwnPermissions[r] \cup
        (IF r \in DOMAIN InheritsFrom THEN ExpandPermissions[InheritsFrom[r]] ELSE {})

RoleOf ==
    [alice |-> "DEVELOPER", bob |-> "TECH_LEAD",
     carol |-> "RELEASE_MANAGER", dave |-> "ADMIN"]

\* TokenAuthenticator.resolve: the permissions of the user a token stands for.
PermissionsOf(users) == [u \in users |-> ExpandPermissions[RoleOf[u]]]

=============================================================================
