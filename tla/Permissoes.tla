----------------------------- MODULE Permissoes -----------------------------
(***************************************************************************)
(* The role model of app/rbac: the four roles, their order, the permission *)
(* matrix and the two dependencies (require_role, require_permission) that *)
(* guard every write route.  It has no state: the table user_roles itself  *)
(* is modelled by Papeis.                                                  *)
(***************************************************************************)
EXTENDS Naturals

Role == {"super_admin", "admin", "moderador", "participante"}

ROLE_HIERARCHY ==
  [super_admin |-> 3, admin |-> 2, moderador |-> 1, participante |-> 0]

DEFAULT_ROLE == "participante"

RoleAtLeast(role, minimum) == ROLE_HIERARCHY[role] >= ROLE_HIERARCHY[minimum]

Admins == {"super_admin", "admin"}
Staff  == Admins \cup {"moderador"}

PERMISSIONS ==
  [ canCreateEvents      |-> Role,
    canEditEvents        |-> Role,
    canUploadImages      |-> Role,
    canDeleteEvents      |-> Staff,
    canPublishEvents     |-> Staff,
    canManageTags        |-> Staff,
    canDeleteTags        |-> Staff,
    canManageComunidades |-> Staff,
    canManageGaleria     |-> Staff,
    canManageContributors |-> Admins,
    canManageUsers       |-> Admins,
    canSaveSettings      |-> Staff ]

RequirePermission(permission, role) == role \in PERMISSIONS[permission]

RequireRole(allowed, role) == role \in allowed
=============================================================================
