------------------------------- MODULE RoleSeed -------------------------------
(***************************************************************************)
(* The roles of the panel.  Before it listens the program walks over the   *)
(* static roles of its release and writes their permissions into the       *)
(* database, each save by itself; a crash leaves the walk half done, and   *)
(* the next release brings other permissions.  While it serves,            *)
(* administrators create, change and remove roles of their own.            *)
(*                                                                         *)
(* A role's row is found by its name, which is unique: the table is a      *)
(* function from names.  A custom role may take the name of a role that    *)
(* only a later release knows.                                             *)
(***************************************************************************)
EXTENDS Naturals, AccessControl

CONSTANTS
  Names,        \* names of roles
  Resources,
  Permissions,
  Releases,     \* releases of the program, from the first to the last
  Matrix,       \* staticRoles: release, name |-> permissions by resource
  Grants,       \* the permissions an administrator gives to a role
  None          \* no row for the resource

Rows == [Resources -> {None} \cup SUBSET Permissions]
Static(r) == DOMAIN Matrix[r]

ASSUME NamesAssumption == Names # {}
ASSUME ReleasesAssumption ==
  /\ Releases \subseteq Nat
  /\ 1 \in Releases
ASSUME MatrixAssumption ==
  \A r \in Releases : /\ Static(r) \subseteq Names
                      /\ Matrix[r] \in [Static(r) -> Rows]
\* The last release is the one whose roles AccessControl lists.
ASSUME LastReleaseAssumption ==
  \A r \in Releases : r + 1 \notin Releases =>
    /\ Static(r) = DOMAIN StaticRoles
    /\ \A n \in DOMAIN StaticRoles : \A x \in DOMAIN StaticRoles[n] :
         /\ x \in Resources
         /\ StaticRoles[n][x] \subseteq Permissions
         /\ Matrix[r][n][x] = StaticRoles[n][x]
ASSUME GrantsAssumption == Grants \subseteq Rows
ASSUME NoneAssumption == \A P \in SUBSET Permissions : P # None

VARIABLES
  roles,    \* roles and their permissions
  staff,    \* a user hired for a custom role: enabled, or removed with it
  release,  \* the release that is installed
  stage,    \* the process: down, seeding (roles, permissions), serving
  todo,     \* names the walk has not finished with
  role,     \* the role whose permissions are synchronised
  left      \* resources of that role the walk has not come to

seedVars == <<roles, staff, release, stage, todo, role, left>>

-----------------------------------------------------------------------------
(* Rows.                                                                   *)

RoleRow == [state : {"none", "live", "removed"}, isStatic : BOOLEAN,
            permissions : Rows]
NoRows == [r \in Resources |-> None]

SeedTypeOK ==
  /\ roles \in [Names -> RoleRow]
  /\ staff \in [Names -> {"none", "enabled", "removed"}]
  /\ release \in Releases
  /\ stage \in {"down", "roles", "permissions", "serving"}
  /\ todo \subseteq Names
  /\ role \in Names
  /\ left \subseteq Resources

AnyName == CHOOSE n \in Names : TRUE
NoRole == [state |-> "none", isStatic |-> FALSE, permissions |-> NoRows]

SeedInit ==
  /\ roles = [n \in Names |-> NoRole]
  /\ staff = [n \in Names |-> "none"]
  /\ release = 1
  /\ stage = "down"
  /\ todo = {}
  /\ role = AnyName
  /\ left = {}

-----------------------------------------------------------------------------
(* onModuleInit: the walk.  Which role and which resource come next is the *)
(* order of the literal in the source, here any fixed one.                 *)

Want == Matrix[release]
Wanted(n) == {r \in Resources : Want[n][r] # None}

Boot ==
  /\ stage = "down"
  /\ stage' = "roles"
  /\ todo' = Static(release)
  /\ UNCHANGED <<roles, staff, release, role, left>>

\* findOne by name, soft-deleted rows left out; a missing role is created,
\* and a removed one of the same name makes the insert, and the boot, fail.
FindRole ==
  /\ stage = "roles"
  /\ todo # {}
  /\ role' = CHOOSE n \in todo : TRUE
  /\ roles' = IF roles[role'].state = "none"
              THEN [roles EXCEPT ![role'] = [state |-> "live",
                                             isStatic |-> TRUE,
                                             permissions |-> NoRows]]
              ELSE roles
  /\ stage' = IF roles[role'].state = "removed" THEN "down" ELSE "permissions"
  /\ left' = Wanted(role')
  /\ UNCHANGED <<staff, release, todo>>

\* Mutant: an existing row is not updated.
SyncsMissing(rows, r, permissions) ==
  IF rows[r] = None THEN [rows EXCEPT ![r] = permissions] ELSE rows

\* The row of resource r is created, updated if it differs, or left alone.
Syncs(rows, r, permissions) == [rows EXCEPT ![r] = permissions]

SyncPermission ==
  LET r == CHOOSE x \in left : TRUE
  IN /\ stage = "permissions"
     /\ left # {}
     /\ roles' = [roles EXCEPT ![role].permissions =
                    Syncs(@, r, Want[role][r])]
     /\ left' = left \ {r}
     /\ UNCHANGED <<staff, release, stage, todo, role>>

\* Mutant: a row is obsolete when the release knows no such resource at all.
ObsoleteEverywhere(rows) ==
  {r \in Resources : rows[r] # None /\ \A n \in Static(release) :
                                          r \notin Wanted(n)}

Obsolete(rows) == {r \in Resources : rows[r] # None /\ r \notin Wanted(role)}

RemoveObsolete ==
  /\ stage = "permissions"
  /\ left = {}
  /\ roles' = [roles EXCEPT ![role].permissions =
                 [r \in Resources |-> IF r \in Obsolete(@) THEN None ELSE @[r]]]
  /\ todo' = todo \ {role}
  /\ stage' = "roles"
  /\ UNCHANGED <<staff, release, role, left>>

Serve ==
  /\ stage = "roles"
  /\ todo = {}
  /\ stage' = "serving"
  /\ UNCHANGED <<roles, staff, release, todo, role, left>>

Crash ==
  /\ stage # "down"
  /\ stage' = "down"
  /\ todo' = {}
  /\ role' = AnyName
  /\ left' = {}
  /\ UNCHANGED <<roles, staff, release>>

Deploy ==
  /\ stage = "down"
  /\ release + 1 \in Releases
  /\ release' = release + 1
  /\ UNCHANGED <<roles, staff, stage, todo, role, left>>

-----------------------------------------------------------------------------
(* Custom roles, each request one transaction.                             *)

Handles == stage = "serving" /\ UNCHANGED <<release, stage, todo, role, left>>
Custom(permissions) ==
  [state |-> "live", isStatic |-> FALSE, permissions |-> permissions]

CreateRole(n, permissions) ==
  /\ Handles
  /\ roles[n].state = "none"
  /\ roles' = [roles EXCEPT ![n] = Custom(permissions)]
  /\ UNCHANGED staff

\* Mutant: update forgets to ask whether the role is static.
AnyLive(n) == roles[n].state = "live"

Mutable(n) == roles[n].state = "live" /\ ~roles[n].isStatic

\* update, without a new name: a body without permissions leaves none.
UpdateRole(n, permissions) ==
  /\ Handles
  /\ Mutable(n)
  /\ roles' = [roles EXCEPT ![n].permissions = permissions]
  /\ UNCHANGED staff

\* update, with a new name that no other row has.
RenameRole(n, name, permissions) ==
  /\ Handles
  /\ Mutable(n)
  /\ roles[name].state = "none"
  /\ roles' = [roles EXCEPT ![n] = NoRole, ![name] = Custom(permissions)]
  /\ staff' = [staff EXCEPT ![n] = "none", ![name] = staff[n]]

\* remove: the role's users are disabled, and the soft removal cascades to
\* them and to the permissions.
RemoveRole(n) ==
  /\ Handles
  /\ Mutable(n)
  /\ roles' = [roles EXCEPT ![n].state = "removed", ![n].permissions = NoRows]
  /\ staff' = [staff EXCEPT ![n] = IF @ = "none" THEN @ ELSE "removed"]

\* createAppAdmin: the role is an id that nothing looks up.  The users of
\* static roles, which no request removes, are not followed.
Hire(n) ==
  /\ Handles
  /\ roles[n].state # "none"
  /\ ~roles[n].isStatic
  /\ staff[n] = "none"
  /\ staff' = [staff EXCEPT ![n] = "enabled"]
  /\ UNCHANGED roles

SeedNext ==
  \/ Boot
  \/ FindRole
  \/ SyncPermission
  \/ RemoveObsolete
  \/ Serve
  \/ Crash
  \/ Deploy
  \/ \E n \in Names, g \in Grants : CreateRole(n, g)
  \/ \E n \in Names, g \in Grants \cup {NoRows} : UpdateRole(n, g)
  \/ \E n, m \in Names, g \in Grants \cup {NoRows} : RenameRole(n, m, g)
  \/ \E n \in Names : RemoveRole(n)
  \/ \E n \in Names : Hire(n)

SeedSpec == SeedInit /\ [][SeedNext]_seedVars

-----------------------------------------------------------------------------
(* Properties.                                                             *)

\* Whatever crashes and releases came before, and whatever administrators did
\* to roles of their own: once the program serves, a static role of the
\* release has the permissions the release gives it, and no others
\* (seedRolesAndPermissions; update and remove refuse static roles).
ServedAsReleased ==
  stage = "serving" =>
    \A n \in Static(release) :
      roles[n].isStatic => /\ roles[n].state = "live"
                           /\ roles[n].permissions = Want[n]

\* A route is open to a user of a role when the role's rows pass RolesGuard
\* and the user has what the route's guards and decorators take.
Granted(n) ==
  LET rows == roles[n].permissions
  IN [r \in {x \in Resources : rows[x] # None} |-> rows[r]]
UserHas(n) ==
  IF n \in DOMAIN GetOffice THEN GetOffice[n]
  ELSE IF n \in DOMAIN GetCompany THEN GetCompany[n] ELSE Panel
OpenToUsers(route) ==
  \E n \in Static(release) : /\ RolesGuard(Granted(n), route)
                             /\ route.takes \subseteq UserHas(n)
OpenToOthers(route) ==
  /\ route.needs = {}
  /\ \E o \in DOMAIN Outside : route.takes \subseteq Outside[o]

\* No route of the API is dead: when the last release serves, with every
\* static role made by the seed, each route has a caller that passes its
\* permissions and has the company, office, second factor or verified account
\* that its guards and decorators read (the @Auth of the controllers against
\* the seeded matrix).
EveryRouteServed ==
  /\ stage = "serving"
  /\ release + 1 \notin Releases
  /\ \A n \in Static(release) : roles[n].isStatic
  => \A route \in Routes : OpenToUsers(route) \/ OpenToOthers(route)

-----------------------------------------------------------------------------
(* The inductive invariant.                                                *)

\* Roles the walk has finished with are as released, and so are the rows of
\* the current role that it has come to.
Seeded ==
  /\ stage = "serving" => todo = {}
  /\ stage # "down" => \A n \in Static(release) \ todo :
                          roles[n].isStatic => roles[n].permissions = Want[n]
  /\ stage = "permissions" =>
       /\ role \in todo \cap Static(release)
       /\ left \subseteq Wanted(role)
       /\ \A r \in Wanted(role) \ left :
            roles[role].permissions[r] = Want[role][r]
SeedInv ==
  /\ SeedTypeOK
  /\ todo \subseteq Static(release) \/ stage = "down"
  /\ \A n \in Names : roles[n].isStatic => roles[n].state = "live"
  /\ Seeded
=============================================================================
