---------------------------- MODULE Permissions ----------------------------
(***************************************************************************)
(* The permission gate of src/src/agentic/gatherers/permissions.py as pure *)
(* operators.  Two independent configurations must agree before a role may *)
(* read a path:                                                            *)
(*   - perms, the permissions config: a function from the roles it defines *)
(*     to the departments each may touch (PermissionsConfig.roles);        *)
(*   - env, the environment config: for each department the roles on its   *)
(*     allow-list (DepartmentConfig.allowed_roles).                        *)
(* Inside[d] is the set of relative paths that resolve strictly inside     *)
(* department d: for a local department Path.resolve() containment, for a  *)
(* cloud one the string-level test.  A glob can also match a path outside  *)
(* it, a symbolic link for instance; links do not move during a run.       *)
(***************************************************************************)
EXTENDS Naturals, FiniteSets

CONSTANTS Roles, Departments, Paths,
          CloudDepartments,   \* departments with a `storage` block
          Inside

ASSUME PermissionsAssumption ==
    /\ CloudDepartments \subseteq Departments
    /\ Inside \in [Departments -> SUBSET Paths]

-----------------------------------------------------------------------------
(* Configurations.  A permissions config defines only some roles; a file   *)
(* that is missing, unparsable or malformed makes load_permissions_config  *)
(* raise, as a config that defines no role at all does: NoRoles is both.   *)

PermissionsConfigs == UNION {[known -> SUBSET Departments] : known \in SUBSET Roles}
EnvironmentConfigs == [Departments -> SUBSET Roles]
NoRoles == [role \in {} |-> {}]

RoleKnown(role, perms) == role \in DOMAIN perms

DepartmentsForRole(role, perms) ==
    IF RoleKnown(role, perms) THEN perms[role] ELSE {}

(* load_permissions_config(principal_role = role): an override that the    *)
(* file does not define raises ConfigError instead of widening access.     *)
Loadable(yaml, role) == RoleKnown(role, yaml)

PathWithin(path, d) == path \in Inside[d]

(* Fault: the allow-list alone, without containment.                       *)
CheckListOnly(path, role, d, env) == role \in env[d]

(* The environment half of the gate: allow-list and containment.           *)
Check(path, role, d, env) == role \in env[d] /\ PathWithin(path, d)

(* The department half of the AND gate, asked without a path.              *)
DepartmentAllowed(role, d, perms, env) ==
    /\ RoleKnown(role, perms)
    /\ d \in DepartmentsForRole(role, perms)
    /\ role \in env[d]

(* The full gate, fail closed on any disagreement.                         *)
Allowed(path, role, d, perms, env) ==
    /\ DepartmentAllowed(role, d, perms, env)
    /\ Check(path, role, d, env)
=============================================================================
