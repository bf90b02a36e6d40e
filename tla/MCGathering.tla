---------------------------- MODULE MCGathering ----------------------------
(* Instances of Gathering for TLC: a local and a cloud department, two      *)
(* ordinary documents and a link that leads out of its department.         *)
EXTENDS Gathering

CONSTANTS analyst, admin, engineering, finance, report, ledgerFile, link, r1, r2

MCInside == [d \in Departments |-> Paths \ {link}]
MCSize == [p \in Paths |-> 1]

Everything == [x \in Roles |-> Departments]
(* The analyst's grants stop short of the cloud department.                *)
Narrow == [x \in Roles |-> IF x = analyst THEN Departments \ CloudDepartments
                                          ELSE Departments]
(* Only the admin role is defined.                                         *)
AdminOnly == [x \in {admin} |-> Departments]

OpenEnv == [d \in Departments |-> Roles]
(* The environment config keeps the analyst out of local departments.      *)
ClosedEnv == [d \in Departments |-> IF d \in CloudDepartments THEN Roles ELSE {admin}]

PermissionChoices == {Everything, Narrow, AdminOnly}
EnvironmentChoices == {OpenEnv, ClosedEnv}
FullStores == {[d \in Departments |-> Paths]}
(* One closed to the analyst in local departments all along.               *)
ClosedOnly == {ClosedEnv}
(* Another department's document, and a link out of one's own.             *)
Foreign == {[department |-> d, path |-> IF d \in CloudDepartments THEN report ELSE link] :
               d \in Departments}
NoForeign == {}
=============================================================================
