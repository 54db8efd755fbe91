---------------------------- MODULE OwnersCascade ----------------------------
(***************************************************************************)
(* The "Owners" collections: organizations own projects, projects own      *)
(* environments.  The database enforces nothing: a child is removed with   *)
(* its owner only because the beforeDelete hooks of Organizations and      *)
(* Projects delete it first.                                               *)
(*                                                                         *)
(* Every await of those hooks is a step of its own, so deletes, saves and  *)
(* crashes interleave between them.  The nested payload.find and           *)
(* payload.delete calls pass no req: they share no transaction with the    *)
(* request that runs the hook.  A bulk payload.delete selects the matching *)
(* documents once, deletes them concurrently, and collects the error of a  *)
(* document that fails instead of throwing it.                             *)
(***************************************************************************)
EXTENDS Naturals, FiniteSets

CONSTANTS
    Orgs,         (* ids of organizations *)
    Projects,     (* ids of projects *)
    Envs,         (* ids of environments *)
    Requests,     (* identities of requests to delete an organization *)
    OrgOf,        (* the organization each of them deletes; two may delete the same *)
    User,         (* the caller of a direct delete of a project *)
    Unborn,       (* "owner" of a document that was never created *)
    Gone,         (* "owner" of a document that was deleted *)
    None,         (* no save in flight *)
    PageLimit,    (* documents in a page of payload.find (10 by default) *)
    MaxSaves,     (* bound: saves the users start *)
    MaxFailures,  (* bound: database operations that fail *)
    MaxCrashes    (* bound: crashes of the server *)

ASSUME OwnersAssumption ==
    /\ {Unborn, Gone, None} \cap (Orgs \cup Projects) = {}
    /\ Unborn # Gone
    /\ User \notin Requests
    /\ OrgOf \in [Requests -> Orgs]
    /\ PageLimit \in Nat \ {0}
    /\ MaxSaves \in Nat /\ MaxFailures \in Nat /\ MaxCrashes \in Nat

Callers == Requests \cup {User}

VARIABLES
    orgs,        (* the organizations in the database *)
    projOrg,     (* the organization of each project *)
    envProj,     (* the project of each environment *)
    pc,          (* where each request to delete an organization is *)
    found,       (* the page of projects its hook found *)
    task,        (* task[c][p]: where caller c's delete of project p is *)
    sel,         (* sel[c][p]: environments that delete still has to remove *)
    late,        (* environments the hook of each request still has to remove *)
    savingP,     (* the organization a validated save of a project will write *)
    savingE,     (* the project a validated save of an environment will write *)
    strayP,      (* history: projects that failed to go, or were written late *)
    strayE,      (* history: environments likewise *)
    owners,      (* history: every organization a project has been in *)
    homes,       (* history: every project an environment has been in *)
    requested,   (* history: the documents a user asked to delete *)
    saves, failures, crashes

db == <<orgs, projOrg, envProj>>
orgVars == <<pc, found, late>>
taskVars == <<task, sel>>
saveVars == <<savingP, savingE>>
history == <<strayP, strayE, owners, homes, requested>>
bounds == <<saves, failures, crashes>>
vars == <<db, orgVars, taskVars, saveVars, history, bounds>>

Settled == {"idle", "deleted", "missing", "failed"}
Phases == Settled \cup {"select", "projects", "environments"}

\* Mutant: the condition on the organization is left out.
ProjectsOf_All(o) == {p \in Projects : projOrg[p] \in Orgs}

ProjectsOf(o) == {p \in Projects : projOrg[p] = o}
EnvsOf(p) == {e \in Envs : envProj[e] = p}
Exists(p) == projOrg[p] \in Orgs

Fails == failures < MaxFailures /\ failures' = failures + 1
Works == UNCHANGED failures

\* Any database that owners, projects and environments can be in before the
\* first request: every child that exists has an owner that exists.
Init ==
    /\ orgs = Orgs
    /\ projOrg \in [Projects -> Orgs \cup {Unborn}]
    /\ envProj \in {f \in [Envs -> Projects \cup {Unborn}] :
                        \A e \in Envs : f[e] \in Projects => projOrg[f[e]] \in Orgs}
    /\ pc = [r \in Requests |-> "idle"]
    /\ found = [r \in Requests |-> {}]
    /\ late = [r \in Requests |-> {}]
    /\ task = [c \in Callers |-> [p \in Projects |-> "none"]]
    /\ sel = [c \in Callers |-> [p \in Projects |-> {}]]
    /\ savingP = [p \in Projects |-> None]
    /\ savingE = [e \in Envs |-> None]
    /\ strayP = {} /\ strayE = {}
    /\ owners = [p \in Projects |-> {projOrg[p]} \cap Orgs]
    /\ homes = [e \in Envs |-> {envProj[e]} \cap Projects]
    /\ requested = {}
    /\ saves = 0 /\ failures = 0 /\ crashes = 0

-----------------------------------------------------------------------------
(* Delete of an organization *)

\* The hook starts with a find of one page.  With no project it returns at
\* once; nothing is left to do but delete the organization itself.
DeleteOrganization(r) ==
    /\ pc[r] \in Settled
    /\ requested' = requested \cup {OrgOf[r]}
    /\ \/ /\ Works
          /\ \/ /\ ProjectsOf(OrgOf[r]) = {}
                /\ found' = [found EXCEPT ![r] = {}]
                /\ pc' = [pc EXCEPT ![r] = "environments"]
             \/ \E page \in SUBSET ProjectsOf(OrgOf[r]) :
                   /\ page # {}
                   /\ Cardinality(page) <= PageLimit
                   /\ page = ProjectsOf(OrgOf[r]) \/ Cardinality(page) = PageLimit
                   /\ found' = [found EXCEPT ![r] = page]
                   /\ pc' = [pc EXCEPT ![r] = "select"]
       \/ Fails /\ pc' = [pc EXCEPT ![r] = "failed"] /\ UNCHANGED found
    /\ UNCHANGED <<db, late, taskVars, saveVars, strayP, strayE, owners, homes, saves, crashes>>

\* Mutant: delete the projects on the page instead of those of the organization.
SelectProjects_PageOnly(r) ==
    /\ pc[r] = "select" /\ Works
    /\ pc' = [pc EXCEPT ![r] = "projects"]
    /\ task' = [task EXCEPT ![r] = [p \in Projects |-> IF p \in found[r] THEN "select" ELSE "none"]]
    /\ UNCHANGED <<db, found, late, sel, saveVars, history, saves, crashes>>

\* payload.delete on projects selects what the organization owns by now: not
\* the page found before.
SelectProjects(r) ==
    /\ pc[r] = "select"
    /\ \/ /\ Works
          /\ pc' = [pc EXCEPT ![r] = "projects"]
          /\ task' = [task EXCEPT ![r] =
                        [p \in Projects |-> IF p \in ProjectsOf(OrgOf[r]) THEN "select" ELSE "none"]]
       \/ Fails /\ pc' = [pc EXCEPT ![r] = "failed"] /\ UNCHANGED task
    /\ UNCHANGED <<db, found, late, sel, saveVars, history, saves, crashes>>

\* Once every project of the bulk delete has settled, the hook deletes the
\* environments of the projects on the page.
SelectEnvironments(r) ==
    /\ pc[r] = "projects"
    /\ \A p \in Projects : task[r][p] = "none"
    /\ \/ /\ Works
          /\ pc' = [pc EXCEPT ![r] = "environments"]
          /\ late' = [late EXCEPT ![r] = {e \in Envs : envProj[e] \in found[r]}]
       \/ Fails /\ pc' = [pc EXCEPT ![r] = "failed"] /\ UNCHANGED late
    /\ UNCHANGED <<db, found, taskVars, saveVars, history, saves, crashes>>

RemoveEnv(e) == envProj' = [envProj EXCEPT ![e] = Gone]

DeleteLateEnvironment(r, e) ==
    /\ pc[r] = "environments" /\ e \in late[r]
    /\ late' = [late EXCEPT ![r] = @ \ {e}]
    /\ \/ Works /\ RemoveEnv(e) /\ UNCHANGED strayE
       \/ Fails /\ strayE' = strayE \cup {e} /\ UNCHANGED envProj
    /\ UNCHANGED <<orgs, projOrg, pc, found, taskVars, saveVars, strayP, owners, homes, requested,
                   saves, crashes>>

\* Mutant: an organization that is gone already is waited for, not reported.
FinishOrganization_NoMissing(r) ==
    /\ pc[r] = "environments" /\ late[r] = {} /\ OrgOf[r] \in orgs
    /\ Works
    /\ orgs' = orgs \ {OrgOf[r]}
    /\ pc' = [pc EXCEPT ![r] = "deleted"]
    /\ UNCHANGED <<projOrg, envProj, found, late, taskVars, saveVars, history, saves, crashes>>

\* The hook is over: Payload looks the organization up and deletes it.
FinishOrganization(r) ==
    /\ pc[r] = "environments" /\ late[r] = {}
    /\ \/ /\ Works
          /\ orgs' = orgs \ {OrgOf[r]}
          /\ pc' = [pc EXCEPT ![r] = IF OrgOf[r] \in orgs THEN "deleted" ELSE "missing"]
       \/ Fails /\ pc' = [pc EXCEPT ![r] = "failed"] /\ UNCHANGED orgs
    /\ UNCHANGED <<projOrg, envProj, found, late, taskVars, saveVars, history, saves, crashes>>

-----------------------------------------------------------------------------
(* Delete of a project, by a user or by the bulk delete of its organization *)

DeleteProject(p) ==
    /\ task[User][p] = "none" /\ projOrg[p] # Unborn
    /\ task' = [task EXCEPT ![User][p] = "select"]
    /\ requested' = requested \cup {p}
    /\ UNCHANGED <<db, orgVars, sel, saveVars, strayP, strayE, owners, homes, bounds>>

\* A project the caller could not delete.  Only the bulk delete of an
\* organization goes on without it.
LeftBehind(c, p) == strayP' = IF c = User THEN strayP ELSE strayP \cup {p}

\* The hook of Projects: a bulk delete of the environments of the project.  A
\* find that throws abandons this project.
SelectProjectEnvironments(c, p) ==
    /\ task[c][p] = "select"
    /\ \/ /\ Works
          /\ task' = [task EXCEPT ![c][p] = "envs"]
          /\ sel' = [sel EXCEPT ![c][p] = EnvsOf(p)]
          /\ UNCHANGED strayP
       \/ Fails /\ task' = [task EXCEPT ![c][p] = "none"] /\ LeftBehind(c, p) /\ UNCHANGED sel
    /\ UNCHANGED <<db, orgVars, saveVars, strayE, owners, homes, requested, saves, crashes>>

DeleteProjectEnvironment(c, p, e) ==
    /\ task[c][p] = "envs" /\ e \in sel[c][p]
    /\ sel' = [sel EXCEPT ![c][p] = @ \ {e}]
    /\ \/ Works /\ RemoveEnv(e) /\ UNCHANGED strayE
       \/ Fails /\ strayE' = strayE \cup {e} /\ UNCHANGED envProj
    /\ UNCHANGED <<orgs, projOrg, orgVars, task, saveVars, strayP, owners, homes, requested,
                   saves, crashes>>

\* Mutant: the hook of Projects does not await its bulk delete.
FinishProject_NotAwaited(c, p) ==
    /\ task[c][p] = "envs" /\ Works
    /\ task' = [task EXCEPT ![c][p] = "none"]
    /\ projOrg' = [projOrg EXCEPT ![p] = Gone]
    /\ UNCHANGED <<orgs, envProj, orgVars, sel, saveVars, history, saves, crashes>>

FinishProject(c, p) ==
    /\ task[c][p] = "envs" /\ sel[c][p] = {}
    /\ task' = [task EXCEPT ![c][p] = "none"]
    /\ \/ Works /\ projOrg' = [projOrg EXCEPT ![p] = Gone] /\ UNCHANGED strayP
       \/ Fails /\ LeftBehind(c, p) /\ UNCHANGED projOrg
    /\ UNCHANGED <<orgs, envProj, orgVars, sel, saveVars, strayE, owners, homes, requested,
                   saves, crashes>>

\* Environments have no hook.
DeleteEnvironment(e) ==
    /\ envProj[e] \in Projects
    /\ requested' = requested \cup {e}
    /\ RemoveEnv(e)
    /\ UNCHANGED <<orgs, projOrg, orgVars, taskVars, saveVars, strayP, strayE, owners, homes, bounds>>

-----------------------------------------------------------------------------
(* Saves: create a document or move it to another owner.  The relationship
   field is validated against the database, then the document is written. *)

ValidateProject(p, o) ==
    /\ saves < MaxSaves
    /\ o \in orgs /\ projOrg[p] # Gone /\ savingP[p] = None
    /\ savingP' = [savingP EXCEPT ![p] = o]
    /\ saves' = saves + 1
    /\ UNCHANGED <<db, orgVars, taskVars, savingE, history, failures, crashes>>

ValidateEnvironment(e, p) ==
    /\ saves < MaxSaves
    /\ Exists(p) /\ envProj[e] # Gone /\ savingE[e] = None
    /\ savingE' = [savingE EXCEPT ![e] = p]
    /\ saves' = saves + 1
    /\ UNCHANGED <<db, orgVars, taskVars, savingP, history, failures, crashes>>

\* The owner's delete selected its children already, or is over.
OrgTooLate(o) ==
    o \notin orgs \/ \E r \in Requests : OrgOf[r] = o /\ pc[r] \in {"projects", "environments"}
ProjectTooLate(p) == ~Exists(p) \/ \E c \in Callers : task[c][p] = "envs"

\* An update whose document was deleted meanwhile matches nothing.
WriteProject(p) ==
    /\ savingP[p] # None
    /\ savingP' = [savingP EXCEPT ![p] = None]
    /\ IF projOrg[p] = Gone
       THEN UNCHANGED <<projOrg, strayP, owners>>
       ELSE /\ projOrg' = [projOrg EXCEPT ![p] = savingP[p]]
            /\ owners' = [owners EXCEPT ![p] = @ \cup {savingP[p]}]
            /\ strayP' = IF OrgTooLate(savingP[p]) THEN strayP \cup {p} ELSE strayP
    /\ UNCHANGED <<orgs, envProj, orgVars, taskVars, savingE, strayE, homes, requested, bounds>>

WriteEnvironment(e) ==
    /\ savingE[e] # None
    /\ savingE' = [savingE EXCEPT ![e] = None]
    /\ IF envProj[e] = Gone
       THEN UNCHANGED <<envProj, strayE, homes>>
       ELSE /\ envProj' = [envProj EXCEPT ![e] = savingE[e]]
            /\ homes' = [homes EXCEPT ![e] = @ \cup {savingE[e]}]
            /\ strayE' = IF ProjectTooLate(savingE[e]) THEN strayE \cup {e} ELSE strayE
    /\ UNCHANGED <<orgs, projOrg, orgVars, taskVars, savingP, strayP, owners, requested, bounds>>

-----------------------------------------------------------------------------
\* The process dies: every request it was serving is forgotten.
Crash ==
    /\ crashes < MaxCrashes
    /\ crashes' = crashes + 1
    /\ pc' = [r \in Requests |-> "idle"]
    /\ found' = [r \in Requests |-> {}]
    /\ late' = [r \in Requests |-> {}]
    /\ task' = [c \in Callers |-> [p \in Projects |-> "none"]]
    /\ sel' = [c \in Callers |-> [p \in Projects |-> {}]]
    /\ savingP' = [p \in Projects |-> None]
    /\ savingE' = [e \in Envs |-> None]
    /\ UNCHANGED <<db, history, saves, failures>>

OrgStep(r) ==
    \/ SelectProjects(r)
    \/ SelectEnvironments(r)
    \/ \E e \in Envs : DeleteLateEnvironment(r, e)
    \/ FinishOrganization(r)

ProjectStep(c, p) ==
    \/ SelectProjectEnvironments(c, p)
    \/ \E e \in Envs : DeleteProjectEnvironment(c, p, e)
    \/ FinishProject(c, p)

Next ==
    \/ \E r \in Requests : DeleteOrganization(r) \/ OrgStep(r)
    \/ \E p \in Projects : DeleteProject(p) \/ WriteProject(p)
    \/ \E c \in Callers, p \in Projects : ProjectStep(c, p)
    \/ \E p \in Projects, o \in Orgs : ValidateProject(p, o)
    \/ \E e \in Envs, p \in Projects : ValidateEnvironment(e, p)
    \/ \E e \in Envs : DeleteEnvironment(e) \/ WriteEnvironment(e)
    \/ Crash

Spec == Init /\ [][Next]_vars

\* The event loop resumes a hook whose await has settled, and the database
\* answers: each step of a delete in progress is eventually taken.
Fairness ==
    /\ \A r \in Requests : WF_vars(OrgStep(r))
    /\ \A c \in Callers, p \in Projects : WF_vars(ProjectStep(c, p))
FairSpec == Spec /\ Fairness

-----------------------------------------------------------------------------
(* Properties *)

DbType ==
    /\ orgs \subseteq Orgs
    /\ projOrg \in [Projects -> Orgs \cup {Unborn, Gone}]
    /\ envProj \in [Envs -> Projects \cup {Unborn, Gone}]

RequestType ==
    /\ pc \in [Requests -> Phases]
    /\ found \in [Requests -> SUBSET Projects]
    /\ late \in [Requests -> SUBSET Envs]
    /\ task \in [Callers -> [Projects -> {"none", "select", "envs"}]]
    /\ sel \in [Callers -> [Projects -> SUBSET Envs]]
    /\ savingP \in [Projects -> Orgs \cup {None}]
    /\ savingE \in [Envs -> Projects \cup {None}]

HistoryType ==
    /\ strayP \subseteq Projects /\ strayE \subseteq Envs
    /\ owners \in [Projects -> SUBSET Orgs]
    /\ homes \in [Envs -> SUBSET Projects]
    /\ requested \subseteq Orgs \cup Projects \cup Envs

BoundType == saves \in 0 .. MaxSaves /\ failures \in 0 .. MaxFailures /\ crashes \in 0 .. MaxCrashes

TypeOK == DbType /\ RequestType /\ HistoryType /\ BoundType

\* The cascade works bottom-up (environments, projects, organization), so at
\* every instant, after a crash too, a child without its owner is one whose own
\* delete failed or that was written while its owner was being deleted.
OrphanProjects == \A p \in Projects : projOrg[p] \in Orgs \ orgs => p \in strayP
OrphanEnvironments ==
    \A e \in Envs : envProj[e] \in Projects /\ ~Exists(envProj[e]) => e \in strayE
OrphansAreExplained == OrphanProjects /\ OrphanEnvironments

\* Why: what a delete has selected is all its owner still has, but for strays.
\* The page of the first find plays no part in it.
ProjectsCovered ==
    \A r \in Requests, p \in Projects : projOrg[p] = OrgOf[r] =>
        /\ pc[r] = "projects" => task[r][p] # "none" \/ p \in strayP
        /\ pc[r] = "environments" => p \in strayP
EnvironmentsCovered ==
    \A c \in Callers, p \in Projects, e \in Envs :
        task[c][p] = "envs" /\ envProj[e] = p => e \in sel[c][p] \/ e \in strayE
SelectionsCover == ProjectsCovered /\ EnvironmentsCovered

\* Deleting an organization or a project takes no document with it that was
\* never below it.
Doomed(p) == p \in requested \/ owners[p] \cap requested # {}
NothingElseIsDeleted ==
    /\ \A p \in Projects : projOrg[p] = Gone => Doomed(p)
    /\ \A e \in Envs : envProj[e] = Gone => e \in requested \/ \E p \in homes[e] : Doomed(p)

\* A delete request is always answered, whatever fails under its hook and
\* whoever deletes or writes the same documents meanwhile.
DeleteIsAnswered == \A r \in Requests : pc[r] \notin Settled ~> pc[r] \in Settled
=============================================================================
