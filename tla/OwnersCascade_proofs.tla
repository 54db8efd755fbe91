------------------------ MODULE OwnersCascade_proofs ------------------------
(***************************************************************************)
(* Proofs about the cascade of OwnersCascade, for every set of             *)
(* organizations, projects, environments and requests, every page size and *)
(* every number of saves, failures and crashes.                            *)
(***************************************************************************)
EXTENDS OwnersCascade, FiniteSetTheorems, TLAPS

USE OwnersAssumption DEF Callers, Settled, Phases, ProjectsOf, EnvsOf, Exists, Fails, Works,
        RemoveEnv, LeftBehind, OrgTooLate, ProjectTooLate,
        vars, db, orgVars, taskVars, saveVars, history, bounds

-----------------------------------------------------------------------------
\* Updating a function at a point of its domain keeps its type.
LEMMA ExceptType ==
    ASSUME NEW D, NEW R, NEW f \in [D -> R], NEW d \in D, NEW r \in R
    PROVE  [f EXCEPT ![d] = r] \in [D -> R]
  OBVIOUS

-----------------------------------------------------------------------------
(* Types, one part of TypeOK after the other *)

LEMMA TypeInit == Init => TypeOK
  BY DEF Init, TypeOK, DbType, RequestType, HistoryType, BoundType

LEMMA BoundNext == BoundType /\ [Next]_vars => BoundType'
<1> SUFFICES ASSUME BoundType, [Next]_vars PROVE BoundType'
  OBVIOUS
<1> USE DEF BoundType
<1>1. ASSUME NEW r \in Requests, DeleteOrganization(r) PROVE BoundType'
  BY <1>1 DEF DeleteOrganization
<1>2. ASSUME NEW r \in Requests, SelectProjects(r) PROVE BoundType'
  BY <1>2 DEF SelectProjects
<1>3. ASSUME NEW r \in Requests, SelectEnvironments(r) PROVE BoundType'
  BY <1>3 DEF SelectEnvironments
<1>4. ASSUME NEW r \in Requests, NEW e \in Envs, DeleteLateEnvironment(r, e) PROVE BoundType'
  BY <1>4 DEF DeleteLateEnvironment
<1>5. ASSUME NEW r \in Requests, FinishOrganization(r) PROVE BoundType'
  BY <1>5 DEF FinishOrganization
<1>6. ASSUME NEW p \in Projects, DeleteProject(p) PROVE BoundType'
  BY <1>6 DEF DeleteProject
<1>7. ASSUME NEW c \in Callers, NEW p \in Projects,
             SelectProjectEnvironments(c, p)
      PROVE  BoundType'
  BY <1>7 DEF SelectProjectEnvironments
<1>8. ASSUME NEW c \in Callers, NEW p \in Projects, NEW e \in Envs,
             DeleteProjectEnvironment(c, p, e)
      PROVE  BoundType'
  BY <1>8 DEF DeleteProjectEnvironment
<1>9. ASSUME NEW c \in Callers, NEW p \in Projects, FinishProject(c, p) PROVE BoundType'
  BY <1>9 DEF FinishProject
<1>10. ASSUME NEW e \in Envs, DeleteEnvironment(e) PROVE BoundType'
  BY <1>10 DEF DeleteEnvironment
<1>11. ASSUME NEW p \in Projects, NEW o \in Orgs, ValidateProject(p, o) PROVE BoundType'
  BY <1>11 DEF ValidateProject
<1>12. ASSUME NEW e \in Envs, NEW p \in Projects, ValidateEnvironment(e, p) PROVE BoundType'
  BY <1>12 DEF ValidateEnvironment
<1>13. ASSUME NEW p \in Projects, WriteProject(p) PROVE BoundType'
  BY <1>13 DEF WriteProject
<1>14. ASSUME NEW e \in Envs, WriteEnvironment(e) PROVE BoundType'
  BY <1>14 DEF WriteEnvironment
<1>15. CASE Crash
  BY <1>15 DEF Crash
<1>16. CASE UNCHANGED vars
  BY <1>16
<1> QED
  BY <1>1, <1>2, <1>3, <1>4, <1>5, <1>6, <1>7, <1>8, <1>9, <1>10, <1>11, <1>12, <1>13, <1>14,
     <1>15, <1>16 DEF Next, OrgStep, ProjectStep

LEMMA DbNext == DbType /\ RequestType /\ [Next]_vars => DbType'
<1> SUFFICES ASSUME DbType /\ RequestType, [Next]_vars PROVE DbType'
  OBVIOUS
<1> USE DEF DbType, RequestType
<1>1. ASSUME NEW r \in Requests, DeleteOrganization(r) PROVE DbType'
  BY <1>1 DEF DeleteOrganization
<1>2. ASSUME NEW r \in Requests, SelectProjects(r) PROVE DbType'
  BY <1>2 DEF SelectProjects
<1>3. ASSUME NEW r \in Requests, SelectEnvironments(r) PROVE DbType'
  BY <1>3 DEF SelectEnvironments
<1>4. ASSUME NEW r \in Requests, NEW e \in Envs, DeleteLateEnvironment(r, e) PROVE DbType'
  BY <1>4 DEF DeleteLateEnvironment
<1>5. ASSUME NEW r \in Requests, FinishOrganization(r) PROVE DbType'
  BY <1>5 DEF FinishOrganization
<1>6. ASSUME NEW p \in Projects, DeleteProject(p) PROVE DbType'
  BY <1>6 DEF DeleteProject
<1>7. ASSUME NEW c \in Callers, NEW p \in Projects, SelectProjectEnvironments(c, p) PROVE DbType'
  BY <1>7 DEF SelectProjectEnvironments
<1>8. ASSUME NEW c \in Callers, NEW p \in Projects, NEW e \in Envs,
             DeleteProjectEnvironment(c, p, e)
      PROVE  DbType'
  BY <1>8 DEF DeleteProjectEnvironment
<1>9. ASSUME NEW c \in Callers, NEW p \in Projects, FinishProject(c, p) PROVE DbType'
  BY <1>9 DEF FinishProject
<1>10. ASSUME NEW e \in Envs, DeleteEnvironment(e) PROVE DbType'
  BY <1>10 DEF DeleteEnvironment
<1>11. ASSUME NEW p \in Projects, NEW o \in Orgs, ValidateProject(p, o) PROVE DbType'
  BY <1>11 DEF ValidateProject
<1>12. ASSUME NEW e \in Envs, NEW p \in Projects, ValidateEnvironment(e, p) PROVE DbType'
  BY <1>12 DEF ValidateEnvironment
<1>13. ASSUME NEW p \in Projects, WriteProject(p) PROVE DbType'
  BY <1>13 DEF WriteProject
<1>14. ASSUME NEW e \in Envs, WriteEnvironment(e) PROVE DbType'
  BY <1>14 DEF WriteEnvironment
<1>15. CASE Crash
  BY <1>15 DEF Crash
<1>16. CASE UNCHANGED vars
  BY <1>16
<1> QED
  BY <1>1, <1>2, <1>3, <1>4, <1>5, <1>6, <1>7, <1>8, <1>9, <1>10, <1>11, <1>12, <1>13, <1>14,
     <1>15, <1>16 DEF Next, OrgStep, ProjectStep

LEMMA RequestNext == DbType /\ RequestType /\ [Next]_vars => RequestType'
<1> SUFFICES ASSUME DbType /\ RequestType, [Next]_vars PROVE RequestType'
  OBVIOUS
<1> USE DEF DbType, RequestType
<1>1. ASSUME NEW r \in Requests, DeleteOrganization(r) PROVE RequestType'
  <2>1. \/ found' = found
        \/ \E page \in SUBSET Projects : found' = [found EXCEPT ![r] = page]
    BY <1>1 DEF DeleteOrganization
  <2>2. \E phase \in Phases : pc' = [pc EXCEPT ![r] = phase]
    BY <1>1 DEF DeleteOrganization
  <2>3. UNCHANGED <<late, taskVars, saveVars>>
    BY <1>1 DEF DeleteOrganization
  <2>4. found' \in [Requests -> SUBSET Projects]
    BY <2>1
  <2>5. pc' \in [Requests -> Phases]
    BY <2>2
  <2> QED
    BY <2>3, <2>4, <2>5
<1>2. ASSUME NEW r \in Requests, SelectProjects(r) PROVE RequestType'
  <2>1. \/ task' = task
        \/ \E f \in [Projects -> {"none", "select"}] : task' = [task EXCEPT ![r] = f]
    BY <1>2 DEF SelectProjects
  <2>2. pc' \in [Requests -> Phases] /\ UNCHANGED <<found, late, sel, saveVars>>
    BY <1>2 DEF SelectProjects
  <2>3. task' \in [Callers -> [Projects -> {"none", "select", "envs"}]]
    <3>1. CASE task' = task
      BY <3>1
    <3>2. ASSUME NEW f \in [Projects -> {"none", "select"}], task' = [task EXCEPT ![r] = f]
          PROVE  task' \in [Callers -> [Projects -> {"none", "select", "envs"}]]
      <4>1. f \in [Projects -> {"none", "select", "envs"}]
        OBVIOUS
      <4> QED
        BY <3>2, <4>1, ExceptType
    <3> QED
      BY <2>1, <3>1, <3>2
  <2> QED
    BY <2>2, <2>3
<1>3. ASSUME NEW r \in Requests, SelectEnvironments(r) PROVE RequestType'
  <2>1. \/ late' = late
        \/ \E S \in SUBSET Envs : late' = [late EXCEPT ![r] = S]
    BY <1>3 DEF SelectEnvironments
  <2>2. pc' \in [Requests -> Phases] /\ UNCHANGED <<found, taskVars, saveVars>>
    BY <1>3 DEF SelectEnvironments
  <2>3. late' \in [Requests -> SUBSET Envs]
    BY <2>1
  <2> QED
    BY <2>2, <2>3
<1>4. ASSUME NEW r \in Requests, NEW e \in Envs, DeleteLateEnvironment(r, e) PROVE RequestType'
  BY <1>4 DEF DeleteLateEnvironment
<1>5. ASSUME NEW r \in Requests, FinishOrganization(r) PROVE RequestType'
  BY <1>5 DEF FinishOrganization
<1>6. ASSUME NEW p \in Projects, DeleteProject(p) PROVE RequestType'
  BY <1>6 DEF DeleteProject
<1>7. ASSUME NEW c \in Callers, NEW p \in Projects,
             SelectProjectEnvironments(c, p)
      PROVE  RequestType'
  <2>1. \/ sel' = sel
        \/ \E S \in SUBSET Envs : sel' = [sel EXCEPT ![c][p] = S]
    BY <1>7 DEF SelectProjectEnvironments
  <2>2. \E step \in {"none", "envs"} : task' = [task EXCEPT ![c][p] = step]
    BY <1>7 DEF SelectProjectEnvironments
  <2>3. UNCHANGED <<orgVars, saveVars>>
    BY <1>7 DEF SelectProjectEnvironments
  <2>4. sel' \in [Callers -> [Projects -> SUBSET Envs]]
    <3>1. sel[c] \in [Projects -> SUBSET Envs]
      OBVIOUS
    <3>2. \A S \in SUBSET Envs : [sel[c] EXCEPT ![p] = S] \in [Projects -> SUBSET Envs]
      BY <3>1, ExceptType
    <3>3. \A S \in SUBSET Envs :
            [sel EXCEPT ![c] = [sel[c] EXCEPT ![p] = S]] \in [Callers -> [Projects -> SUBSET Envs]]
      BY <3>2, ExceptType
    <3>4. ASSUME NEW S \in SUBSET Envs, sel' = [sel EXCEPT ![c][p] = S]
          PROVE  sel' \in [Callers -> [Projects -> SUBSET Envs]]
      BY <3>3, <3>4
    <3> QED
      BY <2>1, <3>4
  <2>5. task' \in [Callers -> [Projects -> {"none", "select", "envs"}]]
    BY <2>2
  <2> QED
    BY <2>3, <2>4, <2>5
<1>8. ASSUME NEW c \in Callers, NEW p \in Projects, NEW e \in Envs,
             DeleteProjectEnvironment(c, p, e)
      PROVE  RequestType'
  BY <1>8 DEF DeleteProjectEnvironment
<1>9. ASSUME NEW c \in Callers, NEW p \in Projects, FinishProject(c, p) PROVE RequestType'
  BY <1>9 DEF FinishProject
<1>10. ASSUME NEW e \in Envs, DeleteEnvironment(e) PROVE RequestType'
  BY <1>10 DEF DeleteEnvironment
<1>11. ASSUME NEW p \in Projects, NEW o \in Orgs, ValidateProject(p, o) PROVE RequestType'
  BY <1>11 DEF ValidateProject
<1>12. ASSUME NEW e \in Envs, NEW p \in Projects, ValidateEnvironment(e, p) PROVE RequestType'
  BY <1>12 DEF ValidateEnvironment
<1>13. ASSUME NEW p \in Projects, WriteProject(p) PROVE RequestType'
  BY <1>13 DEF WriteProject
<1>14. ASSUME NEW e \in Envs, WriteEnvironment(e) PROVE RequestType'
  BY <1>14 DEF WriteEnvironment
<1>15. CASE Crash
  BY <1>15 DEF Crash
<1>16. CASE UNCHANGED vars
  BY <1>16
<1> QED
  BY <1>1, <1>2, <1>3, <1>4, <1>5, <1>6, <1>7, <1>8, <1>9, <1>10, <1>11, <1>12, <1>13, <1>14,
     <1>15, <1>16 DEF Next, OrgStep, ProjectStep

LEMMA HistoryNext == DbType /\ RequestType /\ HistoryType /\ [Next]_vars => HistoryType'
<1> SUFFICES ASSUME DbType /\ RequestType /\ HistoryType, [Next]_vars PROVE HistoryType'
  OBVIOUS
<1> USE DEF DbType, RequestType, HistoryType
<1>1. ASSUME NEW r \in Requests, DeleteOrganization(r) PROVE HistoryType'
  BY <1>1 DEF DeleteOrganization
<1>2. ASSUME NEW r \in Requests, SelectProjects(r) PROVE HistoryType'
  BY <1>2 DEF SelectProjects
<1>3. ASSUME NEW r \in Requests, SelectEnvironments(r) PROVE HistoryType'
  BY <1>3 DEF SelectEnvironments
<1>4. ASSUME NEW r \in Requests, NEW e \in Envs, DeleteLateEnvironment(r, e) PROVE HistoryType'
  BY <1>4 DEF DeleteLateEnvironment
<1>5. ASSUME NEW r \in Requests, FinishOrganization(r) PROVE HistoryType'
  BY <1>5 DEF FinishOrganization
<1>6. ASSUME NEW p \in Projects, DeleteProject(p) PROVE HistoryType'
  BY <1>6 DEF DeleteProject
<1>7. ASSUME NEW c \in Callers, NEW p \in Projects,
             SelectProjectEnvironments(c, p)
      PROVE  HistoryType'
  BY <1>7 DEF SelectProjectEnvironments
<1>8. ASSUME NEW c \in Callers, NEW p \in Projects, NEW e \in Envs,
             DeleteProjectEnvironment(c, p, e)
      PROVE  HistoryType'
  BY <1>8 DEF DeleteProjectEnvironment
<1>9. ASSUME NEW c \in Callers, NEW p \in Projects, FinishProject(c, p) PROVE HistoryType'
  BY <1>9 DEF FinishProject
<1>10. ASSUME NEW e \in Envs, DeleteEnvironment(e) PROVE HistoryType'
  BY <1>10 DEF DeleteEnvironment
<1>11. ASSUME NEW p \in Projects, NEW o \in Orgs, ValidateProject(p, o) PROVE HistoryType'
  BY <1>11 DEF ValidateProject
<1>12. ASSUME NEW e \in Envs, NEW p \in Projects, ValidateEnvironment(e, p) PROVE HistoryType'
  BY <1>12 DEF ValidateEnvironment
<1>13. ASSUME NEW p \in Projects, WriteProject(p) PROVE HistoryType'
  <2>1. CASE projOrg[p] = Gone
    BY <1>13, <2>1 DEF WriteProject
  <2>2. CASE projOrg[p] # Gone
    <3>1. savingP[p] \in Orgs
      BY <1>13 DEF WriteProject
    <3>2. owners' = [owners EXCEPT ![p] = @ \cup {savingP[p]}]
      BY <1>13, <2>2 DEF WriteProject
    <3>3. strayP' \subseteq Projects /\ UNCHANGED <<strayE, homes, requested>>
      BY <1>13, <2>2 DEF WriteProject
    <3> QED
      BY <3>1, <3>2, <3>3
  <2> QED
    BY <2>1, <2>2
<1>14. ASSUME NEW e \in Envs, WriteEnvironment(e) PROVE HistoryType'
  <2>1. CASE envProj[e] = Gone
    BY <1>14, <2>1 DEF WriteEnvironment
  <2>2. CASE envProj[e] # Gone
    <3>1. savingE[e] \in Projects
      BY <1>14 DEF WriteEnvironment
    <3>2. homes' = [homes EXCEPT ![e] = @ \cup {savingE[e]}]
      BY <1>14, <2>2 DEF WriteEnvironment
    <3>3. strayE' \subseteq Envs /\ UNCHANGED <<strayP, owners, requested>>
      BY <1>14, <2>2 DEF WriteEnvironment
    <3> QED
      BY <3>1, <3>2, <3>3
  <2> QED
    BY <2>1, <2>2
<1>15. CASE Crash
  BY <1>15 DEF Crash
<1>16. CASE UNCHANGED vars
  BY <1>16
<1> QED
  BY <1>1, <1>2, <1>3, <1>4, <1>5, <1>6, <1>7, <1>8, <1>9, <1>10, <1>11, <1>12, <1>13, <1>14,
     <1>15, <1>16 DEF Next, OrgStep, ProjectStep

LEMMA TypeNext == TypeOK /\ [Next]_vars => TypeOK'
  BY BoundNext, DbNext, RequestNext, HistoryNext DEF TypeOK

\* Every variable keeps its type in every reachable state.
THEOREM TypeCorrect == Spec => []TypeOK
  BY TypeInit, TypeNext, PTL DEF Spec

-----------------------------------------------------------------------------
(* Orphans *)

LEMMA ProjectsNext ==
    TypeOK /\ ProjectsCovered /\ OrphanProjects /\ [Next]_vars => (ProjectsCovered /\ OrphanProjects)'
<1> SUFFICES ASSUME TypeOK, ProjectsCovered, OrphanProjects, [Next]_vars
             PROVE  (ProjectsCovered /\ OrphanProjects)'
  OBVIOUS
<1> USE DEF TypeOK, DbType, RequestType, HistoryType, ProjectsCovered, OrphanProjects
<1>1. ASSUME NEW r \in Requests, DeleteOrganization(r)
      PROVE  (ProjectsCovered /\ OrphanProjects)'
  BY <1>1 DEF DeleteOrganization
<1>2. ASSUME NEW r \in Requests, SelectProjects(r)
      PROVE  (ProjectsCovered /\ OrphanProjects)'
  BY <1>2 DEF SelectProjects
<1>3. ASSUME NEW r \in Requests, SelectEnvironments(r)
      PROVE  (ProjectsCovered /\ OrphanProjects)'
  BY <1>3 DEF SelectEnvironments
<1>4. ASSUME NEW r \in Requests, NEW e \in Envs, DeleteLateEnvironment(r, e)
      PROVE  (ProjectsCovered /\ OrphanProjects)'
  BY <1>4 DEF DeleteLateEnvironment
<1>5. ASSUME NEW r \in Requests, FinishOrganization(r)
      PROVE  (ProjectsCovered /\ OrphanProjects)'
  BY <1>5 DEF FinishOrganization
<1>6. ASSUME NEW p \in Projects, DeleteProject(p)
      PROVE  (ProjectsCovered /\ OrphanProjects)'
  BY <1>6 DEF DeleteProject
<1>7. ASSUME NEW c \in Callers, NEW p \in Projects, SelectProjectEnvironments(c, p)
      PROVE  (ProjectsCovered /\ OrphanProjects)'
  <2>1. \A d \in Callers, q \in Projects :
          d # c \/ q # p => task'[d][q] = task[d][q]
    BY <1>7 DEF SelectProjectEnvironments
  <2>2. UNCHANGED <<orgs, pc, projOrg>> /\ strayP \subseteq strayP'
    BY <1>7 DEF SelectProjectEnvironments
  <2>3. task'[c][p] # "none" \/ c = User \/ p \in strayP'
    BY <1>7 DEF SelectProjectEnvironments
  <2> QED
    BY <2>1, <2>2, <2>3
<1>8. ASSUME NEW c \in Callers, NEW p \in Projects, NEW e \in Envs, DeleteProjectEnvironment(c, p, e)
      PROVE  (ProjectsCovered /\ OrphanProjects)'
  BY <1>8 DEF DeleteProjectEnvironment
<1>9. ASSUME NEW c \in Callers, NEW p \in Projects, FinishProject(c, p)
      PROVE  (ProjectsCovered /\ OrphanProjects)'
  <2>1. \A d \in Callers, q \in Projects :
          task'[d][q] = IF d = c /\ q = p THEN "none" ELSE task[d][q]
    BY <1>9 DEF FinishProject
  <2>2. /\ UNCHANGED <<orgs, pc>> /\ strayP \subseteq strayP'
        /\ \A q \in Projects : projOrg'[q] # projOrg[q] => projOrg'[q] = Gone
    BY <1>9 DEF FinishProject
  <2>3. projOrg'[p] = Gone \/ c = User \/ p \in strayP'
    BY <1>9 DEF FinishProject
  <2> QED
    BY <2>1, <2>2, <2>3
<1>10. ASSUME NEW e \in Envs, DeleteEnvironment(e)
      PROVE  (ProjectsCovered /\ OrphanProjects)'
  BY <1>10 DEF DeleteEnvironment
<1>11. ASSUME NEW p \in Projects, NEW o \in Orgs, ValidateProject(p, o)
      PROVE  (ProjectsCovered /\ OrphanProjects)'
  BY <1>11 DEF ValidateProject
<1>12. ASSUME NEW e \in Envs, NEW p \in Projects, ValidateEnvironment(e, p)
      PROVE  (ProjectsCovered /\ OrphanProjects)'
  BY <1>12 DEF ValidateEnvironment
<1>13. ASSUME NEW p \in Projects, WriteProject(p)
      PROVE  (ProjectsCovered /\ OrphanProjects)'
  BY <1>13 DEF WriteProject
<1>14. ASSUME NEW e \in Envs, WriteEnvironment(e)
      PROVE  (ProjectsCovered /\ OrphanProjects)'
  BY <1>14 DEF WriteEnvironment
<1>15. CASE Crash
  BY <1>15 DEF Crash
<1>16. CASE UNCHANGED vars
  BY <1>16
<1> QED
  BY <1>1, <1>2, <1>3, <1>4, <1>5, <1>6, <1>7, <1>8, <1>9, <1>10, <1>11, <1>12, <1>13, <1>14,
     <1>15, <1>16 DEF Next, OrgStep, ProjectStep

LEMMA EnvironmentsNext ==
    TypeOK /\ EnvironmentsCovered /\ OrphanEnvironments /\ [Next]_vars => (EnvironmentsCovered /\ OrphanEnvironments)'
<1> SUFFICES ASSUME TypeOK, EnvironmentsCovered, OrphanEnvironments, [Next]_vars
             PROVE  (EnvironmentsCovered /\ OrphanEnvironments)'
  OBVIOUS
<1> USE DEF TypeOK, DbType, RequestType, HistoryType, EnvironmentsCovered, OrphanEnvironments
<1>1. ASSUME NEW r \in Requests, DeleteOrganization(r)
      PROVE  (EnvironmentsCovered /\ OrphanEnvironments)'
  BY <1>1 DEF DeleteOrganization
<1>2. ASSUME NEW r \in Requests, SelectProjects(r)
      PROVE  (EnvironmentsCovered /\ OrphanEnvironments)'
  <2>1. \A d \in Callers, q \in Projects : task'[d][q] = "envs" => task[d][q] = "envs"
    <3>1. CASE task' = task
      BY <3>1
    <3>2. ASSUME NEW f \in [Projects -> {"none", "select"}], task' = [task EXCEPT ![r] = f],
                 NEW d \in Callers, NEW q \in Projects, task'[d][q] = "envs"
          PROVE  task[d][q] = "envs"
      <4>1. CASE d = r
        BY <3>2, <4>1
      <4>2. CASE d # r
        BY <3>2, <4>2
      <4> QED
        BY <4>1, <4>2
    <3>3. task' = task \/ \E f \in [Projects -> {"none", "select"}] : task' = [task EXCEPT ![r] = f]
      BY <1>2 DEF SelectProjects
    <3> QED
      BY <3>1, <3>2, <3>3
  <2>2. UNCHANGED <<projOrg, envProj, sel, strayE>>
    BY <1>2 DEF SelectProjects
  <2> QED
    BY <2>1, <2>2
<1>3. ASSUME NEW r \in Requests, SelectEnvironments(r)
      PROVE  (EnvironmentsCovered /\ OrphanEnvironments)'
  BY <1>3 DEF SelectEnvironments
<1>4. ASSUME NEW r \in Requests, NEW e \in Envs, DeleteLateEnvironment(r, e)
      PROVE  (EnvironmentsCovered /\ OrphanEnvironments)'
  <2>1. UNCHANGED <<projOrg, task, sel>> /\ strayE \subseteq strayE'
    BY <1>4 DEF DeleteLateEnvironment
  <2>2. \A f \in Envs : envProj'[f] # envProj[f] => envProj'[f] = Gone
    BY <1>4 DEF DeleteLateEnvironment
  <2> QED
    BY <2>1, <2>2
<1>5. ASSUME NEW r \in Requests, FinishOrganization(r)
      PROVE  (EnvironmentsCovered /\ OrphanEnvironments)'
  BY <1>5 DEF FinishOrganization
<1>6. ASSUME NEW p \in Projects, DeleteProject(p)
      PROVE  (EnvironmentsCovered /\ OrphanEnvironments)'
  BY <1>6 DEF DeleteProject
<1>7. ASSUME NEW c \in Callers, NEW p \in Projects, SelectProjectEnvironments(c, p)
      PROVE  (EnvironmentsCovered /\ OrphanEnvironments)'
  <2>1. UNCHANGED <<projOrg, envProj, strayE>>
    BY <1>7 DEF SelectProjectEnvironments
  <2>2. \A d \in Callers, q \in Projects :
          task'[d][q] = "envs" =>
            \/ d = c /\ q = p /\ sel'[d][q] = EnvsOf(p)
            \/ task[d][q] = "envs" /\ sel'[d][q] = sel[d][q]
    <3>1. CASE Works /\ task' = [task EXCEPT ![c][p] = "envs"] /\ sel' = [sel EXCEPT ![c][p] = EnvsOf(p)]
      BY <3>1
    <3>2. CASE task' = [task EXCEPT ![c][p] = "none"] /\ sel' = sel
      BY <3>2
    <3> QED
      BY <1>7, <3>1, <3>2 DEF SelectProjectEnvironments
  <2> QED
    BY <2>1, <2>2
<1>8. ASSUME NEW c \in Callers, NEW p \in Projects, NEW e \in Envs, DeleteProjectEnvironment(c, p, e)
      PROVE  (EnvironmentsCovered /\ OrphanEnvironments)'
  <2>1. UNCHANGED <<projOrg, task>> /\ strayE \subseteq strayE'
    BY <1>8 DEF DeleteProjectEnvironment
  <2>2. \A f \in Envs : envProj'[f] # envProj[f] => envProj'[f] = Gone
    BY <1>8 DEF DeleteProjectEnvironment
  <2>3. \A d \in Callers, q \in Projects : sel[d][q] \subseteq sel'[d][q] \cup {e}
    BY <1>8 DEF DeleteProjectEnvironment
  <2>4. envProj'[e] = Gone \/ e \in strayE'
    BY <1>8 DEF DeleteProjectEnvironment
  <2> QED
    BY <2>1, <2>2, <2>3, <2>4
<1>9. ASSUME NEW c \in Callers, NEW p \in Projects, FinishProject(c, p)
      PROVE  (EnvironmentsCovered /\ OrphanEnvironments)'
  <2>1. /\ task[c][p] = "envs" /\ sel[c][p] = {} /\ UNCHANGED <<envProj, sel, strayE>>
        /\ \A q \in Projects : q # p => projOrg'[q] = projOrg[q]
    BY <1>9 DEF FinishProject
  <2>2. \A d \in Callers, q \in Projects : task'[d][q] = "envs" => task[d][q] = "envs"
    BY <1>9 DEF FinishProject
  <2> QED
    BY <2>1, <2>2
<1>10. ASSUME NEW e \in Envs, DeleteEnvironment(e)
      PROVE  (EnvironmentsCovered /\ OrphanEnvironments)'
  BY <1>10 DEF DeleteEnvironment
<1>11. ASSUME NEW p \in Projects, NEW o \in Orgs, ValidateProject(p, o)
      PROVE  (EnvironmentsCovered /\ OrphanEnvironments)'
  BY <1>11 DEF ValidateProject
<1>12. ASSUME NEW e \in Envs, NEW p \in Projects, ValidateEnvironment(e, p)
      PROVE  (EnvironmentsCovered /\ OrphanEnvironments)'
  BY <1>12 DEF ValidateEnvironment
<1>13. ASSUME NEW p \in Projects, WriteProject(p)
      PROVE  (EnvironmentsCovered /\ OrphanEnvironments)'
  BY <1>13 DEF WriteProject
<1>14. ASSUME NEW e \in Envs, WriteEnvironment(e)
      PROVE  (EnvironmentsCovered /\ OrphanEnvironments)'
  BY <1>14 DEF WriteEnvironment
<1>15. CASE Crash
  BY <1>15 DEF Crash
<1>16. CASE UNCHANGED vars
  BY <1>16
<1> QED
  BY <1>1, <1>2, <1>3, <1>4, <1>5, <1>6, <1>7, <1>8, <1>9, <1>10, <1>11, <1>12, <1>13, <1>14,
     <1>15, <1>16 DEF Next, OrgStep, ProjectStep

LEMMA OrphansInit == Init => SelectionsCover /\ OrphansAreExplained
  BY DEF Init, SelectionsCover, ProjectsCovered, EnvironmentsCovered, OrphansAreExplained,
         OrphanProjects, OrphanEnvironments

LEMMA CascadeInvariant == Spec => [](SelectionsCover /\ OrphansAreExplained)
<1>1. TypeOK /\ (SelectionsCover /\ OrphansAreExplained) /\ [Next]_vars
        => (SelectionsCover /\ OrphansAreExplained)'
  BY ProjectsNext, EnvironmentsNext DEF SelectionsCover, OrphansAreExplained
<1> QED
  BY OrphansInit, TypeCorrect, <1>1, PTL DEF Spec

\* What a delete has selected is all its owner still has, except for strays.
THEOREM SelectionsAlwaysCover == Spec => []SelectionsCover
  BY CascadeInvariant, PTL

\* Whatever is deleted, saved, failing or crashing at the same time, an orphan
\* is a document whose own delete failed or that was written too late.
THEOREM OrphansAlwaysExplained == Spec => []OrphansAreExplained
  BY CascadeInvariant, PTL

-----------------------------------------------------------------------------
(* Nothing else is deleted *)

\* The history remembers the present owner, and only what is below a document
\* somebody asked to delete is ever selected.
DoomedEnv(e) == \E p \in homes[e] : Doomed(p)
Lineage ==
    /\ \A p \in Projects : projOrg[p] \in Orgs => projOrg[p] \in owners[p]
    /\ \A e \in Envs : envProj[e] \in Projects => envProj[e] \in homes[e]
SelectedProjectsDoomed ==
    /\ \A r \in Requests : pc[r] = "select" => OrgOf[r] \in requested
    /\ \A r \in Requests : \A p \in found[r] : Doomed(p)
    /\ \A c \in Callers, p \in Projects : task[c][p] # "none" => Doomed(p)
SelectedEnvsDoomed ==
    /\ \A c \in Callers, p \in Projects : \A e \in sel[c][p] : DoomedEnv(e)
    /\ \A r \in Requests : \A e \in late[r] : DoomedEnv(e)

HistoryGrows ==
    /\ requested \subseteq requested'
    /\ \A p \in Projects : owners[p] \subseteq owners'[p]
    /\ \A e \in Envs : homes[e] \subseteq homes'[e]

LEMMA HistoryMonotone == TypeOK /\ [Next]_vars => HistoryGrows
<1> SUFFICES ASSUME TypeOK, [Next]_vars PROVE HistoryGrows
  OBVIOUS
<1> USE DEF TypeOK, HistoryType, HistoryGrows
<1>1. ASSUME NEW r \in Requests, DeleteOrganization(r) PROVE HistoryGrows
  BY <1>1 DEF DeleteOrganization
<1>2. ASSUME NEW r \in Requests, SelectProjects(r) PROVE HistoryGrows
  BY <1>2 DEF SelectProjects
<1>3. ASSUME NEW r \in Requests, SelectEnvironments(r) PROVE HistoryGrows
  BY <1>3 DEF SelectEnvironments
<1>4. ASSUME NEW r \in Requests, NEW e \in Envs, DeleteLateEnvironment(r, e) PROVE HistoryGrows
  BY <1>4 DEF DeleteLateEnvironment
<1>5. ASSUME NEW r \in Requests, FinishOrganization(r) PROVE HistoryGrows
  BY <1>5 DEF FinishOrganization
<1>6. ASSUME NEW p \in Projects, DeleteProject(p) PROVE HistoryGrows
  BY <1>6 DEF DeleteProject
<1>7. ASSUME NEW c \in Callers, NEW p \in Projects,
             SelectProjectEnvironments(c, p)
      PROVE  HistoryGrows
  BY <1>7 DEF SelectProjectEnvironments
<1>8. ASSUME NEW c \in Callers, NEW p \in Projects, NEW e \in Envs,
             DeleteProjectEnvironment(c, p, e)
      PROVE  HistoryGrows
  BY <1>8 DEF DeleteProjectEnvironment
<1>9. ASSUME NEW c \in Callers, NEW p \in Projects, FinishProject(c, p) PROVE HistoryGrows
  BY <1>9 DEF FinishProject
<1>10. ASSUME NEW e \in Envs, DeleteEnvironment(e) PROVE HistoryGrows
  BY <1>10 DEF DeleteEnvironment
<1>11. ASSUME NEW p \in Projects, NEW o \in Orgs, ValidateProject(p, o) PROVE HistoryGrows
  BY <1>11 DEF ValidateProject
<1>12. ASSUME NEW e \in Envs, NEW p \in Projects, ValidateEnvironment(e, p) PROVE HistoryGrows
  BY <1>12 DEF ValidateEnvironment
<1>13. ASSUME NEW p \in Projects, WriteProject(p) PROVE HistoryGrows
  BY <1>13 DEF WriteProject
<1>14. ASSUME NEW e \in Envs, WriteEnvironment(e) PROVE HistoryGrows
  BY <1>14 DEF WriteEnvironment
<1>15. CASE Crash
  BY <1>15 DEF Crash
<1>16. CASE UNCHANGED vars
  BY <1>16
<1> QED
  BY <1>1, <1>2, <1>3, <1>4, <1>5, <1>6, <1>7, <1>8, <1>9, <1>10, <1>11, <1>12, <1>13, <1>14,
     <1>15, <1>16 DEF Next, OrgStep, ProjectStep

LEMMA DoomIsForever ==
    ASSUME TypeOK, HistoryGrows
    PROVE  /\ \A p \in Projects : Doomed(p) => Doomed(p)'
           /\ \A e \in Envs : DoomedEnv(e) => DoomedEnv(e)'
  BY DEF TypeOK, HistoryType, HistoryGrows, Doomed, DoomedEnv

LEMMA LineageNext == TypeOK /\ Lineage /\ [Next]_vars => Lineage'
<1> SUFFICES ASSUME TypeOK, Lineage, [Next]_vars PROVE Lineage'
  OBVIOUS
<1> USE DEF TypeOK, DbType, RequestType, HistoryType, Lineage
<1>1. ASSUME NEW r \in Requests, DeleteOrganization(r) PROVE Lineage'
  BY <1>1 DEF DeleteOrganization
<1>2. ASSUME NEW r \in Requests, SelectProjects(r) PROVE Lineage'
  BY <1>2 DEF SelectProjects
<1>3. ASSUME NEW r \in Requests, SelectEnvironments(r) PROVE Lineage'
  BY <1>3 DEF SelectEnvironments
<1>4. ASSUME NEW r \in Requests, NEW e \in Envs, DeleteLateEnvironment(r, e) PROVE Lineage'
  BY <1>4 DEF DeleteLateEnvironment
<1>5. ASSUME NEW r \in Requests, FinishOrganization(r) PROVE Lineage'
  BY <1>5 DEF FinishOrganization
<1>6. ASSUME NEW p \in Projects, DeleteProject(p) PROVE Lineage'
  BY <1>6 DEF DeleteProject
<1>7. ASSUME NEW c \in Callers, NEW p \in Projects, SelectProjectEnvironments(c, p) PROVE Lineage'
  BY <1>7 DEF SelectProjectEnvironments
<1>8. ASSUME NEW c \in Callers, NEW p \in Projects, NEW e \in Envs,
             DeleteProjectEnvironment(c, p, e)
      PROVE  Lineage'
  BY <1>8 DEF DeleteProjectEnvironment
<1>9. ASSUME NEW c \in Callers, NEW p \in Projects, FinishProject(c, p) PROVE Lineage'
  BY <1>9 DEF FinishProject
<1>10. ASSUME NEW e \in Envs, DeleteEnvironment(e) PROVE Lineage'
  BY <1>10 DEF DeleteEnvironment
<1>11. ASSUME NEW p \in Projects, NEW o \in Orgs, ValidateProject(p, o) PROVE Lineage'
  BY <1>11 DEF ValidateProject
<1>12. ASSUME NEW e \in Envs, NEW p \in Projects, ValidateEnvironment(e, p) PROVE Lineage'
  BY <1>12 DEF ValidateEnvironment
<1>13. ASSUME NEW p \in Projects, WriteProject(p) PROVE Lineage'
  BY <1>13 DEF WriteProject
<1>14. ASSUME NEW e \in Envs, WriteEnvironment(e) PROVE Lineage'
  <2>1. CASE envProj[e] = Gone
    BY <1>14, <2>1 DEF WriteEnvironment
  <2>2. CASE envProj[e] # Gone
    <3>1. /\ envProj' = [envProj EXCEPT ![e] = savingE[e]]
          /\ homes' = [homes EXCEPT ![e] = @ \cup {savingE[e]}]
          /\ UNCHANGED <<projOrg, owners>>
      BY <1>14, <2>2 DEF WriteEnvironment
    <3> QED
      BY <3>1
  <2> QED
    BY <2>1, <2>2
<1>15. CASE Crash
  BY <1>15 DEF Crash
<1>16. CASE UNCHANGED vars
  BY <1>16
<1> QED
  BY <1>1, <1>2, <1>3, <1>4, <1>5, <1>6, <1>7, <1>8, <1>9, <1>10, <1>11, <1>12, <1>13, <1>14,
     <1>15, <1>16 DEF Next, OrgStep, ProjectStep

LEMMA SelectedProjectsNext ==
    TypeOK /\ Lineage /\ SelectedProjectsDoomed /\ [Next]_vars => SelectedProjectsDoomed'
<1> SUFFICES ASSUME TypeOK, Lineage, SelectedProjectsDoomed, [Next]_vars
             PROVE  SelectedProjectsDoomed'
  OBVIOUS
<1>0. HistoryGrows /\ \A p \in Projects : Doomed(p) => Doomed(p)'
  BY HistoryMonotone, DoomIsForever
<1> USE DEF TypeOK, DbType, RequestType, HistoryType, SelectedProjectsDoomed
<1>1. ASSUME NEW r \in Requests, DeleteOrganization(r) PROVE SelectedProjectsDoomed'
  <2>1. /\ \A q \in Requests \ {r} : pc'[q] = pc[q] /\ found'[q] = found[q]
        /\ found'[r] \subseteq ProjectsOf(OrgOf[r]) \/ found'[r] = found[r]
        /\ UNCHANGED <<task, owners>> /\ OrgOf[r] \in requested'
    BY <1>1 DEF DeleteOrganization
  <2>2. \A p \in ProjectsOf(OrgOf[r]) : Doomed(p)'
    BY <2>1 DEF Lineage, Doomed
  <2> QED
    BY <2>1, <2>2, <1>0 DEF HistoryGrows
<1>2. ASSUME NEW r \in Requests, SelectProjects(r) PROVE SelectedProjectsDoomed'
  <2>1. pc'[r] # "select" /\ (\A q \in Requests \ {r} : pc'[q] = pc[q]) /\ UNCHANGED found
    BY <1>2 DEF SelectProjects
  <2>2. \A c \in Callers, p \in Projects :
          task'[c][p] # "none" => task[c][p] # "none" \/ p \in ProjectsOf(OrgOf[r])
    <3>1. CASE task' = task
      BY <3>1
    <3>2. CASE task' = [task EXCEPT ![r] =
                  [p \in Projects |-> IF p \in ProjectsOf(OrgOf[r]) THEN "select" ELSE "none"]]
      BY <3>2
    <3> QED
      BY <1>2, <3>1, <3>2 DEF SelectProjects
  <2>3. \A p \in ProjectsOf(OrgOf[r]) : Doomed(p)
    BY <1>2 DEF SelectProjects, Lineage, Doomed
  <2> QED
    BY <2>1, <2>2, <2>3, <1>0 DEF HistoryGrows
<1>3. ASSUME NEW r \in Requests, SelectEnvironments(r) PROVE SelectedProjectsDoomed'
  BY <1>3, <1>0 DEF SelectEnvironments
<1>4. ASSUME NEW r \in Requests, NEW e \in Envs,
             DeleteLateEnvironment(r, e)
      PROVE  SelectedProjectsDoomed'
  BY <1>4, <1>0 DEF DeleteLateEnvironment
<1>5. ASSUME NEW r \in Requests, FinishOrganization(r) PROVE SelectedProjectsDoomed'
  BY <1>5, <1>0 DEF FinishOrganization
<1>6. ASSUME NEW p \in Projects, DeleteProject(p) PROVE SelectedProjectsDoomed'
  <2>1. Doomed(p)'
    BY <1>6 DEF DeleteProject, Doomed
  <2>2. \A c \in Callers, q \in Projects : q # p => task'[c][q] = task[c][q]
    BY <1>6 DEF DeleteProject
  <2>3. UNCHANGED <<pc, found>>
    BY <1>6 DEF DeleteProject
  <2> QED
    BY <2>1, <2>2, <2>3, <1>0 DEF HistoryGrows
<1>7. ASSUME NEW c \in Callers, NEW p \in Projects,
             SelectProjectEnvironments(c, p)
      PROVE  SelectedProjectsDoomed'
  BY <1>7, <1>0 DEF SelectProjectEnvironments
<1>8. ASSUME NEW c \in Callers, NEW p \in Projects, NEW e \in Envs,
             DeleteProjectEnvironment(c, p, e)
      PROVE  SelectedProjectsDoomed'
  BY <1>8, <1>0 DEF DeleteProjectEnvironment
<1>9. ASSUME NEW c \in Callers, NEW p \in Projects,
             FinishProject(c, p)
      PROVE  SelectedProjectsDoomed'
  BY <1>9, <1>0 DEF FinishProject
<1>10. ASSUME NEW e \in Envs, DeleteEnvironment(e) PROVE SelectedProjectsDoomed'
  BY <1>10, <1>0 DEF DeleteEnvironment
<1>11. ASSUME NEW p \in Projects, NEW o \in Orgs,
             ValidateProject(p, o)
      PROVE  SelectedProjectsDoomed'
  BY <1>11, <1>0 DEF ValidateProject
<1>12. ASSUME NEW e \in Envs, NEW p \in Projects,
             ValidateEnvironment(e, p)
      PROVE  SelectedProjectsDoomed'
  BY <1>12, <1>0 DEF ValidateEnvironment
<1>13. ASSUME NEW p \in Projects, WriteProject(p) PROVE SelectedProjectsDoomed'
  BY <1>13, <1>0 DEF WriteProject
<1>14. ASSUME NEW e \in Envs, WriteEnvironment(e) PROVE SelectedProjectsDoomed'
  BY <1>14, <1>0 DEF WriteEnvironment
<1>15. CASE Crash
  BY <1>15, <1>0 DEF Crash
<1>16. CASE UNCHANGED vars
  BY <1>16, <1>0
<1> QED
  BY <1>1, <1>2, <1>3, <1>4, <1>5, <1>6, <1>7, <1>8, <1>9, <1>10, <1>11, <1>12, <1>13, <1>14,
     <1>15, <1>16 DEF Next, OrgStep, ProjectStep

LEMMA SelectedEnvsNext ==
    TypeOK /\ Lineage /\ SelectedProjectsDoomed /\ SelectedEnvsDoomed /\ [Next]_vars
      => SelectedEnvsDoomed'
<1> SUFFICES ASSUME TypeOK, Lineage, SelectedProjectsDoomed, SelectedEnvsDoomed, [Next]_vars
             PROVE  SelectedEnvsDoomed'
  OBVIOUS
<1>0. \A e \in Envs : DoomedEnv(e) => DoomedEnv(e)'
  BY HistoryMonotone, DoomIsForever
<1> USE DEF TypeOK, DbType, RequestType, HistoryType, SelectedEnvsDoomed
<1>1. ASSUME NEW r \in Requests, DeleteOrganization(r) PROVE SelectedEnvsDoomed'
  BY <1>1, <1>0 DEF DeleteOrganization
<1>2. ASSUME NEW r \in Requests, SelectProjects(r) PROVE SelectedEnvsDoomed'
  BY <1>2, <1>0 DEF SelectProjects
<1>3. ASSUME NEW r \in Requests, SelectEnvironments(r) PROVE SelectedEnvsDoomed'
  <2>1. \A q \in Requests : \A e \in late'[q] : e \in Envs /\ (e \in late[q] \/ envProj[e] \in found[r])
    <3>1. CASE late' = late
      BY <3>1
    <3>2. CASE late' = [late EXCEPT ![r] = {e \in Envs : envProj[e] \in found[r]}]
      BY <3>2
    <3> QED
      BY <1>3, <3>1, <3>2 DEF SelectEnvironments
  <2>2. \A e \in Envs : envProj[e] \in found[r] => DoomedEnv(e)
    BY DEF Lineage, SelectedProjectsDoomed, DoomedEnv
  <2>3. UNCHANGED sel
    BY <1>3 DEF SelectEnvironments
  <2> QED
    BY <2>1, <2>2, <2>3, <1>0
<1>4. ASSUME NEW r \in Requests, NEW e \in Envs, DeleteLateEnvironment(r, e) PROVE SelectedEnvsDoomed'
  BY <1>4, <1>0 DEF DeleteLateEnvironment
<1>5. ASSUME NEW r \in Requests, FinishOrganization(r) PROVE SelectedEnvsDoomed'
  BY <1>5, <1>0 DEF FinishOrganization
<1>6. ASSUME NEW p \in Projects, DeleteProject(p) PROVE SelectedEnvsDoomed'
  BY <1>6, <1>0 DEF DeleteProject
<1>7. ASSUME NEW c \in Callers, NEW p \in Projects,
             SelectProjectEnvironments(c, p)
      PROVE  SelectedEnvsDoomed'
  <2>1. \A d \in Callers, q \in Projects : \A e \in sel'[d][q] :
          e \in Envs /\ (e \in sel[d][q] \/ e \in EnvsOf(p))
    <3>1. CASE sel' = sel
      BY <3>1
    <3>2. CASE sel' = [sel EXCEPT ![c][p] = EnvsOf(p)]
      BY <3>2
    <3> QED
      BY <1>7, <3>1, <3>2 DEF SelectProjectEnvironments
  <2>2. \A e \in EnvsOf(p) : DoomedEnv(e)
    BY <1>7 DEF SelectProjectEnvironments, Lineage, SelectedProjectsDoomed, DoomedEnv
  <2>3. UNCHANGED late
    BY <1>7 DEF SelectProjectEnvironments
  <2> QED
    BY <2>1, <2>2, <2>3, <1>0
<1>8. ASSUME NEW c \in Callers, NEW p \in Projects, NEW e \in Envs,
             DeleteProjectEnvironment(c, p, e)
      PROVE  SelectedEnvsDoomed'
  BY <1>8, <1>0 DEF DeleteProjectEnvironment
<1>9. ASSUME NEW c \in Callers, NEW p \in Projects, FinishProject(c, p) PROVE SelectedEnvsDoomed'
  BY <1>9, <1>0 DEF FinishProject
<1>10. ASSUME NEW e \in Envs, DeleteEnvironment(e) PROVE SelectedEnvsDoomed'
  BY <1>10, <1>0 DEF DeleteEnvironment
<1>11. ASSUME NEW p \in Projects, NEW o \in Orgs, ValidateProject(p, o) PROVE SelectedEnvsDoomed'
  BY <1>11, <1>0 DEF ValidateProject
<1>12. ASSUME NEW e \in Envs, NEW p \in Projects,
             ValidateEnvironment(e, p)
      PROVE  SelectedEnvsDoomed'
  BY <1>12, <1>0 DEF ValidateEnvironment
<1>13. ASSUME NEW p \in Projects, WriteProject(p) PROVE SelectedEnvsDoomed'
  BY <1>13, <1>0 DEF WriteProject
<1>14. ASSUME NEW e \in Envs, WriteEnvironment(e) PROVE SelectedEnvsDoomed'
  BY <1>14, <1>0 DEF WriteEnvironment
<1>15. CASE Crash
  BY <1>15, <1>0 DEF Crash
<1>16. CASE UNCHANGED vars
  BY <1>16, <1>0
<1> QED
  BY <1>1, <1>2, <1>3, <1>4, <1>5, <1>6, <1>7, <1>8, <1>9, <1>10, <1>11, <1>12, <1>13, <1>14,
     <1>15, <1>16 DEF Next, OrgStep, ProjectStep

LEMMA NothingElseNext ==
    TypeOK /\ SelectedProjectsDoomed /\ SelectedEnvsDoomed /\ NothingElseIsDeleted /\ [Next]_vars
      => NothingElseIsDeleted'
<1> SUFFICES ASSUME TypeOK, SelectedProjectsDoomed, SelectedEnvsDoomed, NothingElseIsDeleted,
                    [Next]_vars
             PROVE  NothingElseIsDeleted'
  OBVIOUS
<1>0. /\ HistoryGrows
      /\ \A p \in Projects : Doomed(p) => Doomed(p)'
      /\ \A e \in Envs : DoomedEnv(e) => DoomedEnv(e)'
  BY HistoryMonotone, DoomIsForever
<1> USE DEF TypeOK, DbType, RequestType, HistoryType, NothingElseIsDeleted
<1>1. ASSUME NEW r \in Requests, DeleteOrganization(r) PROVE NothingElseIsDeleted'
  BY <1>1, <1>0 DEF DeleteOrganization
<1>2. ASSUME NEW r \in Requests, SelectProjects(r) PROVE NothingElseIsDeleted'
  BY <1>2, <1>0 DEF SelectProjects
<1>3. ASSUME NEW r \in Requests, SelectEnvironments(r) PROVE NothingElseIsDeleted'
  BY <1>3, <1>0 DEF SelectEnvironments
<1>4. ASSUME NEW r \in Requests, NEW e \in Envs,
             DeleteLateEnvironment(r, e)
      PROVE  NothingElseIsDeleted'
  <2>1. DoomedEnv(e)
    BY <1>4 DEF DeleteLateEnvironment, SelectedEnvsDoomed
  <2>2. (\A f \in Envs : envProj'[f] = envProj[f] \/ f = e) /\ UNCHANGED projOrg
    BY <1>4 DEF DeleteLateEnvironment
  <2> QED
    BY <2>1, <2>2, <1>0 DEF HistoryGrows, DoomedEnv
<1>5. ASSUME NEW r \in Requests, FinishOrganization(r) PROVE NothingElseIsDeleted'
  BY <1>5, <1>0 DEF FinishOrganization
<1>6. ASSUME NEW p \in Projects, DeleteProject(p) PROVE NothingElseIsDeleted'
  BY <1>6, <1>0 DEF DeleteProject
<1>7. ASSUME NEW c \in Callers, NEW p \in Projects,
             SelectProjectEnvironments(c, p)
      PROVE  NothingElseIsDeleted'
  BY <1>7, <1>0 DEF SelectProjectEnvironments
<1>8. ASSUME NEW c \in Callers, NEW p \in Projects, NEW e \in Envs,
             DeleteProjectEnvironment(c, p, e)
      PROVE  NothingElseIsDeleted'
  <2>1. DoomedEnv(e)
    BY <1>8 DEF DeleteProjectEnvironment, SelectedEnvsDoomed
  <2>2. (\A f \in Envs : envProj'[f] = envProj[f] \/ f = e) /\ UNCHANGED projOrg
    BY <1>8 DEF DeleteProjectEnvironment
  <2> QED
    BY <2>1, <2>2, <1>0 DEF HistoryGrows, DoomedEnv
<1>9. ASSUME NEW c \in Callers, NEW p \in Projects,
             FinishProject(c, p)
      PROVE  NothingElseIsDeleted'
  <2>1. Doomed(p)
    BY <1>9 DEF FinishProject, SelectedProjectsDoomed
  <2>2. (\A q \in Projects : projOrg'[q] = projOrg[q] \/ q = p) /\ UNCHANGED envProj
    BY <1>9 DEF FinishProject
  <2> QED
    BY <2>1, <2>2, <1>0 DEF HistoryGrows, DoomedEnv
<1>10. ASSUME NEW e \in Envs, DeleteEnvironment(e) PROVE NothingElseIsDeleted'
  BY <1>10, <1>0 DEF DeleteEnvironment
<1>11. ASSUME NEW p \in Projects, NEW o \in Orgs,
             ValidateProject(p, o)
      PROVE  NothingElseIsDeleted'
  BY <1>11, <1>0 DEF ValidateProject
<1>12. ASSUME NEW e \in Envs, NEW p \in Projects,
             ValidateEnvironment(e, p)
      PROVE  NothingElseIsDeleted'
  BY <1>12, <1>0 DEF ValidateEnvironment
<1>13. ASSUME NEW p \in Projects, WriteProject(p) PROVE NothingElseIsDeleted'
  BY <1>13, <1>0 DEF WriteProject
<1>14. ASSUME NEW e \in Envs, WriteEnvironment(e) PROVE NothingElseIsDeleted'
  BY <1>14, <1>0 DEF WriteEnvironment
<1>15. CASE Crash
  BY <1>15, <1>0 DEF Crash
<1>16. CASE UNCHANGED vars
  BY <1>16, <1>0
<1> QED
  BY <1>1, <1>2, <1>3, <1>4, <1>5, <1>6, <1>7, <1>8, <1>9, <1>10, <1>11, <1>12, <1>13, <1>14,
     <1>15, <1>16 DEF Next, OrgStep, ProjectStep

LEMMA NothingElseInit ==
    Init => Lineage /\ SelectedProjectsDoomed /\ SelectedEnvsDoomed /\ NothingElseIsDeleted
  BY DEF Init, Lineage, SelectedProjectsDoomed, SelectedEnvsDoomed, NothingElseIsDeleted

\* A delete takes nothing with it that was never below what it was asked for.
THEOREM NothingElseEverDeleted == Spec => []NothingElseIsDeleted
  BY NothingElseInit, TypeCorrect, LineageNext, SelectedProjectsNext, SelectedEnvsNext,
     NothingElseNext, PTL DEF Spec

-----------------------------------------------------------------------------
(* Deletes come to an end *)

\* How many steps a delete of an organization has left at most, those of the
\* projects below it not counted; and one of a project.
OrgLeft(r) ==
    IF pc[r] \in Settled THEN 0
    ELSE IF pc[r] = "environments" THEN 1 + Cardinality(late[r])
    ELSE IF pc[r] = "projects" THEN 2 + Cardinality(Envs)
    ELSE 3 + Cardinality(Envs)
TaskLeft(c, p) ==
    IF task[c][p] = "none" THEN 0
    ELSE IF task[c][p] = "envs" THEN 1 + Cardinality(sel[c][p])
    ELSE 2 + Cardinality(Envs)

\* A step of a delete under way leaves it fewer, and no other step, of whoever it is,
\* leaves it more; nor is a project added to those an organization waits for.
DeletesRunDown ==
    /\ \A r \in Requests : pc[r] \notin Settled =>
         /\ OrgLeft(r)' <= OrgLeft(r)
         /\ OrgStep(r) => OrgLeft(r)' < OrgLeft(r)
    /\ \A c \in Callers, p \in Projects : task[c][p] # "none" =>
         /\ TaskLeft(c, p)' <= TaskLeft(c, p)
         /\ ProjectStep(c, p) => TaskLeft(c, p)' < TaskLeft(c, p)
    /\ \A r \in Requests, p \in Projects :
         pc[r] = "projects" /\ task[r][p] = "none" => task'[r][p] = "none"

\* Only a bulk delete has deletes of projects below it.
BulkOnly == \A r \in Requests, p \in Projects : pc[r] # "projects" => task[r][p] = "none"

\* Whose step it is: that of the delete itself, one that leaves it as it is, or the crash.
LEMMA WhoseStep ==
    ASSUME TypeOK, Next
    PROVE  /\ \A r \in Requests : pc[r] \notin Settled =>
                OrgStep(r) \/ (pc'[r] = pc[r] /\ late'[r] = late[r]) \/ pc'[r] = "idle"
           /\ \A c \in Callers, p \in Projects :
                \/ ProjectStep(c, p)
                \/ task'[c][p] = task[c][p] /\ sel'[c][p] = sel[c][p]
                \/ task[c][p] = "none" /\ c = User
                \/ c \in Requests /\ pc[c] = "select" /\ pc'[c] = "projects"
                \/ task'[c][p] = "none"
<1> DEFINE Org(r) == pc[r] \notin Settled =>
                       OrgStep(r) \/ (pc'[r] = pc[r] /\ late'[r] = late[r]) \/ pc'[r] = "idle"
           Task(c, p) == \/ ProjectStep(c, p)
                         \/ task'[c][p] = task[c][p] /\ sel'[c][p] = sel[c][p]
                         \/ task[c][p] = "none" /\ c = User
                         \/ c \in Requests /\ pc[c] = "select" /\ pc'[c] = "projects"
                         \/ task'[c][p] = "none"
           Both == (\A r \in Requests : Org(r)) /\ (\A c \in Callers, p \in Projects : Task(c, p))
<1> USE DEF TypeOK, DbType, RequestType
<1>1. ASSUME NEW r \in Requests, DeleteOrganization(r) PROVE Both
  <2>1. /\ \A q \in Requests : q # r => pc'[q] = pc[q]
        /\ pc[r] \in Settled /\ late' = late /\ task' = task /\ sel' = sel
        BY <1>1 DEF DeleteOrganization
  <2> QED  BY <2>1
<1>2. ASSUME NEW r \in Requests, OrgStep(r) PROVE Both
  <2>1. \A q \in Requests : q # r => pc'[q] = pc[q] /\ late'[q] = late[q]
        BY <1>2 DEF OrgStep, SelectProjects, SelectEnvironments, DeleteLateEnvironment, FinishOrganization
  <2>2. \/ task' = task /\ sel' = sel
        \/ /\ pc[r] = "select" /\ pc'[r] = "projects" /\ sel' = sel
           /\ \A c \in Callers : c # r => task'[c] = task[c]
        BY <1>2 DEF OrgStep, SelectProjects, SelectEnvironments, DeleteLateEnvironment, FinishOrganization
  <2> QED  BY <2>1, <2>2, <1>2
<1>3. ASSUME NEW d \in Callers, NEW q \in Projects, ProjectStep(d, q) PROVE Both
  <2>1. pc' = pc /\ late' = late
        BY <1>3 DEF ProjectStep, SelectProjectEnvironments, DeleteProjectEnvironment, FinishProject
  <2>2. \A c \in Callers, p \in Projects : c # d \/ p # q =>
          task'[c][p] = task[c][p] /\ sel'[c][p] = sel[c][p]
        BY <1>3 DEF ProjectStep, SelectProjectEnvironments, DeleteProjectEnvironment, FinishProject
  <2> QED  BY <2>1, <2>2, <1>3
<1>4. ASSUME NEW q \in Projects, DeleteProject(q) PROVE Both
  <2>1. pc' = pc /\ late' = late /\ sel' = sel /\ task[User][q] = "none"
        BY <1>4 DEF DeleteProject
  <2>2. \A c \in Callers, p \in Projects : c # User \/ p # q => task'[c][p] = task[c][p]
        BY <1>4 DEF DeleteProject
  <2> QED  BY <2>1, <2>2
<1>5. ASSUME Crash PROVE Both
  BY <1>5 DEF Crash
<1>6. ASSUME UNCHANGED <<pc, late, task, sel>> PROVE Both
  BY <1>6
<1>7. \/ \E p \in Projects : WriteProject(p) \/ \E o \in Orgs : ValidateProject(p, o)
      \/ \E e \in Envs : DeleteEnvironment(e) \/ WriteEnvironment(e) \/ \E p \in Projects : ValidateEnvironment(e, p)
      => UNCHANGED <<pc, late, task, sel>>
  BY DEF WriteProject, ValidateProject, DeleteEnvironment, WriteEnvironment, ValidateEnvironment
<1>8. \/ \E r \in Requests : DeleteOrganization(r) \/ OrgStep(r)
      \/ \E c \in Callers, p \in Projects : ProjectStep(c, p)
      \/ \E p \in Projects : DeleteProject(p)
      \/ Crash
      \/ UNCHANGED <<pc, late, task, sel>>
  BY <1>7 DEF Next
<1> HIDE DEF Both
<1>9. Both  BY <1>1, <1>2, <1>3, <1>4, <1>5, <1>6, <1>8
<1> QED  BY <1>9 DEF Both

LEMMA BulkOnlyNext == TypeOK /\ BulkOnly /\ [Next]_vars => BulkOnly'
<1> SUFFICES ASSUME TypeOK, BulkOnly, [Next]_vars PROVE BulkOnly'
  OBVIOUS
<1> USE DEF TypeOK, RequestType, BulkOnly
<1>1. CASE UNCHANGED vars
  BY <1>1
<1>2. ASSUME NEW r \in Requests, DeleteOrganization(r) PROVE BulkOnly'
  BY <1>2 DEF DeleteOrganization
<1>3. ASSUME NEW r \in Requests, SelectProjects(r) PROVE BulkOnly'
  BY <1>3 DEF SelectProjects
<1>4. ASSUME NEW r \in Requests, SelectEnvironments(r) PROVE BulkOnly'
  BY <1>4 DEF SelectEnvironments
<1>5. ASSUME NEW r \in Requests, NEW e \in Envs, DeleteLateEnvironment(r, e) PROVE BulkOnly'
  BY <1>5 DEF DeleteLateEnvironment
<1>6. ASSUME NEW r \in Requests, FinishOrganization(r) PROVE BulkOnly'
  BY <1>6 DEF FinishOrganization
<1>7. ASSUME NEW d \in Callers, NEW q \in Projects, ProjectStep(d, q) PROVE BulkOnly'
  <2>1. task[d][q] # "none" /\ pc' = pc
        /\ \A c \in Callers, p \in Projects : c # d \/ p # q => task'[c][p] = task[c][p]
        BY <1>7 DEF ProjectStep, SelectProjectEnvironments, DeleteProjectEnvironment, FinishProject
  <2>2. ASSUME NEW r \in Requests, NEW p \in Projects, pc'[r] # "projects" PROVE task'[r][p] = "none"
    <3>1. pc[r] # "projects" /\ task[r][p] = "none"  BY <2>1, <2>2
    <3>2. task'[r][p] = task[r][p]  BY <2>1, <3>1
    <3> QED  BY <3>1, <3>2
  <2> QED  BY <2>2
<1>8. ASSUME NEW q \in Projects, DeleteProject(q) PROVE BulkOnly'
  BY <1>8 DEF DeleteProject
<1>9. CASE Crash
  BY <1>9 DEF Crash
<1>10. \/ \E p \in Projects : WriteProject(p) \/ \E o \in Orgs : ValidateProject(p, o)
       \/ \E e \in Envs : DeleteEnvironment(e) \/ WriteEnvironment(e) \/ \E p \in Projects : ValidateEnvironment(e, p)
       => UNCHANGED <<pc, task>>
  BY DEF WriteProject, ValidateProject, DeleteEnvironment, WriteEnvironment, ValidateEnvironment
<1>11. UNCHANGED <<pc, task>> => BulkOnly'
  OBVIOUS
<1> HIDE DEF BulkOnly
<1> QED  BY <1>1, <1>2, <1>3, <1>4, <1>5, <1>6, <1>7, <1>8, <1>9, <1>10, <1>11 DEF Next, OrgStep

\* What a step of a delete does to it.
LEMMA DeleteMoves ==
    ASSUME TypeOK
    PROVE  /\ \A r \in Requests : OrgStep(r) =>
                \/ pc[r] \notin Settled /\ pc'[r] \in Settled
                \/ pc[r] = "select" /\ pc'[r] = "projects"
                \/ pc[r] = "projects" /\ pc'[r] = "environments" /\ late'[r] \subseteq Envs
                \/ /\ pc[r] = "environments" /\ pc'[r] = "environments"
                   /\ \E e \in late[r] : late'[r] = late[r] \ {e}
           /\ \A c \in Callers, p \in Projects : ProjectStep(c, p) =>
                \/ task[c][p] # "none" /\ task'[c][p] = "none"
                \/ task[c][p] = "select" /\ task'[c][p] = "envs" /\ sel'[c][p] \subseteq Envs
                \/ /\ task[c][p] = "envs" /\ task'[c][p] = "envs"
                   /\ \E e \in sel[c][p] : sel'[c][p] = sel[c][p] \ {e}
<1> USE DEF TypeOK, RequestType
<1>1. ASSUME NEW r \in Requests, OrgStep(r)
      PROVE  \/ pc[r] \notin Settled /\ pc'[r] \in Settled
             \/ pc[r] = "select" /\ pc'[r] = "projects"
             \/ pc[r] = "projects" /\ pc'[r] = "environments" /\ late'[r] \subseteq Envs
             \/ /\ pc[r] = "environments" /\ pc'[r] = "environments"
                /\ \E e \in late[r] : late'[r] = late[r] \ {e}
  <2>1. CASE SelectProjects(r)  BY <2>1 DEF SelectProjects
  <2>2. CASE SelectEnvironments(r)
    <3>1. \/ pc' = [pc EXCEPT ![r] = "environments"] /\ late' = [late EXCEPT ![r] = {e \in Envs : envProj[e] \in found[r]}]
          \/ pc' = [pc EXCEPT ![r] = "failed"]
          BY <2>2 DEF SelectEnvironments
    <3> QED  BY <2>2, <3>1 DEF SelectEnvironments
  <2>3. ASSUME NEW e \in Envs, DeleteLateEnvironment(r, e)
        PROVE  /\ pc[r] = "environments" /\ pc'[r] = "environments"
               /\ e \in late[r] /\ late'[r] = late[r] \ {e}
        BY <2>3 DEF DeleteLateEnvironment
  <2>4. CASE FinishOrganization(r)  BY <2>4 DEF FinishOrganization
  <2> QED  BY <1>1, <2>1, <2>2, <2>3, <2>4 DEF OrgStep
<1>2. ASSUME NEW c \in Callers, NEW p \in Projects, ProjectStep(c, p)
      PROVE  \/ task[c][p] # "none" /\ task'[c][p] = "none"
             \/ task[c][p] = "select" /\ task'[c][p] = "envs" /\ sel'[c][p] \subseteq Envs
             \/ /\ task[c][p] = "envs" /\ task'[c][p] = "envs"
                /\ \E e \in sel[c][p] : sel'[c][p] = sel[c][p] \ {e}
  <2>1. CASE SelectProjectEnvironments(c, p)
    <3>1. \/ task' = [task EXCEPT ![c][p] = "envs"] /\ sel' = [sel EXCEPT ![c][p] = EnvsOf(p)]
          \/ task' = [task EXCEPT ![c][p] = "none"]
          BY <2>1 DEF SelectProjectEnvironments
    <3>2. task[c][p] = "select"  BY <2>1 DEF SelectProjectEnvironments
    <3> QED  BY <3>1, <3>2
  <2>2. ASSUME NEW e \in Envs, DeleteProjectEnvironment(c, p, e)
        PROVE  /\ task[c][p] = "envs" /\ task'[c][p] = "envs"
               /\ e \in sel[c][p] /\ sel'[c][p] = sel[c][p] \ {e}
        BY <2>2 DEF DeleteProjectEnvironment
  <2>3. CASE FinishProject(c, p)  BY <2>3 DEF FinishProject
  <2> QED  BY <1>2, <2>1, <2>2, <2>3 DEF ProjectStep
<1> QED  BY <1>1, <1>2

LEMMA SizesAre ==
    ASSUME IsFiniteSet(Envs)
    PROVE  /\ Cardinality(Envs) \in Nat
           /\ \A S \in SUBSET Envs :
                /\ Cardinality(S) \in Nat /\ Cardinality(S) <= Cardinality(Envs)
                /\ \A e \in S : Cardinality(S \ {e}) = Cardinality(S) - 1
<1>1. ASSUME NEW S \in SUBSET Envs
      PROVE  /\ Cardinality(S) \in Nat /\ Cardinality(S) <= Cardinality(Envs)
             /\ \A e \in S : Cardinality(S \ {e}) = Cardinality(S) - 1
  BY FS_Subset, FS_CardinalityType, FS_RemoveElement
<1> QED  BY <1>1, FS_CardinalityType

LEMMA StepsRunDown ==
    ASSUME IsFiniteSet(Envs), TypeOK, BulkOnly, [Next]_vars
    PROVE  DeletesRunDown
<1> DEFINE N == Cardinality(Envs)
<1>1. /\ \A r \in Requests : pc[r] \in Phases /\ late[r] \subseteq Envs
      /\ \A c \in Callers, p \in Projects : task[c][p] \in {"none", "select", "envs"} /\ sel[c][p] \subseteq Envs
  BY DEF TypeOK, RequestType
<1>2. /\ N \in Nat
      /\ \A S \in SUBSET Envs : Cardinality(S) \in Nat /\ Cardinality(S) <= N
      /\ \A S \in SUBSET Envs : \A e \in S : Cardinality(S \ {e}) = Cardinality(S) - 1
  BY SizesAre
<1> HIDE DEF N
<1>3. ASSUME NEW r \in Requests PROVE OrgLeft(r) \in Nat
  BY <1>1, <1>2 DEF OrgLeft, N
<1>4. ASSUME NEW c \in Callers, NEW p \in Projects PROVE TaskLeft(c, p) \in Nat
  BY <1>1, <1>2 DEF TaskLeft, N
<1>5. ASSUME NEW r \in Requests, pc[r] \notin Settled, OrgStep(r) PROVE OrgLeft(r)' < OrgLeft(r)
  <2>1. CASE pc'[r] \in Settled
    BY <2>1, <1>1, <1>2, <1>5 DEF OrgLeft, N
  <2>2. CASE pc[r] = "select" /\ pc'[r] = "projects"
    BY <2>2, <1>2 DEF OrgLeft, N
  <2>3. CASE pc[r] = "projects" /\ pc'[r] = "environments" /\ late'[r] \subseteq Envs
    BY <2>3, <1>2 DEF OrgLeft, N
  <2>4. CASE pc[r] = "environments" /\ pc'[r] = "environments" /\ \E e \in late[r] : late'[r] = late[r] \ {e}
    <3>1. Cardinality(late'[r]) = Cardinality(late[r]) - 1 /\ Cardinality(late[r]) \in Nat
          BY <2>4, <1>1, <1>2
    <3> QED  BY <3>1, <2>4 DEF OrgLeft
  <2> QED  BY <1>5, <2>1, <2>2, <2>3, <2>4, DeleteMoves
<1>6. ASSUME NEW c \in Callers, NEW p \in Projects, ProjectStep(c, p) PROVE TaskLeft(c, p)' < TaskLeft(c, p)
  <2>1. CASE task[c][p] # "none" /\ task'[c][p] = "none"
    BY <2>1, <1>1, <1>2 DEF TaskLeft, N
  <2>2. CASE task[c][p] = "select" /\ task'[c][p] = "envs" /\ sel'[c][p] \subseteq Envs
    BY <2>2, <1>2 DEF TaskLeft, N
  <2>3. CASE task[c][p] = "envs" /\ task'[c][p] = "envs" /\ \E e \in sel[c][p] : sel'[c][p] = sel[c][p] \ {e}
    <3>1. Cardinality(sel'[c][p]) = Cardinality(sel[c][p]) - 1 /\ Cardinality(sel[c][p]) \in Nat
          BY <2>3, <1>1, <1>2
    <3> QED  BY <3>1, <2>3 DEF TaskLeft
  <2> QED  BY <1>6, <2>1, <2>2, <2>3, DeleteMoves
<1>7. ASSUME NEW r \in Requests, pc[r] \notin Settled PROVE OrgLeft(r)' <= OrgLeft(r)
  <2>1. CASE OrgStep(r)
    <3>1. OrgLeft(r)' \in Nat
      <4>1. pc'[r] \in Phases /\ late'[r] \subseteq Envs  BY TypeNext DEF TypeOK, RequestType
      <4> QED  BY <4>1, <1>2 DEF OrgLeft, N
    <3> QED  BY <2>1, <3>1, <1>3, <1>5, <1>7
  <2>2. CASE pc'[r] = pc[r] /\ late'[r] = late[r]
    <3>1. OrgLeft(r)' = OrgLeft(r)  BY <2>2 DEF OrgLeft
    <3> QED  BY <3>1, <1>3
  <2>3. CASE pc'[r] = "idle"
    <3>1. OrgLeft(r)' = 0  BY <2>3 DEF OrgLeft
    <3> QED  BY <3>1, <1>3
  <2> QED  BY <1>7, <2>1, <2>2, <2>3, WhoseStep
<1>8. ASSUME NEW c \in Callers, NEW p \in Projects, task[c][p] # "none"
      PROVE  TaskLeft(c, p)' <= TaskLeft(c, p)
  <2>1. CASE ProjectStep(c, p)
    <3>1. TaskLeft(c, p)' \in Nat
      <4>1. task'[c][p] \in {"none", "select", "envs"} /\ sel'[c][p] \subseteq Envs  BY TypeNext DEF TypeOK, RequestType
      <4> QED  BY <4>1, <1>2 DEF TaskLeft, N
    <3> QED  BY <2>1, <3>1, <1>4, <1>6
  <2>2. CASE task'[c][p] = task[c][p] /\ sel'[c][p] = sel[c][p]
    <3>1. TaskLeft(c, p)' = TaskLeft(c, p)  BY <2>2 DEF TaskLeft
    <3> QED  BY <3>1, <1>4
  <2>3. CASE c \in Requests /\ pc[c] = "select"
    BY <2>3, <1>8 DEF BulkOnly
  <2>4. CASE task'[c][p] = "none"
    <3>1. TaskLeft(c, p)' = 0  BY <2>4 DEF TaskLeft
    <3> QED  BY <3>1, <1>4
  <2>5. CASE UNCHANGED vars
    BY <2>2, <2>5
  <2>6. CASE Next
    <3>1. \/ ProjectStep(c, p)
          \/ task'[c][p] = task[c][p] /\ sel'[c][p] = sel[c][p]
          \/ c \in Requests /\ pc[c] = "select"
          \/ task'[c][p] = "none"
      BY <1>8, <2>6, WhoseStep
    <3> QED  BY <3>1, <2>1, <2>2, <2>3, <2>4
  <2> QED  BY <2>5, <2>6
<1>9. ASSUME NEW r \in Requests, NEW p \in Projects, pc[r] = "projects", task[r][p] = "none"
      PROVE  task'[r][p] = "none"
  <2>1. ~ProjectStep(r, p)
    BY <1>9 DEF ProjectStep, SelectProjectEnvironments, DeleteProjectEnvironment, FinishProject
  <2> QED  BY <1>9, <2>1, WhoseStep
<1> QED  BY <1>5, <1>6, <1>7, <1>8, <1>9 DEF DeletesRunDown

\* A delete ends after so many steps of its own as there are environments and three,
\* for each project and for the organization, whoever deletes or writes the same
\* documents meanwhile: with the fairness of the event loop, which the prover has no
\* rule for, that is why every delete is answered (Organizations.ts, Projects.ts).
THEOREM DeletesAlwaysRunDown == IsFiniteSet(Envs) => (Spec => [][DeletesRunDown]_vars)
<1> SUFFICES ASSUME IsFiniteSet(Envs) PROVE Spec => [][DeletesRunDown]_vars
  OBVIOUS
<1>1. Init => BulkOnly
  BY DEF Init, BulkOnly
<1>2. TypeOK /\ BulkOnly /\ [Next]_vars => DeletesRunDown
  BY StepsRunDown
<1> QED
  BY <1>1, <1>2, TypeInit, TypeNext, BulkOnlyNext, PTL DEF Spec
=============================================================================
