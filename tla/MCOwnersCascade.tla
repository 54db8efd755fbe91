--------------------------- MODULE MCOwnersCascade ---------------------------
EXTENDS OwnersCascade, TLC

CONSTANT o1

\* All requests delete the same organization; another one is there to move to.
Targets == [r \in Requests |-> o1]

\* No action distinguishes two projects, two environments, or two such requests.
Symmetry == Permutations(Projects) \cup Permutations(Envs) \cup Permutations(Requests)

\* Who owned a document before, and who asked for its delete, changes no step.
Present == <<db, orgVars, taskVars, saveVars, strayP, strayE, bounds>>
=============================================================================
