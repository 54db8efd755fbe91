SPECIFICATION DefinitionsSpec
CONSTANTS
    d1 = d1
    d2 = d2
    c1 = c1
    c2 = c2
    Edited <- MCEdited
    Collections <- MCCollections
    Placeholder = Placeholder
    Nothing = Nothing
    NoBase = NoBase
    Forms = "forms"
    Ops <- AllOps
    Roles <- AllRoles
    Users <- AllUsers
    Catalogue <- All
    Program <- Slugs
    ProgramAccess <- Access
    ProgramFields <- FieldsOf
    MaxSaves = 2
    MaxBoots = 1
    MaxStored = 3
INVARIANTS EntitiesServed RelationsComeFirst OnlyNamedChange SavesActLikeABoot FilterIsExactWhenSparse
PROPERTIES SavedWasShown UnpickedExtensionsInherit
SYMMETRY Symmetry
VIEW InUse
CHECK_DEADLOCK FALSE
