--------------------------- MODULE MCEntityEditor ---------------------------
(* Model values for the form of the custom entities. *)
EXTENDS EntityEditor

CONSTANTS d1, d2, c1, c2

MCEdited == {d1, d2}
MCCollections == {c1, c2}
=============================================================================
