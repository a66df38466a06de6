------------------------ MODULE MCRelationReadiness ------------------------
(* Small instances of RelationReadiness for TLC.                           *)
EXTENDS RelationReadiness
=============================================================================
