---------------------------- MODULE MCMigrations ----------------------------
(* The history of this repository: TLC checks the revisions as they are,    *)
(* from every database they can lead to, and whether they meet the          *)
(* conditions of MigrationHistory.                                          *)
EXTENDS MigrationHistory, Revisions

\* (TLC evaluates the names that a .cfg gives for constants anew at each use.)
History == Files
Needed  == ModelsRelyOn
=============================================================================
