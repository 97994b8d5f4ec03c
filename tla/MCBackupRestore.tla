-------------------------- MODULE MCBackupRestore --------------------------
(* Constants for BackupRestore: two operations at a time.                   *)
EXTENDS BackupRestore

CONSTANTS db, scripts
=============================================================================
