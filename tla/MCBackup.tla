------------------------------ MODULE MCBackup ------------------------------
(***************************************************************************)
(* Four backups of which two are kept: a crash after the renames leaves an *)
(* archive too many, so that one rotation has two to remove.               *)
(***************************************************************************)
EXTENDS Backup

KeepTwo == 2
FourBackups == 4
=============================================================================
