---------------------------- MODULE MCBackupCatalog ----------------------------
EXTENDS BackupCatalog, TLC

Backup(id, plane) == [id |-> id, plane |-> plane]
MCBackups == {Backup("b1", "capella"), Backup("b2", "enterprise")}
MCStartingFiles ==
  {Absent, Torn} \union
  {[backup |-> b, tags |-> {"t"}, sync |-> "unchecked"] : b \in MCBackups}

\* The workers are alike, and no property is about liveness.
WorkersAlike == Permutations(Workers)
================================================================================
