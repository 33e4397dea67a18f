--------------------------- MODULE MCMaintenance ----------------------------
(* Maintenance for TLC.  Rows and Backups are model values given by the cfg. *)
EXTENDS Maintenance

=============================================================================
