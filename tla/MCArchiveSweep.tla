---------------------------- MODULE MCArchiveSweep ----------------------------
(* Small instances of the archive sweep for TLC.                            *)
EXTENDS ArchiveSweep
===============================================================================
