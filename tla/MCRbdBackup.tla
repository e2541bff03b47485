----------------------------- MODULE MCRbdBackup -----------------------------
(* Small instances of RbdBackup.                                           *)
EXTENDS RbdBackup

CONSTANTS w1, w2
=============================================================================
