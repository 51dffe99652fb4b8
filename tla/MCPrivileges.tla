----------------------------- MODULE MCPrivileges -----------------------------
(* Two servers, so that chownDirs can fail between two mounts. *)
EXTENDS Privileges
=============================================================================
