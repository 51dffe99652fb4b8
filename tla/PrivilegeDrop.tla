---------------------------- MODULE PrivilegeDrop ----------------------------
(***************************************************************************)
(* What dropping root privileges promises, independent of the OS calls    *)
(* that carry it out.  The directories the unprivileged server needs are  *)
(* handed to the user, in any order; once all of them are, the process   *)
(* takes a gid the user may use (the user's own group, or the configured  *)
(* group if the user is a member); only with such a gid does it give up   *)
(* uid 0.  The drop may be abandoned at any point before that, after     *)
(* which the process keeps running as root and nothing more changes.     *)
(***************************************************************************)
CONSTANT Dir   \* the directories the unprivileged server must own

VARIABLES
    groupName,  \* a group is configured
    isMember,   \* the user is a member of it
    owned,      \* the directories already handed to the user
    uid,        \* "root" or "user"
    gid,        \* "root", "usergid" or "groupgid"
    aborted     \* the drop was abandoned

vars == <<groupName, isMember, owned, uid, gid, aborted>>

(* The gids the user may run with. *)
UsableGid == {g \in {"usergid", "groupgid"} : g = "groupgid" => groupName /\ isMember}

Init ==
    /\ groupName \in BOOLEAN
    /\ isMember \in BOOLEAN
    /\ owned = {}
    /\ uid = "root"
    /\ gid = "root"
    /\ aborted = FALSE

(* One more directory is handed to the user. *)
GiveDir ==
    /\ ~aborted
    /\ gid = "root"
    /\ \E d \in Dir \ owned : owned' = owned \cup {d}
    /\ UNCHANGED <<groupName, isMember, uid, gid, aborted>>

(* With every directory handed over, a usable gid is taken. *)
SetGroup ==
    /\ ~aborted
    /\ owned = Dir
    /\ gid = "root"
    /\ gid' \in UsableGid
    /\ UNCHANGED <<groupName, isMember, owned, uid, aborted>>

(* With a usable gid, uid 0 is given up. *)
DropUid ==
    /\ ~aborted
    /\ uid = "root"
    /\ gid \in UsableGid
    /\ uid' = "user"
    /\ UNCHANGED <<groupName, isMember, owned, gid, aborted>>

(* The drop is abandoned while still root. *)
Abort ==
    /\ ~aborted
    /\ uid = "root"
    /\ aborted' = TRUE
    /\ UNCHANGED <<groupName, isMember, owned, uid, gid>>

Next == GiveDir \/ SetGroup \/ DropUid \/ Abort

Spec == Init /\ [][Next]_vars

=============================================================================
