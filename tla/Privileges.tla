------------------------------ MODULE Privileges ------------------------------
(***************************************************************************)
(* dropPrivileges (server/privileges.go), run by awaitStorageFormat when  *)
(* daos_server runs as root: resolve the configured user (getUID) and      *)
(* group (getGID), chown the SCM mount of every server and the socket     *)
(* directory to them (chownDirs), then setgid and finally setuid.  Every *)
(* call into the OS through config.ext may fail and ends dropPrivileges  *)
(* with an error, after which the server carries on as root.            *)
(*                                                                         *)
(* Ids are abstracted to who they belong to; an id is "large" when it     *)
(* does not fit strconv.ParseInt(_, 10, 32), i.e. is 2^31 or more.        *)
(***************************************************************************)
EXTENDS Naturals

CONSTANTS
    NServers   \* number of I/O servers in the config, each with an SCM mount

ASSUME NServersAssumption == NServers \in Nat \ {0}

Mounts == 1..NServers
SocketDir == NServers + 1
Dirs == Mounts \cup {SocketDir}

(* The ids the process may run with. *)
Gids == {"root", "usergid", "groupgid"}

VARIABLES
    userName,    \* config.UserName != ""
    groupName,   \* config.GroupName != ""
    isMember,    \* the user is a member of the configured group
    large,       \* the ids among "uid", "usergid", "groupgid" of 2^31 or more
    pc,          \* where dropPrivileges is
    chosenGid,   \* the gid getGID resolved ("none" before)
    chowned,     \* the directories already chowned to the user
    uidNow,      \* the uid the process runs with: "root" or "user"
    gidNow       \* the gid the process runs with

vars == <<userName, groupName, isMember, large, pc, chosenGid, chowned, uidNow, gidNow>>
env == <<userName, groupName, isMember, large>>

TypeOK ==
    /\ userName \in BOOLEAN
    /\ groupName \in BOOLEAN
    /\ isMember \in BOOLEAN
    /\ large \subseteq {"uid", "usergid", "groupgid"}
    /\ pc \in {"start", "getuid", "getgid", "chown", "setgid", "setuid", "done", "failed"}
    /\ chosenGid \in {"none", "usergid", "groupgid"}
    /\ chowned \subseteq Dirs
    /\ uidNow \in {"root", "user"}
    /\ gidNow \in Gids

(* Any configuration and account database; the process starts as root. *)
Init ==
    /\ userName \in BOOLEAN
    /\ groupName \in BOOLEAN
    /\ isMember \in BOOLEAN
    /\ large \in SUBSET {"uid", "usergid", "groupgid"}
    /\ pc = "start"
    /\ chosenGid = "none"
    /\ chowned = {}
    /\ uidNow = "root"
    /\ gidNow = "root"

(* strconv.ParseInt(id, 10, 32) succeeds *)
Parses(id) == id \notin large

Fail == pc' = "failed"

(* No username in the config: dropPrivileges returns an error at once. *)
DropStart ==
    /\ pc = "start"
    /\ IF userName THEN pc' = "getuid" ELSE Fail
    /\ UNCHANGED <<env, chosenGid, chowned, uidNow, gidNow>>

(* getUID: ext.lookupUser, then the uid is parsed. *)
GetUID ==
    /\ pc = "getuid"
    /\ \E lookupOk \in BOOLEAN :
          IF lookupOk /\ Parses("uid") THEN pc' = "getgid" ELSE Fail
    /\ UNCHANGED <<env, chosenGid, chowned, uidNow, gidNow>>

(* Mutant: the group list is not consulted, any resolvable group is taken. *)
GetGIDNoMembershipCheck ==
    /\ pc = "getgid"
    /\ \E lookupOk, listOk \in BOOLEAN :
          LET g == IF groupName /\ lookupOk THEN "groupgid" ELSE "usergid"
          IN  IF (groupName /\ lookupOk /\ ~listOk) \/ ~Parses(g)
              THEN Fail /\ UNCHANGED chosenGid
              ELSE pc' = "chown" /\ chosenGid' = g
    /\ UNCHANGED <<env, chowned, uidNow, gidNow>>

(* getGID: the configured group is taken only when it can be looked up    *)
(* and the user's group list contains it; a failed lookup falls back to  *)
(* the user's primary group, a failed group list is an error; the        *)
(* resolved gid is then parsed.                                          *)
GetGID ==
    /\ pc = "getgid"
    /\ \E lookupOk, listOk \in BOOLEAN :
          LET g == IF groupName /\ lookupOk /\ isMember THEN "groupgid" ELSE "usergid"
          IN  IF (groupName /\ lookupOk /\ ~listOk) \/ ~Parses(g)
              THEN Fail /\ UNCHANGED chosenGid
              ELSE pc' = "chown" /\ chosenGid' = g
    /\ UNCHANGED <<env, chowned, uidNow, gidNow>>

(* Mutant: the loop index starts one too low. *)
ChownMountOffByOne ==
    /\ pc = "chown"
    /\ \E m \in (0..NServers) \ chowned :
          /\ \A k \in 0..NServers : k < m => k \in chowned
          /\ \/ chowned' = chowned \cup {m} /\ UNCHANGED pc
             \/ Fail /\ UNCHANGED chowned
    /\ UNCHANGED <<env, chosenGid, uidNow, gidNow>>

(* chownDirs, loop over the servers: chown -R of the next SCM mount. *)
ChownMount ==
    /\ pc = "chown"
    /\ \E m \in Mounts \ chowned :
          /\ \A k \in Mounts : k < m => k \in chowned
          /\ \/ chowned' = chowned \cup {m} /\ UNCHANGED pc
             \/ Fail /\ UNCHANGED chowned
    /\ UNCHANGED <<env, chosenGid, uidNow, gidNow>>

(* Mutant: the setGID call is missing, setUID follows chownDirs. *)
ChownSocketThenSetUID ==
    /\ pc = "chown"
    /\ Mounts \subseteq chowned
    /\ \/ chowned' = chowned \cup {SocketDir} /\ pc' = "setuid"
       \/ Fail /\ UNCHANGED chowned
    /\ UNCHANGED <<env, chosenGid, uidNow, gidNow>>

(* chownDirs, after the loop: chown -R of the socket directory. *)
ChownSocket ==
    /\ pc = "chown"
    /\ Mounts \subseteq chowned
    /\ \/ chowned' = chowned \cup {SocketDir} /\ pc' = "setgid"
       \/ Fail /\ UNCHANGED chowned
    /\ UNCHANGED <<env, chosenGid, uidNow, gidNow>>

(* ext.setGID *)
SetGID ==
    /\ pc = "setgid"
    /\ \/ gidNow' = chosenGid /\ pc' = "setuid"
       \/ Fail /\ UNCHANGED gidNow
    /\ UNCHANGED <<env, chosenGid, chowned, uidNow>>

(* ext.setUID, the last step. *)
SetUID ==
    /\ pc = "setuid"
    /\ \/ uidNow' = "user" /\ pc' = "done"
       \/ Fail /\ UNCHANGED uidNow
    /\ UNCHANGED <<env, chosenGid, chowned, gidNow>>

Next == DropStart \/ GetUID \/ GetGID \/ ChownMount \/ ChownSocket \/ SetGID \/ SetUID

Spec == Init /\ [][Next]_vars

(* Refinement mapping to the abstract PrivilegeDrop: the chowned          *)
(* directories are the ones handed over, and a failed drop is abandoned.  *)
PD == INSTANCE PrivilegeDrop
        WITH Dir <- Dirs, owned <- chowned, uid <- uidNow, gid <- gidNow,
             aborted <- (pc = "failed")

-----------------------------------------------------------------------------
(* Properties *)

(* The process gives up root only as the very last step of a complete    *)
(* drop: every SCM mount and the socket directory already belong to the *)
(* user, and the gid has been set to the resolved one.  A failure part   *)
(* way never leaves a non-root process without access to its dirs or    *)
(* with the root group.                                                  *)
DroppedOnlyWhenComplete ==
    uidNow = "user" =>
        /\ pc = "done"
        /\ chowned = Dirs
        /\ gidNow = chosenGid
        /\ gidNow # "root"

(* dropPrivileges implements the abstract drop: it hands every mount and *)
(* the socket directory to the user before it changes gid, takes only a  *)
(* gid the user may use, gives up uid 0 only with that gid, and after a  *)
(* failed OS call changes nothing more.                                   *)
ImplementsPrivilegeDrop == PD!Spec

=============================================================================
