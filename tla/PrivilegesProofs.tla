--------------------------- MODULE PrivilegesProofs ---------------------------
(***************************************************************************)
(* Invariance proofs for the privilege drop, for every number of servers. *)
(***************************************************************************)
EXTENDS Privileges, TLAPS

(* What each position of dropPrivileges has already achieved: past the   *)
(* chown loop every directory belongs to the user, past getGID a gid has *)
(* been chosen, before setGID the process keeps root's gid and past it   *)
(* runs with the chosen one, and the uid only changes in the last step.  *)
(* The process runs with root's gid or the chosen one, and getGID        *)
(* chooses the configured group only for members.                        *)
PhaseInv ==
    /\ uidNow = "user" => pc = "done"
    /\ pc \in {"chown", "setgid", "setuid", "done"} => chosenGid # "none"
    /\ pc \in {"setgid", "setuid", "done"} => chowned = Dirs
    /\ pc \in {"setuid", "done"} => gidNow = chosenGid
    /\ gidNow \in {"root", chosenGid}
    /\ pc \in {"start", "getuid", "getgid", "chown", "setgid"} => gidNow = "root"
    /\ chosenGid = "groupgid" => groupName /\ isMember

IInv == TypeOK /\ PhaseInv

USE NServersAssumption

LEMMA InitIInv == Init => IInv
BY DEF Init, IInv, TypeOK, PhaseInv, Dirs, Mounts, SocketDir, Gids

LEMMA NextIInv == IInv /\ [Next]_vars => IInv'
<1> SUFFICES ASSUME IInv, [Next]_vars PROVE IInv'
    OBVIOUS
<1> USE DEF IInv, TypeOK, PhaseInv, Fail, env, Gids
<1>1. CASE DropStart
    BY <1>1 DEF DropStart
<1>2. CASE GetUID
    BY <1>2 DEF GetUID
<1>3. CASE GetGID
    <2>1. PICK lookupOk, listOk \in BOOLEAN :
              LET g == IF groupName /\ lookupOk /\ isMember THEN "groupgid" ELSE "usergid"
              IN  IF (groupName /\ lookupOk /\ ~listOk) \/ ~Parses(g)
                  THEN Fail /\ UNCHANGED chosenGid
                  ELSE pc' = "chown" /\ chosenGid' = g
        BY <1>3 DEF GetGID
    <2>2. pc = "getgid" /\ gidNow = "root" /\ UNCHANGED <<env, chowned, uidNow, gidNow>>
        BY <1>3 DEF GetGID
    <2>3. QED
        BY <2>1, <2>2
<1>4. CASE ChownMount
    <2>1. PICK m \in Mounts \ chowned :
              \/ chowned' = chowned \cup {m} /\ UNCHANGED pc
              \/ Fail /\ UNCHANGED chowned
        BY <1>4 DEF ChownMount
    <2>2. m \in Dirs
        BY DEF Dirs
    <2>3. QED
        BY <1>4, <2>1, <2>2 DEF ChownMount
<1>5. CASE ChownSocket
    <2>1. pc = "chown" /\ Mounts \subseteq chowned
        BY <1>5 DEF ChownSocket
    <2>2. chowned \cup {SocketDir} = Dirs
        BY <2>1 DEF Dirs
    <2>3. SocketDir \in Dirs
        BY DEF Dirs
    <2>4. QED
        BY <1>5, <2>1, <2>2, <2>3 DEF ChownSocket
<1>6. CASE SetGID
    BY <1>6 DEF SetGID
<1>7. CASE SetUID
    BY <1>7 DEF SetUID
<1>8. CASE UNCHANGED vars
    BY <1>8 DEF vars
<1>9. QED
    BY <1>1, <1>2, <1>3, <1>4, <1>5, <1>6, <1>7, <1>8 DEF Next

LEMMA AlwaysIInv == Spec => []IInv
BY InitIInv, NextIInv, PTL DEF Spec

(* dropPrivileges gives up root only as its very last step, after every *)
(* mount and the socket directory were chowned and the resolved gid was  *)
(* set, whichever of its calls fail, for any number of servers.          *)
THEOREM DropSafety == Spec => []DroppedOnlyWhenComplete
<1>1. IInv => DroppedOnlyWhenComplete
    BY DEF IInv, PhaseInv, TypeOK, DroppedOnlyWhenComplete
<1>2. QED
    BY <1>1, AlwaysIInv, PTL

(* The privilege-drop state machine keeps every variable in its type. *)
THEOREM PrivilegesTypeCorrect == Spec => []TypeOK
<1>1. IInv => TypeOK
    BY DEF IInv
<1>2. QED
    BY <1>1, AlwaysIInv, PTL

-----------------------------------------------------------------------------
(* Refinement of the abstract PrivilegeDrop. *)

(* A failing OS call before the drop completed is an abandoned drop:    *)
(* the process is still root, since only the last step changes the uid. *)
LEMMA FailIsAbort ==
    ASSUME IInv, pc \notin {"failed", "done"}, Fail, UNCHANGED <<env, chowned, uidNow, gidNow>>
    PROVE  PD!Abort
BY DEF IInv, PhaseInv, TypeOK, Fail, env, PD!Abort

(* A step that moves only pc, and not into failure, is a stutter of the  *)
(* abstract drop.                                                          *)
LEMMA PcOnlyStutter ==
    ASSUME pc # "failed", pc' # "failed", UNCHANGED <<env, chowned, uidNow, gidNow>>
    PROVE  UNCHANGED PD!vars
BY DEF env, PD!vars

LEMMA PrivStep == IInv /\ [Next]_vars => [PD!Next]_PD!vars
<1> SUFFICES ASSUME IInv, [Next]_vars PROVE [PD!Next]_PD!vars
    OBVIOUS
<1> USE DEF PD!Next
<1>1. CASE DropStart
    <2>1. pc = "start" /\ UNCHANGED <<env, chowned, uidNow, gidNow>>
        BY <1>1 DEF DropStart
    <2>2. Fail \/ pc' = "getuid"
        BY <1>1 DEF DropStart
    <2>3. QED
        BY <2>1, <2>2, FailIsAbort, PcOnlyStutter
<1>2. CASE GetUID
    <2>1. pc = "getuid" /\ UNCHANGED <<env, chowned, uidNow, gidNow>>
        BY <1>2 DEF GetUID
    <2>2. Fail \/ pc' = "getgid"
        BY <1>2 DEF GetUID
    <2>3. QED
        BY <2>1, <2>2, FailIsAbort, PcOnlyStutter
<1>3. CASE GetGID
    <2>1. pc = "getgid" /\ UNCHANGED <<env, chowned, uidNow, gidNow>>
        BY <1>3 DEF GetGID
    <2>2. Fail \/ pc' = "chown"
        BY <1>3 DEF GetGID
    <2>3. QED
        BY <2>1, <2>2, FailIsAbort, PcOnlyStutter
<1>4. CASE ChownMount
    <2>1. pc = "chown" /\ gidNow = "root" /\ uidNow = "root"
          /\ UNCHANGED <<env, uidNow, gidNow>>
        BY <1>4 DEF ChownMount, IInv, PhaseInv, TypeOK, env
    <2>2. PICK m \in Mounts \ chowned :
              \/ chowned' = chowned \cup {m} /\ UNCHANGED pc
              \/ Fail /\ UNCHANGED chowned
        BY <1>4 DEF ChownMount
    <2>3. CASE chowned' = chowned \cup {m} /\ UNCHANGED pc
        <3>1. m \in Dirs \ chowned
            BY DEF Dirs
        <3>2. PD!GiveDir
            BY <2>1, <2>3, <3>1 DEF PD!GiveDir, env
        <3>3. QED
            BY <3>2
    <2>4. CASE Fail /\ UNCHANGED chowned
        BY <2>1, <2>4, FailIsAbort
    <2>5. QED
        BY <2>2, <2>3, <2>4
<1>5. CASE ChownSocket
    <2>1. pc = "chown" /\ gidNow = "root" /\ uidNow = "root"
          /\ UNCHANGED <<env, uidNow, gidNow>>
        BY <1>5 DEF ChownSocket, IInv, PhaseInv, TypeOK, env
    <2>2. CASE chowned' = chowned \cup {SocketDir} /\ pc' = "setgid"
        <3>1. CASE SocketDir \in chowned
            BY <2>1, <2>2, <3>1, PcOnlyStutter
        <3>2. CASE SocketDir \notin chowned
            <4>1. SocketDir \in Dirs \ chowned
                BY <3>2 DEF Dirs
            <4>2. PD!GiveDir
                BY <2>1, <2>2, <4>1 DEF PD!GiveDir, env
            <4>3. QED
                BY <4>2
        <3>3. QED
            BY <3>1, <3>2
    <2>3. CASE Fail /\ UNCHANGED chowned
        BY <2>1, <2>3, FailIsAbort
    <2>4. QED
        BY <1>5, <2>2, <2>3 DEF ChownSocket
<1>6. CASE SetGID
    <2>1. /\ pc = "setgid" /\ gidNow = "root" /\ uidNow = "root" /\ chowned = Dirs
          /\ chosenGid \in PD!UsableGid
        BY <1>6 DEF SetGID, IInv, PhaseInv, TypeOK, PD!UsableGid
    <2>2. UNCHANGED <<env, chowned, uidNow>>
        BY <1>6 DEF SetGID
    <2>3. CASE gidNow' = chosenGid /\ pc' = "setuid"
        BY <2>1, <2>2, <2>3 DEF PD!SetGroup, env
    <2>4. CASE Fail /\ UNCHANGED gidNow
        BY <2>1, <2>2, <2>4, FailIsAbort
    <2>5. QED
        BY <1>6, <2>3, <2>4 DEF SetGID
<1>7. CASE SetUID
    <2>1. /\ pc = "setuid" /\ uidNow = "root" /\ gidNow \in PD!UsableGid
        BY <1>7 DEF SetUID, IInv, PhaseInv, TypeOK, PD!UsableGid
    <2>2. UNCHANGED <<env, chowned, gidNow>>
        BY <1>7 DEF SetUID
    <2>3. CASE uidNow' = "user" /\ pc' = "done"
        BY <2>1, <2>2, <2>3 DEF PD!DropUid, env
    <2>4. CASE Fail /\ UNCHANGED uidNow
        BY <2>1, <2>2, <2>4, FailIsAbort
    <2>5. QED
        BY <1>7, <2>3, <2>4 DEF SetUID
<1>8. CASE UNCHANGED vars
    BY <1>8 DEF vars, PD!vars
<1>9. QED
    BY <1>1, <1>2, <1>3, <1>4, <1>5, <1>6, <1>7, <1>8 DEF Next

(* dropPrivileges implements the abstract drop (ImplementsPrivilegeDrop),  *)
(* for any number of servers: directories first, in whatever order the   *)
(* loop takes them, then a usable gid, then the uid, with a failed OS     *)
(* call abandoning the drop while the process is still root.             *)
THEOREM PrivilegesRefinement == Spec => ImplementsPrivilegeDrop
<1>1. Init => PD!Init
    BY DEF Init, PD!Init
<1>2. QED
    BY <1>1, AlwaysIInv, PrivStep, PTL DEF Spec, PD!Spec, ImplementsPrivilegeDrop

=============================================================================
