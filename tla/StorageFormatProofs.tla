------------------------- MODULE StorageFormatProofs -------------------------
(***************************************************************************)
(* Invariance proofs for StorageFormat, for every number of instances,    *)
(* device configuration, set of clients and request bound.               *)
(***************************************************************************)
EXTENDS StorageFormat, TLAPS

(* The positions that index an instance's state are in range: a call in   *)
(* its SCM or NVMe phase is at a configured instance, and a blocked       *)
(* launch loop waits on a configured instance's latch.  TypeOK alone is   *)
(* not inductive because it allows inst[c] = NInstances + 1 there.        *)
PhaseInv ==
    /\ \A c \in Client : cpc[c] \in {"scm", "nvme"} => inst[c] \in Instance
    /\ lpc = "wait" => waitIdx \in Instance

IInv == TypeOK /\ PhaseInv

USE ConstantsAssumption

(* The empty reply is a reply. *)
LEMMA NoReplyType == NoReply \in Reply /\ [NoReply EXCEPT !.status = "refused"] \in Reply
                     /\ [NoReply EXCEPT !.status = "failed"] \in Reply
BY DEF NoReply, Reply, ReplyStatus

LEMMA InitIInv == Init => IInv
<1> SUFFICES ASSUME Init PROVE IInv
    OBVIOUS
<1>1. TypeOK
    <2>1. waitIdx \in 1..NInstances + 1 /\ inst \in [Client -> 1..NInstances + 1]
        BY DEF Init
    <2>2. gate \in [Instance -> {"Pending", "Fired"}] /\ cpc \in [Client -> {"idle", "format", "scm", "nvme"}]
        BY DEF Init
    <2>3. crets \in [Client -> {Nil} \cup SUBSET CRet] /\ mrets \in [Client -> SUBSET MRet]
        BY DEF Init
    <2>4. nreq \in [Client -> 0..MaxRequests] /\ reformat \in [Client -> BOOLEAN]
        BY DEF Init
    <2>5. reply \in [Client -> Reply]
        BY NoReplyType DEF Init
    <2>6. QED
        BY <2>1, <2>2, <2>3, <2>4, <2>5 DEF Init, TypeOK
<1>2. PhaseInv
    BY DEF Init, PhaseInv
<1>3. QED
    BY <1>1, <1>2 DEF IInv

LEMMA NextIInv == IInv /\ [Next]_vars => IInv'
<1> SUFFICES ASSUME IInv, [Next]_vars PROVE IInv'
    OBVIOUS
<1> USE DEF IInv, TypeOK, PhaseInv, Instance
<1>1. ASSUME NEW c \in Client, StorageFormatRefused(c) PROVE IInv'
    BY <1>1, NoReplyType DEF StorageFormatRefused, launchVars
<1>2. ASSUME NEW c \in Client, NEW rf \in BOOLEAN, StorageFormatAccepted(c, rf) PROVE IInv'
    BY <1>2 DEF StorageFormatAccepted, launchVars, Reply, NoReply, ReplyStatus
<1>3. ASSUME NEW c \in Client, DoFormat(c) PROVE IInv'
    <2>1. inst[c] \in Instance /\ cpc[c] = "format"
        BY <1>3 DEF DoFormat
    <2>2. [mnt |-> inst[c], ok |-> FALSE] \in MRet
        BY <2>1 DEF MRet
    <2>3. CASE ~reformat[c] /\ scmFmt[inst[c]]
              /\ mrets' = [mrets EXCEPT ![c] = @ \cup {[mnt |-> inst[c], ok |-> FALSE]}]
              /\ inst' = [inst EXCEPT ![c] = inst[c] + 1]
              /\ UNCHANGED cpc
        <3>0a. inst' \in [Client -> 1..NInstances + 1]
            BY <2>1, <2>3 DEF IInv, TypeOK
        <3>0b. mrets' \in [Client -> SUBSET MRet]
            BY <2>2, <2>3 DEF IInv, TypeOK
        <3>1. inst' \in [Client -> 1..NInstances + 1] /\ mrets' \in [Client -> SUBSET MRet]
            BY <3>0a, <3>0b
        <3>2. TypeOK'
            BY <1>3, <3>1 DEF DoFormat, launchVars
        <3>3. PhaseInv'
            BY <1>3, <2>1, <2>3 DEF DoFormat, launchVars
        <3>4. QED
            BY <3>2, <3>3
    <2>4. CASE (reformat[c] \/ ~scmFmt[inst[c]])
              /\ cpc' = [cpc EXCEPT ![c] = "scm"]
              /\ UNCHANGED <<mrets, inst>>
        BY <1>3, <2>1, <2>4 DEF DoFormat, launchVars
    <2>5. QED
        BY <1>3, <2>3, <2>4 DEF DoFormat
<1>4. ASSUME NEW c \in Client, ScmFormat(c) PROVE IInv'
    <2>1. inst[c] \in Instance /\ cpc[c] = "scm"
        BY <1>4 DEF ScmFormat
    <2>2. \A b \in BOOLEAN : [mnt |-> inst[c], ok |-> b] \in MRet
        BY <2>1 DEF MRet
    <2>3. CASE /\ scmFmt' = [scmFmt EXCEPT ![inst[c]] = TRUE]
               /\ mrets' = [mrets EXCEPT ![c] = {[mnt |-> inst[c], ok |-> TRUE]}]
               /\ cpc' = [cpc EXCEPT ![c] = "nvme"]
               /\ UNCHANGED inst
        BY <1>4, <2>1, <2>2, <2>3 DEF ScmFormat, launchVars
    <2>4. CASE /\ \E left \in {FALSE, scmFmt[inst[c]]} : scmFmt' = [scmFmt EXCEPT ![inst[c]] = left]
               /\ mrets' = [mrets EXCEPT ![c] = {[mnt |-> inst[c], ok |-> FALSE]}]
               /\ cpc' = [cpc EXCEPT ![c] = "format"]
               /\ inst' = [inst EXCEPT ![c] = inst[c] + 1]
        <3>1. PICK left \in {FALSE, scmFmt[inst[c]]} : scmFmt' = [scmFmt EXCEPT ![inst[c]] = left]
            BY <2>4
        <3>2a. inst' \in [Client -> 1..NInstances + 1]
            BY <2>1, <2>4 DEF IInv, TypeOK
        <3>2b. mrets' \in [Client -> SUBSET MRet]
            BY <2>2, <2>4 DEF IInv, TypeOK
        <3>2. inst' \in [Client -> 1..NInstances + 1] /\ mrets' \in [Client -> SUBSET MRet]
            BY <3>2a, <3>2b
        <3>3. scmFmt' \in [Instance -> BOOLEAN]
            BY <3>1
        <3>4. TypeOK'
            BY <1>4, <3>2, <3>3 DEF ScmFormat, launchVars
        <3>5. PhaseInv'
            BY <1>4, <2>1, <2>4 DEF ScmFormat, launchVars
        <3>6. QED
            BY <3>4, <3>5
    <2>5. QED
        BY <1>4, <2>3, <2>4 DEF ScmFormat
<1>5. ASSUME NEW c \in Client, NvmeFormat(c) PROVE IInv'
    <2>1. PICK res \in [DevicesOf[inst[c]] -> BOOLEAN] :
              /\ nvmeFmt' = [d \in Device |-> IF d \in DevicesOf[inst[c]] THEN res[d] ELSE nvmeFmt[d]]
              /\ crets' = [crets EXCEPT ![c] = {[pci |-> d, ok |-> res[d]] : d \in DevicesOf[inst[c]]}]
              /\ gate' = IF \A d \in DevicesOf[inst[c]] : res[d]
                         THEN [gate EXCEPT ![inst[c]] = "Fired"]
                         ELSE gate
        BY <1>5 DEF NvmeFormat
    <2>2. DevicesOf[inst[c]] \subseteq Device
        BY <1>5 DEF NvmeFormat
    <2>3. QED
        BY <1>5, <2>1, <2>2 DEF NvmeFormat, launchVars, CRet
<1>6. ASSUME NEW c \in Client, DoFormatError(c) PROVE IInv'
    BY <1>6, NoReplyType DEF DoFormatError, launchVars
<1>7. ASSUME NEW c \in Client, SendResponse(c) PROVE IInv'
    BY <1>7 DEF SendResponse, launchVars, Reply, ReplyStatus, CRet
<1>8. CASE AwaitSkip
    BY <1>8 DEF AwaitSkip, callVars
<1>9. CASE AwaitCheck
    BY <1>9 DEF AwaitCheck, callVars
<1>10. CASE AwaitWake
    BY <1>10 DEF AwaitWake, callVars
<1>11. CASE AwaitDone
    BY <1>11 DEF AwaitDone, callVars
<1>12. CASE UNCHANGED vars
    BY <1>12 DEF vars
<1>13. QED
    BY <1>1, <1>2, <1>3, <1>4, <1>5, <1>6, <1>7, <1>8, <1>9, <1>10, <1>11, <1>12
    DEF Next, Serve, Launch

(* The StorageFormat state machine keeps every variable in its type,     *)
(* whatever the configuration and however many callers interleave.       *)
THEOREM TypeCorrect == Spec => []TypeOK
<1>1. IInv => TypeOK
    BY DEF IInv
<1>2. QED
    BY InitIInv, NextIInv, <1>1, PTL DEF Spec

=============================================================================
