---------------------------- MODULE StoragePrepare ----------------------------
(***************************************************************************)
(* The StoragePrepare and StorageScan RPCs (server/ctl_storage_rpc.go)    *)
(* added to the format and launch model: an operator may also prepare or  *)
(* scan the node's storage.  Neither RPC checks whether the harness runs  *)
(* nor excludes a concurrent StorageFormat.                               *)
(*                                                                         *)
(* The drivers are collaborators outside this repository.  Their          *)
(* behaviour is taken from the spec: each call may fail, an SCM prepare   *)
(* may ask for a reboot, and an SCM reset removes the pmem namespaces,    *)
(* which may take the superblocks of any mounts on them along.  NVMe      *)
(* prepare only rebinds devices and leaves their data alone.              *)
(***************************************************************************)
EXTENDS StorageFormat

VARIABLES
    prepReply,   \* prepReply[c]: the last StoragePrepareResp sent to c
    scanReply    \* scanReply[c]: the last StorageScanResp sent to c

(* What a request asks of one class: nothing (nil sub-request), a        *)
(* prepare, or a reset.                                                   *)
PrepRequest == {"none", "prepare", "reset"}

(* The State of each sub-response: absent (nil sub-request), success,   *)
(* success with the reboot-required info, or a class error.              *)
PrepReply == [nvme : {"none", "ok", "error"}, scm : {"none", "ok", "reboot", "error"}]
ScanReply == [nvme : {"none", "ok", "error"}, scm : {"none", "ok", "error"}]

NoPrepReply == [nvme |-> "none", scm |-> "none"]
NoScanReply == [nvme |-> "none", scm |-> "none"]

prepVars == <<prepReply, scanReply>>
allVars == <<vars, prepVars>>

PrepTypeOK ==
    /\ TypeOK
    /\ prepReply \in [Client -> PrepReply]
    /\ scanReply \in [Client -> ScanReply]

PrepInit ==
    /\ Init
    /\ prepReply = [c \in Client |-> NoPrepReply]
    /\ scanReply = [c \in Client |-> NoScanReply]

(* doNvmePrepare: NvmePrepare either succeeds or yields CTL_ERR_NVME. *)
NvmePrepareResult(req) == IF req = "none" THEN {"none"} ELSE {"ok", "error"}

(* doScmPrepare: GetScmState, then ScmPrepare; either error ends the     *)
(* sub-request with CTL_ERR_SCM, success may carry the reboot message.  *)
ScmPrepareResult(req) == IF req = "none" THEN {"none"} ELSE {"ok", "reboot", "error"}

(* StoragePrepare: the NVMe sub-request, then the SCM sub-request, each  *)
(* reported in its own State whatever the other's outcome.  There is no  *)
(* IsStarted check.  A successful SCM reset may remove the superblocks   *)
(* of any set of mounts.                                                  *)
StoragePrepareCall(c) ==
    /\ cpc[c] = "idle"
    /\ nreq[c] < MaxRequests
    /\ nreq' = [nreq EXCEPT ![c] = @ + 1]
    /\ \E nreqKind, sreqKind \in PrepRequest :
       \E nres \in NvmePrepareResult(nreqKind), sres \in ScmPrepareResult(sreqKind) :
          /\ prepReply' = [prepReply EXCEPT ![c] = [nvme |-> nres, scm |-> sres]]
          /\ IF sreqKind = "reset" /\ sres # "error"
             THEN \E wiped \in SUBSET Instance :
                     scmFmt' = [i \in Instance |-> scmFmt[i] /\ i \notin wiped]
             ELSE UNCHANGED scmFmt
    /\ UNCHANGED <<launchVars, nvmeFmt, gate, cpc, inst, reformat, mrets, crets, reply, scanReply>>

(* StorageScan: bdev Scan and scm Scan, each failing on its own into a   *)
(* class error; the storage is left as it is.                             *)
StorageScanCall(c) ==
    /\ cpc[c] = "idle"
    /\ nreq[c] < MaxRequests
    /\ nreq' = [nreq EXCEPT ![c] = @ + 1]
    /\ \E nres, sres \in {"ok", "error"} :
          scanReply' = [scanReply EXCEPT ![c] = [nvme |-> nres, scm |-> sres]]
    /\ UNCHANGED <<launchVars, scmFmt, nvmeFmt, gate, cpc, inst, reformat, mrets, crets, reply, prepReply>>

PrepNext ==
    \/ Next /\ UNCHANGED prepVars
    \/ \E c \in Client : StoragePrepareCall(c) \/ StorageScanCall(c)

PrepSpec == PrepInit /\ [][PrepNext]_allVars

PrepFairSpec == PrepSpec /\ Fairness

=============================================================================
