---------------------------- MODULE StorageFormat ----------------------------
(***************************************************************************)
(* The storage format path of a DAOS control-plane server (daos_server).   *)
(*                                                                         *)
(*  - StorageFormat RPC (server/ctl_storage_rpc.go): refuses when the I/O  *)
(*    server instances are running, then runs doFormat for every instance *)
(*    in order: SCM phase (scmFormat) then NVMe phase (bdev Format), and   *)
(*    fires the instance's storage-ready latch on success.  Each caller    *)
(*    of the RPC is served by its own goroutine and nothing serialises     *)
(*    them, so several calls may interleave.                               *)
(*  - awaitStorageFormat (server/mgmt.go): the launch path, which either   *)
(*    skips formatting (non-root, or format_override) and releases every   *)
(*    latch, or walks the instances, skipping the formatted ones and      *)
(*    blocking on the latch of the others, after which the harness starts *)
(*    the instances.                                                      *)
(*                                                                         *)
(* Data is abstracted to what the properties tell apart: a result is a     *)
(* target and a success bit, a mount or device is formatted or not.        *)
(***************************************************************************)
EXTENDS Naturals, FiniteSets

CONSTANTS
    NInstances,   \* number of I/O server instances in the server config
    Device,       \* NVMe device (PCI address) identifiers
    DevicesOf,    \* DevicesOf[i]: bdev_list of instance i (may be empty)
    Client,       \* callers that may issue StorageFormat concurrently
    MaxRequests,  \* bound on the number of calls each client issues
    NilPci,       \* the "<nil>" PCI address of the synthetic not-ready result
    Nil           \* a nil resp.Crets slice, as opposed to an empty one

Instance == 1..NInstances

ASSUME ConstantsAssumption ==
    /\ NInstances \in Nat \ {0}
    /\ DevicesOf \in [Instance -> SUBSET Device]
    /\ \A i, j \in Instance : i # j => DevicesOf[i] \cap DevicesOf[j] = {}
    /\ MaxRequests \in Nat
    /\ NilPci \notin Device

(* ctlpb.ScmMountResult and ctlpb.NvmeControllerResult: target and status *)
MRet == [mnt : Instance, ok : BOOLEAN]
CRet == [pci : Device \cup {NilPci}, ok : BOOLEAN]

(* What a call returned: nothing yet, the refusal error, an internal error *)
(* that aborted it, or the StorageFormatResp sent on the stream.          *)
ReplyStatus == {"none", "refused", "failed", "sent"}
Reply == [status : ReplyStatus, mrets : SUBSET MRet, crets : SUBSET CRet]
NoReply == [status |-> "none", mrets |-> {}, crets |-> {}]

VARIABLES
    isRoot,          \* syscall.Getuid() == 0, fixed for the process
    formatOverride,  \* config.FormatOverride, fixed for the process
    scmFmt,          \* scmFmt[i]: SCM mount of instance i formatted (superblock present)
    nvmeFmt,         \* nvmeFmt[d]: NVMe device d formatted
    gate,            \* gate[i]: storage-ready latch of instance i
    started,         \* harness.IsStarted(): the I/O server instances run
    lpc,             \* awaitStorageFormat: "check", "wait" or "done"
    waitIdx,         \* awaitStorageFormat: the server the loop is at
    cpc,             \* cpc[c]: where client c's call is: "idle", "format", "scm", "nvme"
    inst,            \* inst[c]: the instance doFormat is at
    reformat,        \* reformat[c]: req.Reformat of the call
    mrets,           \* mrets[c]: resp.Mrets being built
    crets,           \* crets[c]: resp.Crets being built, or Nil
    nreq,            \* nreq[c]: calls issued so far by client c
    reply            \* reply[c]: what the last finished call of c returned

launchVars == <<isRoot, formatOverride, lpc, waitIdx, started>>
callVars == <<cpc, inst, reformat, mrets, crets, nreq, reply>>
vars == <<isRoot, formatOverride, scmFmt, nvmeFmt, gate, started, lpc, waitIdx,
          cpc, inst, reformat, mrets, crets, nreq, reply>>

TypeOK ==
    /\ isRoot \in BOOLEAN
    /\ formatOverride \in BOOLEAN
    /\ scmFmt \in [Instance -> BOOLEAN]
    /\ nvmeFmt \in [Device -> BOOLEAN]
    /\ gate \in [Instance -> {"Pending", "Fired"}]
    /\ started \in BOOLEAN
    /\ lpc \in {"check", "wait", "done"}
    /\ waitIdx \in 1..NInstances + 1
    /\ cpc \in [Client -> {"idle", "format", "scm", "nvme"}]
    /\ inst \in [Client -> 1..NInstances + 1]
    /\ reformat \in [Client -> BOOLEAN]
    /\ mrets \in [Client -> SUBSET MRet]
    /\ crets \in [Client -> {Nil} \cup SUBSET CRet]
    /\ nreq \in [Client -> 0..MaxRequests]
    /\ reply \in [Client -> Reply]

(* The launch path blocks on the latches only as root without override. *)
WaitMode == isRoot /\ ~formatOverride

(* The hardware may be in any state when the server starts; the latches  *)
(* are created pending (Setup) and no call is in progress.               *)
Init ==
    /\ isRoot \in BOOLEAN
    /\ formatOverride \in BOOLEAN
    /\ scmFmt \in [Instance -> BOOLEAN]
    /\ nvmeFmt \in [Device -> BOOLEAN]
    /\ gate = [i \in Instance |-> "Pending"]
    /\ started = FALSE
    /\ lpc = "check"
    /\ waitIdx = 1
    /\ cpc = [c \in Client |-> "idle"]
    /\ inst = [c \in Client |-> 1]
    /\ reformat = [c \in Client |-> FALSE]
    /\ mrets = [c \in Client |-> {}]
    /\ crets = [c \in Client |-> Nil]
    /\ nreq = [c \in Client |-> 0]
    /\ reply = [c \in Client |-> NoReply]

-----------------------------------------------------------------------------
(* StorageFormat RPC *)

(* Entry of StorageFormat while the harness runs: the call returns the    *)
(* refusal error and no results.                                          *)
StorageFormatRefused(c) ==
    /\ cpc[c] = "idle"
    /\ nreq[c] < MaxRequests
    /\ started
    /\ nreq' = [nreq EXCEPT ![c] = @ + 1]
    /\ reply' = [reply EXCEPT ![c] = [NoReply EXCEPT !.status = "refused"]]
    /\ UNCHANGED <<launchVars, scmFmt, nvmeFmt, gate, cpc, inst, reformat, mrets, crets>>

(* Entry of StorageFormat while the harness is stopped: a fresh response  *)
(* (nil Mrets and Crets) and the loop over the instances begins.         *)
StorageFormatAccepted(c, rf) ==
    /\ cpc[c] = "idle"
    /\ nreq[c] < MaxRequests
    /\ ~started
    /\ nreq' = [nreq EXCEPT ![c] = @ + 1]
    /\ cpc' = [cpc EXCEPT ![c] = "format"]
    /\ inst' = [inst EXCEPT ![c] = 1]
    /\ reformat' = [reformat EXCEPT ![c] = rf]
    /\ mrets' = [mrets EXCEPT ![c] = {}]
    /\ crets' = [crets EXCEPT ![c] = Nil]
    /\ reply' = [reply EXCEPT ![c] = NoReply]
    /\ UNCHANGED <<launchVars, scmFmt, nvmeFmt, gate>>

(* Mutant: the NeedsScmFormat check is lost and every mount is formatted. *)
DoFormatIgnoringSuperblock(c) ==
    /\ cpc[c] = "format"
    /\ inst[c] \in Instance
    /\ cpc' = [cpc EXCEPT ![c] = "scm"]
    /\ UNCHANGED <<launchVars, scmFmt, nvmeFmt, gate, reformat, mrets, inst, crets, nreq, reply>>

(* doFormat up to the SCM decision.  Without reformat an already          *)
(* formatted mount gets a FaultFormatNoReformat result and doFormat       *)
(* returns (no latch is fired); otherwise the SCM format follows.         *)
DoFormat(c) ==
    LET i == inst[c] IN
    /\ cpc[c] = "format"
    /\ i \in Instance
    /\ \/ /\ ~reformat[c]
          /\ scmFmt[i]
          /\ mrets' = [mrets EXCEPT ![c] = @ \cup {[mnt |-> i, ok |-> FALSE]}]
          /\ inst' = [inst EXCEPT ![c] = i + 1]
          /\ UNCHANGED cpc
       \/ /\ reformat[c] \/ ~scmFmt[i]
          /\ cpc' = [cpc EXCEPT ![c] = "scm"]
          /\ UNCHANGED <<mrets, inst>>
    /\ UNCHANGED <<launchVars, scmFmt, nvmeFmt, gate, reformat, crets, nreq, reply>>

(* Mutant: no return after an SCM error, the NVMe phase runs anyway. *)
ScmFormatNoReturnOnError(c) ==
    LET i == inst[c] IN
    /\ cpc[c] = "scm"
    /\ \E ok \in BOOLEAN :
          /\ scmFmt' = [scmFmt EXCEPT ![i] = ok \/ scmFmt[i]]
          /\ mrets' = [mrets EXCEPT ![c] = {[mnt |-> i, ok |-> ok]}]
    /\ cpc' = [cpc EXCEPT ![c] = "nvme"]
    /\ UNCHANGED <<launchVars, nvmeFmt, gate, reformat, crets, nreq, reply, inst>>

(* scmFormat and its use in doFormat: resp.Mrets is overwritten with the  *)
(* single result.  On failure doFormat returns before the NVMe phase; a   *)
(* failed format may or may not have wiped the mount.                     *)
ScmFormat(c) ==
    LET i == inst[c] IN
    /\ cpc[c] = "scm"
    /\ \/ /\ scmFmt' = [scmFmt EXCEPT ![i] = TRUE]
          /\ mrets' = [mrets EXCEPT ![c] = {[mnt |-> i, ok |-> TRUE]}]
          /\ cpc' = [cpc EXCEPT ![c] = "nvme"]
          /\ UNCHANGED inst
       \/ /\ \E left \in {FALSE, scmFmt[i]} : scmFmt' = [scmFmt EXCEPT ![i] = left]
          /\ mrets' = [mrets EXCEPT ![c] = {[mnt |-> i, ok |-> FALSE]}]
          /\ cpc' = [cpc EXCEPT ![c] = "format"]
          /\ inst' = [inst EXCEPT ![c] = i + 1]
    /\ UNCHANGED <<launchVars, nvmeFmt, gate, reformat, crets, nreq, reply>>

(* The NVMe phase of doFormat: every configured device is formatted and   *)
(* reported, one failure not stopping the others; resp.Crets is           *)
(* overwritten with this instance's results; with no error the latch of  *)
(* the instance fires (NotifyStorageReady).                              *)
NvmeFormat(c) ==
    LET i == inst[c] IN
    /\ cpc[c] = "nvme"
    /\ \E res \in [DevicesOf[i] -> BOOLEAN] :
          /\ nvmeFmt' = [d \in Device |-> IF d \in DevicesOf[i] THEN res[d] ELSE nvmeFmt[d]]
          /\ crets' = [crets EXCEPT ![c] = {[pci |-> d, ok |-> res[d]] : d \in DevicesOf[i]}]
          /\ gate' = IF \A d \in DevicesOf[i] : res[d]
                     THEN [gate EXCEPT ![i] = "Fired"]
                     ELSE gate
    /\ cpc' = [cpc EXCEPT ![c] = "format"]
    /\ inst' = [inst EXCEPT ![c] = i + 1]
    /\ UNCHANGED <<launchVars, scmFmt, reformat, mrets, nreq, reply>>

(* The unexpected errors of doFormat: the NeedsScmFormat probe, made    *)
(* only without reformat; scmFormat's CreateFormatRequest, which rejects *)
(* a bad SCM config before anything is formatted; the bdev Format call.  *)
ProbeError(c) == cpc[c] = "format" /\ inst[c] \in Instance /\ ~reformat[c]
ScmRequestError(c) == cpc[c] = "scm"
BdevError(c) == cpc[c] = "nvme" /\ DevicesOf[inst[c]] # {}

(* StorageFormat returns doFormat's error at once: no response is sent,  *)
(* while the instances before this one stay formatted.                    *)
DoFormatError(c) ==
    /\ ProbeError(c) \/ ScmRequestError(c) \/ BdevError(c)
    /\ cpc' = [cpc EXCEPT ![c] = "idle"]
    /\ reply' = [reply EXCEPT ![c] = [NoReply EXCEPT !.status = "failed"]]
    /\ UNCHANGED <<launchVars, scmFmt, nvmeFmt, gate, inst, reformat, mrets, crets, nreq>>

(* Mutant: newCret's "<nil>" substitution is lost, the synthetic result  *)
(* carries the empty PCI address.                                         *)
SendResponseEmptyPci(c) ==
    /\ cpc[c] = "format"
    /\ inst[c] = NInstances + 1
    /\ LET cr == IF crets[c] = Nil THEN {[pci |-> "", ok |-> FALSE]} ELSE crets[c]
       IN  reply' = [reply EXCEPT ![c] = [status |-> "sent", mrets |-> mrets[c], crets |-> cr]]
    /\ cpc' = [cpc EXCEPT ![c] = "idle"]
    /\ UNCHANGED <<launchVars, scmFmt, nvmeFmt, gate, inst, reformat, mrets, crets, nreq>>

(* After the loop: a nil Crets is replaced by one "not ready" NVMe        *)
(* result, and the response is sent.                                      *)
SendResponse(c) ==
    /\ cpc[c] = "format"
    /\ inst[c] = NInstances + 1
    /\ LET cr == IF crets[c] = Nil THEN {[pci |-> NilPci, ok |-> FALSE]} ELSE crets[c]
       IN  reply' = [reply EXCEPT ![c] = [status |-> "sent", mrets |-> mrets[c], crets |-> cr]]
    /\ cpc' = [cpc EXCEPT ![c] = "idle"]
    /\ UNCHANGED <<launchVars, scmFmt, nvmeFmt, gate, inst, reformat, mrets, crets, nreq>>

-----------------------------------------------------------------------------
(* awaitStorageFormat and the harness start *)

(* Non-root, or root with format_override: every latch is released and   *)
(* the harness starts.                                                    *)
AwaitSkip ==
    /\ lpc = "check"
    /\ ~WaitMode
    /\ gate' = [i \in Instance |-> "Fired"]
    /\ started' = TRUE
    /\ lpc' = "done"
    /\ UNCHANGED <<isRoot, formatOverride, waitIdx, scmFmt, nvmeFmt, callVars>>

(* Mutant: the superblock test is inverted. *)
AwaitCheckInverted ==
    /\ lpc = "check"
    /\ WaitMode
    /\ waitIdx \in Instance
    /\ IF ~scmFmt[waitIdx]
       THEN waitIdx' = waitIdx + 1 /\ UNCHANGED lpc
       ELSE lpc' = "wait" /\ UNCHANGED waitIdx
    /\ UNCHANGED <<isRoot, formatOverride, started, scmFmt, nvmeFmt, gate, callVars>>

(* Root without override, at server waitIdx: a formatted mount is skipped, *)
(* otherwise the loop blocks on the server's latch.                       *)
AwaitCheck ==
    /\ lpc = "check"
    /\ WaitMode
    /\ waitIdx \in Instance
    /\ IF scmFmt[waitIdx]
       THEN waitIdx' = waitIdx + 1 /\ UNCHANGED lpc
       ELSE lpc' = "wait" /\ UNCHANGED waitIdx
    /\ UNCHANGED <<isRoot, formatOverride, started, scmFmt, nvmeFmt, gate, callVars>>

(* Mutant: after the receive the loop stays at the same server. *)
AwaitWakeNoAdvance ==
    /\ lpc = "wait"
    /\ gate[waitIdx] = "Fired"
    /\ lpc' = "check"
    /\ UNCHANGED <<isRoot, formatOverride, started, waitIdx, scmFmt, nvmeFmt, gate, callVars>>

(* The blocked receive returns once the latch has fired. *)
AwaitWake ==
    /\ lpc = "wait"
    /\ gate[waitIdx] = "Fired"
    /\ lpc' = "check"
    /\ waitIdx' = waitIdx + 1
    /\ UNCHANGED <<isRoot, formatOverride, started, scmFmt, nvmeFmt, gate, callVars>>

(* The loop is over: privileges are dropped and the harness starts. *)
AwaitDone ==
    /\ lpc = "check"
    /\ WaitMode
    /\ waitIdx = NInstances + 1
    /\ started' = TRUE
    /\ lpc' = "done"
    /\ UNCHANGED <<isRoot, formatOverride, waitIdx, scmFmt, nvmeFmt, gate, callVars>>

-----------------------------------------------------------------------------

(* The steps of the goroutine serving client c's call, once accepted. *)
Serve(c) == DoFormat(c) \/ ScmFormat(c) \/ NvmeFormat(c) \/ DoFormatError(c) \/ SendResponse(c)

Launch == AwaitSkip \/ AwaitCheck \/ AwaitWake \/ AwaitDone

Next ==
    \/ \E c \in Client :
          \/ StorageFormatRefused(c)
          \/ \E rf \in BOOLEAN : StorageFormatAccepted(c, rf)
          \/ Serve(c)
    \/ Launch

(* A call in progress runs to completion and the launch path is never     *)
(* starved; the operator is under no obligation to issue calls.           *)
Fairness ==
    /\ \A c \in Client : WF_vars(Serve(c))
    /\ WF_vars(Launch)

Spec == Init /\ [][Next]_vars

FairSpec == Spec /\ Fairness

-----------------------------------------------------------------------------
(* Refinement mapping to the abstract StartupGate: an instance's storage   *)
(* is blank without a superblock, provisioned when every NVMe device is   *)
(* also formatted; the launch loop has let pass the servers before        *)
(* waitIdx, or all of them once it is done.                               *)

StorageOf(i) ==
    IF ~scmFmt[i] THEN "blank"
    ELSE IF \A d \in DevicesOf[i] : nvmeFmt[d] THEN "provisioned"
    ELSE "mounted"

PassedCount == IF lpc = "done" THEN NInstances ELSE waitIdx - 1

SG == INSTANCE StartupGate
        WITH wait <- WaitMode,
             storage <- [i \in Instance |-> StorageOf(i)],
             passed <- PassedCount

-----------------------------------------------------------------------------
(* Properties *)

(* A call without reformat formats a mount only if it is unformatted at   *)
(* the moment the format runs (the NeedsScmFormat check in doFormat must *)
(* still be true when scmFormat executes).                                *)
NoReformatWithoutRequest ==
    \A c \in Client :
        (cpc[c] = "scm" /\ ~reformat[c]) => ~scmFmt[inst[c]]

(* Once every latch has fired, awaitStorageFormat gets through its loop   *)
(* and the harness starts the instances.                                  *)
AllGatesFiredLeadsToStart ==
    (\A i \in Instance : gate[i] = "Fired") ~> started

(* Spec section 8: an instance found formatted by a call without         *)
(* reformat still fires its latch.  So once the launch loop is blocked   *)
(* on instance i and a call without reformat reaches i and finds its     *)
(* superblock, either the loop eventually gets past i or that call ends  *)
(* in an internal error (which, by spec section 7, produces nothing).    *)
(* doFormat's early return for a formatted mount skips the latch, and an *)
(* earlier call whose NVMe phase failed has left the superblock behind.  *)
FormattedRetryReleasesLaunch ==
    \A i \in Instance, c \in Client :
        (/\ lpc = "wait" /\ waitIdx = i
         /\ scmFmt[i]
         /\ cpc[c] = "format" /\ inst[c] = i /\ ~reformat[c])
        ~> (~(lpc = "wait" /\ waitIdx = i) \/ reply[c].status = "failed")

(* In wait mode the harness starts the instances only on storage whose    *)
(* superblock exists: the launch loop checked each mount, or waited for  *)
(* its format, before starting them.  Nothing keeps a reformat accepted  *)
(* while the loop still runs from wiping a mount it already let pass.    *)
LaunchOnFormattedStorage ==
    [][(WaitMode /\ ~started /\ started') => \A i \in Instance : scmFmt'[i]]_vars

(* Storage is never formatted while the I/O server instances run: the     *)
(* refusal in StorageFormat exists to prevent data loss.                  *)
NoFormatWhileStarted ==
    [][started => UNCHANGED <<scmFmt, nvmeFmt>>]_vars

(* A sent response reports a result for the SCM mount of every instance   *)
(* (FormatResponse aggregates the results of all instances).              *)
ResponseCoversAllMounts ==
    \A c \in Client :
        reply[c].status = "sent" => {r.mnt : r \in reply[c].mrets} = Instance

(* The format path and the launch loop together implement the abstract   *)
(* StartupGate: latches only fire on provisioned storage while the node   *)
(* waits, stay fired, and awaitStorageFormat lets a server pass only when  *)
(* its latch fired or its superblock exists, starting the harness after   *)
(* the last one (or at once when formatting is skipped).                  *)
ImplementsStartupGate == SG!Spec

=============================================================================
