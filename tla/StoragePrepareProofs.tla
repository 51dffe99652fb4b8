------------------------- MODULE StoragePrepareProofs -------------------------
(***************************************************************************)
(* Proofs about the format path composed with StoragePrepare and          *)
(* StorageScan, for every configuration.  The format-path steps are       *)
(* those of StorageFormat, so their lemmas are reused; only the prepare   *)
(* and scan steps need new reasoning.                                     *)
(***************************************************************************)
EXTENDS StoragePrepare, StorageFormatProofs

USE ConstantsAssumption

(* The types of the two replies. *)
ReplyTypeOK ==
    /\ prepReply \in [Client -> PrepReply]
    /\ scanReply \in [Client -> ScanReply]

(* What a prepare or scan step does to the format-path variables: it     *)
(* uses up one of the caller's requests and may wipe superblocks, and    *)
(* leaves everything else alone.                                         *)
PrepStepEffect(c) ==
    /\ cpc[c] = "idle"
    /\ nreq[c] < MaxRequests
    /\ nreq' = [nreq EXCEPT ![c] = @ + 1]
    /\ \E wiped \in SUBSET Instance :
          scmFmt' = [i \in Instance |-> scmFmt[i] /\ i \notin wiped]
    /\ UNCHANGED <<launchVars, nvmeFmt, gate, cpc, inst, reformat, mrets, crets, reply>>

(* A prepare or a scan has the effect above: a call that does not reset  *)
(* SCM wipes the empty set.                                              *)
LEMMA PrepStep ==
    ASSUME TypeOK, NEW c \in Client, StoragePrepareCall(c) \/ StorageScanCall(c)
    PROVE  PrepStepEffect(c)
<1>1. UNCHANGED scmFmt => \E wiped \in SUBSET Instance :
                               scmFmt' = [i \in Instance |-> scmFmt[i] /\ i \notin wiped]
    <2>1. UNCHANGED scmFmt => scmFmt' = [i \in Instance |-> scmFmt[i] /\ i \notin {}]
        BY DEF TypeOK
    <2>2. {} \in SUBSET Instance
        OBVIOUS
    <2>3. QED
        BY <2>1, <2>2
<1>2. CASE StoragePrepareCall(c)
    <2>1. \E wiped \in SUBSET Instance :
              scmFmt' = [i \in Instance |-> scmFmt[i] /\ i \notin wiped]
        <3>1. PICK nk, sk \in PrepRequest :
                 \E nres \in NvmePrepareResult(nk), sres \in ScmPrepareResult(sk) :
                     IF sk = "reset" /\ sres # "error"
                     THEN \E wiped \in SUBSET Instance :
                             scmFmt' = [i \in Instance |-> scmFmt[i] /\ i \notin wiped]
                     ELSE UNCHANGED scmFmt
            BY <1>2 DEF StoragePrepareCall
        <3>2. QED
            BY <3>1, <1>1
    <2>2. QED
        BY <1>2, <2>1 DEF StoragePrepareCall, PrepStepEffect
<1>3. CASE StorageScanCall(c)
    BY <1>1, <1>3 DEF StorageScanCall, PrepStepEffect
<1>4. QED
    BY <1>2, <1>3

(* A prepare or scan step keeps the format path's inductive invariant. *)
LEMMA PrepStepIInv ==
    ASSUME NEW c \in Client, IInv, PrepStepEffect(c)
    PROVE  IInv'
<1>1. PICK wiped \in SUBSET Instance :
          scmFmt' = [i \in Instance |-> scmFmt[i] /\ i \notin wiped]
    BY DEF PrepStepEffect
<1>2. scmFmt' \in [Instance -> BOOLEAN]
    BY <1>1
<1>3. nreq' \in [Client -> 0..MaxRequests]
    BY DEF PrepStepEffect, IInv, TypeOK
<1>4. QED
    BY <1>2, <1>3 DEF PrepStepEffect, IInv, TypeOK, PhaseInv, launchVars

(* The invariant of the composed model. *)
PrepIInv == IInv /\ ReplyTypeOK

LEMMA PrepInitIInv == PrepInit => PrepIInv
<1> SUFFICES ASSUME PrepInit PROVE PrepIInv
    OBVIOUS
<1>1. IInv
    BY InitIInv DEF PrepInit
<1>2. NoPrepReply \in PrepReply /\ NoScanReply \in ScanReply
    BY DEF NoPrepReply, PrepReply, PrepRequest, NoScanReply, ScanReply
<1>3. QED
    BY <1>1, <1>2 DEF PrepInit, PrepIInv, ReplyTypeOK

LEMMA PrepNextIInv == PrepIInv /\ [PrepNext]_allVars => PrepIInv'
<1> SUFFICES ASSUME PrepIInv, [PrepNext]_allVars PROVE PrepIInv'
    OBVIOUS
<1> USE DEF PrepIInv, ReplyTypeOK
<1>1. CASE Next /\ UNCHANGED prepVars
    <2>1. IInv'
        BY <1>1, NextIInv
    <2>2. QED
        BY <1>1, <2>1 DEF prepVars
<1>2. ASSUME NEW c \in Client, StoragePrepareCall(c) PROVE PrepIInv'
    <2>1. IInv'
        BY <1>2, PrepStep, PrepStepIInv DEF IInv
    <2>2. PICK nk \in PrepRequest, sk \in PrepRequest :
               \E nres \in NvmePrepareResult(nk), sres \in ScmPrepareResult(sk) :
                  prepReply' = [prepReply EXCEPT ![c] = [nvme |-> nres, scm |-> sres]]
        BY <1>2 DEF StoragePrepareCall
    <2>3. \A nk2, sk2 \in PrepRequest :
              NvmePrepareResult(nk2) \subseteq {"none", "ok", "error"}
              /\ ScmPrepareResult(sk2) \subseteq {"none", "ok", "reboot", "error"}
        BY DEF NvmePrepareResult, ScmPrepareResult
    <2>4. prepReply' \in [Client -> PrepReply]
        BY <2>2, <2>3 DEF PrepReply
    <2>6. QED
        BY <1>2, <2>1, <2>4 DEF StoragePrepareCall
<1>3. ASSUME NEW c \in Client, StorageScanCall(c) PROVE PrepIInv'
    <2>1. IInv'
        BY <1>3, PrepStep, PrepStepIInv DEF IInv
    <2>2. scanReply' \in [Client -> ScanReply]
        BY <1>3 DEF StorageScanCall, ScanReply
    <2>3. QED
        BY <1>3, <2>1, <2>2 DEF StorageScanCall
<1>4. CASE UNCHANGED allVars
    BY <1>4 DEF allVars, vars, prepVars, IInv, TypeOK, PhaseInv
<1>5. QED
    BY <1>1, <1>2, <1>3, <1>4 DEF PrepNext

LEMMA PrepAlwaysIInv == PrepSpec => []PrepIInv
BY PrepInitIInv, PrepNextIInv, PTL DEF PrepSpec

(* With prepare and scan calls interleaved with any number of format      *)
(* calls, every variable keeps its type.                                  *)
THEOREM PrepTypeCorrect == PrepSpec => []PrepTypeOK
<1>1. PrepIInv => PrepTypeOK
    BY DEF PrepIInv, IInv, ReplyTypeOK, PrepTypeOK
<1>2. QED
    BY <1>1, PrepAlwaysIInv, PTL

=============================================================================
