# Verification of the DAOS control-plane storage format and launch path

This directory holds TLA+ models of the storage-format and startup code of the
DAOS control server (`src/src/control/server/`). Each model has TLC
configurations that check it on small instances. TLAPS proofs cover the
results that hold for every configuration.

## 1. Inventory of the source

| File | Lines | Part of the system | Status |
|---|---|---|---|
| `server/ctl_storage_rpc.go` | 397 | The storage RPCs: `StoragePrepare` (91-155), `StorageScan` (158-200), result constructors `newState`/`newMntRet`/`newCret` (42-56, 202-223), `scmFormat` (225-254), `doFormat` (258-355) and `StorageFormat` (365-396) | Format, prepare and scan are modelled. The protobuf converters (58-89) are not |
| `server/mgmt.go` | 193 | `Setup` creates one "storage formatted" channel per server (52-67). `awaitStorageFormat` (87-141) blocks launch until each server's SCM is formatted, then drops privileges | `awaitStorageFormat` and the channel creation are modelled. Service construction and data loading (144-192) are not |
| `server/privileges.go` | 149 | `dropPrivileges` with `getUID`, `getGID` and `chownDirs` | Modelled |
| `cmd/dmg/system.go` | 233 | The client's `system` subcommands: argument handling and table output | Not modelled. This is CLI display code with no state |
| `cmd/dmg/utils_test.go` | 200 | Unit tests | Not modelled |

### How the parts interact

The server starts its I/O server instances in one of two ways:

- **No operator action needed.** If it does not run as root, or the config sets `format_override`, `awaitStorageFormat` skips the wait. It closes every channel and the harness starts the instances.
- **Operator format required.** Otherwise, for each server in order, it checks whether the SCM mount holds a superblock. If there is none, it blocks on that server's channel.

The operator's `StorageFormat` RPC behaves as follows:

- It is refused if `harness.IsStarted()` is true.
- Otherwise `doFormat` runs for each instance in turn:
  - It checks whether the SCM mount needs formatting.
  - If the mount is already formatted and no reformat was asked for, it returns a FaultFormatNoReformat result.
  - Otherwise it formats SCM, then formats the instance's NVMe devices.
  - On full success it fires the instance's storage-ready latch (`NotifyStorageReady`), which wakes the launch loop.
- An internal error aborts the whole RPC with no response. There are three: the superblock probe fails; `scm.CreateFormatRequest` rejects the SCM config (`scmFormat` returns the error, 229-231, and `doFormat` returns it, 289-291); or the bdev `Format` call fails (323-324).
- The response carries the results. A `nil` NVMe result list is replaced by one synthetic result for a non-existent device (`NilPci`).

The operator may also call `StoragePrepare`. It runs the NVMe sub-request (`doNvmePrepare`) and then the SCM sub-request (`doScmPrepare`), and answers each in its own State. An SCM reset removes the pmem namespaces. `StorageScan` reads both device classes and reports a class error for a class whose driver fails. Neither RPC checks `IsStarted`.

After the wait, a root server drops privileges:

- It resolves the user and group.
- It chowns every SCM mount and the socket directory.
- It calls setgid, then setuid.
- Any failure is only logged, and the server carries on as root.

**Two versions of the code.** `mgmt.go` and `privileges.go` are `package main` files of an older version of the server. `ctl_storage_rpc.go` is `package server` of a newer one. In the newer file, `doFormat` fires the latch with `i.NotifyStorageReady()`, whose body is not in the source. In the older file, `awaitStorageFormat` blocks on `<-srv.formatted`. The model assumes that `NotifyStorageReady` closes the `formatted` channel of the same server that `awaitStorageFormat` waits on. Nothing in the repository states this link.

Several format calls may run at once: gRPC serves each on its own goroutine. No lock is held between the `IsStarted` check, the superblock checks and the formats. Nor is one held between the format path and the launch loop.

## 2. Modules

| Module | Models | Proofs |
|---|---|---|
| `StorageFormat` | `StorageFormat`, `doFormat`, `scmFormat`, `newMntRet`, `newCret` and `awaitStorageFormat` up to the privilege drop | `StorageFormatProofs` |
| `MCStorageFormat` | TLC instance: 2 instances, 2 devices (both on instance 1), 1 or 2 callers | — |
| `StartupGate` | The abstract latch-and-launch contract (spec §4.4), which `StorageFormat` implements with one caller (checked by TLC) | — |
| `StoragePrepare` | `StoragePrepare`, `doNvmePrepare`, `doScmPrepare`, `StorageScan`, composed with `StorageFormat` (it EXTENDS it) | `StoragePrepareProofs` |
| `MCStoragePrepare` | TLC instance: the constants of `MCStorageFormat` | — |
| `Privileges` | `dropPrivileges`, `getUID`, `getGID`, `chownDirs` | `PrivilegesProofs` |
| `PrivilegeDrop` | The abstract privilege drop, which `Privileges` implements | `PrivilegesProofs` |
| `MCPrivileges` | TLC instance: 2 servers | — |

### StorageFormat

**Constants.**
- `NInstances`.
- The device set `Device`, and `DevicesOf`, the NVMe devices of each instance. These are disjoint, as in a valid config.
- The caller set `Client`.
- `MaxRequests`, the number of RPCs each caller may issue. This is the only bound on the model.
- `NilPci` is the synthetic placeholder device.

**State.**

| Variable | Code |
|---|---|
| `isRoot`, `formatOverride` | uid 0 and `FormatOverride` in the config (mgmt.go:93-94) |
| `scmFmt[i]` | a superblock exists on instance i's mount (`NeedsScmFormat`, mgmt.go:96) |
| `nvmeFmt[d]` | the device is formatted |
| `gate[i]` | the instance's latch: `"Pending"` or `"Fired"` |
| `started` | `harness.IsStarted()` |
| `lpc`, `waitIdx` | position of `awaitStorageFormat`: `check`, `wait` (blocked on `<-srv.formatted`) or `done` |

Each caller `c` has its own:
- `cpc[c]`: idle, formatting, in the SCM phase or in the NVMe phase of instance `inst[c]`.
- `reformat[c]`.
- `mrets[c]`, `crets[c]`: the response's results.
- `nreq[c]`: calls issued.
- `reply[c]`: the last response, as `"refused"`, `"failed"` or `"sent"` with its results.

**Actions.** Each action is one atomic step between two points where another goroutine can observe the change:

| Action | Code |
|---|---|
| `StorageFormatRefused` | the `IsStarted` refusal |
| `StorageFormatAccepted` | the call starts with reformat or not |
| `DoFormat` | the superblock check, with its skip-with-error branch (268-286) |
| `ScmFormat` | `scmFormat` and the SCM result (225-298). On error the instance is skipped, and the mount may be left wiped |
| `NvmeFormat` | one result per device, the overwrite of `Crets`, and `NotifyStorageReady` when everything succeeded |
| `DoFormatError` | `doFormat` returning an error, which aborts the RPC (378-381). It is enabled by `ProbeError` (269-274), `ScmRequestError` (229-231, returned at 289-291) or `BdevError` (315-325) |
| `SendResponse` | the `nil`-Crets substitution and `Send` |
| `AwaitSkip`, `AwaitCheck`, `AwaitWake`, `AwaitDone` | the launch loop |

A result is a record `[mnt |-> i, ok |-> b]` or `[pci |-> d, ok |-> b]`. Text, hints and logging are abstracted away.

**What is abstracted.**
- A result is either success or error. Which error it is does not matter to any property.
- Device order inside one `Crets` is a set.
- The superblock probe's I/O error (mgmt.go:99) is not modelled.
- `NotifyStorageReady` is not in the source. Its latch is modelled as idempotent, as the spec says.
- A failed `stream.Send` (391-393) is not modelled.

### Privileges

Every OS call is one step that may fail (`ext.lookupUser`, `lookupGroup`, `listGroups`, `chown`, `setGID`, `setUID`). A failure ends in `pc = "failed"`.

Ids are abstracted to their owner ("uid", "usergid", "groupgid"). The set `large` holds the ids that `strconv.ParseInt(_, 10, 32)` rejects, which is any id of 2^31 or more.

`chownDirs` chowns the mounts in config order and then the socket directory.

`PrivilegeDrop` states what the drop promises, with no OS calls. Its actions:
- `GiveDir`: one more directory is handed to the user, in any order, while the gid is still root's.
- `SetGroup`: once every directory is handed over, the process takes a usable gid. That is the user's own group, or the configured group if the user is a member.
- `DropUid`: with a usable gid, uid 0 is given up.
- `Abort`: while still root, the drop is abandoned and nothing more changes.

`Privileges` maps onto it by `PD == INSTANCE PrivilegeDrop WITH ...`:
- `owned` is `chowned`, `uid` is `uidNow` and `gid` is `gidNow`.
- `aborted` is `pc = "failed"`.

Under this mapping:
- Every failing OS call is an `Abort` step.
- The resolution steps (`DropStart`, `GetUID`, `GetGID`) are stutters when they succeed.
- `ChownMount` and `ChownSocket` are `GiveDir` steps.
- `SetGID` is `SetGroup` and `SetUID` is `DropUid`.

### StartupGate (abstract) and the refinement

`StartupGate` states what the latches promise, with no caller and no format phases. Its state is:
- `wait`: the node waits for formatting.
- `storage[i]`: `"blank"`, `"mounted"` or `"provisioned"`.
- `gate[i]`: the latch.
- `passed`: how many instances the launch sequence has let through.
- `started`.

Its actions:
- `Provision`: storage changes, and latches may fire. While the node waits, a latch fires only in a step that leaves its instance provisioned. A fired latch stays fired.
- `Skip`: the node does not wait, so every latch is released and it starts.
- `Pass`: the next instance passes when its latch fired or its mount holds a superblock.
- `Start`: every instance has passed.

`StorageFormat` maps onto it by `SG == INSTANCE StartupGate WITH ...`:
- `wait` is `WaitMode`.
- `storage[i]` is `StorageOf(i)`: blank without a superblock, provisioned when every device of the instance is formatted too, mounted otherwise.
- `passed` is `PassedCount`: `waitIdx - 1` in the loop, `NInstances` once done.

Under this mapping, `ScmFormat` and `NvmeFormat` are `Provision` steps. The caller-side steps are stutters. `AwaitCheck` and `AwaitWake` are `Pass` steps, `AwaitSkip` is `Skip`, and `AwaitDone` is `Start`. `ImplementsStartupGate == SG!Spec` is checked as a PROPERTY.

### StoragePrepare

`StoragePrepare` EXTENDS `StorageFormat`. It adds `prepReply[c]` and `scanReply[c]`, and two actions per caller:
- `StoragePrepareCall`: each class may be asked for nothing, a prepare or a reset. The NVMe part and then the SCM part run, each reported in its own State. A successful SCM reset may remove the superblock of any set of mounts.
- `StorageScanCall`: each class succeeds or reports a class error. Storage is left alone.

Neither has an `IsStarted` guard, because the code has none. The drivers (`NvmePrepare`, `ScmPrepare`, `GetScmState`, the scans) are outside this repository. Their outcomes are taken from spec §4.1-4.2 and §6. A call uses one of the caller's `MaxRequests`. `PrepNext` is `StorageFormat`'s `Next` together with these actions, so prepare, scan, format and the launch loop interleave.

## 3. Runs

The format and prepare runs use `MCStorageFormat` (or `MCStoragePrepare`, which takes its constants) with `NInstances = 2`, `Device = {d1, d2}`, instance 1 owning both devices and instance 2 none, and `MaxRequests = 2`:

- Two instances are needed for the aggregation findings and the launch loop's iteration.
- Instance 2 covers the "SCM only" config.
- Two devices let the NVMe phase produce mixed results.
- Two requests per caller are needed for the retry after a partial failure.

`Init` leaves root, override and the initial disk contents arbitrary, so every launch mode is explored. `CHECK_DEADLOCK FALSE`: the system legitimately stops once the caller has used its requests.

| Run | Expect | Properties | What it shows |
|---|---|---|---|
| `format_serial` | pass (12,515 states) | `TypeOK`, `ImplementsStartupGate`, `AllGatesFiredLeadsToStart` | With one operator (calls in sequence), the format path and the launch loop implement `StartupGate`. A latch fires only in a step that leaves its instance's SCM and every device formatted, and the launch loop passes and starts exactly as the gate allows. Once every latch fired, the harness starts |
| `gate_race` | violation | `ImplementsStartupGate` | With two callers the refinement fails: a second call's failed reformat wipes mount 1 between the first call's SCM and NVMe phases, and the first call still fires gate 1 on a blank mount |
| `prepare_while_started` | violation | `NoFormatWhileStarted` | A prepare with an SCM reset removes a superblock after the instances started |
| `concurrent_format` | violation | `NoReformatWithoutRequest` | Two interleaved calls without reformat both format the same mount |
| `format_while_started` | violation | `NoFormatWhileStarted` | A call past its `IsStarted` check formats storage after the harness started |
| `launch_on_wiped_mount` | violation | `LaunchOnFormattedStorage` | A reformat accepted while the launch loop runs wipes a mount the loop already let pass, and the harness starts on it |
| `response_aggregate` | violation | `ResponseCoversAllMounts` | The response keeps only the last instance's results (`resp.Mrets = results`) |
| `retry_without_reformat` | violation | `FormattedRetryReleasesLaunch` | The launch loop waits on instance 1. A first call formats SCM, then its bdev `Format` fails, which aborts it (spec-conformant). The retry without reformat finds the superblock, returns at line 281 without firing the latch, and sends its response. The loop stays blocked |
| `privileges` | pass (286 states) | `TypeOK`, `DroppedOnlyWhenComplete`, `ImplementsPrivilegeDrop` | Every failure point of `dropPrivileges`: the uid changes only after every directory was chowned and the group was set, and the drop implements `PrivilegeDrop` |

`FormattedRetryReleasesLaunch` allows the retry itself to end in an internal error (spec §7 prescribes no output then). A violation therefore needs a retry that completes without firing the latch, which only line 281 produces.

Each property of a passing run has a mutant, listed in `PROJECT.json`: a plausible bug in the mapped code that TLC shows breaks it.

| Property | Mutant |
|---|---|
| `ImplementsStartupGate` | the launch loop's superblock test is inverted |
| `AllGatesFiredLeadsToStart` | the launch loop does not advance after a wake |
| `TypeOK` | an empty PCI placeholder |
| `TypeOK` (`privileges`) | an off-by-one mount index |
| `DroppedOnlyWhenComplete` | setGID is skipped |
| `ImplementsPrivilegeDrop` | getGID takes the configured group without checking membership |

### Fairness

`FairSpec` puts weak fairness on each caller's server-side steps (`Serve(c)`) and on the launch loop. Both are goroutines that run once scheduled. The Go runtime does not starve a runnable goroutine, and no step blocks except the wait on the latch, which is guarded by `gate`.

There is no fairness on `StorageFormatAccepted` or `StorageFormatRefused`: the operator need not send another request. The liveness results therefore say what happens without further operator action.

## 4. Findings

1. **No exclusion against a running harness** (ctl_storage_rpc.go:373). `IsStarted` is read once, without a lock. The launch loop can start the instances while the call goes on to format their storage. Spec §5 asks for the check to be re-made under an exclusion.
2. **No serialisation of format calls** (ctl_storage_rpc.go:271). Two calls both see an unformatted mount and both format it.
3. **Results are overwritten, not aggregated** (ctl_storage_rpc.go:293 and 346). `resp.Mrets = results` and `resp.Crets = results` replace the earlier instances' results.
4. **An already-formatted instance never fires its latch** (ctl_storage_rpc.go:281, `retry_without_reformat`). Take a first call whose NVMe phase failed after SCM succeeded. Not firing then is what the spec prescribes. The launch loop is blocked on that instance (mgmt.go:116). A retry without reformat returns an error result and never notifies, so the launch stays blocked until someone reformats. Spec §8 says such an instance fires its gate.

5. **A latch fires on a stale SCM result** (ctl_storage_rpc.go:351, `gate_race`). `doFormat` fires the latch when its own SCM and NVMe results succeeded. It does not re-check the mount. Another call's failed reformat may have wiped the mount between the two phases. The latch then fires for an instance without a superblock, which `StartupGate` forbids.
6. **Prepare may reset storage under running instances** (ctl_storage_rpc.go:140, `prepare_while_started`). `StoragePrepare` has no `IsStarted` refusal and takes no exclusion with format or launch. An SCM reset can remove the namespaces of started instances. The spec asks only the format call to refuse. This is a gap in the spec as much as in the code.
7. **Instances start on a wiped mount** (mgmt.go:96, `launch_on_wiped_mount`). The launch loop checks each superblock once. A reformat accepted before the harness starts can fail after wiping a mount the loop already let pass. The instances then start on a mount without a superblock. Spec §5's exclusion between format and start would prevent it.

## 5. Proofs

`StorageFormatProofs` (EXTENDS `StorageFormat`, TLAPS) proves, for every value of the constants that satisfies `ConstantsAssumption`:

- **`TypeCorrect`**: `Spec => []TypeOK`. `TypeOK` alone is not inductive. In the SCM and NVMe phases, `inst[c]` may be `NInstances + 1` (past the loop) in `TypeOK`, and the launch loop's `waitIdx` likewise. `PhaseInv` adds the facts that hold in those phases: `inst[c]` is an instance while a caller is in a phase, and `waitIdx` is one while the loop waits. The proof shows:
  - `Init => IInv` (`InitIInv`);
  - `IInv /\ [Next]_vars => IInv'` (`NextIInv`, with one step per action and a CASE per branch of `DoFormat` and `ScmFormat`);
  - `IInv => TypeOK`.

No safety property about the format path beyond types holds with more than one caller: `concurrent_format`, `gate_race` and `launch_on_wiped_mount` show the violations. The code takes no lock, so a single-caller hypothesis would not be justified, and nothing is proved under it.

`PrivilegesProofs` (EXTENDS `Privileges`, TLAPS) proves `DropSafety` (`Spec => []DroppedOnlyWhenComplete`) and `PrivilegesTypeCorrect`, for every number of servers. They rest on the inductive invariant `TypeOK /\ PhaseInv`. `PhaseInv` records what each position of `dropPrivileges` has achieved:
- past `getGID` a gid is chosen;
- past the chown loop every directory is chowned;
- the gid stays root's until `setGID` and is the chosen one after it;
- the uid changes only in the last step;
- the configured group is chosen only for a member.

`PrivilegesProofs` also proves **`PrivilegesRefinement`**: `Spec => ImplementsPrivilegeDrop`, for every number of servers. The step lemma `PrivStep` has one step per action, split between the success and the failure branch. It rests on two lemmas and on `PhaseInv`:
- `FailIsAbort`: a failing call before the drop completed is an abstract `Abort`. `PhaseInv` gives that the process is still root.
- `PcOnlyStutter`: a successful resolution step is a stutter.
- `PhaseInv` supplies the guards of `GiveDir` (gid still root's during the chown loop), `SetGroup` (every directory chowned, and a chosen gid that is usable) and `DropUid` (the gid set to the chosen one).

`StoragePrepareProofs` (EXTENDS `StoragePrepare` and `StorageFormatProofs`) reuses the format path's lemmas for the `Next` part of `PrepNext`. For the prepare and scan steps, it first proves `PrepStep`: either step has the effect `PrepStepEffect`, which uses a request and wipes some set of superblocks (the empty set for a scan or a non-reset prepare). From that:
- **`PrepTypeCorrect`**: for any number of callers, `PrepSpec => []PrepTypeOK`. Its inductive invariant is `PrepIInv == IInv /\ ReplyTypeOK`.

TLC checked each inductive invariant as an invariant of the corresponding pass run before it was proved.

Out of TLAPS' reach, and checked only by TLC on the instances above:
- the liveness properties (`AllGatesFiredLeadsToStart`, `FormattedRetryReleasesLaunch`), because TLAPS does not reason about fairness and ENABLED here;
- the refinement of `StartupGate`, which holds only with one caller (`format_serial`);
- every property with more than one caller, where the runs show violations.

## 6. Plan for later sittings

- A locked variant of `StorageFormat` following spec §5, to show that findings 1-3 and 5 disappear under the exclusion the spec asks for.
- Composing `Privileges` into `AwaitDone`, so that a failed drop and a started server are visible together.
- The double close of a format channel (hazard at mgmt.go:136). `Setup` and the skip path's close are modelled as a latch, so a second close is idempotent in the model. A property needs the channel's close count as state.
- `cmd/dmg/system.go` stays not modelled: it is CLI argument handling and table output with no state.
