----------------------------- MODULE StartupGate -----------------------------
(***************************************************************************)
(* What the storage-ready latches promise to the node's launch sequence,  *)
(* independent of how the format path drives them.                       *)
(*                                                                         *)
(* Each instance has a one-shot latch (Pending, then Fired for good).     *)
(* When the node waits for formatting, a latch fires only in a step after *)
(* which the instance's storage is provisioned (SCM mount holding a       *)
(* superblock and every NVMe device formatted).  The launch sequence goes *)
(* through the instances in configuration order; it lets an instance pass *)
(* when its latch has fired or its SCM mount already holds a superblock,  *)
(* and starts the instances once all have passed.  When formatting is     *)
(* skipped (no root privilege or format_override) every latch is released *)
(* and the instances start at once.  Storage may change at any time: the  *)
(* gate promises nothing about it.                                        *)
(***************************************************************************)
EXTENDS Naturals

CONSTANT NInstances   \* the number of I/O server instances, at least one

Instance == 1..NInstances

(* What the launch sequence can tell of an instance's storage. *)
StorageState == {"blank", "mounted", "provisioned"}

VARIABLES
    wait,      \* the node waits for formatting (root without override)
    storage,   \* storage[i]: the state of instance i's storage
    gate,      \* gate[i]: the latch of instance i
    passed,    \* the number of instances the launch sequence has let pass
    started    \* the instances have been started

vars == <<wait, storage, gate, passed, started>>

TypeOK ==
    /\ wait \in BOOLEAN
    /\ storage \in [Instance -> StorageState]
    /\ gate \in [Instance -> {"Pending", "Fired"}]
    /\ passed \in 0..NInstances
    /\ started \in BOOLEAN

Init ==
    /\ wait \in BOOLEAN
    /\ storage \in [Instance -> StorageState]
    /\ gate = [i \in Instance |-> "Pending"]
    /\ passed = 0
    /\ started = FALSE

(* Storage changes, and latches of instances whose storage is then         *)
(* provisioned (any latch when the node does not wait) may fire.  A fired *)
(* latch stays fired.                                                     *)
Provision ==
    /\ storage' \in [Instance -> StorageState]
    /\ gate' \in [Instance -> {"Pending", "Fired"}]
    /\ \A i \in Instance :
          /\ gate[i] = "Fired" => gate'[i] = "Fired"
          /\ (wait /\ gate'[i] # gate[i]) => storage'[i] = "provisioned"
    /\ UNCHANGED <<wait, passed, started>>

(* Formatting is skipped: all latches are released and the node starts. *)
Skip ==
    /\ ~wait
    /\ ~started
    /\ gate' = [i \in Instance |-> "Fired"]
    /\ passed' = NInstances
    /\ started' = TRUE
    /\ UNCHANGED <<wait, storage>>

(* The next instance passes: its latch fired or its mount is formatted. *)
Pass ==
    /\ wait
    /\ ~started
    /\ passed < NInstances
    /\ gate[passed + 1] = "Fired" \/ storage[passed + 1] # "blank"
    /\ passed' = passed + 1
    /\ UNCHANGED <<wait, storage, gate, started>>

(* Every instance has passed: the node starts them. *)
Start ==
    /\ wait
    /\ ~started
    /\ passed = NInstances
    /\ started' = TRUE
    /\ UNCHANGED <<wait, storage, gate, passed>>

Next == Provision \/ Skip \/ Pass \/ Start

Spec == Init /\ [][Next]_vars

=============================================================================
