# BOOTy in TLA+

BOOTy is the agent that runs as PID 1 in a ramdisk on a bare-metal server. It
gets its orders from a server (CAPRF), sets up the network, installs an image
on a disk or wipes the disks, and leaves the ramdisk by kexec, reboot or power
off. This directory holds TLA+ models of the parts of the agent that are hard
to test, the TLC runs that check them, and TLAPS proofs of the properties that
matter most. All line numbers are lines of `src/`.

## 1. The system

| Part | Source | Modules | What makes it hard |
|---|---|---|---|
| Hardware watchdog | `pkg/watchdog`, `pkg/ipmi/watchdog.go`, `main_watchdog.go` | `Watchdog` | a petting goroutine beside the run, failed and slow keepalives, a handoff in the middle of a tick |
| Log shipping | `pkg/caprf/loghandler.go` | `LogRing` | eviction against a concurrent sender, the flush deadline |
| Token renewal | `pkg/auth/manager.go`, expiry watch in `pkg/caprf/client.go` | `TokenRenewal` | lost answers, timeouts, short lifetimes |
| Standby | `pkg/runmode/standby.go`, `pkg/rescue`, `pkg/caprf/deploy_archive.go` | `Standby` | lost ACKs and redelivery, cancellation, files of another job |
| Provisioning pipeline | `pkg/provision/orchestrator.go`, `checkpoint.go`, `retry.go`, `mirror.go` | `Pipeline` | failures at every step, resume, changed hardware between attempts |
| End of a run | `main.go`, `main_watchdog.go`, `main_panic.go` | `RunEnd` | two goroutines that leave, calls that hang |
| Images and A/B slots | `pkg/image`, the slot steps of `orchestrator.go` | `SlotSpec`, `SlotUpdate` | power loss and bad images between the writes of a slot, resumes of another slot's job |
| Disks, arrays, LVM, wipe | `pkg/disk`, `pkg/provision/mirror.go`, `deprovision.go` | `Storage`, `Layout` | best-effort steps beside fail-closed ones, disks that appear late, disks in use |
| Files of the target | `pkg/provision/configurator.go` and its neighbours | `TargetFiles` | a stop at every write, writes in place, retries and resumes over half a step |
| Network of the target | `pkg/network/persist`, `pkg/cloudinit`, `pkg/config/validate.go` | `TargetNet` | three formats of one configuration |
| ESP sync | `pkg/espsync`, `cmd/booty-esp-sync` | `EspSync` | power loss between renames, events during a copy |
| SR-IOV and NIC firmware | `pkg/sriov`, `pkg/provision/sriov.go` | `Sriov` | a reconcile loop over reboots, ports that share a device |
| DHCP clients | `pkg/network/dhcp.go`, `dhcp6_mode.go`, `dhcp4`, `dhcp6` | `Leases` | late answers, carrier changes, a teardown beside two clients |
| GoBGP underlay | `pkg/network/gobgp/underlay.go`, `relearn.go`, `restart.go`, `carrier.go` | `GobgpPeers` | three goroutines act on the same peer |
| BFD | `pkg/network/bfd`, `pkg/network/gobgp/bfd.go` | `Bfd`, `BfdRecheck` | loss, restarts of the other end, a Down event that is skipped |
| GoBGP overlay and FIB | `pkg/network/gobgp/overlay.go`, `esi.go`, `fib.go`, `stack.go` | `GobgpRoutes`, `GobgpEs`, `GobgpStack` | two writers of one kernel table, failing netlink calls, rollback of a partial setup |
| Network setup | `main.go`, `pkg/network`, `pkg/network/frr` | `NetUp` | rollback after partial setup, retry of every mode, daemons of FRR |
| Network configuration | `pkg/network/netplan`, `pkg/network/frrconf`, `pkg/config/bgpsessions.go`, `main.go` | `FrrConf`, `NetConfig` | four sources merged to one configuration |
| LLDP | `main.go`, `pkg/network/lldp` | `LldpSend` | restart against stop |
| PID 1 reaper, time, inventory, telemetry, EFI, TPM ... | `pkg/*` | none or in part | little behaviour over time |

`PROJECT.json` lists every part under "components" with its status, and under
"hazards" what can go wrong at which line.

## 2. Modules

The MC modules give the constants the values that a `.cfg` can not write.
`MCAgents`, `MCUnderlay`, `MCOverlay`, `MCHost` and `MCNetwork` also put several
modules that share no state into one run: their variable `focus` says which
module moves, the others stay in an initial state. So a run has as many states
as its modules together, and a property of one module is checked as it is.

### Watchdog
`step`, `idle` (seconds since `lastProgress`), `stalled` and `closed` are the
fields of `Supervisor`. `tick` and `busy` are the place of the petting
goroutine and how long it has been there: `Check` is `Supervisor.check`
(locked), `OnStall` the callback and `KeepaliveOK`/`KeepaliveFails` the pet,
which runs after the lock is released and may take up to `PetMax` seconds.
`pending` and `sinceTick` are the ticker with its channel of one. `hw` is the
timer of the device: a watchdog file stops it on the magic close unless the
kernel was built with nowayout, a BMC keeps it with action "none". The disarm of
a device whose timeout can not be set (`openDevice`) is not modelled. `Handoff` may run between any two of these steps.
`Second` advances all clocks at once; a hung kernel stops everything but `hw`.

### LogRing
`PushBegins` takes the lock and `Evicts`, `PushDrops`, `PushAppends` are the
iterations of `push` under it; no other action uses the ring while `pushing`
is set. The sender is `send`: pop, up to three POST attempts (`withRetry`), the
drop summary. A failed attempt may have reached the server (`latest`). Close
waits for the sender or for the deadline, which cancels the POST in flight.
A line is its number, its rank and its length.

### TokenRenewal
One clock tick moves every countdown: the lifetime as the client computes it
(`left`), the lifetime on the server (`serverLeft`), the request timeout and
the timer of the loop. A request may be answered, refused, or time out with or
without having reached the server. `manager = FALSE` is the expiry watch.

### Standby
CAPRF is external: it queues commands and drops one when its ACK arrives, so a
lost ACK brings the command again. `ToRun`, `Reject`, `Works`, `Fails` and the
ACK actions follow `handleRunCommand`, `handleProvision` and
`handleDeprovision` with every return. `rescue.Decide` chooses after a failure.
The files of a command are owners of directories: `deploy[d]` is the command
whose archive brought `d`, or `Gone`.

### Pipeline
The table `provisionSteps` has, in the order of the code, each step's name, what
it needs (in-memory fields, mounts, devices) and what it gives. What a step
puts on the target is an element of `content`. `StepOK`, `StepErrs`,
`StepAgain`, `StepFails`, `SaveFails` and `RebootRequired` are the branches of
`executeStep` with `WithRetry`; `Provision` is the load of the checkpoint and
the skip of completed steps. `Retry` uses the same Orchestrator
(`RESCUE_MODE=retry`), `FreshStart` a new process in the same boot, `Reboot`
loses the ramdisk with the checkpoint. `detect-disk`, the mirror pair and
`setup-mellanox` are modelled in detail, because their results outlive a
failed attempt. The selection "created" stands for targets that
`setup-raid` or `setup-nvme-namespaces` makes. The modules below open the steps
that this table abstracts.

### RunEnd
`todo[p]` is what goroutine `p` (main, or the grace reboot) still has to do;
the operations are the calls of `endRun`, `failRun`, the handoff wrappers,
`kexec` and `realm`. A network is stopped through its own `sync.Once`; its
teardown and the setup of a restore run in goroutines that may never return.
`fatal` is the place of `tokenRenewalFatal`, which does its check, the stop of
the run and the arming of the timer as three steps.

### SlotSpec and SlotUpdate
`SlotUpdate` has the contents of the disk (table, ESP, boot and root of each
slot, shared data, slot state, boot loader) over jobs in the modes whole disk,
partition, custom layout and A/B. A write can fail half-way, an image can be
bad, power can go at every step, a job can be resumed, and the host boots what
the firmware finds. The steps after the mount of the shared data may add files
of their job there (`added`). `SlotSpec` is the promise: a slot has one complete
installation or none, and a job changes its target only. `Abs` maps the first
to the second.

### Storage and Layout
In `Storage` a disk is what BOOTy can tell of it: its table, its data and its
member labels. Provision, resume, hard deprovision and decommission run over
arrays, the root mirror, an NVMe namespace layout, LVM, a disk in use and a disk
that appears late. Every tool may fail; a best-effort step drops the error as
the code does. What `lsblk` lists decides which superblocks are found: those of
whole disks, and those of partitions only while the table is there (`Shown`).
`Layout` goes from a custom partition layout through its validation, the checks
before the wipe and the partitions, volume group and volumes, each made by a tool
that may fail, to the fstab. Extents are validated by their characters only, as
in the code.

### TargetFiles, TargetNet and EspSync
`TargetFiles` has every write of the configuration steps in the order of the
code and with the way it is done: atomically, in place, or by a tool. A run stops at any of
them; a retry, a new attempt or a resume follows. The content of a file is the
set of facts in it. In A/B mode no NVRAM entry is made, and the slot reports
itself in a file. `TargetNet` makes the links of netplan, networkd, NoCloud
and ConfigDrive from one machine configuration, with the mode of the bond in
each of its spellings, and compares them. `EspSync` is
the service of an installed mirror: watch, debounce, staging, prune, renames,
with a tool that writes the source meanwhile, a peer disk that leaves and power
loss at every step.

### Sriov
Profiles, the firmware's stored and running values, the journal, the verify
reboot, the runtime settings that are tried out and taken back, and the in-use
guard, over attempts in one boot and over reboots. `setup-mellanox` runs first.

### Leases
The DHCPv4 client in all its states, what puts a lease on the NIC and takes it
off, the link watch, and the DHCPv6 client that router advertisements start.
Time is in ticks; a tick waits for every deadline that is reached.

### GobgpPeers, Bfd and BfdRecheck
`GobgpPeers` has the peers of the underlay under the relearner, the restarter
and the carrier watch. Each call of the BGP server under `peerOps` is one step;
what is read before a lock is kept in the state of the goroutine. `Bfd` is two
sessions with their timers over a link that loses packets, one of which may
restart. `BfdRecheck` is the recheck of a BGP session whose BFD Down event was
skipped, in seconds; the answer of `ListPeer` may be older than the session it is
used for (`misled`).

### GobgpRoutes, GobgpEs and GobgpStack
`GobgpRoutes` has the FIB writer and the overlay watcher on one kernel table;
the check of a route and its replacement are two steps, and every netlink call,
a delete included, may fail for one gateway or for all. `GobgpEs` has a MAC
behind an ethernet segment or a VTEP, its nexthop group and netlink calls that fail, with
the sequence numbers scaled down and their wrap-around kept. `GobgpStack` is
setup, failure and teardown of all resources over repeated attempts, on a host
that has some of them already, with the routes and FDB entries that route updates
add in between. What they add to a link that is not the stack's stays there
(`OnForeignLinks`).

### NetUp and LldpSend
`NetUp` brings up bond, VLANs and one mode, rolls back, falls back to DHCP,
waits for connectivity and restarts the FRR daemons. `have` is what the kernel
has, `layers` and `frr` what the code remembers, and `undeleted` excuses what a
failed removal, or a start of the daemons that failed half-way, left. `LldpSend` has the sender of a
NIC with its generations, its link watch and the two goroutines that stop it.

### FrrConf and NetConfig
`FrrConf` is the frr.conf reader with its stack of nodes beside the nodes FRR
itself is in after the same lines, the resolution of sessions, and the native
session list that builds the same model. `NetConfig` merges netplan files, frr.conf,
vars and native options in the order of `setupNetworkMode`, derives the addresses
of underlay and overlay from the BMC address where subnets are given, and selects
the mode. A value is named for where it comes from.

### The proof modules
`StandbyProofs`, `PipelineProofs`, `SlotUpdateProofs`, `TargetFilesProofs`,
`SriovProofs` and `GobgpPeersProofs` extend the module in their name, `NetworkProofs` extends
`GobgpStack`, `NetUp` and `Leases`, `AgentProofs` extends `Watchdog`, `LogRing` and
`EspSync`.
Section 4 has what they prove.


## 3. Runs

A property that stands for several formulas names them in its definition; each
of them has a comment of its own in the module.

| Run | Bounds | Distinct states | Shows |
|---|---|---|---|
| `agents` (`MCAgents`) | watchdog: 2 steps with different budgets, timeout 6 s, keepalive up to 1 s; ring: 2 lines, 2 bytes, lengths 1 and 3, 3 pushes; token: lifetimes 5 and 10, margins 0 and 8, 3 tries; slots: 3 jobs, 2 tries each, 1 fault | 762,447 | a stalled step ends in a reset after its record is written, progress before the reset saves the host, one failed keepalive never resets, a stopped watchdog never resets; lines are delivered in order, queued, in flight or counted, Close ends the sender; renewals are in time and spaced, a lost token is noticed; no bad image stays bootable, the seed of the shared data is whole, an update writes its slot only, the disk implements `SlotSpec` |
| `standby` | 2 commands, 1 retry, 2 starts each, delivered in any order, rescue modes retry (then reboot), shell and wait | 464,131 | truthful ACKs, own files only, one late heartbeat at most; no run after an ACK that arrived, commands start, a cancel ends standby |
| `pipeline` | 2 disks, 2 NICs, 2 attempts, 1 retry per step, all configurations | 1,499,852 | every step finds what it needs, a reported success is complete, no wipe under a mount, stored firmware gets its reset, no loss of content on resume |
| `run_end` | all results of a mode, both failure actions, both watchdog handoffs: every value of its constants | 693,500 | the host leaves in order and at all; no setup during a teardown; announced and real handoff agree; a released target |
| `underlay` (`MCUnderlay`) | 1 interface, 2 switches, 2 flaps, 1 move, 1 fault; BFD: 2 lost packets, 1 restart; recheck: 2 sessions, 2 Downs | 376,758 | one peer per interface, no session without its policy, nothing after the stop; peers follow the switch and a stop outlives a restart; BFD reports no false Down and comes up; a skipped Down is checked |
| `overlay` (`MCOverlay`) | 2 prefixes, 2 VTEPs, 3 updates, 2 underlay changes, 1 netlink failure; 5 MAC events with 1 failing call; 2 stack attempts, 2 failures | 1,475,473 | counted gateways, nexthops and FDB entries that exist, the MAC follows the best path; a torn-down stack leaves nothing of its own; routes settle to what is wanted and go at teardown |
| `storage` (`MCStorage`) | 4 disks, 2 runs, 2 faults, 11 configurations | 1,813,974 | an installation is whole, a wipe is complete and no old array returns, other disks and busy disks are not changed |
| `host` (`MCHost`) | target files: 6 configurations, 2 failing writes, 3 attempts; ESP: 2 files, 2 changes, 2 faults; SR-IOV: 2 ports, 2 faults, 3 boots, 1 foreign change; a 6 MiB disk; leases of 4 ticks, 2 flips, 1 fault | 863,934 | target files are as configured and nothing points to a missing one; the second ESP stays bootable and the boot entry follows the copy; SR-IOV is proven before the disk is touched and does not reboot forever, the uplink is undisturbed; accepted layouts fail only for room or a failed tool and fstab is true; one network and usable DNS on the target; leases end in time, are confirmed when the carrier returns and are taken off |
| `network` (`MCNetwork`) | 3 lines of frr.conf after 5 beginnings; 3 failing calls, 3 setups, 2 recoveries; 2 LLDP senders, 1 link change, 1 lost subscription | 865,963 | the merged configuration is coherent, sessions are as documented and as FRR reads them, the native list builds the same sessions; a failed setup and a teardown leave nothing and the LLDP sender stops first; LLDP frames follow the carrier |
| `mounts_imaged_disk` | as `pipeline`, a disk may appear between attempts | violation | a resume can detect another disk than the imaged one (`pkg/provision/orchestrator.go:1549`) |
| `one_timer_profile` | as `network` | violation | native sessions beside `frr defaults traditional` take the timers of the datacenter profile (`pkg/config/bgpsessions.go:179`) |
| `bond_mode` | as `host` | violation | `BOND_MODE=lacp` reaches the ConfigDrive seed as it is spelled (`pkg/cloudinit/generator.go:229`) |

The bounds hold the cases that matter: a line longer than the ring, an eviction
of more than one line, a margin above a lifetime, a command that is delivered
again after it ran, a failure in one of two NICs or disks, a resume and a
reboot, an update of each slot after an update of the other, a carrier that
goes and returns while a peer moves, a withdrawal in the window of the other
writer, a setup that fails after a setup that failed. A second attempt reaches
every state of a resume, since an attempt only sees the checkpoint, the disks
and the fields that the one before it left.

`CHECK_DEADLOCK FALSE` stands in every configuration because the modelled
programs stop: the host leaves, the sender ends, standby returns, the bounded
inputs are used up.

### What the properties leave out
A property holds of what the code does. Where the code knowingly or by its
structure does less, the property says so, with these exemptions:

* `RoutesFollow`: a netlink failure of the overlay is not retried by the code; a prefix
  that the overlay wrote in the window of the FIB writer, and a route whose
  deletion failed, are exempt until either writer has a route for the prefix.
* `InstallIsWhole`, `OtherDisksUntouched`: a foreign volume group of the
  configured name (`pkg/disk/lvm.go:132`), an NVMe namespace layout, which does
  not look at mounts (`docs/disk.md:212`), and the resume of a job without a
  mirror, which detects its disk again (run `mounts_imaged_disk`).
* `WipeIsComplete`: best-effort wipes drop errors of the tools, a disk that
  appears after the wipe is not wiped, and the superblock on a partition of a
  table that was cleared before is not found, since `lsblk` no longer lists the
  partition. A quick decommission, or an attempt that stopped after the wipe,
  leaves such disks.
* `pipeline` lets late disks appear for the mirror only (the run
  `mounts_imaged_disk` has the other case).
* `StoppedStaysHarmless`: with nowayout the device file can not be disarmed.
* `SkippedDownIsChecked`: a recheck that decides on an answer of `ListPeer` from
  before the session began (`NoDownIsForgotten` has no such exemption).
* `StackLeavesNoTrace`: what a failed removal left, and what is on a bridge or VXLAN
  link that was there before; the teardown removes the dummy, the VRF membership of
  the NICs, the overlay loopback address and replaced routes whoever made them.
* `TargetIsWhole`: the kubelet arguments after a write in place that was cut off,
  and grub.cfg when its drop-in is also a machine file.
* `SetupLeavesNothing`: what a failed removal left; daemons that a failed
  "systemctl restart" or "frrinit.sh start" left half started, which
  `rollbackSetup` does not stop (`frr/manager.go:85`); the daemons of an untracked
  restart; and the VXLAN link `vx0` of a configuration without a VNI, which
  `cleanupVXLANLink` returns before (`frr/manager.go:242`).
* `SameNodeAsFrr`: files with a skipped line that is known to a parent node but
  not implemented there, or of which FRR has only a longer form in the node
  (`SkippedMovesLikeFrr` is about those).
* `TargetNetworkWorks`: NoCloud with a bond is not compared, nor ConfigDrive
  with an unused bond or with address and gateway of different families; an
  unknown bond mode, and `lacp` in a seed, are the run `bond_mode`;
  VLANs on bond members or on VLANs are not enumerated.

Bounds on inputs: in `GobgpEs` a withdrawn or sticky MAC has sequence number 0;
`GobgpStack` has EVPN-VXLAN with the L2 service; in `TargetFiles` all optional
features are on; in `FrrConf` a group with `local-as` "prepend" has no member that
overrides it, and files are those FRR accepts but for "unknown" lines.

### Fairness
Every fair action is a goroutine that the Go scheduler runs when it can go on,
a timer of the runtime, or a call with a timeout of its own.

* `Watchdog`: the clock and the petting goroutine. Nothing is assumed of the
  steps, and a hung kernel disables the goroutine.
* `LogRing`: an entered push, the sender (each POST has a timeout) and Close
  (it has a deadline). New lines are not fair.
* `TokenRenewal`: the loop and the clock. The server may never answer.
* `Standby`: the steps of the loop and the heartbeats (weak); the branch of a
  `select` whose channel stays ready over repeated rounds is taken (strong:
  the end of the heartbeats and of the idle loop on a canceled context), and a
  poll that is made over and over is once answered (strong; a server that never
  answers starts no command). Commands themselves may run for any time but
  return.
* `RunEnd`: the operations of main and of the grace reboot, the handler and the
  timer. Teardown and setup of the network are not fair: they may hang, and
  `RunEnds` holds by the timeouts in the code.
* `GobgpPeers`: the goroutines (relearner, restarter, carrier watch, their
  timers, setup and teardown). Flaps, moves and failures are not fair.
* `Bfd`: the loops and the clock; `BfdRecheck`: the ticker, the handler, the
  progress of a session that comes up, and the clock (strong, since other
  steps may disable it for a moment again and again).
* `GobgpRoutes`: watcher, writer and the periodic resync of the writer.
* `LldpSend`: the goroutines of a sender and its link watch.
* The other modules have no fairness and no liveness property.

## 4. Proofs

Eight modules hold theorems. Each proves that a property holds in every
behaviour, for every value of the constants that satisfies the named assumption
of its module: any number of commands, attempts, NICs, files, faults. All but
the type invariant follow the same argument: the property alone is not
inductive, so an invariant is stated that says what each place of the program
implies; it holds at first, one lemma per action shows that a step keeps it,
and it implies the property. Every inductive invariant was checked by TLC on
the instance of the run before it was proved, that of `GobgpPeers` also with two
NICs, and that of `TargetFiles` on all 640 configurations.

| Module | Theorems | What the inductive invariant adds |
|---|---|---|
| `AgentProofs` (watchdog) | `StoppedStaysHarmlessAlways`, `ResetIsDeservedAlways`, `TypeOKAlways` | a handoff closes the supervisor and the device file, so a late keepalive of a file device is refused; a device file that nowayout keeps armed is pet by nobody; a stopped BMC timer has action "none", so a late keepalive may restart it and its expiry does nothing; the countdown has run for no longer than the misses and the time since the last handled tick account for, and so has the idle time of a step that came back (`TimeInv`); a miss without a record is a failed keepalive or the stall in progress (`LoopInv`) |
| `AgentProofs` (log ring) | `NoLineLostAlways`, `DeliveryIsTrueAlways` | what each place of the sender implies for the line in flight; the numbers of the queued lines grow and lie between those delivered and the next one, since eviction takes a line from the middle and the sender the first |
| `StandbyProofs` | `CommandsAreHonestAlways`, `NoRunAfterAckAlways` | the queue holds each pending command once (`Batch`); only the command at work has started without an ACK (`Acks`); an archive is staged for the command about to use it (`Files`); no heartbeat counts between two polls (`Beats`) |
| `PipelineProofs` | `AttemptsAreSoundAlways`, `MountsImagedDiskAlways`, `ResumeKeepsContentAlways` | what the steps before the current one have put in place (`InPlace`), that checkpoints are truthful and ordered (`Checkpoints`), that a resume chooses the same target (`Choice`), and that this disk carries what the checkpoint says (`Carried`) |
| `SlotUpdateProofs` | `ImplementsSlotSpecAlways`, `UpdateTouchesOnlyTargetAlways`, `InstallsAreWholeAlways` | where an attempt is agrees with its checkpoint (`Sequence`), an image is on the partitions of its job only (`Targets`, `Remains`), no slot looks installed before its image is complete (`NotYet`), an unfinished seed is marked (`Seeding`); files of an update reach the shared data only after its stream was verified |
| `TargetFilesProofs` | `TargetIsWholeAlways`, `EntryAfterCopyAlways` | the checkpoint lists the steps in their order (`StepInv`); for each group of files, what holds once a write is made (`Past`: its step is listed, or the attempt is beyond that write of it), with the links and lists that may exist before (`FileInv`, fifteen conjuncts) |
| `AgentProofs` (second ESP) | `PeerStaysBootableAlways` | a kept file is staged or still to be staged before anything is pruned (`KeptInv`); a copy of an unchanged source is exact at each of its places (`CopyInv`) |
| `NetworkProofs` (leases) | `LeasesAreKeptAlways` | what is on the NIC is recorded (`OnNic`); a return of the carrier that no ACK has answered has made a request or will make one from an unread update (`Watched`); exchanges end before the lease they work for (`Timed`) |
| `SriovProofs` | `FirmwareIsProvenAlways`, `UplinkUndisturbedAlways` | the verify reboots asked for and those that unstored or unread settings still owe fit a budget (`RebootInv`); what BOOTy stored is what a port wants, and is active while no reset is recorded (`KexecInv`); what the findings so far imply for the checked ports (`ProvenInv`); a device in use was not switched (`UplinkInv`) |
| `GobgpPeersProofs` | `PeersAreSoundAlways`, `RestartKeepsStopAlways` | what Setup has started and Teardown stopped at each of their steps (`Stages`, `Halted`); the new address of a move is one of the same NIC (`Relearns`); every peer is that of its NIC, only a lost one is missing (`Placed`), and a move has its policy first (`Policed`) |
| `NetworkProofs` (GoBGP stack) | `StackLeavesNoTraceAlways` | the steps that are left are in an order in which what carries a resource comes first (`InOrder`); each resource of the stack can be removed, and a teardown that has begun will come to it (`Accounted`) |
| `NetworkProofs` (setup) | `SetupLeavesNothingAlways` | at each point everything that exists is excused or is what the next rollback or teardown takes down (`NCovered`); a stop will find the FRR daemons that run (`DaemonsKnown`) |

`ImplementsSlotSpecAlways` is a refinement: initial states of `SlotUpdate` map to
initial states of `SlotSpec`, and each step maps to a step of it or to a stutter.
A slot counts as filled when `Complete` holds of it, so the last of the steps
that make it complete maps to `Fill` and the first that undoes one to `Empty`.

`PipelineProofs` assumes that plain detection meets no disk that appears between
two attempts (`"detected" \notin LateDisks`). That is the divergence of the run
`mounts_imaged_disk`, and the proof shows that it is the only one: with any
other selection disks may appear. The table of the 52 steps enters as one fact
per row (`StepTable`).

`SriovProofs` assumes of a job only what `Config.Validate` and `Assign` ensure
(`SriovAssumption`). Its reboot count needed a closer look at the code: the
bound of one reboot per cause, which the run had checked with profiles that
agree, is false for two profiles of one adapter of which one says
`sriovEnabled: false` and the other has a VF limit only. The theorem has the
bound of two for those (`Opposed`, see section 5) and of one for all others.

`SetupLeavesNothingAlways` has no assumption on its constants. Its proof failed at
first: the run had two failing calls, and with three an FRR restart leaves daemons
behind that no stop finds (section 5). `undeleted` now excuses them (`Untracked`), and the
run has three.

`TargetFilesProofs` needs no assumption beyond the values a configuration can have.
Its conjuncts are independent of each other, with one exception: grub.cfg holds
what the drop-in of the mirror says when it is made, so `Grub` rests on `Raid`. Every
attempt makes grub.cfg again (`resumeStateSteps`), which is why that file is judged by
where the attempt is and not by the checkpoint (`Now`). The marker of the EFI
fallback may have any name: the proof uses only that the name is the same
throughout an attempt.

`ResetIsDeservedAlways` has a hypothesis (`Tolerant`): a callback fits into the period
of the ticker, and two periods and a callback fit into the timeout. With a period of a
third of the timeout this holds for every callback shorter than a period. It
can not be weakened: of the instances with a timeout of one to nine seconds and a
callback of at most three, TLC finds `OneMissIsTolerated` violated on exactly
those that do not satisfy it. A command to the BMC is cut off after 20 s
(`bmcCommandTimeout`), so that with a BMC the theorem speaks of timeouts from
61 s on, the default of 300 s among them; the configuration accepts 10 s.

`LeasesAreKeptAlways` needs a lease of at least three ticks (renew, rebind, expire): a
shorter one has no room between the timers.

Only model-checked:

* all liveness (`StalledStepIsReset`, `CloseEndsSender`, `CommandsRunInTurn`,
  `EveryRunEnds`, `SessionsFollowLinks`, `RoutesFollow` and others), since TLAPS
  does not treat fairness;
* `LeavesCleanly` of `RunEnd`: its constants are two sets of Booleans and the run
  gives them all their values, so TLC already covers every instance;
* the trees of `FrrConf` and `NetConfig` for files of every length, which need
  induction over data;
* `GobgpEs`, which has a recursive operator, and with it `OverlayIsReal`;
* `Storage`, `Layout`, `TargetNet`, `LldpSend`, `Bfd`, `BfdRecheck` and
  `TokenRenewal`, which have no theorem yet.

## 5. Divergences

Three disagreements of the code with its own comments or documents are runs (see
section 3 and `findings` in `PROJECT.json`). The others found on the way are
listed here, with a formula of the module in parentheses where there is one: TLC
finds a trace of the code that violates it when it takes the place of the
properties in the `.cfg` of its run.

### With a formula
* `NoGraceTimerInHandoff` (`RunEnd`): `main.go:943-946` says a terminal success
  cancels the grace timer "before any wrapped handoff runs";
  `tokenRenewalFatal` stores its timer last, and main can pass in between
  (`main.go:1070`).
* `PowerOffDisarms` (`RunEnd`): `main_watchdog.go:134-136` says "A power off
  always disarms it"; with `WATCHDOG_HANDOFF=keep` a power off after a failed
  kexec leaves it armed, since `Handoff` works once.
* `ExpiryEndsRun` (`TokenRenewal`): `docs/caprf-integration.md:334-341` says
  the task is stopped when the token expires; a timeout of the last renewal
  attempt ends the loop without the fatal handler (`pkg/auth/manager.go:276`).
* `EveryFailureAcked` (`Standby`): `pkg/runmode/standby.go:424` says "standby
  reports every failed command"; a rescue shell and a canceled retry return
  before the ACK (lines 416-422).
* `FirmwareGetsReset` (`Pipeline`): with `NUM_VFS_MODE=raise` and an error,
  `setup-mellanox` drops `changed` and the next attempt forgets a stored value
  (`pkg/provision/orchestrator.go:795`, comment at 820-821).
* `StaleActiveSlotIsHarmless` (`SlotUpdate`): `docs/ab-partitioning.md:128-130`
  says "A stale `AB_ACTIVE_SLOT` value then cannot wipe the active root
  partition"; after a virtual-media boot both slots can pass check 4, and the
  update streams into the slot that ran (`orchestrator.go:1932-1991`).
* `FirmwareStartsActiveSlot` (`SlotUpdate`): after a second update the path
  the firmware starts belongs to the other slot (comment at
  `orchestrator.go:3460-3462`, cause at 1878-1892 and 3124-3141).
* `WindowIsBounded` (`GobgpRoutes`): the comment at
  `pkg/network/gobgp/overlay.go:1113-1123` bounds the window of the two writers
  by the periodic resync; when the underlay withdraws its route before the
  resync, the overlay's route of that window stays.
* `CompanionIsCleared` (`Storage`): `docs/disk.md:377-379` says that hard
  deprovision with a device override clears "the selected disk and its mirror
  companion"; the companion is found only while the array is assembled
  (`pkg/provision/deprovision.go:402-463`).
* `NoDownIsForgotten` (`BfdRecheck`): the comment of `bfdChanged` says "A skipped
  BFD Down is checked again (recheck), so a real failure is not hidden until the
  hold timer expires"; a recheck under way may decide on an answer of `ListPeer`
  that is older than the session.
* `PolicyUnsetIsOn` (`NetConfig`): `pkg/config/network.go:371-376` and
  `docs/networking.md:499` say that an unset `BGP_EBGP_REQUIRES_POLICY` is on for
  sessions of frr.conf and of the native list; it follows the profile, as
  `docs/configuration.md:413` says, and is off with "frr defaults datacenter", the
  default (`pkg/network/frrconf/sessions.go:133`).
* `SkippedMovesLikeFrr` (`FrrConf`): `docs/networking.md:569-571` says of a skipped
  line that BOOTy "looks the first word up in a table of the FRR commands per node
  and moves to the same node as FRR"; it stays in its node when a parent node has
  the line without implementing it, and the table has words of which FRR knows
  only a longer form in the node, as `docs/networking.md:582-586` admits
  (`network` in `address-family l2vpn evpn`, `known.go:43`).

Four more formulas state a comment of the code and do not hold: `MachineFilesWin` (`TargetFiles`,
`configurator.go:940-944`), `EachChangeIsCopied` (`EspSync`, `docs/disk.md`; a
change before the watches are set is missed), `KeptLeaseEnds` (`Leases`, the
comment at `initState`), `StartsLikeColdBoot` (`Sriov`, `HandoffReset` in
`profile.go`).

### Without a formula
Agent and run:
* A heartbeat that passed its check before a command started is sent while the
  command runs; `pkg/runmode/standby.go:41-42` says "the contract sends none
  then". `OneLateHeartbeat` shows that it is at most one.
* A rescue shell of a failed run can be cut by a grace reboot that is armed
  late (`docs/caprf-integration.md:482`).
* A failed power off ends in `os.Exit(1)` of PID 1, so the kernel panics and
  reboots the host (`main.go:624-625`, `main_panic.go:11-17`).
* `README.md:744-748` of the repository lists the steps that run again on a
  resume and omits `release-stale-mounts`.
* `docs/proposal-resilient-provisioning.md:145-149` describes a checkpoint that
  can not be read as a fresh start; the code fails closed.

Disks and slots:
* `cleanInterruptedSeed` removes its marker before the data
  (`orchestrator.go:2785`); a stop in between keeps a partial seed.
* A retried `create-efi-boot-entry` can leave two entries. A failed `dd` of
  partition mode leaves the table and part of the image.
* `createVolumeGroup` takes a volume group of the same name from another disk
  (`pkg/disk/lvm.go:132`); NVMe namespaces are deleted without an in-use check
  (`pkg/disk/inuse.go:26-28`); an ATA drive can stay locked with the temporary
  password of an interrupted erase.
* A disk that appears late keeps its old superblocks with
  `RAID_SUPERBLOCK_CLEAR=all` and a quick wipe.
* `validateUniqueMountpoints` compares mount points before they are cleaned; a
  volume of "100%VG" that is not the last one is accepted.

Target:
* `updateKubeletExtraArgs` writes in place (`configurator.go:325`). Duplicate
  targets of sysext or cloud-init files are refused only after the wipe.
* A networkd VLAN on a VLAN or on a bond member is not attached; a NoCloud seed
  with a bond has no ethernets; cloud-init gives an unused bond DHCP, persist
  does not; ConfigDrive drops a gateway of the other family; netplan puts DNS on
  a bond without an address. `docs/proposal-network-persistence.md:61` says for
  Flatcar that bonds and VLANs are rejected; `writeNetworkd` writes them.
* SR-IOV: a stored devlink parameter with an unknown running value is reported
  "ok" on the next attempt; `guardInUse` looks at the first port of a device
  (`pkg/sriov/runtime.go:169`), so `UplinkUndisturbed` is about that port.
* `docs/sriov.md:158-162` says that two profiles that want different values for
  an adapter-wide setting fail and nothing is written. A VF limit also turns
  SR-IOV on (`changeFor`), which `adapterConflicts` (`pkg/sriov/journal.go:110`)
  does not compare with `sriovEnabled: false` of another port: both are stored,
  one after the other, and the host reboots once more for the second.

Underlay and overlay:
* A carrier loss beside a relearner move leaves the moved peer running; a failed
  `AddPeer` in `movePeer` or `restartPeer` leaves the peer deleted; a stale
  `ListPeer` answer can end the recheck of a new session.
* The rollback in `setType5GatewayNeighbor` deletes a neighbor that another
  prefix uses; `fibRemoved` between a Type-2 withdrawal and
  `resolveType5Gateway` leaves a stale route; MAC sequence numbers half the
  space apart are ordered by map iteration; a route whose `RouteDel` failed is
  forgotten by the FIB writer (`fib.go:247-250`).
* `Stack.Teardown` removes a dummy and an overlay loopback address that it did
  not create; after a failed overlay setup `underlay.Teardown` runs twice.

Network configuration and setup:
* A direct restart of FRR that fails half-way, and whose rollback fails too, keeps
  its list of daemons without a start method. The next recovery is then
  `restartFRRBestEffort`; if systemd starts all daemons now, `stopFRR` still goes
  by the list and leaves the others running (`frr/manager.go:753-766`, 797-809).
* After a direct restart of FRR that failed and was rolled back, the start method is
  forgotten: every later recovery is `restartFRRBestEffort`, which has no direct start,
  so on a ramdisk without systemd and frrinit.sh the daemons stay down, although
  `waitForHTTPWithFRR` "polls target, restarting FRR every 120s if needed".
* A VLAN whose removal failed makes the next setup fail. Between the unlock of
  `stopLLDPEmit` and `waitLLDPEmit` a new start does not wait; a NIC that
  appears after the start sends nothing (comment at `main.go:1856-1861`). The
  end of `stop6` can remove the address of a new DHCPv6 client.
* `mergeNetplanConfig` takes StaticIP, interface and match together and
  StaticGateway on its own, so the gateway can be that of another NIC. An
  unresolved match beside a bond puts the address on the bond or the first VLAN.
* A reopened router block makes a second router; `keepFastExternalFailover` runs
  before the VRF of a neighbor is known; an L3VNI from vars has no route targets
  (comment at `main.go:2229-2237`); flags of a frr.conf router without neighbors
  are lost when native sessions replace it.

## 6. Not modelled

The text and encoding of messages and packets, the parsers of vars, YAML and
GRUB, external tools beyond "works, fails, or fails half-way", metrics and
inventory, signature and TPM cryptography. FRR is a set of external daemons and,
for its configuration, the nodes its CLI is in. Time in `Pipeline`, `Standby`,
`NetUp` and `LldpSend` is left out: delays are steps, an armed timer may fire.

* The child reaper: its race with a managed child depends on the kernel's wait
  queue and a delay, not on state of the program.
* DNS fan-out, time synchronisation, health checks, inventory, link checks,
  crash and telemetry: one pass of reads and reports; no state outlives it.
* Rescue shell, payload and module loading: straight-line start-up I/O.
* The receiving side of LLDP and the cable check read only. Router
  advertisements of the underlay are periodic sends without state.
* `NetConfig` leaves out forwarding flags, the BFD multiplier, capabilities of
  graceful restart, timers of vars peers, the range check of ASN and VNI, the
  local ASN, the FRR version, `resolv.conf`, predictable names and warnings.
  VLANS is parsed or it fails.
* RHEL key files can not be reached with the supported OS families.

## 7. Plan

1. Compositions: `RunEnd` with `Watchdog` (a teardown that hangs under an armed
   watchdog) and with `NetUp`; `Pipeline` with `Storage` and `TargetFiles` as
   the steps of its table.
2. `Reaper` with a model of `wait4`; `DeploySwap` with single renames.
3. Theorems: `WipeIsComplete` of `Storage`, the gateways and nexthops of
   `GobgpRoutes`.
