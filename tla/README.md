# slfhst in TLA+

slfhst turns a bare machine into a mail, photo and password server in two
stages. A live ISO runs `slfhst install` on its consoles (stage 1): it wipes two
disks, lays down an A/B appliance and touches `stage1.done`. On the installed
appliance an admin runs `slfhst setup` over SSH (stage 2): it asks for a domain
and secrets, renders Quadlet units, starts a stack of containers, bootstraps
them, publishes DNS records and touches `stage2.done`. From then on timers run
`check-all` and `update apply`, and `slfhst dns sync` and `slfhst cf-ips sync`
repeat single steps of setup.

Both stages are long chains of external commands that stop at their first error
and are then *run again* over whatever the previous attempt left behind. Neither
has a transaction log: a marker file written last is all that later code looks
at. The project is about that design: what a marker guarantees, what a re-run
may rely on, and what happens beside it (other consoles, containers, reboots).
The parts that go on after setup have the same shape on a smaller scale: a few
remote calls in a row, over D-Bus or HTTP, with no transaction around them, made
by a timer and by people at the same time, and repeated after an error. For them
the questions are what a `nil` result guarantees and whether repetition converges.

## Inventory

| Component (package) | State it keeps | Operations | Hard behaviours | Correct when |
|---|---|---|---|---|
| console wrapper (`slfhst-console-wrapper`) | `/run` lock and `.ran` flag | login, start installer, shell | consoles race; lock is held by the login shell | one installer at a time |
| `installer`, `disks`, `netconf`, `wizard`, `users`, `sshauth`, `firewall` (pre-boot) | partitions, mounts, files on the target, `stage1.done` | `Run`'s steps | failure, kill or reset between any two commands; leftovers of an earlier attempt | the marker is only on a complete installation; no other disk is touched; a retry can finish |
| `disks.SelectDisks` | none | choose root and bulk disk | ties, read-only disks, boot medium | never the boot medium |
| `config` | `config.json`, markers | `Load`, `Save`, `Update`, `MarkDone` | truncate-then-write | the file parses; answers are asked for once |
| `setup`, `quadlet`, `deploy`, `backing`, `healthcheck` | podman secrets, rendered units, containers, Garage objects, MOTD, `stage2.done` | `Run`'s steps | partial failure and re-run, dropped SSH, reboot, containers still starting | everything agrees with `config.json`; the marker means done; a re-run finishes |
| `dnscf` | Cloudflare zone | `Sync` | list read once and one page long, lost answers, partial sync, two syncs, a changing address | nil means published; converges; nobody else's record is touched; no entry doubled |
| `firewall` (live) | firewalld ipsets, permanent and runtime | `SyncCloudflareIPSets` | concurrent syncs, partial failure, OS updates | nil means both families are in force; the web port is never cut off |
| `sysupdate` | A/B usr slots, UKIs, sysupdated's jobs | `Check`, `Apply`, `CheckNewVersion` | two targets without a transaction; asynchronous jobs; the release replaced in between | both targets get to the last release; nothing is passed over in silence |
| `monitor` | none | `CheckAll`, `Status` | the world changes under a check; alert path runs through what it watches; peers that hang | problems that stay are reported, none is passed over |
| `dbus` | connection, serial | `Dial`, `Call`, `Close` | signals and late replies, undecodable messages, alignment, truncation | a call gets its own outcome; both ends read the same bytes the same way |
| `prompt`, `runx`, `varlink` | none | input, commands, unused client | | |

Stage 1 and stage 2 share state only through the disk: `stage1.done` and
`config.json`. Setup calls the other packages in order and in one process; the
containers, systemd's user manager and the timers run beside it. `check-all`
calls `firewall` and `sysupdate`, and these talk through `dbus`, each call of a
package on a connection of its own.

## Modules

| Module | Models |
|---|---|
| `DiskSelect` | `bootDiskName`, `selectDisksFrom`, `SelectDisks` as the set of possible outcomes |
| `DiskSelection` | one call of `SelectDisks` as the code computes it: its loops and sorts on a list |
| `Installer` | the console wrapper and `installer.Run` with every package it calls |
| `Setup` | `setup.Run` with every package it calls, and the containers |
| `DnsZone` | abstract: what `dnscf` promises about a zone |
| `DnsSync` | `dnscf.Sync` by several processes; implements `DnsZone` |
| `FirewallSync` | `SyncCloudflareIPSets` by several processes, firewalld |
| `SysUpdate` | `sysupdate.Apply`, `Check`, `CheckNewVersion`, sysupdated, the release page |
| `Rpc` | abstract: what callers of `dbus` rely on |
| `DBusCall` | one connection: `Dial`, `Call`, `Close`; implements `Rpc` |
| `DBusWire` | `marshal.go`: values to bytes and back, as operators |
| `DBusMessages` | `message.go`: a call to a conforming peer, and its messages off a stream |
| `Monitor` | `monitor.CheckAll` beside a changing world |
| `MC*` | the instances that the `.cfg` files check |
| `*Proofs` | the theorems about `DiskSelection`, `Installer`, `Setup`, `DnsSync`, `FirewallSync`, `SysUpdate`, `DBusCall`, `Monitor` |

**DiskSelect / DiskSelection.** `sort.Slice` is not stable, so among disks of
equal size any may come first; `DiskSelect` gives the set of pairs that can come
out, and the installer model draws one per boot. `DiskSelection` is one call of
the code on lsblk's list, and is checked against that set. An action is one round
of one of its three filtering loops, or what stands between two loops; a sort
leaves its slice in any arrangement by size (`bySize`, `bySizeDescending`), and
where the pool is `candidates` itself it rearranges `candidates` too, as in the
code. A path and a name of a device are one value, as lsblk's are one to one.

**Installer.** `pc[c]` is a console's place in the wrapper or in `Run`. A disk's
target is abstracted to the artifacts completely written, the UUID in
`srv-data.mount`, `admin_user` in `config.json`, the account created and the
marker. Files written below `/mnt/target` reach the disk only if the filesystem
they belong to is mounted (`Written`). `Run` is split where an interruption
between two commands leaves something that a later run can see: mkfs apart from
parted, the bind mount of `/dev` apart from `sshd -t`. `Fault` is a failing
command (deferred calls run), `Kill` the death of the process (they do not),
`Reset` a reset of the machine (mounts and `/run` go, disks stay, and the
outcome of SelectDisks is drawn again). An umount may fail: `CleanupMounts` and
the deferred umount of `/dev` ignore its error, so what is in use stays mounted
(`Pinned`; the root with it, since it lies below), counted in `jams`. `stuck` is
a history: what the umounts of the run in progress left.

**Setup.** The answers of one prompt session and the secrets generated in it are
a *generation*; podman secrets, rendered files, DNS and MOTD are the generation
they were derived from. `refused` are the generations with which `dnscf.Sync`
cannot succeed: a mistyped token, a domain that is on nobody's account, or, if it
stays so, a box without an IPv4 address; nothing checks them when they are
entered. `Save` is two steps, because `os.WriteFile` truncates
first. `EnsureSecrets` visits its keys in any order (a Go map); `RenderAll` goes
through the sorted templates, units and the config files that containers mount.
`wanted` is what the user manager keeps running (`Restart=always`), `up` what
runs, `lost` what systemd has given up on: a service at its start limit, and one
whose start job failed with that of a service it `Requires=`. A container starts
from the unit that is loaded and the secrets and config files that are there at
that moment (`Startable`), behind what it requires (`Needs`, transitive). `Fault`
stands for every way a run ends early; in `RenderAll` it may cut one file short.
`Reboot` starts what has an `[Install]` section of its own. `garage` holds the
objects made so far; the text of `garage layout show` is taken to mean what the
code takes it to mean.

**DnsSync / DnsZone.** The zone is the list the API returns, and a record's id is
its place in it; `existing[s]` is the list a sync read, of which `upsert` takes
ids that may be old. A record is a key (type, name, priority), a content and the
proxied flag; names and contents are tokens. A request fails before it has an
effect (`RequestFails`), after it (`AnswerLost`), or is refused (`Rejected`: an
IPv6 address in an A record, an identical record). `DnsZone` maps, per
key, the ids of its records to their values: a key has one record at most, which
keeps its id and changes into a wanted value only. The mapping `View` collects
the zone's records of a key, so that a doubled record is no state of `DnsZone` at
all. In `Setup` the whole of `Sync` is one step: what that
step takes for granted (nil means published, whatever came before) is
`SyncPublished` here.

**FirewallSync.** One action per D-Bus call; `permanent` and `runtime` are
firewalld's two configurations and hold, per ipset, the image whose lists are in
it. `addIPSet` is refused if another caller has added the ipset in between.
`BootNewImage` is a reboot into an update: new lists, processes gone, runtime
from permanent.

**SysUpdate.** `Update` starts a job and returns; `JobEnds` and `JobFails` are the
daemon's. A version is a number, `release` the one on the page, 0 between CI's
delete and create. Whether `CheckNew` answers an up-to-date target with the empty
string or with an error is left open by the code (its TODO), so both happen.

**DBusCall / Rpc.** A message has the serial it carries and, as a history, the
number of the call it answers, so that a reply delivered to the wrong call can be
seen. An undecodable message ends a `Call` while its reply is still under way;
`Rpc` says that this never shows in a later call. Serials have `SerialWidth` bits
(32 in the code) and do not wrap (`CallBounds`).

**DBusWire / DBusMessages.** Bytes are numbers, type codes are the code's
characters, Go values carry their Go type. The same operators describe slfhst and
a peer by the standard; they differ in the alignment table (`alignmentOf`,
`StandardAlignment`), which the operators take as a parameter. Integers are those
TLC has: 64-bit ones have full width and small values, a float is its bits, and
the byte order is 'l' (slfhst and the bus are on one machine). An empty variant
signature, where the code panics, is an error here; a conforming peer sends none.

**Monitor.** `world` is the set of problems there are. `due` is a history: the
problems that have been there since the check began, without the listings whose
lookup failed or for which there was no address. A service that `systemctl`
cannot be asked about, and a lookup that is answered by something else than the
blocklist, become issues too. `hung` peers accept a request and never answer. The
alert's text is the set of issues.

## Runs

| Run | Result | Shows |
|---|---|---|
| `disk_selection` | pass | `MatchesOutcomeSet`: loops and sorts = outcome set; `FirstElementsExist`: no index into an empty list; `BootMediumExcluded`, for labels on a disk, a partition or an optical drive |
| `installer` | pass | `OneInstaller`, `Stage1Complete`, `BulkMountsAtBoot`, `BootMediumUntouched`, `MarkedTargetFrozen` with any two of faults, kills, failed umounts and resets, and retries; `RetryNotBusy` except behind an umount that has just failed or a bound `/dev`; `InstallCompletes` except behind a `/dev` that stays bound |
| `setup` | pass | `ConfigAgrees`, `Stage2Complete`, `PromptedOnce`, `GrantUnlessCut` with two faults, a reboot and a container that dies or fails to start; `OnlyConfigBlocks`: a re-run finishes unless `Save` was cut short or Cloudflare refuses the answers; `StackComesUp` until a reboot, except for what a cut-short file or systemd's giving up holds down |
| `dns_sync` | pass | `SyncPublished`, `ForeignKept`, `RightStays` and the refinement `UpsertsZone`, two syncs, two failing requests |
| `dns_sync_live` | pass | `ZoneConverges` with a changing address and a failing request |
| `firewall_sync` | pass | `SyncedRules`, `NeverCutOff`, `InForceStays` with three callers, two interruptions, an OS update; `RulesConverge`, although syncs collide and are stopped |
| `sysupdate` | pass | `NilMeansStarted` with timer and admin, busy targets, a failing call or job; `TargetsConverge` across two new releases |
| `dbus_call` | pass | the refinement `CallsAreRpc`, with two signals and two undecodable messages; `CallReturns` |
| `dbus_messages` | pass | `CallUnderstood`: firewalld's and sysupdated's calls and every type code, read by a conforming peer, ill-typed ones refused; `StreamInStep`, `PrefixRefused`: two messages in a row, cut off at every byte |
| `monitor` | pass | `MissesNothing`: a check to its end names every problem that was there all the time; `ProblemReported` |
| `setup_torn` | violation | `SetupCompletes`: an interrupted `Save` makes every later setup fail |
| `setup_reboot` | violation | `StackRuns`: after a reboot most of the stack stays down |

The two violations are recorded as findings in `PROJECT.json`, each with the
document it contradicts; `TornIsFinal` and `RestNeedsSetup` (Proofs) show them for
every instance. DNS has two runs because two syncs that see *different*
addresses at once can both miss a record and both add it; `dnscf` says nothing
about that case, so `dns_sync` has two syncs and one address and `dns_sync_live`
one sync and two addresses.

### Known deviations

Other places where the code does less than its comments say. The models show all
of them; the runs above leave them out so that what holds besides can be checked.
To reproduce one, change the named configuration.

| Change | Fails | Code and comment |
|---|---|---|
| `DiskSelection.cfg`: `MachineSet <- MappedMachines` | `BootMediumExcluded` | `disks.go:127`: for a boot label on a device-mapper node over a partition, one `PKNAME` up is the partition, and the disk stays a candidate (`OwnMediumSpared` has the boundary as its hypothesis); :134 "never the installer's own boot device" |
| `RetryNotBusy` without `"dev" \notin mnt` | `RetryNotBusy` | `sshauth.go:112`: a kill during `sshd -t`, or a failing umount behind it, leaves `/dev` bound below the target, and `CleanupMounts` does not unmount it; `disks.go:316-319` "so a retry never fails" |
| `RetryNotBusy` without `stuck = {}` | `RetryNotBusy` | `disks.go:322`: the error of an umount is ignored, so a mount in use (a shell below `/mnt/target`) is there when parted runs; same comment |
| `Installer.cfg`: `Machine <- SwapMachine`; `BulkMountsAtBoot` without `BulkSafe(d)` | `BulkMountsAtBoot` | `disks.go:187`: among equal disks the outcome of an unstable sort decides, so a second run can take the bulk disk of a finished root disk for its root |
| `Setup.cfg`: property `PostgresAwaited` | that | `backing.go:39`: `runx` gives no error for an exit code under `NoCheck`, so `waitFor` returns at its first poll; :34-35 "polls [...] until it succeeds or timeout elapses" |
| `Setup.cfg`: invariant `KeyHasGrant` | that | `backing.go:122`: `bucket allow` only runs behind `key create`; stopped in between, no later run grants (proved: `GrantNeverRepaired`); :71-73 "idempotently [...] ensures" |
| `Setup.cfg`: property `SetupCompletes`, `MaxFaults = 0`, `MaxReboots = 0` | that | `wizard.go:102-114`: token and domain are saved unchecked, and `RunPostBoot` asks only while there is no domain; refused by Cloudflare, they end every later setup at `dnscf.Sync` (proved: `RefusedIsFinal`); `README.md:143-145` "safe to re-run" |
| `StackComesUp` without `Hindered(c)` | `StackComesUp` | `quadlet.go:128`: a re-run that stops while it writes `garage.toml` or `museum.yaml` leaves a file that the running container reads at its next start; and the templates keep systemd's start limit, behind which a service and those that `Requires=` it stay down until the next setup |
| `DnsSync.cfg`: `PageSize = 2` | `UpsertsZone` | `dnscf.go:140`: one page of 200 records is read; a record past it is added again; :147-149 "creates rec if no existing record matches" |
| `DnsSyncLive.cfg`: `V4 = {a1}`, `V6 = {a6}` | `ZoneConverges` | `dnscf.go:216`: an IPv6 address goes into A records, is refused, and ends every sync; :51 "public IPv4/IPv6 address" |
| `SysUpdate.cfg`: invariant `ProxyFaithful` | that | `sysupdate.go:153`: with usr updated and the UKI not, the host target sees nothing new; :136-138 "a faithful proxy" |
| `MCDBusMessages`: a call with an `av` argument | `CallUnderstood` | `marshal.go:77`: a variant is aligned to 8 where the standard says 1; latent, no call of slfhst has an array of variants |
| `Monitor.cfg`: property `ChecksGoOn` | that | `dbus.go:122`: no read deadline, so a peer that never answers stops all checks; `slfhst-monitor.timer:2` "periodically" |

**Bounds.** Installer: two consoles are enough for every race of the wrapper (a
third only adds another loser of the flock). `MaxTrouble = 2` interruptions, each
a fault, a kill, a cleanup with a failed umount or a reset, reach every pair of an
interrupted attempt and a following complete one, and a second interruption of
that; `MaxMkfs = 3` gives out a UUID for each attempt. The proofs cover all other values. The
machine has two equal disks, so that the bulk disk can change between boots, a
read-only disk smaller than all others, and the label on a partition. One good
and one bad username. Setup: `MaxPrompts` is one more than faults plus reboots,
so that the bound never stops a run. Two secrets, so that the loop can be cut in
the middle, and four containers: the three that the code names, one of them
started at boot, and museum, which requires two of them; `garage.toml` stands for
both config files that are read at start. One generation may be refused and one
container die or fail to start (`MaxRefused`, `MaxFails`); the runs of the two
findings have no refusals, so that what they show is not due to one. DiskSelection: three disks with sizes 0 to 2 give zero sizes,
ties and strict orders; lsblk lists the devices in one order or its reverse, and
the sorts break ties in every way. DnsSync: two syncs, and
zones that are empty, hold the owner's records under dnscf's names, or hold
outdated ones; a page of 8 (200 in the code) holds everything; one subdomain stands for the six, which are treated alike.
FirewallSync: three callers, so that two can collide while the third reloads; one
update. SysUpdate: both targets among others, the host alone, and neither; one
failure, of a call or of a job, and three releases, so that one comes and goes
while the targets are apart. DBusCall: four calls, so that
two replies can be late for a later one. DBusMessages: strings of length 0 to 3
give every offset modulo 4, and with the fixed fields around them modulo 8; two
messages put a readable one behind an undecodable one. Monitor: two services,
two ports and a blocklist, so that every loop but the last can be left early.

**Fairness.** A program that has been started takes its next step (weak fairness
of `RunStep`, `WrapperStep`, `SetupStep`): its commands terminate, and one that
hangs is interrupted by the operator, which is a fault. A console logs in by
itself (agetty). systemd restarts a service it keeps running and has not given up
on (`Restart=always`). The operator tries again until the marker is there: strong
fairness of `Retry`, since the consoles log in and out between two attempts,
and weak fairness of `Start` while `stage2.done` is missing. A sync or an Apply that runs goes on, and is run again:
by the timers (`FirewallFairness`, `UpdateFairness`, `MonitorFairness`), or, for
`dns sync`, by an admin until it has succeeded for the address the box has now
(`DnsFairness`). sysupdated's jobs end and CI creates the release it deleted.
`CallFairness` lets the services answer, because `Call` has no deadline of its
own; a peer in `hung` shows what happens otherwise (`ChecksGoOn`). Faults, kills,
resets and reboots are not fair and are bounded: liveness is about what happens
once they stop.

**Deadlock** is checked in all runs but those of `DiskSelection`, a single call
that returns, of `DBusCall` and `DBusMessages`, where a closed connection is the
end, and `monitor`, where a hung peer stops everything.

## Proofs

Each `*Proofs` module proves theorems of `Spec` for every value of the constants:
any number of consoles, callers, syncs and appliers, any machine, zone and list
of targets, and any bound on failures. What the runs check on one instance is
therefore stated below without the instance.

| Module | Proved |
|---|---|
| `DiskSelectionProofs` | `MatchesOutcomeSet`, `FirstElementsExist`, `BootMediumExcluded` |
| `InstallerProofs` | `TypeOK`, `OneInstaller`, `Stage1Complete`, `BulkMountsAtBoot`, `BootMediumUntouched`, `RetryNotBusy`, `MarkedTargetFrozen`; and, which no run checks, that without a kill or a failed umount no run ever finds its root disk in use (`BusyNeedsKillOrJam`) |
| `SetupProofs` | `TypeOK`, `ConfigAgrees`, `Stage2Complete`, `GrantUnlessCut`, `PromptedOnce`; and, which no run checks, what running setup again does not mend: `TornOnlyByCut`, `TornIsFinal`, `RefusedIsFinal`, `GrantNeverRepaired`, `RestNeedsSetup` |
| `DnsSyncProofs` | `TypeOK`, `ForeignKept`, `RightStays`, `SyncPublished`, and that `DnsSync` implements `DnsZone` (`UpsertsZone`) |
| `FirewallSyncProofs` | `TypeOK`, `SyncedRules`, `NeverCutOff`, `InForceStays` |
| `SysUpdateProofs` | `TypeOK`, `NilMeansStarted` |
| `DBusCallProofs` | `TypeOK`, and that `DBusCall` implements `Rpc` (`CallsAreRpc`) |
| `MonitorProofs` | `TypeOK`, `MissesNothing` |

None of the safety properties is inductive. The strengthening stands at the end of
each component's module (`IInv`, and for single theorems `MInv`, `PInv`, `RInv`, `CutsCounted`, `RefusalsKept`),
and each proof has the same shape: a lemma that it holds initially and that every
step keeps it, one step per action, and a short last step from it to the property.
TLC finds no violation of any of them when they are added to the invariants of
the component's configuration. The types of `DiskSelection`, `FirewallSync` and
`Monitor` are part of their `IInv` and proved, and left out of the runs.

**DiskSelection.** `LoopKeeps` is the loop invariant of the three filters: what has
been appended is what passes the test among the devices gone through so far, and
no candidate twice. `CandidatesFound`: behind the first loop the list has the
elements of the set `Candidates`, two of them different, which is why one check of
its length is enough for `pool[0]` and, one filter later, for `others[0]`.
`RootChosen`: the first element of a list arranged by size is a smallest one. A
sort enters the proof only as "some arrangement of the same elements, by size", so
the theorems hold for whatever `sort.Slice` does with ties. Assumed
(`MachinesTyped`): devices have names and sizes are numbers. `OwnMediumSpared` has
the hypothesis `FlatMachines`, that a device's parent is a whole disk; without it
the theorem is false (Known deviations, `MappedMachines`).

**Installer.** `WrapperInv`: who is inside the wrapper holds the lock, and a
console that reached a shell did so because the flag exists or somebody is about
to set it. That excludes a second installer although the lock is released by a
logout. `Progress`: a run that has reached position k of `Run` (`Rank`) has the
mounts, artifacts, UUID, configuration and account of all positions before k, and
past `PartitionRoot` its root disk carries no marker. It makes `MarkDone`
establish `Stage1Complete`, and keeps edits away from marked targets. For
`RetryNotBusy`, `CleanStart` and `LeftOvers` (`MInv`): from `CleanupMounts` to
the first mount nothing of the root disk is mounted unless an umount of this run
failed or `/dev` is there, and outside `sshd -t` only a kill or a failed umount
leaves `/dev` there; both need `OneInstaller`, since a second run could mount in
between. `RefusedUntouched`: a disk that no outcome of SelectDisks names is blank.

Assumptions: `SelectDisks` has an outcome (`TwoDisks`); lsblk lists the boot
device (`DevicesListed`); names of different kinds differ and the bounds are
naturals. Nothing is assumed about ties. Where they can swap the roles of two
disks, a second installation wipes the data disk of the first, and
`BulkMountsAtBoot` says so itself: the filesystem named by the mount unit is asked
for only where no outcome with another root disk writes to it (`BulkSafe`).
`BootMediumSafe` has the hypothesis `FlatMachine(Machine)`, that a device's parent
is a whole disk, like `OwnMediumSpared`: `BootMediumUntouched` is about the disk at
the top of the `PKNAME` chain, which for a label on a mapped device is not the one
`bootDiskName` finds.

**Setup.** `ConfigLoaded`: between `Load` and `Save` there is no `config.json` to
agree with, and behind them memory and disk hold the same generation. `LoopsDone`
and `CallsDone`: what the run has been through is there and is of the
generation on disk. `ConfigAgrees` by itself is not kept by `Save`; it is because
`Save` is reached only through a `Load` that found no domain, before anything was
derived. `CutsCounted`: `config.json` is cut short outside `Save`, or the key
without its grant outside `Allow`, only if something was interrupted; it needs
that Garage, running when the key was made, is down at `Allow` only if it died.
`RefusalsKept`: what is on disk is an answer that was given, and what has been
published was not refused. Assumed: the containers are finitely many, with the
three that the code names among them (`ContainersNamed`); what a service requires
is listed transitively, and postgres, Garage and what starts at boot require
nothing (`NeedsClosed`), as in the templates.

The run `setup` shows that a re-run finishes unless `config.json` stays cut short
or holds refused answers (`OnlyConfigBlocks`); the theorems give the other half.
`Blocked` (cut short, and no `Save` in progress), `Refused` (such answers on disk)
and `NoGrant` (a key without grant, and no `Allow` in progress) are closed under
every step: `TornIsFinal` and `RefusedIsFinal` say that from the first two
`stage2.done` is never reached, `GrantNeverRepaired` that the third stays.
`RestNeedsSetup`: of the containers without an `[Install]` of their own, none is
brought up by anything but the step of setup that starts `slfhst.target`.

**FirewallSync.** `Handled`: the families behind a sync have the booted image's
lists in the permanent configuration, and no other caller takes them away,
because all callers write the same lists. `PermanentKept`: what filters at run
time has a list in the permanent configuration, so that a reload by anybody, or
a reboot, does not empty it. `RuntimeCurrent`, for `InForceStays`: where the
booted image's lists filter, they are permanent too, so that a reload by a sync
that is half done, or by one that another has overtaken, does not bring older ones
back. This is the safety half of `RulesConverge`.

**SysUpdate.** `VisitedAccounted`: a target is behind an Apply only with an error
or a started update; `LoopPlace` says where the loop stands. Assumed
(`ListingsSelect`): listings are non-empty sequences, and `SelectSeq` keeps of
them what it selects. The latter is a fact of the language that the prover has no
definition for; TLC evaluates it.

**DBusCall.** `SerialCounts`: a serial is used up by every call and by nothing
else. `SerialsNameCalls`: a request, and an answer under way, have the serial of
the call they belong to. With `CallBounds` (serials do not wrap) a reply whose
serial is that of the current call answers that call. `HelloFirst` makes the
first outcome of an open connection a reply, which `Dial` relies on. The
refinement maps `Rpc`'s state to "inside a call" and the outcomes; every step is
the start or the end of a call, or a stutter.

**Monitor.** `FoundSoFar`: of what is due, everything in the lists that the check
is through, and in the part of the current list that it is through, is among the
issues; and what is due is still there, which is what makes the next element be
found. Assumed: the three lists are non-empty, as in the code.

**DnsSync.** `IdsKept`, enough for `ForeignKept`: an id that a sync has read still
stands for a record of the same key, however old the list. It is also enough for
`RightStays`, the safety half of `ZoneConverges`: what replaces a record has its
key, and a key has one wanted record per address. `SyncPublished` needs
`ListFresh` and `UpsertedHeld` (`PInv`): a listed record is unchanged or already
the wanted one, and what the loop is past is in the zone. `UpsertsZone` needs
`EntriesSingle` and `JoinedWanted` (`RInv`): no entry of dnscf's has two records,
and what has joined the zone since a list was read is wanted by whoever read it,
so that the API refuses it as identical, or is its own work. Assumed: subdomains
differ from each other and from `smtp` (`NamesDistinct`), and the zones hold
records (`ZonesTyped`). Two theorems have hypotheses besides, each the boundary of
what the code does:

- `NilMeansPublished`: one address or one syncer (`OneAddress \/ OneSyncer`). Two
  syncs for two addresses undo each other's A records.
- `ImplementsZone`: one syncer, or one address with an API that refuses identical
  records (`SyncsAgree`); no zone begins with an entry of dnscf's doubled
  (`OneRecordEach`); and as long as the zone fits on the one page that is read
  (`Len(zone) <= PageSize`). Without the last it is false (Known deviations).

`MCDnsSync` assumes `SyncsAgree` and `OneRecordEach`, so TLC shows that the
instances satisfy them; a page of 8 holds all zones that they reach.

Only model-checked, and why:

- liveness: `InstallCompletes`, `OnlyConfigBlocks`, `StackComesUp`, `ZoneConverges`,
  `RulesConverge`, `TargetsConverge`, `CallReturns`, `ProblemReported`. The prover
  has no fairness and no `ENABLED`;
- `DBusWire` and `DBusMessages` (`CallUnderstood`, `StreamInStep`,
  `PrefixRefused`, the types of `DBusMessages`): recursive operators over the
  shape of types and values, for which the prover has neither the definitions nor
  the induction;
- that the deviations and findings *happen*: the theorems say what follows from
  such a state, TLC finds the behaviours that reach it.

## Assumptions and what is not modelled

- `slfhst install` typed by hand and `slfhst setup` take no lock; the models
  assume that nobody starts a second one beside a running one.
- Writes reach the disk in program order. The code never syncs, so a power loss
  can keep `stage1.done` (on var) and lose files of the root filesystem.
- Text: prompts, templates, XML, the `.network` file, JSON of lsblk and of the
  Cloudflare API, the mail's wording. That is what keeps `netconf`, `users`,
  `runx` and the templates "partly": their effect on the target is a step of
  `Installer` or `Setup`, their text is not modelled.
- `prompt` is terminal input: it keeps no state, and its answers are inputs.
  `varlink` has no caller. Building images has no run-time state; of publishing,
  the replacement of the release is in `SysUpdate`.
- Programs beside slfhst (firewalld, sysupdated, Cloudflare, podman, systemd) are
  modelled from how the code uses them.
- That two zones' owners edit records while a sync runs: records are added and
  replaced by syncs only.
- `encodeMethodCall` drops arguments beyond its signature, and `assign` turns a
  value that is not an array into an empty `[]any`; both are in the model, and no
  property forbids them.
- Alerts when the mail server is the problem, and blocklists for an IPv6 address:
  the code's documented limits (`Visible`, `MailWorks` in `Monitor`).
- That an alert is true: any answer to a blocklist lookup counts as a listing
  (`monitor.go:98`), so a resolver that answers everything causes false ones. The
  model has them; no property excludes them.
- Whether Stalwart is hardened: the code gives up with a warning by design.
- The text of `garage layout show`: if a Garage prints an applied layout without
  the words that `backing.go:84-86` looks for, every run after the first assigns
  it again and ends at `layout apply --version 1`, and `OnlyConfigBlocks` is false
  of it.
- Of what `RenderAll` writes, the `.network`, `.volume` and `.target` files and
  `traefik-dynamic.yml`: cut short they can hold a container down as well; a
  container's unit and `garage.toml` stand for them.
- `PrefixRefused` cuts a value at every byte, the empty prefix included, which the
  decoder refuses; `readMessage` does not call it for an empty body.
- Records of the owner's under a key that dnscf manages (another TXT at the apex):
  `ForeignKept` is per key.

## Status

Every component that keeps state is modelled, some of them in part (Assumptions).
Every invariant and action property of the runs is proved, both refinements
included, except those of `DBusMessages`; the liveness properties are
model-checked, and their safety halves are proved for the zone and the ipsets
(what has converged stays so) and for setup (what a re-run cannot mend). What
would extend the project: durability of writes across a power loss, and two setups
or installers at once.
