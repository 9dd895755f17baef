----------------------------- MODULE Installer -----------------------------
(***************************************************************************)
(* Stage 1: the live ISO.  Every console logs in to slfhst-console-wrapper,*)
(* one of them starts `slfhst install` (internal/installer, Run), which    *)
(* wipes and fills two disks step by step and, last of all, touches        *)
(* stage1.done on the target's var partition.  A run stops at its first    *)
(* error and leaves its mounts behind; an operator retries it from a root  *)
(* shell; the machine may be reset at any moment.                          *)
(*                                                                         *)
(* A target is what the root disk holds: the set of artifacts completely   *)
(* written, the filesystem UUID named by srv-data.mount, admin_user in     *)
(* config.json, the account systemd-sysusers created, and the marker.      *)
(* UUIDs are numbered in the order mkfs.xfs makes them; 0 is no filesystem.*)
(***************************************************************************)
EXTENDS Naturals, FiniteSets, DiskSelect

CONSTANTS Consoles,    \* the consoles that auto-log in as root
          NoConsole,   \* nobody holds the lock
          Machine,     \* the machine's block devices, as in DiskSelect
          BootDevice,  \* the device that carries the label SLFHST_INSTALL
          GoodNames,   \* admin usernames that match validUsernameRE
          BadNames,    \* usernames the operator may type that do not
          NoUser,      \* no admin_user key, no account
          MaxTrouble,  \* bound: faults, kills, jams and boots together
          MaxMkfs      \* bound: filesystems made before the last retry

Disks   == DOMAIN Machine
Choices == SelectDisks(Machine, BootDevice)
Names   == GoodNames \cup BadNames

(* With fewer than two candidate disks every run ends in SelectDisks. *)
ASSUME TwoDisks == Choices # {}

(* lsblk lists the boot device, and every device has a name. *)
ASSUME DevicesListed == BootDevice \in Disks /\ NoName \notin Disks

ASSUME ConstantsDistinct ==
  /\ NoConsole \notin Consoles
  /\ NoUser \notin Names
  /\ GoodNames \cap BadNames = {}

ASSUME BoundsNatural == MaxTrouble \in Nat /\ MaxMkfs \in Nat

VARIABLES pc,      \* per console: wrapper state or step of Run
          lock,    \* the console whose fd 9 holds /run/slfhst-install.lock
          ran,     \* /run/slfhst-install.ran exists
          mnt,     \* what is mounted under /mnt/target
          stuck,   \* what this run's CleanupMounts could not unmount
          choice,  \* <<root disk, bulk disk>> of this boot
          ans,     \* cfg["admin_user"] in the running installer's memory
          tgt,     \* per disk: the target on it
          fs,      \* per disk: UUID of the xfs on its first partition
          mkfs,    \* filesystems made so far
          faults,  \* commands that failed
          kills,   \* installer processes killed (^C, hangup)
          jams,    \* cleanups with an umount that failed
          boots    \* resets of the live system

vars == <<pc, lock, ran, mnt, stuck, choice, ans, tgt, fs, mkfs,
          faults, kills, jams, boots>>
live   == <<lock, ran, choice>>
mounts == <<mnt, stuck>>
counts == <<faults, kills, jams, boots>>

(* May one more thing go wrong? *)
Trouble == faults + kills + jams + boots < MaxTrouble

Root == choice[1]
Bulk == choice[2]

(* The steps of installer.Run, in order, split where an interruption       *)
(* between two commands leaves something a later run can see.              *)
Steps == {"CleanupMounts", "SelectDisks", "PartitionRoot", "DeployUsrContent",
          "MountRoot", "MountVar", "MountUsr", "EnsureFHSSymlinks", "MountESP",
          "DeployUKI", "InstallBootloader", "PartitionBulk", "MkfsBulk",
          "MountBulk", "WriteBulkMountUnit", "Netconf", "RunPreBoot",
          "CreateUsers", "SSHConfigure", "BindDev", "SSHDTest",
          "SetupPreBoot", "ApplyPresets", "SetDefaultTarget", "MarkDone"}

(* "off": no login; "flocked", "touch": in the wrapper; "shell": bash. *)
WrapperStates == {"off", "flocked", "touch", "shell"}

MountPoints == {"root", "var", "usr", "efi", "srv/data", "dev"}
OnRootDisk  == {"root", "var", "usr", "efi"}

Artifacts == {"usr", "fhs", "uki", "loader", "wants", "network", "config",
              "accounts", "ssh", "firewall", "presets", "default.target"}

BlankTarget == [has |-> {}, unit |-> 0, cfgUser |-> NoUser, account |-> NoUser,
                stage1 |-> FALSE]

WithUnit(t, u)    == [t EXCEPT !.unit = u, !.has = @ \cup {"wants"}]
WithConfig(t, u)  == [t EXCEPT !.cfgUser = u, !.has = @ \cup {"config"}]
WithAccount(t, u) == [t EXCEPT !.account = u, !.has = @ \cup {"accounts"}]

Running(c) == pc[c] \in Steps
InWrapper(c) == pc[c] \in {"flocked", "touch"}
Goto(c, s) == pc' = [pc EXCEPT ![c] = s]

Init ==
  /\ pc = [c \in Consoles |-> "off"]
  /\ lock = NoConsole
  /\ ran = FALSE
  /\ mnt = {} /\ stuck = {}
  /\ choice \in Choices
  /\ ans = NoUser
  /\ tgt = [d \in Disks |-> BlankTarget]
  /\ fs = [d \in Disks |-> 0]
  /\ mkfs = 0
  /\ faults = 0 /\ kills = 0 /\ jams = 0 /\ boots = 0

---------------------------------------------------------------------------
(* slfhst-console-wrapper.  fd 9 stays open in the login shell that the    *)
(* wrapper execs, so the lock is held until that shell exits.              *)

(* Mutant: flock's result is ignored. *)
Mut_LoginUnlocked(c) ==
  /\ pc[c] = "off"
  /\ Goto(c, "flocked") /\ lock' = c
  /\ UNCHANGED <<ran, mounts, choice, ans, tgt, fs, mkfs, counts>>

Login(c) ==
  /\ pc[c] = "off"
  /\ \/ lock = NoConsole /\ lock' = c /\ Goto(c, "flocked")
     \/ lock # NoConsole /\ lock' = lock /\ Goto(c, "shell")
  /\ UNCHANGED <<ran, mounts, choice, ans, tgt, fs, mkfs, counts>>

CheckRan(c) ==
  /\ pc[c] = "flocked"
  /\ Goto(c, IF ran THEN "shell" ELSE "touch")
  /\ UNCHANGED <<live, mounts, ans, tgt, fs, mkfs, counts>>

StartInstaller(c) ==
  /\ pc[c] = "touch"
  /\ ran' = TRUE
  /\ Goto(c, "CleanupMounts")
  /\ UNCHANGED <<lock, mounts, choice, ans, tgt, fs, mkfs, counts>>

Logout(c) ==
  /\ pc[c] = "shell"
  /\ Goto(c, "off")
  /\ lock' = IF lock = c THEN NoConsole ELSE lock
  /\ UNCHANGED <<ran, mounts, choice, ans, tgt, fs, mkfs, counts>>

(* `slfhst install` by hand.  Run takes no lock of its own: that nobody    *)
(* types it while another run is in progress is an assumption.             *)
Retry(c) ==
  /\ pc[c] = "shell"
  /\ \A d \in Consoles : ~Running(d) /\ ~InWrapper(d)
  /\ mkfs < MaxMkfs
  /\ Goto(c, "CleanupMounts")
  /\ UNCHANGED <<live, mounts, ans, tgt, fs, mkfs, counts>>

---------------------------------------------------------------------------
(* installer.Run.                                                          *)

(* Files reach the target's disk only if the filesystem they belong to is  *)
(* mounted; otherwise they land in the live system's own tree.             *)
Written(mps, items) ==
  IF mps \subseteq mnt THEN [tgt EXCEPT ![Root].has = @ \cup items] ELSE tgt

(* Something below a mount keeps it mounted, and the root is below nothing *)
(* else.                                                                   *)
Pinned(left) == IF left = {} THEN {} ELSE left \cup (mnt \cap {"root"})

(* An umount fails: a shell has its directory there, a child still runs. *)
Jam == Trouble /\ jams' = jams + 1

(* Mutant: the mount on var is forgotten. *)
Mut_CleanupMountsKeepsVar(c) ==
  /\ pc[c] = "CleanupMounts"
  /\ mnt' = Pinned(mnt \cap {"var", "dev"}) /\ stuck' = {}
  /\ Goto(c, "SelectDisks")
  /\ UNCHANGED <<live, ans, tgt, fs, mkfs, counts>>

(* umount srv/data, efi, usr, var and then the root, errors ignored; /dev  *)
(* is not in the list.                                                     *)
CleanupMounts(c) ==
  /\ pc[c] = "CleanupMounts"
  /\ \E busy \in SUBSET (mnt \ {"dev"}) :
       /\ IF busy = {} THEN UNCHANGED jams ELSE Jam
       /\ stuck' = busy
       /\ mnt' = Pinned(busy \cup (mnt \cap {"dev"}))
  /\ Goto(c, "SelectDisks")
  /\ UNCHANGED <<live, ans, tgt, fs, mkfs, faults, kills, boots>>

(* readApplianceVersion and SelectDisks only read. *)
SelectDisksStep(c) ==
  /\ pc[c] = "SelectDisks"
  /\ Goto(c, "PartitionRoot")
  /\ UNCHANGED <<live, mounts, ans, tgt, fs, mkfs, counts>>

(* Mutant: systemd-repart --empty=allow keeps existing partitions. *)
Mut_PartitionRootKeeps(c) ==
  /\ pc[c] = "PartitionRoot"
  /\ mnt \cap OnRootDisk = {}
  /\ Goto(c, "DeployUsrContent")
  /\ UNCHANGED <<live, mounts, ans, tgt, fs, mkfs, counts>>

(* systemd-repart --empty=force gives the whole disk a fresh table. *)
PartitionRoot(c) ==
  /\ pc[c] = "PartitionRoot"
  /\ mnt \cap OnRootDisk = {}
  /\ tgt' = [tgt EXCEPT ![Root] = BlankTarget]
  /\ fs' = [fs EXCEPT ![Root] = 0]
  /\ Goto(c, "DeployUsrContent")
  /\ UNCHANGED <<live, mounts, ans, mkfs, counts>>

(* "partition is being used": the run ends with an error. *)
PartitionRootBusy(c) ==
  /\ pc[c] = "PartitionRoot"
  /\ mnt \cap OnRootDisk # {}
  /\ stuck' = {}
  /\ Goto(c, "shell")
  /\ UNCHANGED <<live, mnt, ans, tgt, fs, mkfs, counts>>

(* dd onto usr-A, then relabel it slfhst_<version>; straight to the device.*)
DeployUsrContent(c) ==
  /\ pc[c] = "DeployUsrContent"
  /\ tgt' = [tgt EXCEPT ![Root].has = @ \cup {"usr"}]
  /\ Goto(c, "MountRoot")
  /\ UNCHANGED <<live, mounts, ans, fs, mkfs, counts>>

Mount(c, step, mp, next) ==
  /\ pc[c] = step
  /\ mp \notin mnt
  /\ mnt' = mnt \cup {mp}
  /\ Goto(c, next)
  /\ UNCHANGED <<live, stuck, ans, tgt, fs, mkfs, counts>>

MountRoot(c) == Mount(c, "MountRoot", "root", "MountVar")
MountVar(c)  == Mount(c, "MountVar", "var", "MountUsr")
MountUsr(c)  == Mount(c, "MountUsr", "usr", "EnsureFHSSymlinks")

(* Mutant: the ESP is mounted on boot, where nothing looks for it. *)
Mut_MountESPOnBoot(c) == Mount(c, "MountESP", "boot", "DeployUKI")

MountESP(c) == Mount(c, "MountESP", "efi", "DeployUKI")

WriteStep(c, step, mps, items, next) ==
  /\ pc[c] = step
  /\ tgt' = Written(mps, items)
  /\ Goto(c, next)
  /\ UNCHANGED <<live, mounts, ans, fs, mkfs, counts>>

(* Only names that exist under usr are linked: nothing if usr is absent. *)
EnsureFHSSymlinks(c) ==
  WriteStep(c, "EnsureFHSSymlinks", {"root", "usr"}, {"fhs"}, "MountESP")

DeployUKI(c) ==
  WriteStep(c, "DeployUKI", {"root", "efi"}, {"uki"}, "InstallBootloader")

InstallBootloader(c) ==
  WriteStep(c, "InstallBootloader", {"root", "efi"}, {"loader"}, "PartitionBulk")

(* parted mklabel: whatever the bulk disk held is gone. *)
PartitionBulk(c) ==
  /\ pc[c] = "PartitionBulk"
  /\ "srv/data" \notin mnt
  /\ tgt' = [tgt EXCEPT ![Bulk] = BlankTarget]
  /\ fs' = [fs EXCEPT ![Bulk] = 0]
  /\ Goto(c, "MkfsBulk")
  /\ UNCHANGED <<live, mounts, ans, mkfs, counts>>

(* mkfs.xfs -f gives the partition a new UUID. *)
MkfsBulk(c) ==
  /\ pc[c] = "MkfsBulk"
  /\ mkfs' = mkfs + 1
  /\ fs' = [fs EXCEPT ![Bulk] = mkfs + 1]
  /\ Goto(c, "MountBulk")
  /\ UNCHANGED <<live, mounts, ans, tgt, counts>>

MountBulk(c) == Mount(c, "MountBulk", "srv/data", "WriteBulkMountUnit")

(* srv-data.mount by UUID, and its link in local-fs.target.wants. *)
WriteBulkMountUnit(c) ==
  /\ pc[c] = "WriteBulkMountUnit"
  /\ tgt' = IF "root" \in mnt
            THEN [tgt EXCEPT ![Root] = WithUnit(@, fs[Bulk])]
            ELSE tgt
  /\ Goto(c, "Netconf")
  /\ UNCHANGED <<live, mounts, ans, fs, mkfs, counts>>

(* 20-wan.network, quad9.conf, resolv.conf and the "network" key. *)
NetconfConfigure(c) ==
  WriteStep(c, "Netconf", {"root"}, {"network"}, "RunPreBoot")

(* The username is not validated here. *)
RunPreBoot(c) ==
  /\ pc[c] = "RunPreBoot"
  /\ \E u \in Names :
       /\ ans' = u
       /\ tgt' = IF "root" \in mnt
                 THEN [tgt EXCEPT ![Root] = WithConfig(@, u)]
                 ELSE tgt
  /\ Goto(c, "CreateUsers")
  /\ UNCHANGED <<live, mounts, fs, mkfs, counts>>

(* Mutant: the check against validUsernameRE is gone. *)
Mut_CreateUsersUnchecked(c) ==
  /\ pc[c] = "CreateUsers"
  /\ tgt' = IF {"root", "var"} \subseteq mnt
            THEN [tgt EXCEPT ![Root] = WithAccount(@, ans)]
            ELSE tgt
  /\ Goto(c, "SSHConfigure")
  /\ UNCHANGED <<live, mounts, ans, fs, mkfs, counts>>

(* sysusers.d, systemd-sysusers, homes, keys, linger, root password. *)
CreateUsers(c) ==
  /\ pc[c] = "CreateUsers"
  /\ ans \in GoodNames
  /\ tgt' = IF {"root", "var"} \subseteq mnt
            THEN [tgt EXCEPT ![Root] = WithAccount(@, ans)]
            ELSE tgt
  /\ Goto(c, "SSHConfigure")
  /\ UNCHANGED <<live, mounts, ans, fs, mkfs, counts>>

(* "invalid admin_user": returned before anything is written. *)
CreateUsersRejects(c) ==
  /\ pc[c] = "CreateUsers"
  /\ ans \in BadNames
  /\ Goto(c, "shell")
  /\ UNCHANGED <<live, mounts, ans, tgt, fs, mkfs, counts>>

(* Host keys, sshd configuration and the PAM stack. *)
SSHConfigure(c) == WriteStep(c, "SSHConfigure", {"root"}, {"ssh"}, "BindDev")

BindDev(c) == Mount(c, "BindDev", "dev", "SSHDTest")

(* The deferred umount of dev, whose error nobody looks at. *)
UmountDev ==
  \/ mnt' = mnt \ {"dev"} /\ UNCHANGED jams
  \/ mnt' = mnt /\ Jam

(* chroot sshd -t, then UmountDev. *)
SSHDTest(c) ==
  /\ pc[c] = "SSHDTest"
  /\ {"root", "usr"} \subseteq mnt
  /\ {"usr", "fhs", "ssh"} \subseteq tgt[Root].has
  /\ UmountDev
  /\ Goto(c, "SetupPreBoot")
  /\ UNCHANGED <<live, stuck, ans, tgt, fs, mkfs, faults, kills, boots>>

(* The Cloudflare lists are read from the target's usr. *)
SetupPreBoot(c) ==
  WriteStep(c, "SetupPreBoot", {"root", "usr"}, {"firewall"}, "ApplyPresets")

(* Mutant: the preset file has no rule for srv-data.mount. *)
Mut_ApplyPresetsDropsMount(c) ==
  /\ pc[c] = "ApplyPresets"
  /\ tgt' = IF {"root", "usr"} \subseteq mnt
            THEN [tgt EXCEPT ![Root].has = (@ \ {"wants"}) \cup {"presets"}]
            ELSE tgt
  /\ Goto(c, "SetDefaultTarget")
  /\ UNCHANGED <<live, mounts, ans, fs, mkfs, counts>>

(* preset-all removes the links of every unit without an enable rule and   *)
(* makes those of the units with one; 80-slfhst.preset lists srv-data.mount*)
ApplyPresets(c) ==
  WriteStep(c, "ApplyPresets", {"root", "usr"}, {"presets", "wants"},
            "SetDefaultTarget")

SetDefaultTarget(c) ==
  WriteStep(c, "SetDefaultTarget", {"root"}, {"default.target"}, "MarkDone")

(* The last step; the wrapper then execs a shell. *)
MarkDone(c) ==
  /\ pc[c] = "MarkDone"
  /\ tgt' = IF {"root", "var"} \subseteq mnt
            THEN [tgt EXCEPT ![Root].stage1 = TRUE] ELSE tgt
  /\ Goto(c, "shell")
  /\ UNCHANGED <<live, mounts, ans, fs, mkfs, counts>>

---------------------------------------------------------------------------
(* Interruptions.                                                          *)

(* A command of the current step fails; CleanupMounts returns no error.    *)
(* Deferred calls run, nothing else is undone.  An error after a step's    *)
(* writes is the same as one at the start of the next step.                *)
Fault(c) ==
  /\ Running(c) /\ pc[c] # "CleanupMounts"
  /\ Trouble
  /\ faults' = faults + 1
  /\ IF pc[c] = "SSHDTest" THEN UmountDev ELSE UNCHANGED <<mnt, jams>>
  /\ Goto(c, "shell")
  /\ UNCHANGED <<live, stuck, ans, tgt, fs, mkfs, kills, boots>>

(* The process is killed: deferred calls do not run. *)
Kill(c) ==
  /\ Running(c)
  /\ Trouble
  /\ kills' = kills + 1
  /\ Goto(c, "shell")
  /\ UNCHANGED <<live, mounts, ans, tgt, fs, mkfs, faults, jams, boots>>

(* The machine is reset and boots the ISO again; /run and mounts are gone. *)
Reset ==
  /\ Trouble
  /\ boots' = boots + 1
  /\ pc' = [c \in Consoles |-> "off"]
  /\ lock' = NoConsole
  /\ ran' = FALSE
  /\ mnt' = {} /\ stuck' = {}
  /\ choice' \in Choices
  /\ UNCHANGED <<ans, tgt, fs, mkfs, faults, kills, jams>>

RunStep(c) ==
  \/ CleanupMounts(c) \/ SelectDisksStep(c)
  \/ PartitionRoot(c) \/ PartitionRootBusy(c) \/ DeployUsrContent(c)
  \/ MountRoot(c) \/ MountVar(c) \/ MountUsr(c) \/ EnsureFHSSymlinks(c)
  \/ MountESP(c) \/ DeployUKI(c) \/ InstallBootloader(c)
  \/ PartitionBulk(c) \/ MkfsBulk(c) \/ MountBulk(c) \/ WriteBulkMountUnit(c)
  \/ NetconfConfigure(c) \/ RunPreBoot(c)
  \/ CreateUsers(c) \/ CreateUsersRejects(c)
  \/ SSHConfigure(c) \/ BindDev(c) \/ SSHDTest(c) \/ SetupPreBoot(c)
  \/ ApplyPresets(c) \/ SetDefaultTarget(c) \/ MarkDone(c)

WrapperStep(c) == Login(c) \/ CheckRan(c) \/ StartInstaller(c)

Next ==
  \/ \E c \in Consoles : \/ WrapperStep(c) \/ RunStep(c) \/ Logout(c)
                         \/ Retry(c) \/ Fault(c) \/ Kill(c)
  \/ Reset

Spec == Init /\ [][Next]_vars

(* A started program makes progress, a console that is off logs in by      *)
(* itself, and an operator whose run has failed comes back to retry it.    *)
Fairness ==
  /\ \A c \in Consoles : WF_vars(RunStep(c)) /\ WF_vars(WrapperStep(c))
  /\ SF_vars(\E c \in Consoles : Retry(c))

FairSpec == Spec /\ Fairness

---------------------------------------------------------------------------
(* Properties.                                                             *)

TargetType == [has : SUBSET Artifacts, unit : Nat, cfgUser : Names \cup {NoUser},
               account : Names \cup {NoUser}, stage1 : BOOLEAN]

CountsOK ==
  /\ faults \in 0..MaxTrouble /\ kills \in 0..MaxTrouble
  /\ jams \in 0..MaxTrouble /\ boots \in 0..MaxTrouble

(* Every variable has its type. *)
TypeOK ==
  /\ pc \in [Consoles -> Steps \cup WrapperStates]
  /\ lock \in Consoles \cup {NoConsole}
  /\ ran \in BOOLEAN
  /\ mnt \in SUBSET MountPoints /\ stuck \in SUBSET MountPoints
  /\ choice \in Choices
  /\ ans \in Names \cup {NoUser}
  /\ tgt \in [Disks -> TargetType]
  /\ fs \in [Disks -> Nat]
  /\ mkfs \in Nat
  /\ CountsOK

(* Consoles that race through slfhst-console-wrapper, and operators who    *)
(* wait for the running installer, never have two installers at once.      *)
OneInstaller == \A c, d \in Consoles : Running(c) /\ Running(d) => c = d

(* A disk with stage1.done, which is all that `slfhst setup` looks at,     *)
(* carries every artifact of installer.Run, and the account on it is the   *)
(* valid admin_user of its config.json, whatever failed before, on which   *)
(* attempt, and however many times the installer ran.                      *)
Stage1Complete ==
  \A d \in Disks : tgt[d].stage1 =>
    /\ tgt[d].has = Artifacts
    /\ tgt[d].account = tgt[d].cfgUser
    /\ tgt[d].account \in GoodNames

(* No outcome of SelectDisks with another root disk writes to a bulk disk  *)
(* that goes with d.  Among disks of equal size the outcome differs from   *)
(* one run to the next: two equal disks can swap their roles.              *)
BulkSafe(d) ==
  \A a, b \in Choices : a[1] = d /\ a[2] \in {b[1], b[2]} => b[1] = d

(* A disk with stage1.done finds its bulk data at boot: srv-data.mount is  *)
(* enabled after preset-all and names a filesystem; and on a machine where *)
(* ties cannot give its bulk disk away to another root disk, that is the   *)
(* filesystem now on the bulk disk, whichever one the last run chose       *)
(* (MountBulk, ApplyPresets).                                              *)
BulkMountsAtBoot ==
  \A d \in Disks : tgt[d].stage1 =>
    /\ "wants" \in tgt[d].has
    /\ tgt[d].unit # 0
    /\ BulkSafe(d) => \E b \in Disks : <<d, b>> \in Choices /\ fs[b] = tgt[d].unit

(* The whole disk that the installer booted from and read-only disks are   *)
(* never partitioned, formatted or written to, on any attempt              *)
(* (bootDiskName, selectDisksFrom).  Holds where the label is on a disk or *)
(* on a partition of it, and not through a mapped device (FlatMachine).    *)
BootMediumUntouched ==
  \A d \in Disks :
    Machine[d].ro \/ d = WholeDisk(Machine, BootDevice) =>
      tgt[d] = BlankTarget /\ fs[d] = 0

(* A run meets mounts of an earlier one when it partitions only if one of  *)
(* its own umounts has just failed, or /dev is still bound under the       *)
(* target, which CleanupMounts does not look for; everything else is gone, *)
(* "so a retry never fails with "partition is being used""                 *)
(* (disks.go:316-319), wherever the earlier runs stopped.                  *)
RetryNotBusy ==
  \A c \in Consoles : pc[c] = "PartitionRoot" /\ stuck = {} /\ "dev" \notin mnt =>
    mnt \cap OnRootDisk = {}

(* A finished installation changes only by being wiped, marker included:   *)
(* no later run edits a target that still carries stage1.done.             *)
MarkedTargetFrozen ==
  [][\A d \in Disks : tgt[d].stage1 /\ tgt'[d].stage1 => tgt'[d] = tgt[d]]_vars

(* Failing commands and umounts, kills and resets do not keep an operator  *)
(* who retries, with a valid username, from a finished installation; only  *)
(* a /dev that nobody unmounts does.                                       *)
InstallCompletes ==
  \/ <>(ans \in BadNames \/ \E d \in Disks : tgt[d].stage1)
  \/ <>[]("dev" \in mnt)

---------------------------------------------------------------------------
(* The inductive invariant behind the safety properties (InstallerProofs). *)

(* Who may be in the wrapper, in the installer or in a shell. *)
WrapperInv ==
  /\ \A c \in Consoles :
       /\ InWrapper(c) => lock = c
       /\ Running(c) => ran
       /\ pc[c] = "shell" => ran \/ \E d \in Consoles : InWrapper(d)
       /\ pc[c] = "touch" => \A d \in Consoles : ~Running(d)
  /\ lock # NoConsole => ran \/ InWrapper(lock)

(* The position of a step in Run. *)
Rank(s) ==
  CASE s = "CleanupMounts" -> 1      [] s = "SelectDisks" -> 2
    [] s = "PartitionRoot" -> 3      [] s = "DeployUsrContent" -> 4
    [] s = "MountRoot" -> 5          [] s = "MountVar" -> 6
    [] s = "MountUsr" -> 7           [] s = "EnsureFHSSymlinks" -> 8
    [] s = "MountESP" -> 9           [] s = "DeployUKI" -> 10
    [] s = "InstallBootloader" -> 11 [] s = "PartitionBulk" -> 12
    [] s = "MkfsBulk" -> 13          [] s = "MountBulk" -> 14
    [] s = "WriteBulkMountUnit" -> 15 [] s = "Netconf" -> 16
    [] s = "RunPreBoot" -> 17        [] s = "CreateUsers" -> 18
    [] s = "SSHConfigure" -> 19      [] s = "BindDev" -> 20
    [] s = "SSHDTest" -> 21          [] s = "SetupPreBoot" -> 22
    [] s = "ApplyPresets" -> 23      [] s = "SetDefaultTarget" -> 24
    [] OTHER -> 25

(* What a run that has reached position k has done to its target. *)
MountedBy(k) ==
  /\ k > 5 => "root" \in mnt
  /\ k > 6 => "var" \in mnt
  /\ k > 7 => "usr" \in mnt
  /\ k > 9 => "efi" \in mnt

WrittenBy(k) ==
  LET has == tgt[Root].has IN
  /\ k > 4 => "usr" \in has
  /\ k > 8 => "fhs" \in has
  /\ k > 10 => "uki" \in has
  /\ k > 11 => "loader" \in has
  /\ k > 15 => "wants" \in has
  /\ k > 16 => "network" \in has
  /\ k > 17 => "config" \in has
  /\ k > 18 => "accounts" \in has
  /\ k > 19 => "ssh" \in has
  /\ k > 22 => "firewall" \in has
  /\ k > 23 => "presets" \in has
  /\ k > 24 => "default.target" \in has

BulkBy(k) ==
  /\ k > 13 => fs[Bulk] # 0
  /\ k > 15 => tgt[Root].unit = fs[Bulk]

UserBy(k) ==
  /\ k > 17 => tgt[Root].cfgUser = ans
  /\ k > 18 => tgt[Root].account = ans /\ ans \in GoodNames

DoneBy(k) ==
  /\ k > 3 => ~tgt[Root].stage1
  /\ MountedBy(k) /\ WrittenBy(k) /\ BulkBy(k) /\ UserBy(k)

Progress == \A c \in Consoles : Running(c) => DoneBy(Rank(pc[c]))

(* What SelectDisks refuses stays as it was. *)
RefusedUntouched ==
  \A d \in Disks :
    \/ Machine[d].ro
    \/ Machine[d].type # "disk"
    \/ d = bootDiskName(Machine, BootDevice)
    => tgt[d] = BlankTarget /\ fs[d] = 0

IInv == /\ TypeOK /\ WrapperInv /\ OneInstaller /\ Progress
        /\ Stage1Complete /\ BulkMountsAtBoot /\ RefusedUntouched

(* Between CleanupMounts and the first mount nothing is mounted from the   *)
(* root disk, what could not be unmounted aside, and only a kill or a      *)
(* failed umount leaves anything of that kind.                             *)
CleanStart ==
  \A c \in Consoles : pc[c] \in {"SelectDisks", "PartitionRoot"} =>
    stuck # {} \/ "dev" \in mnt \/ mnt \cap OnRootDisk = {}

LeftOvers ==
  /\ stuck # {} => jams > 0
  /\ "dev" \in mnt => kills > 0 \/ jams > 0 \/ \E c \in Consoles : pc[c] = "SSHDTest"

MInv == TypeOK /\ WrapperInv /\ OneInstaller /\ CleanStart /\ LeftOvers
=============================================================================
