-------------------------- MODULE InstallerProofs --------------------------
(* Proofs about module Installer, for every machine, every set of consoles *)
(* and usernames and every bound.                                          *)
EXTENDS Installer, TLAPS

(* What SelectDisks can return: two different disks, writable, neither of  *)
(* them the installer's own boot disk (selectDisksFrom, bootDiskName).     *)
LEMMA ChoiceFacts ==
  ASSUME NEW ch \in Choices
  PROVE  /\ ch[1] \in Disks /\ ch[2] \in Disks
         /\ ch[1] # ch[2]
         /\ ch = <<ch[1], ch[2]>>
         /\ \A i \in {1, 2} : /\ ~Machine[ch[i]].ro
                              /\ Machine[ch[i]].type = "disk"
                              /\ ch[i] # bootDiskName(Machine, BootDevice)
  BY DEF Choices, SelectDisks, selectDisksFrom, Candidates, Smallest, Largest,
         RootPool, Disks

(* WithUnit, WithConfig and WithAccount map targets to targets. *)
LEMMA WithTypes ==
  ASSUME NEW t \in TargetType
  PROVE  /\ \A u \in Nat : WithUnit(t, u) \in TargetType
         /\ \A u \in Names : WithConfig(t, u) \in TargetType
         /\ \A u \in Names \cup {NoUser} : WithAccount(t, u) \in TargetType
  BY DEF TargetType, Artifacts, WithUnit, WithConfig, WithAccount

(* A freshly partitioned disk is a target. *)
LEMMA BlankTargetType == BlankTarget \in TargetType
  BY DEF BlankTarget, TargetType

(* Every step of Run moves its own console only, to another step or to the *)
(* shell, and leaves the wrapper's lock and flag alone.                    *)
LEMMA RunStepShape ==
  ASSUME NEW c \in Consoles, RunStep(c)
  PROVE  /\ Running(c)
         /\ \E s \in Steps \cup {"shell"} : pc' = [pc EXCEPT ![c] = s]
         /\ UNCHANGED <<lock, ran, choice, faults, kills, boots>>
<1> USE DEF Running, Goto, live, mounts, counts, Steps
<1>1. CASE CleanupMounts(c) \/ SelectDisksStep(c) \/ PartitionRoot(c)
           \/ PartitionRootBusy(c) \/ DeployUsrContent(c)
  BY <1>1 DEF CleanupMounts, SelectDisksStep, PartitionRoot, PartitionRootBusy,
              DeployUsrContent
<1>2. CASE MountRoot(c) \/ MountVar(c) \/ MountUsr(c) \/ MountESP(c)
           \/ MountBulk(c) \/ BindDev(c)
  BY <1>2 DEF MountRoot, MountVar, MountUsr, MountESP, MountBulk, BindDev, Mount
<1>3. CASE EnsureFHSSymlinks(c) \/ DeployUKI(c) \/ InstallBootloader(c)
           \/ NetconfConfigure(c) \/ SSHConfigure(c) \/ SetupPreBoot(c)
           \/ ApplyPresets(c) \/ SetDefaultTarget(c)
  BY <1>3 DEF EnsureFHSSymlinks, DeployUKI, InstallBootloader, NetconfConfigure,
       SSHConfigure, SetupPreBoot, ApplyPresets, SetDefaultTarget, WriteStep
<1>4. CASE PartitionBulk(c) \/ MkfsBulk(c) \/ WriteBulkMountUnit(c)
  BY <1>4 DEF PartitionBulk, MkfsBulk, WriteBulkMountUnit
<1>5. CASE RunPreBoot(c) \/ CreateUsers(c) \/ CreateUsersRejects(c)
           \/ SSHDTest(c) \/ MarkDone(c)
  BY <1>5 DEF RunPreBoot, CreateUsers, CreateUsersRejects, SSHDTest, MarkDone
<1> QED
  BY <1>1, <1>2, <1>3, <1>4, <1>5 DEF RunStep

(* The type invariant holds initially and every step preserves it. *)
LEMMA TypeInductive ==
  /\ Init => TypeOK
  /\ TypeOK /\ [Next]_vars => TypeOK'
<1>1. Init => TypeOK
  <2> SUFFICES ASSUME Init PROVE TypeOK
    OBVIOUS
  <2>1. BlankTarget \in TargetType
    BY BlankTargetType
  <2>2. CountsOK
    BY BoundsNatural DEF Init, CountsOK
  <2> QED
    BY <2>1, <2>2 DEF Init, TypeOK, WrapperStates
<1>2. TypeOK /\ [Next]_vars => TypeOK'
  <2> SUFFICES ASSUME TypeOK, [Next]_vars PROVE TypeOK'
    OBVIOUS
  <2> USE DEF TypeOK, Goto, live, mounts, counts, Steps, WrapperStates
  <2>0. Root \in Disks /\ Bulk \in Disks
    BY ChoiceFacts DEF Root, Bulk
  <2>1. CASE UNCHANGED vars
    BY <2>1 DEF vars, CountsOK
  <2>2. CASE Reset
    <3>1. CountsOK'
      BY <2>2, BoundsNatural DEF Reset, CountsOK, Trouble
    <3> QED
      BY <2>2, <3>1 DEF Reset
  <2>3. ASSUME NEW c \in Consoles, WrapperStep(c) \/ Logout(c) PROVE TypeOK'
    BY <2>3 DEF WrapperStep, Login, CheckRan, StartInstaller, Logout, CountsOK
  <2>4. ASSUME NEW c \in Consoles, Retry(c) \/ Fault(c) \/ Kill(c) PROVE TypeOK'
    <3>1. CountsOK'
      BY <2>4, BoundsNatural DEF Retry, Fault, Kill, UmountDev, Jam, CountsOK, Trouble
    <3> QED
      BY <2>4, <3>1 DEF Retry, Fault, Kill, Running, UmountDev
  <2>5. ASSUME NEW c \in Consoles, RunStep(c) PROVE TypeOK'
    <3>0. UNCHANGED <<lock, ran, choice, faults, kills, boots>>
      BY <2>5, RunStepShape
    <3> USE <3>0 DEF CountsOK
    <3>0a. CASE CleanupMounts(c)
      <4>1. PICK busy \in SUBSET (mnt \ {"dev"}) :
              /\ jams' = jams \/ Jam
              /\ stuck' = busy
              /\ mnt' = Pinned(busy \cup (mnt \cap {"dev"}))
        BY <3>0a DEF CleanupMounts
      <4>2. jams' \in 0..MaxTrouble
        BY <4>1, BoundsNatural DEF Jam, Trouble
      <4>3. mnt' \subseteq mnt
        BY <4>1 DEF Pinned
      <4> QED
        BY <3>0a, <4>1, <4>2, <4>3 DEF CleanupMounts
    <3>0b. CASE SSHDTest(c)
      <4>1. jams' \in 0..MaxTrouble
        BY <3>0b, BoundsNatural DEF SSHDTest, UmountDev, Jam, Trouble
      <4> QED
        BY <3>0b, <4>1 DEF SSHDTest, UmountDev
    <3>1. CASE SelectDisksStep(c) \/ PartitionRootBusy(c) \/ CreateUsersRejects(c)
      BY <3>1 DEF SelectDisksStep, PartitionRootBusy, CreateUsersRejects
    <3>2. CASE MountRoot(c) \/ MountVar(c) \/ MountUsr(c) \/ MountESP(c)
               \/ MountBulk(c) \/ BindDev(c)
      BY <3>2 DEF MountRoot, MountVar, MountUsr, MountESP, MountBulk, BindDev,
                  Mount, MountPoints
    <3>3. CASE PartitionRoot(c) \/ PartitionBulk(c)
      BY <3>3, <2>0, BlankTargetType DEF PartitionRoot, PartitionBulk
    <3>4. CASE MkfsBulk(c)
      BY <3>4, <2>0 DEF MkfsBulk
    <3>5. CASE DeployUsrContent(c)
      BY <3>5, <2>0 DEF DeployUsrContent, TargetType, Artifacts
    <3>6. CASE WriteBulkMountUnit(c)
      <4>1. tgt' \in [Disks -> TargetType]
        BY <3>6, <2>0, WithTypes DEF WriteBulkMountUnit
      <4> QED
        BY <3>6, <4>1 DEF WriteBulkMountUnit
    <3>7. CASE RunPreBoot(c)
      <4>1. tgt' \in [Disks -> TargetType] /\ ans' \in Names \cup {NoUser}
        BY <3>7, <2>0, WithTypes DEF RunPreBoot
      <4> QED
        BY <3>7, <4>1 DEF RunPreBoot
    <3>8. CASE CreateUsers(c)
      <4>1. tgt' \in [Disks -> TargetType]
        BY <3>8, <2>0, WithTypes DEF CreateUsers
      <4> QED
        BY <3>8, <4>1 DEF CreateUsers
    <3>9. CASE MarkDone(c)
      <4>1. tgt' \in [Disks -> TargetType]
        BY <3>9, <2>0 DEF MarkDone, TargetType
      <4> QED
        BY <3>9, <4>1 DEF MarkDone
    <3>10. ASSUME NEW mps, NEW items \in SUBSET Artifacts PROVE
             Written(mps, items) \in [Disks -> TargetType]
      BY <2>0 DEF Written, TargetType
    <3>11. CASE EnsureFHSSymlinks(c) \/ DeployUKI(c) \/ InstallBootloader(c)
                \/ NetconfConfigure(c) \/ SSHConfigure(c) \/ SetupPreBoot(c)
                \/ ApplyPresets(c) \/ SetDefaultTarget(c)
      BY <3>11, <3>10 DEF EnsureFHSSymlinks, DeployUKI, InstallBootloader,
           NetconfConfigure, SSHConfigure, SetupPreBoot, ApplyPresets,
           SetDefaultTarget, WriteStep, Artifacts
    <3> QED
      BY <2>5, <3>0a, <3>0b, <3>1, <3>2, <3>3, <3>4, <3>5, <3>6, <3>7, <3>8, <3>9, <3>11
      DEF RunStep
  <2> QED
    BY <2>1, <2>2, <2>3, <2>4, <2>5 DEF Next
<1> QED
  BY <1>1, <1>2

(* Type correctness of the installer model. *)
THEOREM TypeCorrect == Spec => []TypeOK
  BY TypeInductive, PTL DEF Spec

---------------------------------------------------------------------------

(* The wrapper's flock and its .ran file admit one installer at a time. *)
LEMMA WrapperInductive ==
  ASSUME TypeOK, WrapperInv, OneInstaller, [Next]_vars
  PROVE  WrapperInv' /\ OneInstaller'
<1> USE ConstantsDistinct DEF TypeOK, WrapperInv, OneInstaller, Running, InWrapper,
        Goto, live, mounts, counts, Steps, WrapperStates
<1>1. CASE UNCHANGED vars
  BY <1>1 DEF vars
<1>2. CASE Reset
  BY <1>2 DEF Reset
<1>3. ASSUME NEW c \in Consoles, Login(c) PROVE WrapperInv' /\ OneInstaller'
  BY <1>3 DEF Login
<1>4. ASSUME NEW c \in Consoles, CheckRan(c) PROVE WrapperInv' /\ OneInstaller'
  BY <1>4 DEF CheckRan
<1>5. ASSUME NEW c \in Consoles, StartInstaller(c)
      PROVE  WrapperInv' /\ OneInstaller'
  BY <1>5 DEF StartInstaller
<1>6. ASSUME NEW c \in Consoles, Logout(c) PROVE WrapperInv' /\ OneInstaller'
  BY <1>6 DEF Logout
<1>7. ASSUME NEW c \in Consoles, Retry(c) PROVE WrapperInv' /\ OneInstaller'
  BY <1>7 DEF Retry
<1>8. ASSUME NEW c \in Consoles, Fault(c) \/ Kill(c)
      PROVE  WrapperInv' /\ OneInstaller'
  BY <1>8 DEF Fault, Kill
<1>9. ASSUME NEW c \in Consoles, RunStep(c) PROVE WrapperInv' /\ OneInstaller'
  BY <1>9, RunStepShape
<1> QED
  BY <1>1, <1>2, <1>3, <1>4, <1>5, <1>6, <1>7, <1>8, <1>9
  DEF Next, WrapperStep

(* The part of the invariant that speaks of finished targets. *)
Finished == Stage1Complete /\ BulkMountsAtBoot /\ RefusedUntouched

(* A step that leaves the disks alone keeps Finished. *)
LEMMA DisksUnchanged ==
  ASSUME Finished, tgt' = tgt, fs' = fs PROVE Finished'
  BY DEF Finished, Stage1Complete, BulkMountsAtBoot, RefusedUntouched

(* Steps outside installer.Run start a run, end one or do not matter to it. *)
LEMMA OutsideRun ==
  ASSUME IInv, NEW c \in Consoles,
         WrapperStep(c) \/ Logout(c) \/ Retry(c) \/ Fault(c) \/ Kill(c)
  PROVE  Progress' /\ Finished'
<1> USE DEF IInv, TypeOK, Goto, live, mounts, counts
<1>1. Finished'
  BY DisksUnchanged DEF Finished, WrapperStep, Login, CheckRan, StartInstaller,
       Logout, Retry, Fault, Kill
<1>2. CASE WrapperStep(c) \/ Logout(c) \/ Retry(c)
  <2>1. UNCHANGED <<mnt, choice, ans, tgt, fs>>
    BY <1>2 DEF WrapperStep, Login, CheckRan, StartInstaller, Logout, Retry
  <2>2. ASSUME NEW d \in Consoles, Running(d)'
        PROVE  pc'[d] = pc[d] \/ pc'[d] = "CleanupMounts"
    BY <1>2, <2>2 DEF WrapperStep, Login, CheckRan, StartInstaller, Logout, Retry,
         Running, Steps
  <2>3. ASSUME NEW k, DoneBy(k) PROVE DoneBy(k)'
    BY <2>1, <2>3 DEF DoneBy, MountedBy, WrittenBy, BulkBy, UserBy, Root, Bulk
  <2>4. DoneBy(1)'
    BY DEF DoneBy, MountedBy, WrittenBy, BulkBy, UserBy
  <2> QED
    BY <1>1, <2>2, <2>3, <2>4 DEF Progress, Running, Rank
<1>3. CASE Fault(c) \/ Kill(c)
  <2>1. \A d \in Consoles : ~Running(d)'
    BY <1>3 DEF Fault, Kill, Running, OneInstaller, Steps
  <2> QED
    BY <1>1, <2>1 DEF Progress
<1> QED
  BY <1>2, <1>3

(* Writing to a root disk that carries no marker, and leaving it without   *)
(* one, disturbs no finished target and no protected disk.                 *)
LEMMA RootEdited ==
  ASSUME IInv, ~tgt[Root].stage1, fs' = fs,
         NEW t, ~t.stage1, tgt' = [tgt EXCEPT ![Root] = t]
  PROVE  Finished'
<1>1. /\ Root \in Disks
      /\ ~Machine[Root].ro
      /\ Root # bootDiskName(Machine, BootDevice)
      /\ Machine[Root].type = "disk"
  BY ChoiceFacts DEF IInv, TypeOK, Root
<1>3. \A d \in Disks : tgt'[d].stage1 => tgt'[d] = tgt[d] /\ tgt[d].stage1
  BY <1>1 DEF IInv, TypeOK
<1> QED
  BY <1>1, <1>3 DEF Finished, IInv, TypeOK, Stage1Complete, BulkMountsAtBoot,
       RefusedUntouched

(* Steps of Run that change no disk: reads, mounts, refusals. *)
LEMMA RunReads ==
  ASSUME IInv, NEW c \in Consoles,
         \/ CleanupMounts(c) \/ SelectDisksStep(c) \/ PartitionRootBusy(c)
         \/ MountRoot(c) \/ MountVar(c) \/ MountUsr(c) \/ MountESP(c)
         \/ MountBulk(c) \/ CreateUsersRejects(c) \/ BindDev(c) \/ SSHDTest(c)
  PROVE  Progress' /\ Finished'
<1> USE DEF IInv, TypeOK, Goto, live, mounts, counts
<1>0. RunStep(c)
  BY DEF RunStep
<1>1. Finished'
  BY DisksUnchanged DEF Finished, CleanupMounts, SelectDisksStep,
       PartitionRootBusy, MountRoot, MountVar, MountUsr, MountESP, MountBulk,
       CreateUsersRejects, BindDev, SSHDTest, Mount
<1>2. \A d \in Consoles : Running(d)' => d = c
  BY <1>0, RunStepShape DEF OneInstaller, Running
<1>3. DoneBy(Rank(pc[c]))
  BY <1>0, RunStepShape DEF Progress
<1>4. SUFFICES ASSUME Running(c)' PROVE DoneBy(Rank(pc[c]))'
  BY <1>1, <1>2 DEF Progress
<1> USE DEF DoneBy, MountedBy, WrittenBy, BulkBy, UserBy, Root, Bulk
<1>5. CASE CleanupMounts(c)
  <2>1. Rank(pc[c])' = 2
    BY <1>5 DEF CleanupMounts, Rank
  <2> QED
    BY <2>1
<1>6. CASE SelectDisksStep(c)
  <2>1. Rank(pc[c])' = 3
    BY <1>6 DEF SelectDisksStep, Rank
  <2> QED
    BY <2>1
<1>7. CASE PartitionRootBusy(c) \/ CreateUsersRejects(c)
  BY <1>7, <1>4 DEF PartitionRootBusy, CreateUsersRejects, Running, Steps
<1>8. CASE MountRoot(c)
  <2>1. Rank(pc[c]) = 5 /\ Rank(pc[c])' = 6
    BY <1>8 DEF MountRoot, Mount, Rank
  <2> QED
    BY <1>3, <1>8, <2>1 DEF MountRoot, Mount
<1>9. CASE MountVar(c)
  <2>1. Rank(pc[c]) = 6 /\ Rank(pc[c])' = 7
    BY <1>9 DEF MountVar, Mount, Rank
  <2> QED
    BY <1>3, <1>9, <2>1 DEF MountVar, Mount
<1>10. CASE MountUsr(c)
  <2>1. Rank(pc[c]) = 7 /\ Rank(pc[c])' = 8
    BY <1>10 DEF MountUsr, Mount, Rank
  <2> QED
    BY <1>3, <1>10, <2>1 DEF MountUsr, Mount
<1>11. CASE MountESP(c)
  <2>1. Rank(pc[c]) = 9 /\ Rank(pc[c])' = 10
    BY <1>11 DEF MountESP, Mount, Rank
  <2> QED
    BY <1>3, <1>11, <2>1 DEF MountESP, Mount
<1>12. CASE MountBulk(c)
  <2>1. Rank(pc[c]) = 14 /\ Rank(pc[c])' = 15
    BY <1>12 DEF MountBulk, Mount, Rank
  <2> QED
    BY <1>3, <1>12, <2>1 DEF MountBulk, Mount
<1>13. CASE BindDev(c)
  <2>1. Rank(pc[c]) = 20 /\ Rank(pc[c])' = 21
    BY <1>13 DEF BindDev, Mount, Rank
  <2> QED
    BY <1>3, <1>13, <2>1 DEF BindDev, Mount
<1>14. CASE SSHDTest(c)
  <2>1. Rank(pc[c]) = 21 /\ Rank(pc[c])' = 22
    BY <1>14 DEF SSHDTest, Rank
  <2>2. mnt \ {"dev"} \subseteq mnt'
    BY <1>14 DEF SSHDTest, UmountDev
  <2> QED
    BY <1>3, <1>14, <2>1, <2>2 DEF SSHDTest
<1> QED
  BY <1>5, <1>6, <1>7, <1>8, <1>9, <1>10, <1>11, <1>12, <1>13, <1>14

(* What Written does to the target of the running installer. *)
LEMMA WrittenFacts ==
  ASSUME TypeOK, NEW mps, NEW items
  PROVE  LET t == Written(mps, items)[Root] IN
         /\ Written(mps, items) = [tgt EXCEPT ![Root] = t]
         /\ tgt[Root].has \subseteq t.has
         /\ mps \subseteq mnt => items \subseteq t.has
         /\ t.stage1 = tgt[Root].stage1
         /\ t.unit = tgt[Root].unit
         /\ t.cfgUser = tgt[Root].cfgUser
         /\ t.account = tgt[Root].account
<1>1. Root \in Disks
  BY ChoiceFacts DEF TypeOK, Root
<1> QED
  BY <1>1 DEF TypeOK, TargetType, Written

(* Steps of Run that only add files to the target. *)
LEMMA RunWritesFiles ==
  ASSUME IInv, NEW c \in Consoles,
         \/ EnsureFHSSymlinks(c) \/ DeployUKI(c) \/ InstallBootloader(c)
         \/ NetconfConfigure(c) \/ SSHConfigure(c) \/ SetupPreBoot(c)
         \/ ApplyPresets(c) \/ SetDefaultTarget(c)
  PROVE  Progress' /\ Finished'
<1> USE DEF IInv, Goto, live, mounts, counts
<1>0. RunStep(c)
  BY DEF RunStep
<1>1. \A d \in Consoles : Running(d)' => d = c
  BY <1>0, RunStepShape DEF OneInstaller, Running, TypeOK
<1>2. DoneBy(Rank(pc[c]))
  BY <1>0, RunStepShape DEF Progress
<1>3. Root' = Root /\ Bulk' = Bulk
  BY <1>0, RunStepShape DEF Root, Bulk
<1>4. ASSUME NEW step, NEW mps, NEW items, NEW next,
             WriteStep(c, step, mps, items, next),
             Rank(step) > 3, next \in Steps, mps \subseteq mnt
      PROVE  /\ Finished'
             /\ UNCHANGED <<mnt, ans, fs>>
             /\ pc[c] = step /\ pc'[c] = next
             /\ tgt[Root].has \subseteq tgt'[Root].has
             /\ items \subseteq tgt'[Root].has
             /\ ~tgt'[Root].stage1
             /\ tgt'[Root].unit = tgt[Root].unit
             /\ tgt'[Root].cfgUser = tgt[Root].cfgUser
             /\ tgt'[Root].account = tgt[Root].account
  <2>1. ~tgt[Root].stage1
    BY <1>2, <1>4 DEF WriteStep, DoneBy
  <2>2. tgt' = Written(mps, items)
    BY <1>4 DEF WriteStep
  <2>3. Finished'
    BY <2>1, <2>2, <1>4, WrittenFacts, RootEdited DEF WriteStep
  <2> QED
    BY <2>1, <2>2, <2>3, <1>4, WrittenFacts DEF WriteStep, TypeOK
<1> USE DEF DoneBy, MountedBy, WrittenBy, BulkBy, UserBy
<1>5. CASE EnsureFHSSymlinks(c)
  <2>1. pc[c] = "EnsureFHSSymlinks" /\ Rank("EnsureFHSSymlinks") = 8 /\ Rank("MountESP") = 9 /\ "MountESP" \in Steps
    BY <1>5 DEF EnsureFHSSymlinks, WriteStep, Rank, Steps
  <2>2. {"root", "usr"} \subseteq mnt
    BY <1>2, <2>1
  <2>3. /\ Finished' /\ UNCHANGED <<mnt, ans, fs>> /\ pc'[c] = "MountESP"
        /\ tgt[Root].has \cup {"fhs"} \subseteq tgt'[Root].has
        /\ ~tgt'[Root].stage1 /\ tgt'[Root].unit = tgt[Root].unit
        /\ tgt'[Root].cfgUser = tgt[Root].cfgUser
        /\ tgt'[Root].account = tgt[Root].account
    BY <1>5, <2>1, <2>2, <1>4 DEF EnsureFHSSymlinks
  <2>4. DoneBy(9)'
    BY <1>2, <1>3, <2>1, <2>3
  <2> QED
    BY <1>1, <2>1, <2>3, <2>4 DEF Progress
<1>6. CASE DeployUKI(c)
  <2>1. pc[c] = "DeployUKI" /\ Rank("DeployUKI") = 10 /\ Rank("InstallBootloader") = 11 /\ "InstallBootloader" \in Steps
    BY <1>6 DEF DeployUKI, WriteStep, Rank, Steps
  <2>2. {"root", "efi"} \subseteq mnt
    BY <1>2, <2>1
  <2>3. /\ Finished' /\ UNCHANGED <<mnt, ans, fs>> /\ pc'[c] = "InstallBootloader"
        /\ tgt[Root].has \cup {"uki"} \subseteq tgt'[Root].has
        /\ ~tgt'[Root].stage1 /\ tgt'[Root].unit = tgt[Root].unit
        /\ tgt'[Root].cfgUser = tgt[Root].cfgUser
        /\ tgt'[Root].account = tgt[Root].account
    BY <1>6, <2>1, <2>2, <1>4 DEF DeployUKI
  <2>4. DoneBy(11)'
    BY <1>2, <1>3, <2>1, <2>3
  <2> QED
    BY <1>1, <2>1, <2>3, <2>4 DEF Progress
<1>7. CASE InstallBootloader(c)
  <2>1. pc[c] = "InstallBootloader" /\ Rank("InstallBootloader") = 11 /\ Rank("PartitionBulk") = 12 /\ "PartitionBulk" \in Steps
    BY <1>7 DEF InstallBootloader, WriteStep, Rank, Steps
  <2>2. {"root", "efi"} \subseteq mnt
    BY <1>2, <2>1
  <2>3. /\ Finished' /\ UNCHANGED <<mnt, ans, fs>> /\ pc'[c] = "PartitionBulk"
        /\ tgt[Root].has \cup {"loader"} \subseteq tgt'[Root].has
        /\ ~tgt'[Root].stage1 /\ tgt'[Root].unit = tgt[Root].unit
        /\ tgt'[Root].cfgUser = tgt[Root].cfgUser
        /\ tgt'[Root].account = tgt[Root].account
    BY <1>7, <2>1, <2>2, <1>4 DEF InstallBootloader
  <2>4. DoneBy(12)'
    BY <1>2, <1>3, <2>1, <2>3
  <2> QED
    BY <1>1, <2>1, <2>3, <2>4 DEF Progress
<1>8. CASE NetconfConfigure(c)
  <2>1. pc[c] = "Netconf" /\ Rank("Netconf") = 16 /\ Rank("RunPreBoot") = 17 /\ "RunPreBoot" \in Steps
    BY <1>8 DEF NetconfConfigure, WriteStep, Rank, Steps
  <2>2. {"root"} \subseteq mnt
    BY <1>2, <2>1
  <2>3. /\ Finished' /\ UNCHANGED <<mnt, ans, fs>> /\ pc'[c] = "RunPreBoot"
        /\ tgt[Root].has \cup {"network"} \subseteq tgt'[Root].has
        /\ ~tgt'[Root].stage1 /\ tgt'[Root].unit = tgt[Root].unit
        /\ tgt'[Root].cfgUser = tgt[Root].cfgUser
        /\ tgt'[Root].account = tgt[Root].account
    BY <1>8, <2>1, <2>2, <1>4 DEF NetconfConfigure
  <2>4. DoneBy(17)'
    BY <1>2, <1>3, <2>1, <2>3
  <2> QED
    BY <1>1, <2>1, <2>3, <2>4 DEF Progress
<1>9. CASE SSHConfigure(c)
  <2>1. pc[c] = "SSHConfigure" /\ Rank("SSHConfigure") = 19 /\ Rank("BindDev") = 20 /\ "BindDev" \in Steps
    BY <1>9 DEF SSHConfigure, WriteStep, Rank, Steps
  <2>2. {"root"} \subseteq mnt
    BY <1>2, <2>1
  <2>3. /\ Finished' /\ UNCHANGED <<mnt, ans, fs>> /\ pc'[c] = "BindDev"
        /\ tgt[Root].has \cup {"ssh"} \subseteq tgt'[Root].has
        /\ ~tgt'[Root].stage1 /\ tgt'[Root].unit = tgt[Root].unit
        /\ tgt'[Root].cfgUser = tgt[Root].cfgUser
        /\ tgt'[Root].account = tgt[Root].account
    BY <1>9, <2>1, <2>2, <1>4 DEF SSHConfigure
  <2>4. DoneBy(20)'
    BY <1>2, <1>3, <2>1, <2>3
  <2> QED
    BY <1>1, <2>1, <2>3, <2>4 DEF Progress
<1>10. CASE SetupPreBoot(c)
  <2>1. pc[c] = "SetupPreBoot" /\ Rank("SetupPreBoot") = 22 /\ Rank("ApplyPresets") = 23 /\ "ApplyPresets" \in Steps
    BY <1>10 DEF SetupPreBoot, WriteStep, Rank, Steps
  <2>2. {"root", "usr"} \subseteq mnt
    BY <1>2, <2>1
  <2>3. /\ Finished' /\ UNCHANGED <<mnt, ans, fs>> /\ pc'[c] = "ApplyPresets"
        /\ tgt[Root].has \cup {"firewall"} \subseteq tgt'[Root].has
        /\ ~tgt'[Root].stage1 /\ tgt'[Root].unit = tgt[Root].unit
        /\ tgt'[Root].cfgUser = tgt[Root].cfgUser
        /\ tgt'[Root].account = tgt[Root].account
    BY <1>10, <2>1, <2>2, <1>4 DEF SetupPreBoot
  <2>4. DoneBy(23)'
    BY <1>2, <1>3, <2>1, <2>3
  <2> QED
    BY <1>1, <2>1, <2>3, <2>4 DEF Progress
<1>11. CASE ApplyPresets(c)
  <2>1. pc[c] = "ApplyPresets" /\ Rank("ApplyPresets") = 23 /\ Rank("SetDefaultTarget") = 24 /\ "SetDefaultTarget" \in Steps
    BY <1>11 DEF ApplyPresets, WriteStep, Rank, Steps
  <2>2. {"root", "usr"} \subseteq mnt
    BY <1>2, <2>1
  <2>3. /\ Finished' /\ UNCHANGED <<mnt, ans, fs>> /\ pc'[c] = "SetDefaultTarget"
        /\ tgt[Root].has \cup {"presets", "wants"} \subseteq tgt'[Root].has
        /\ ~tgt'[Root].stage1 /\ tgt'[Root].unit = tgt[Root].unit
        /\ tgt'[Root].cfgUser = tgt[Root].cfgUser
        /\ tgt'[Root].account = tgt[Root].account
    BY <1>11, <2>1, <2>2, <1>4 DEF ApplyPresets
  <2>4. DoneBy(24)'
    BY <1>2, <1>3, <2>1, <2>3
  <2> QED
    BY <1>1, <2>1, <2>3, <2>4 DEF Progress
<1>12. CASE SetDefaultTarget(c)
  <2>1. pc[c] = "SetDefaultTarget" /\ Rank("SetDefaultTarget") = 24 /\ Rank("MarkDone") = 25 /\ "MarkDone" \in Steps
    BY <1>12 DEF SetDefaultTarget, WriteStep, Rank, Steps
  <2>2. {"root"} \subseteq mnt
    BY <1>2, <2>1
  <2>3. /\ Finished' /\ UNCHANGED <<mnt, ans, fs>> /\ pc'[c] = "MarkDone"
        /\ tgt[Root].has \cup {"default.target"} \subseteq tgt'[Root].has
        /\ ~tgt'[Root].stage1 /\ tgt'[Root].unit = tgt[Root].unit
        /\ tgt'[Root].cfgUser = tgt[Root].cfgUser
        /\ tgt'[Root].account = tgt[Root].account
    BY <1>12, <2>1, <2>2, <1>4 DEF SetDefaultTarget
  <2>4. DoneBy(25)'
    BY <1>2, <1>3, <2>1, <2>3
  <2> QED
    BY <1>1, <2>1, <2>3, <2>4 DEF Progress
<1> QED
  BY <1>5, <1>6, <1>7, <1>8, <1>9, <1>10, <1>11, <1>12

(* The other steps of Run that fill the target: the usr image, the bulk    *)
(* mount unit, the wizard's answers and the accounts.                      *)
LEMMA RunFillsTarget ==
  ASSUME IInv, NEW c \in Consoles,
         \/ DeployUsrContent(c) \/ WriteBulkMountUnit(c)
         \/ RunPreBoot(c) \/ CreateUsers(c)
  PROVE  Progress' /\ Finished'
<1> USE DEF IInv, Goto, live, mounts, counts
<1>0. RunStep(c)
  BY DEF RunStep
<1>1. \A d \in Consoles : Running(d)' => d = c
  BY <1>0, RunStepShape DEF OneInstaller, Running, TypeOK
<1>2. DoneBy(Rank(pc[c]))
  BY <1>0, RunStepShape DEF Progress
<1>3. Root' = Root /\ Bulk' = Bulk
  BY <1>0, RunStepShape DEF Root, Bulk
<1>4. Root \in Disks /\ tgt[Root] \in TargetType
  BY ChoiceFacts DEF Root, TypeOK
<1> USE DEF DoneBy, MountedBy, WrittenBy, BulkBy, UserBy
<1>5. CASE DeployUsrContent(c)
  <2>1. pc[c] = "DeployUsrContent" /\ Rank(pc[c]) = 4 /\ Rank(pc[c])' = 5
    BY <1>5 DEF DeployUsrContent, Rank, TypeOK
  <2> DEFINE t == [tgt[Root] EXCEPT !.has = @ \cup {"usr"}]
  <2>2. tgt' = [tgt EXCEPT ![Root] = t] /\ fs' = fs
    BY <1>5, <1>4 DEF DeployUsrContent, TypeOK
  <2>3. ~tgt[Root].stage1 /\ t.stage1 = tgt[Root].stage1 /\ "usr" \in t.has
    BY <1>2, <1>4, <2>1 DEF TargetType
  <2>4. Finished'
    BY <2>2, <2>3, RootEdited
  <2>5. DoneBy(5)'
    BY <1>3, <1>4, <2>2, <2>3 DEF TypeOK
  <2> QED
    BY <1>1, <2>1, <2>4, <2>5 DEF Progress
<1>6. CASE WriteBulkMountUnit(c)
  <2>1. pc[c] = "WriteBulkMountUnit" /\ Rank(pc[c]) = 15 /\ Rank(pc[c])' = 16
    BY <1>6 DEF WriteBulkMountUnit, Rank, TypeOK
  <2> DEFINE t == WithUnit(tgt[Root], fs[Bulk])
  <2>2. tgt' = [tgt EXCEPT ![Root] = t] /\ UNCHANGED <<fs, mnt, ans>>
    BY <1>6, <1>2, <2>1, <1>4 DEF WriteBulkMountUnit, TypeOK
  <2>3. /\ ~t.stage1 /\ ~tgt[Root].stage1 /\ t.unit = fs[Bulk]
        /\ t.has = tgt[Root].has \cup {"wants"}
    BY <1>2, <1>4, <2>1 DEF TargetType, WithUnit
  <2>4. Finished'
    BY <2>2, <2>3, RootEdited
  <2>5. DoneBy(16)'
    BY <1>2, <1>3, <1>4, <2>1, <2>2, <2>3 DEF TypeOK
  <2> QED
    BY <1>1, <2>1, <2>4, <2>5 DEF Progress
<1>7. CASE RunPreBoot(c)
  <2>1. pc[c] = "RunPreBoot" /\ Rank(pc[c]) = 17 /\ Rank(pc[c])' = 18
    BY <1>7 DEF RunPreBoot, Rank, TypeOK
  <2> DEFINE t == WithConfig(tgt[Root], ans')
  <2>2. tgt' = [tgt EXCEPT ![Root] = t] /\ UNCHANGED <<fs, mnt>>
    BY <1>7, <1>2, <2>1, <1>4 DEF RunPreBoot, TypeOK
  <2>3. /\ ~t.stage1 /\ ~tgt[Root].stage1 /\ t.cfgUser = ans'
        /\ t.unit = tgt[Root].unit /\ t.has = tgt[Root].has \cup {"config"}
    BY <1>2, <1>4, <2>1 DEF TargetType, WithConfig
  <2>4. Finished'
    BY <2>2, <2>3, RootEdited
  <2>5. DoneBy(18)'
    BY <1>2, <1>3, <1>4, <2>1, <2>2, <2>3 DEF TypeOK
  <2> QED
    BY <1>1, <2>1, <2>4, <2>5 DEF Progress
<1>8. CASE CreateUsers(c)
  <2>1. pc[c] = "CreateUsers" /\ Rank(pc[c]) = 18 /\ Rank(pc[c])' = 19
    BY <1>8 DEF CreateUsers, Rank, TypeOK
  <2> DEFINE t == WithAccount(tgt[Root], ans)
  <2>2. tgt' = [tgt EXCEPT ![Root] = t] /\ UNCHANGED <<fs, mnt, ans>>
    BY <1>8, <1>2, <2>1, <1>4 DEF CreateUsers, TypeOK
  <2>3. /\ ~t.stage1 /\ ~tgt[Root].stage1 /\ t.account = ans
        /\ t.cfgUser = tgt[Root].cfgUser /\ ans \in GoodNames
        /\ t.unit = tgt[Root].unit /\ t.has = tgt[Root].has \cup {"accounts"}
    BY <1>8, <1>2, <1>4, <2>1 DEF TargetType, WithAccount, CreateUsers
  <2>4. Finished'
    BY <2>2, <2>3, RootEdited
  <2>5. DoneBy(19)'
    BY <1>2, <1>3, <1>4, <2>1, <2>2, <2>3 DEF TypeOK
  <2> QED
    BY <1>1, <2>1, <2>4, <2>5 DEF Progress
<1> QED
  BY <1>5, <1>6, <1>7, <1>8

(* The steps that wipe and format, and the one that sets the marker. *)
LEMMA RunWipesAndMarks ==
  ASSUME IInv, NEW c \in Consoles,
         PartitionRoot(c) \/ PartitionBulk(c) \/ MkfsBulk(c) \/ MarkDone(c)
  PROVE  Progress' /\ Finished'
<1> USE DEF IInv, Goto, live, mounts, counts
<1>0. RunStep(c)
  BY DEF RunStep
<1>1. \A d \in Consoles : Running(d)' => d = c
  BY <1>0, RunStepShape DEF OneInstaller, Running, TypeOK
<1>2. DoneBy(Rank(pc[c]))
  BY <1>0, RunStepShape DEF Progress
<1>3. Root' = Root /\ Bulk' = Bulk
  BY <1>0, RunStepShape DEF Root, Bulk
<1>4. /\ Root \in Disks /\ Bulk \in Disks /\ Root # Bulk
      /\ <<Root, Bulk>> \in Choices
      /\ tgt[Root] \in TargetType
  BY ChoiceFacts DEF Root, Bulk, TypeOK
<1>5. \A d \in {Root, Bulk} : /\ ~Machine[d].ro
                              /\ Machine[d].type = "disk"
                              /\ d # bootDiskName(Machine, BootDevice)
  BY ChoiceFacts DEF Root, Bulk, TypeOK
<1>6. \A d, b \in Disks :
        BulkSafe(d) /\ <<d, b>> \in Choices /\ b \in {Root, Bulk} => d = Root
  <2> SUFFICES ASSUME NEW d \in Disks, NEW b \in Disks, BulkSafe(d),
                      <<d, b>> \in Choices, b \in {Root, Bulk}
               PROVE  d = Root
    OBVIOUS
  <2>1. choice \in Choices /\ choice[1] = Root /\ choice[2] = Bulk
    BY DEF TypeOK, Root, Bulk
  <2> QED
    BY <2>1 DEF BulkSafe
<1> USE DEF DoneBy, MountedBy, WrittenBy, BulkBy, UserBy
<1>7. CASE PartitionRoot(c)
  <2>1. Rank(pc[c])' = 4
    BY <1>7 DEF PartitionRoot, Rank, TypeOK
  <2>2. tgt' = [tgt EXCEPT ![Root] = BlankTarget] /\ fs' = [fs EXCEPT ![Root] = 0]
    BY <1>7 DEF PartitionRoot
  <2>3. ~BlankTarget.stage1
    BY DEF BlankTarget
  <2>a. Stage1Complete'
    BY <1>4, <2>2, <2>3 DEF TypeOK, Stage1Complete
  <2>b. BulkMountsAtBoot'
    <3> SUFFICES ASSUME NEW d \in Disks, tgt'[d].stage1
                 PROVE  /\ "wants" \in tgt'[d].has /\ tgt'[d].unit # 0
                        /\ BulkSafe(d) => \E b \in Disks :
                             <<d, b>> \in Choices /\ fs'[b] = tgt'[d].unit
      BY DEF BulkMountsAtBoot
    <3>1. d # Root /\ tgt'[d] = tgt[d]
      BY <1>4, <2>2, <2>3 DEF TypeOK
    <3>2. /\ "wants" \in tgt[d].has /\ tgt[d].unit # 0
          /\ BulkSafe(d) => \E b \in Disks : <<d, b>> \in Choices /\ fs[b] = tgt[d].unit
      BY <3>1 DEF BulkMountsAtBoot
    <3>3. ASSUME BulkSafe(d) PROVE \E b \in Disks : <<d, b>> \in Choices /\ fs'[b] = tgt'[d].unit
      <4>1. PICK b \in Disks : <<d, b>> \in Choices /\ fs[b] = tgt[d].unit
        BY <3>2, <3>3
      <4>2. b # Root /\ fs'[b] = fs[b]
        BY <1>6, <2>2, <3>1, <3>3, <4>1 DEF TypeOK
      <4> QED
        BY <3>1, <4>1, <4>2
    <3> QED
      BY <3>1, <3>2, <3>3
  <2>c. RefusedUntouched'
    BY <1>4, <1>5, <2>2 DEF TypeOK, RefusedUntouched
  <2>4. Finished'
    BY <2>a, <2>b, <2>c DEF Finished
  <2>5. DoneBy(4)'
    BY <1>3, <1>4, <2>2, <2>3 DEF TypeOK
  <2> QED
    BY <1>1, <2>1, <2>4, <2>5 DEF Progress
<1>8. CASE PartitionBulk(c)
  <2>1. pc[c] = "PartitionBulk" /\ Rank(pc[c]) = 12 /\ Rank(pc[c])' = 13
    BY <1>8 DEF PartitionBulk, Rank, TypeOK
  <2>2. /\ tgt' = [tgt EXCEPT ![Bulk] = BlankTarget]
        /\ fs' = [fs EXCEPT ![Bulk] = 0]
        /\ UNCHANGED <<mnt, ans>>
    BY <1>8 DEF PartitionBulk
  <2>3. ~BlankTarget.stage1 /\ ~tgt[Root].stage1
    BY <1>2, <2>1 DEF BlankTarget
  <2>4. Finished'
    BY <1>4, <1>5, <1>6, <2>2, <2>3 DEF Finished, TypeOK, Stage1Complete,
         BulkMountsAtBoot, RefusedUntouched
  <2>5. DoneBy(13)'
    BY <1>2, <1>3, <1>4, <2>1, <2>2, <2>3 DEF TypeOK
  <2> QED
    BY <1>1, <2>1, <2>4, <2>5 DEF Progress
<1>9. CASE MkfsBulk(c)
  <2>1. pc[c] = "MkfsBulk" /\ Rank(pc[c]) = 13 /\ Rank(pc[c])' = 14
    BY <1>9 DEF MkfsBulk, Rank, TypeOK
  <2>2. /\ tgt' = tgt /\ fs' = [fs EXCEPT ![Bulk] = mkfs + 1]
        /\ UNCHANGED <<mnt, ans>> /\ mkfs + 1 # 0
    BY <1>9 DEF MkfsBulk, TypeOK
  <2>3. ~tgt[Root].stage1
    BY <1>2, <2>1
  <2>4. Finished'
    BY <1>4, <1>5, <1>6, <2>2, <2>3 DEF Finished, TypeOK, Stage1Complete,
         BulkMountsAtBoot, RefusedUntouched
  <2>5. DoneBy(14)'
    BY <1>2, <1>3, <1>4, <2>1, <2>2, <2>3 DEF TypeOK
  <2> QED
    BY <1>1, <2>1, <2>4, <2>5 DEF Progress
<1>10. CASE MarkDone(c)
  <2>1. pc[c] = "MarkDone" /\ Rank(pc[c]) = 25 /\ ~Running(c)'
    BY <1>10 DEF MarkDone, Rank, TypeOK, Running, Steps
  <2> DEFINE t == [tgt[Root] EXCEPT !.stage1 = TRUE]
  <2>2. tgt' = [tgt EXCEPT ![Root] = t] /\ fs' = fs
    BY <1>10, <1>2, <1>4, <2>1 DEF MarkDone, TypeOK
  <2>3. /\ t.has = Artifacts /\ t.account = t.cfgUser /\ t.account \in GoodNames
        /\ t.unit # 0 /\ t.unit = fs[Bulk]
    BY <1>2, <1>4, <2>1 DEF TargetType, Artifacts
  <2>4. "wants" \in Artifacts
    BY DEF Artifacts
  <2>5. Stage1Complete'
    BY <1>4, <2>2, <2>3 DEF Stage1Complete, TypeOK
  <2>6. BulkMountsAtBoot'
    BY <1>4, <2>2, <2>3, <2>4 DEF BulkMountsAtBoot, TypeOK
  <2>7. RefusedUntouched'
    BY <1>4, <1>5, <2>2 DEF RefusedUntouched, TypeOK
  <2> QED
    BY <1>1, <2>1, <2>5, <2>6, <2>7 DEF Progress, Finished
<1> QED
  BY <1>7, <1>8, <1>9, <1>10

(* IInv holds initially. *)
LEMMA InvInit == Init => IInv
<1> SUFFICES ASSUME Init PROVE IInv
  OBVIOUS
<1>1. TypeOK
  BY TypeInductive
<1>2. \A c \in Consoles : pc[c] = "off"
  BY DEF Init
<1>3. WrapperInv /\ OneInstaller /\ Progress
  BY <1>2 DEF Init, WrapperInv, OneInstaller, Progress, Running, InWrapper, Steps
<1>4. Stage1Complete /\ BulkMountsAtBoot /\ RefusedUntouched
  BY DEF Init, Stage1Complete, BulkMountsAtBoot, RefusedUntouched, BlankTarget
<1> QED
  BY <1>1, <1>3, <1>4 DEF IInv

(* Every step preserves IInv. *)
LEMMA InvStep == IInv /\ [Next]_vars => IInv'
<1> SUFFICES ASSUME IInv, [Next]_vars PROVE IInv'
  OBVIOUS
<1>1. TypeOK' /\ WrapperInv' /\ OneInstaller'
  BY TypeInductive, WrapperInductive DEF IInv
<1>2. CASE UNCHANGED vars
  BY <1>1, <1>2 DEF vars, IInv, Progress, Running, DoneBy, MountedBy, WrittenBy,
       BulkBy, UserBy, Root, Bulk, Stage1Complete, BulkMountsAtBoot,
       RefusedUntouched
<1>3. CASE Reset
  <2>1. Progress'
    BY <1>3 DEF Reset, Progress, Running, Steps
  <2>2. Finished'
    BY <1>3, DisksUnchanged DEF Reset, IInv, Finished
  <2> QED
    BY <1>1, <2>1, <2>2 DEF IInv, Finished
<1>4. ASSUME NEW c \in Consoles,
             WrapperStep(c) \/ Logout(c) \/ Retry(c) \/ Fault(c) \/ Kill(c)
      PROVE  Progress' /\ Finished'
  BY <1>4, OutsideRun
<1>5. ASSUME NEW c \in Consoles, RunStep(c)
      PROVE  Progress' /\ Finished'
  BY <1>5, RunReads, RunWritesFiles, RunFillsTarget, RunWipesAndMarks DEF RunStep
<1> QED
  BY <1>1, <1>2, <1>3, <1>4, <1>5 DEF Next, IInv, Finished

(* However the consoles race and whatever fails, at most one installer     *)
(* runs (slfhst-console-wrapper).                                          *)
THEOREM OneInstallerAlways == Spec => []OneInstaller
<1>1. IInv => OneInstaller
  BY DEF IInv
<1> QED
  BY InvInit, InvStep, <1>1, PTL DEF Spec

(* A disk that carries stage1.done holds a whole installation: all of      *)
(* Run's artifacts and an account that is config.json's valid admin_user.  *)
THEOREM MarkerMeansComplete == Spec => []Stage1Complete
<1>1. IInv => Stage1Complete
  BY DEF IInv
<1> QED
  BY InvInit, InvStep, <1>1, PTL DEF Spec

(* On every machine, the mount unit of a disk that carries stage1.done is  *)
(* enabled and names a filesystem; where no tie between equal disks gives  *)
(* its bulk disk to another root disk (BulkSafe), the filesystem is on the *)
(* bulk disk still, through any number of runs (MountBulk, ApplyPresets).  *)
THEOREM MarkerMeansBulk == Spec => []BulkMountsAtBoot
<1>1. IInv => BulkMountsAtBoot
  BY DEF IInv
<1> QED
  BY InvInit, InvStep, <1>1, PTL DEF Spec

(* Where the label is on a whole disk or on a partition of one, no attempt *)
(* writes to that disk or to a read-only one, whichever way SelectDisks    *)
(* breaks its ties.  A label on a device mapped over a partition is what   *)
(* FlatMachine leaves out, and what bootDiskName gets wrong.               *)
THEOREM BootMediumSafe ==
  ASSUME FlatMachine(Machine)
  PROVE  Spec => []BootMediumUntouched
<1>1. IInv => BootMediumUntouched
  <2>1. \/ WholeDisk(Machine, BootDevice) = bootDiskName(Machine, BootDevice)
        \/ Machine[WholeDisk(Machine, BootDevice)].type # "disk"
    BY DevicesListed DEF FlatMachine, WholeDisk, Parent, bootDiskName, Disks
  <2> QED
    BY <2>1 DEF IInv, RefusedUntouched, BootMediumUntouched
<1> QED
  BY InvInit, InvStep, <1>1, PTL DEF Spec

(* The steps of Run after PartitionRoot edit only the run's root disk,     *)
(* which carries no marker, and the wiping steps leave none.               *)
LEMMA MarkedFrozenStep ==
  ASSUME IInv, Next, NEW d \in Disks, tgt[d].stage1, tgt'[d].stage1
  PROVE  tgt'[d] = tgt[d]
<1> USE DEF IInv, Goto, live, mounts, counts
<1>0. /\ Root \in Disks /\ Bulk \in Disks
      /\ ~BlankTarget.stage1
      /\ tgt \in [Disks -> TargetType]
  BY ChoiceFacts DEF Root, Bulk, TypeOK, BlankTarget
<1>1. CASE Reset
  BY <1>1 DEF Reset
<1>2. ASSUME NEW c \in Consoles,
             WrapperStep(c) \/ Logout(c) \/ Retry(c) \/ Fault(c) \/ Kill(c)
      PROVE  tgt' = tgt
  BY <1>2 DEF WrapperStep, Login, CheckRan, StartInstaller, Logout, Retry, Fault,
       Kill
<1>3. ASSUME NEW c \in Consoles, RunStep(c)
      PROVE  tgt'[d] = tgt[d]
  <2>1. Running(c) /\ DoneBy(Rank(pc[c]))
    BY <1>3, RunStepShape DEF Progress
  <2>2. CASE \/ CleanupMounts(c) \/ SelectDisksStep(c) \/ PartitionRootBusy(c)
             \/ MountRoot(c) \/ MountVar(c) \/ MountUsr(c) \/ MountESP(c)
             \/ MountBulk(c) \/ CreateUsersRejects(c) \/ BindDev(c)
             \/ SSHDTest(c) \/ MkfsBulk(c)
    BY <2>2 DEF CleanupMounts, SelectDisksStep, PartitionRootBusy, MountRoot,
         MountVar, MountUsr, MountESP, MountBulk, CreateUsersRejects, BindDev,
         SSHDTest, MkfsBulk, Mount
  <2>3. CASE PartitionRoot(c) \/ PartitionBulk(c)
    BY <1>0, <2>3 DEF PartitionRoot, PartitionBulk
  <2>4. ASSUME Rank(pc[c]) > 3, NEW t, tgt' = [tgt EXCEPT ![Root] = t]
        PROVE  tgt'[d] = tgt[d]
    <3>1. ~tgt[Root].stage1
      BY <2>1, <2>4 DEF DoneBy
    <3> QED
      BY <1>0, <2>4, <3>1
  <2>5. CASE \/ EnsureFHSSymlinks(c) \/ DeployUKI(c) \/ InstallBootloader(c)
             \/ NetconfConfigure(c) \/ SSHConfigure(c) \/ SetupPreBoot(c)
             \/ ApplyPresets(c) \/ SetDefaultTarget(c)
    <3>1. Rank(pc[c]) > 3
      BY <2>5 DEF EnsureFHSSymlinks, DeployUKI, InstallBootloader,
           NetconfConfigure, SSHConfigure, SetupPreBoot, ApplyPresets,
           SetDefaultTarget, WriteStep, Rank
    <3>2. \E mps, items : tgt' = Written(mps, items)
      BY <2>5 DEF EnsureFHSSymlinks, DeployUKI, InstallBootloader,
           NetconfConfigure, SSHConfigure, SetupPreBoot, ApplyPresets,
           SetDefaultTarget, WriteStep
    <3>3. \E t : tgt' = [tgt EXCEPT ![Root] = t]
      BY <3>2, WrittenFacts
    <3> QED
      BY <2>4, <3>1, <3>3
  <2>6. CASE \/ DeployUsrContent(c) \/ WriteBulkMountUnit(c) \/ RunPreBoot(c)
             \/ CreateUsers(c) \/ MarkDone(c)
    <3>1. Rank(pc[c]) > 3
      BY <2>6 DEF DeployUsrContent, WriteBulkMountUnit, RunPreBoot, CreateUsers,
           MarkDone, Rank
    <3>2. tgt' = tgt \/ \E t : tgt' = [tgt EXCEPT ![Root] = t]
      BY <2>6 DEF DeployUsrContent, WriteBulkMountUnit, RunPreBoot, CreateUsers,
           MarkDone
    <3> QED
      BY <2>4, <3>1, <3>2
  <2> QED
    BY <1>3, <2>2, <2>3, <2>5, <2>6 DEF RunStep
<1> QED
  BY <1>1, <1>2, <1>3 DEF Next

(* No later run edits a target that still carries stage1.done. *)
THEOREM MarkedFrozen == Spec => MarkedTargetFrozen
<1>1. IInv /\ [Next]_vars =>
        [\A d \in Disks : tgt[d].stage1 /\ tgt'[d].stage1 => tgt'[d] = tgt[d]]_vars
  BY MarkedFrozenStep
<1> QED
  BY InvInit, InvStep, <1>1, PTL DEF Spec, MarkedTargetFrozen

---------------------------------------------------------------------------

(* CleanStart and LeftOvers hold initially and are preserved: a run unmounts *)
(* before it looks at disks, and mounts nothing until it has partitioned.  *)
LEMMA MountsInductive ==
  /\ Init => MInv
  /\ MInv /\ [Next]_vars => MInv'
<1>1. Init => MInv
  <2> SUFFICES ASSUME Init PROVE MInv
    OBVIOUS
  <2>1. TypeOK /\ WrapperInv /\ OneInstaller
    BY InvInit DEF IInv
  <2> QED
    BY <2>1 DEF Init, MInv, CleanStart, LeftOvers
<1>2. MInv /\ [Next]_vars => MInv'
  <2> SUFFICES ASSUME MInv, [Next]_vars PROVE MInv'
    OBVIOUS
  <2>0. TypeOK' /\ WrapperInv' /\ OneInstaller'
    BY TypeInductive, WrapperInductive DEF MInv
  <2>1. SUFFICES CleanStart' /\ LeftOvers'
    BY <2>0 DEF MInv
  <2> USE DEF MInv, TypeOK, CleanStart, LeftOvers, Goto, live, mounts, counts
  <2>2. CASE UNCHANGED vars
    BY <2>2 DEF vars
  <2>3. CASE Reset
    BY <2>3 DEF Reset
  <2>4. ASSUME NEW c \in Consoles, WrapperStep(c) \/ Logout(c) \/ Retry(c)
        PROVE  CleanStart' /\ LeftOvers'
    BY <2>4 DEF WrapperStep, Login, CheckRan, StartInstaller, Logout, Retry
  <2>5. ASSUME NEW c \in Consoles, Running(c), NEW d \in Consoles, d # c
        PROVE  pc[d] \notin Steps
    BY <2>5 DEF OneInstaller, Running
  <2>6. ASSUME NEW c \in Consoles, Fault(c) \/ Kill(c)
        PROVE  CleanStart' /\ LeftOvers'
    <3>1. CleanStart'
      BY <2>5, <2>6 DEF Fault, Kill, Steps, Running
    <3>2. CASE Fault(c)
      <4>1. CASE pc[c] = "SSHDTest" /\ Jam
        BY <3>1, <3>2, <4>1 DEF Fault, Jam, CountsOK
      <4>2. CASE jams' = jams
        <5>1. stuck' = stuck /\ kills' = kills /\ (mnt' = mnt \/ "dev" \notin mnt')
          BY <3>2 DEF Fault, UmountDev
        <5>2. pc[c] = "SSHDTest" => "dev" \notin mnt'
          BY <3>2, <4>2 DEF Fault, UmountDev, Jam, CountsOK
        <5>3. \A d \in Consoles \ {c} : pc[d] \notin Steps /\ pc'[d] = pc[d]
          BY <2>5, <3>2 DEF Fault, Running
        <5> QED
          BY <3>1, <4>2, <5>1, <5>2, <5>3 DEF Steps
      <4> QED
        BY <3>2, <4>1, <4>2 DEF Fault, UmountDev
    <3>3. CASE Kill(c)
      BY <3>1, <3>3 DEF Kill, CountsOK
    <3> QED
      BY <2>6, <3>2, <3>3
  <2>7. ASSUME NEW c \in Consoles, RunStep(c) PROVE CleanStart' /\ LeftOvers'
    <3>0. /\ \A d \in Consoles \ {c} : pc[d] \notin Steps /\ pc'[d] = pc[d]
          /\ kills' = kills
      BY <2>5, <2>7, RunStepShape
    <3> USE <3>0 DEF Steps
    <3>1. CASE CleanupMounts(c)
      <4>1. PICK busy \in SUBSET (mnt \ {"dev"}) :
              /\ IF busy = {} THEN jams' = jams ELSE Jam
              /\ stuck' = busy
              /\ mnt' = Pinned(busy \cup (mnt \cap {"dev"}))
        BY <3>1 DEF CleanupMounts
      <4>2. CASE busy = {}
        BY <3>1, <4>1, <4>2 DEF CleanupMounts, Pinned
      <4>3. CASE busy # {}
        <5>1. jams' > 0
          BY <4>1, <4>3 DEF Jam, CountsOK
        <5> QED
          BY <3>1, <4>1, <4>3, <5>1 DEF CleanupMounts
      <4> QED
        BY <4>2, <4>3
    <3>2. CASE SelectDisksStep(c) \/ PartitionRoot(c) \/ PartitionRootBusy(c)
               \/ DeployUsrContent(c)
      BY <3>2 DEF SelectDisksStep, PartitionRoot, PartitionRootBusy, DeployUsrContent
    <3>3. CASE MountRoot(c) \/ MountVar(c) \/ MountUsr(c) \/ MountESP(c)
               \/ MountBulk(c)
      BY <3>3 DEF MountRoot, MountVar, MountUsr, MountESP, MountBulk, Mount
    <3>4. CASE BindDev(c)
      BY <3>4 DEF BindDev, Mount
    <3>5. CASE SSHDTest(c)
      <4>1. CASE Jam
        BY <3>5, <4>1 DEF SSHDTest, Jam, CountsOK
      <4>2. CASE mnt' = mnt \ {"dev"} /\ jams' = jams
        BY <3>5, <4>2 DEF SSHDTest
      <4> QED
        BY <3>5, <4>1, <4>2 DEF SSHDTest, UmountDev
    <3>6. CASE EnsureFHSSymlinks(c) \/ DeployUKI(c) \/ InstallBootloader(c)
               \/ NetconfConfigure(c) \/ SSHConfigure(c) \/ SetupPreBoot(c)
               \/ ApplyPresets(c) \/ SetDefaultTarget(c)
      BY <3>6 DEF EnsureFHSSymlinks, DeployUKI, InstallBootloader, NetconfConfigure,
           SSHConfigure, SetupPreBoot, ApplyPresets, SetDefaultTarget, WriteStep
    <3>7. CASE PartitionBulk(c) \/ MkfsBulk(c) \/ WriteBulkMountUnit(c)
      BY <3>7 DEF PartitionBulk, MkfsBulk, WriteBulkMountUnit
    <3>8. CASE RunPreBoot(c) \/ CreateUsers(c) \/ CreateUsersRejects(c) \/ MarkDone(c)
      BY <3>8 DEF RunPreBoot, CreateUsers, CreateUsersRejects, MarkDone
    <3> QED
      BY <2>7, <3>1, <3>2, <3>3, <3>4, <3>5, <3>6, <3>7, <3>8 DEF RunStep
  <2> QED
    BY <2>2, <2>3, <2>4, <2>6, <2>7 DEF Next
<1> QED
  BY <1>1, <1>2

(* However many runs failed before it and wherever they stopped, a run that *)
(* partitions meets mounts of theirs only if one of its own umounts failed *)
(* or /dev is still bound below the target (CleanupMounts,                 *)
(* disks.go:316-329).                                                      *)
THEOREM RetryUnmounts == Spec => []RetryNotBusy
<1>1. MInv => RetryNotBusy
  BY DEF MInv, CleanStart, RetryNotBusy
<1> QED
  BY <1>1, MountsInductive, PTL DEF Spec

(* As long as no run is killed and no umount fails, no run at all finds    *)
(* the root disk in use, whatever else fails: the umount of /dev that      *)
(* ValidateSSHDConfig defers has then run in time (sshauth.go:112).        *)
THEOREM BusyNeedsKillOrJam ==
  Spec => [](kills = 0 /\ jams = 0 => \A c \in Consoles :
               pc[c] = "PartitionRoot" => mnt \cap OnRootDisk = {})
<1>1. MInv => (kills = 0 /\ jams = 0 => \A c \in Consoles :
                 pc[c] = "PartitionRoot" => mnt \cap OnRootDisk = {})
  BY DEF MInv, CleanStart, LeftOvers, OneInstaller, Running, Steps
<1> QED
  BY <1>1, MountsInductive, PTL DEF Spec
=============================================================================
