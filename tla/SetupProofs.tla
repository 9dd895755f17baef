---------------------------- MODULE SetupProofs ----------------------------
(* Proofs about module Setup, for every set of containers and secrets and  *)
(* any number of faults, reboots and dying containers.                     *)
EXTENDS Setup, FiniteSetTheorems, TLAPS

(* The containers that fail to start are counted. *)
LEMMA FailsCounted ==
  ASSUME NEW bad \in SUBSET Containers
  PROVE  Cardinality(bad) \in Nat
  BY ContainersNamed, FS_Subset, FS_CardinalityType

(* The type invariant holds initially and every step preserves it. *)
LEMMA TypeInductive ==
  /\ Init => TypeOK
  /\ TypeOK /\ [Next]_setupVars => TypeOK'
<1> USE SetupBounds, ContainersNamed DEF Generations
<1>1. Init => TypeOK
  <2> SUFFICES ASSUME Init PROVE TypeOK
    OBVIOUS
  <2>1. stage2 \in BOOLEAN
    BY Zenon DEF Init
  <2>2. pc \in SetupSteps \cup {"idle"} /\ todo = {} /\ garage = {}
        /\ wanted = {} /\ lost = {} /\ up = {} /\ refused = {}
    BY Zenon DEF Init
  <2>3. /\ secrets = [k \in Keys |-> 0] /\ rendered = [f \in Files |-> 0]
        /\ loaded = [c \in Containers |-> 0]
    BY Zenon DEF Init
  <2>4. /\ cfg = 0 /\ file = 0 /\ prompted = 0 /\ hardened = 0 /\ dns = 0 /\ motd = 0
        /\ faults = 0 /\ reboots = 0 /\ fails = 0
    BY Zenon DEF Init
  <2> HIDE DEF Init
  <2> QED
    BY <2>1, <2>2, <2>3, <2>4 DEF TypeOK
<1>2. TypeOK /\ [Next]_setupVars => TypeOK'
  <2> SUFFICES ASSUME TypeOK, [Next]_setupVars PROVE TypeOK'
    OBVIOUS
  <2> USE DEF TypeOK, SetupSteps, answers, disk, services, results, budget
  <2>1. CASE UNCHANGED setupVars
    BY <2>1 DEF setupVars
  <2>2. CASE Start \/ FirewallStep \/ SecretsEnsured \/ Rendered \/ PullImages
    BY <2>2 DEF Start, FirewallStep, SecretsEnsured, Rendered, PullImages
  <2>3. CASE Load \/ Prompt \/ SaveOpen \/ SaveWrite
    <3>1. CASE Prompt
      <4>1. prompted + 1 \in Generations
        BY <3>1 DEF Prompt
      <4>2. refused' = refused \/ refused' = refused \cup {prompted + 1}
        BY <3>1, Zenon DEF Prompt
      <4>3. refused' \in SUBSET Generations
        BY <4>1, <4>2
      <4> QED
        BY <3>1, <4>1, <4>3 DEF Prompt
    <3> QED
      BY <2>3, <3>1 DEF Load, SaveOpen, SaveWrite
  <2>4. CASE \E k \in Keys : EnsureSecrets(k)
    BY <2>4 DEF EnsureSecrets
  <2>5. CASE \E f \in Files : RenderFile(f)
    BY <2>5 DEF RenderFile
  <2>6. CASE DaemonReload
    BY <2>6 DEF DaemonReload, Files
  <2>7. CASE StartStack
    <3>1. PICK bad \in SUBSET (wanted' \ up) :
            /\ fails + Cardinality(bad) <= MaxFails
            /\ fails' = fails + Cardinality(bad)
            /\ lost' = {c \in wanted' \ up : Needs[c] \cap bad # {}}
            /\ up' = {c \in wanted' \ (bad \cup lost') : c \in up \/ Startable(c)}
      BY <2>7 DEF StartStack
    <3>2. /\ wanted' \in SUBSET Containers
          /\ up' \in SUBSET wanted' /\ lost' \in SUBSET (wanted' \ up')
      BY <2>7, <3>1 DEF StartStack
    <3>3. fails' \in 0..MaxFails
      BY <3>1, <3>2, FailsCounted
    <3> QED
      BY <2>7, <3>2, <3>3 DEF StartStack
  <2>8. CASE WaitForPostgres \/ WaitForGarage \/ GarageDown \/ HardenGivesUp
    BY <2>8 DEF WaitForPostgres, WaitForGarage, GarageDown, HardenGivesUp
  <2>9. CASE Layout \/ LayoutApply \/ Bucket \/ Key \/ Allow
    BY <2>9 DEF Layout, LayoutApply, Bucket, Key, Allow, GarageCommand, GarageObjects
  <2>10. CASE HardenStalwart \/ DnsSync \/ DnsSyncRefused \/ Healthcheck \/ MarkDone
    BY <2>10 DEF HardenStalwart, DnsSync, DnsSyncRefused, Healthcheck, MarkDone
  <2>11. CASE Fault \/ Reboot
    <3>1. rendered' \in [Files -> Generations]
      BY <2>11 DEF Fault, Reboot, CutShort
    <3>2. CASE Fault
      BY <3>1, <3>2 DEF Fault
    <3>3. CASE Reboot
      <4>1. /\ loaded' \in [Containers -> Generations]
            /\ wanted' \in SUBSET Containers /\ lost' = {} /\ up' = {}
        BY <3>1, <3>3 DEF Reboot, Files
      <4> QED
        BY <3>1, <3>3, <4>1 DEF Reboot
    <3> QED
      BY <2>11, <3>2, <3>3
  <2>12. CASE \E c \in Containers : ContainerStarts(c)
    BY <2>12 DEF ContainerStarts
  <2>13. CASE \E c \in Containers : ContainerStartFails(c)
    <3>1. PICK c \in Containers : ContainerStartFails(c)
      BY <2>13
    <3>2. fails' \in 0..MaxFails
      BY <3>1 DEF ContainerStartFails
    <3>3. up' \in SUBSET wanted /\ lost' \in SUBSET (wanted \ up')
      BY <3>1 DEF ContainerStartFails
    <3> QED
      BY <3>1, <3>2, <3>3 DEF ContainerStartFails
  <2>14. CASE \E c \in Containers : ContainerDies(c)
    BY <2>14 DEF ContainerDies
  <2> QED
    BY <2>1, <2>2, <2>3, <2>4, <2>5, <2>6, <2>7, <2>8, <2>9, <2>10, <2>11, <2>12,
       <2>13, <2>14
       DEF Next, SetupStep
<1> QED
  BY <1>1, <1>2

(* The invariant is inductive: one step per action, or per group of        *)
(* actions that leave the same state alone.                                *)
LEMMA InvInductive ==
  /\ Init => IInv
  /\ IInv /\ [Next]_setupVars => IInv'
<1> USE SetupBounds
<1>1. Init => IInv
  <2> SUFFICES ASSUME Init PROVE IInv
    OBVIOUS
  <2>1. pc = "idle" /\ stage2 = FALSE
    BY Zenon DEF Init
  <2>2. ConfigLoaded /\ LoopsDone /\ CallsDone
    BY <2>1 DEF ConfigLoaded, LoopsDone, CallsDone, Configured, SecretsMade,
       AllRendered, Reloaded, LayoutDone, BucketDone, KeyDone, Synced, SetupSteps
  <2>3. ConfigAgrees
    BY Zenon DEF Init, ConfigAgrees
  <2>4. Stage2Complete
    BY <2>1, Zenon DEF Stage2Complete
  <2> QED
    BY <2>2, <2>3, <2>4, TypeInductive DEF IInv
<1>2. IInv /\ [Next]_setupVars => IInv'
  <2> SUFFICES ASSUME IInv, [Next]_setupVars PROVE IInv'
    OBVIOUS
  <2>0. TypeOK /\ TypeOK'
    BY TypeInductive DEF IInv
  <2> DEFINE Rest == ConfigLoaded /\ LoopsDone /\ CallsDone /\ ConfigAgrees /\ Stage2Complete
  <2>A. Rest
    BY DEF IInv
  <2>B. SUFFICES Rest'
    BY <2>0 DEF IInv
  <2> USE <2>0, <2>A DEF ConfigLoaded, LoopsDone, CallsDone, ConfigAgrees,
     Stage2Complete, Configured, SecretsMade, AllRendered, Reloaded, LayoutDone,
     BucketDone, KeyDone, Synced, SetupSteps, answers, disk, services, results, budget
  <2>1. CASE UNCHANGED setupVars
    BY <2>1 DEF setupVars
  <2>2. CASE Start \/ FirewallStep \/ SecretsEnsured \/ Rendered \/ PullImages
    BY <2>2 DEF Start, FirewallStep, SecretsEnsured, Rendered, PullImages, TypeOK
  <2>3. CASE Load \/ Prompt
    BY <2>3 DEF Load, Prompt, TypeOK, Generations
  <2>4. CASE SaveOpen \/ SaveWrite
    BY <2>4 DEF SaveOpen, SaveWrite, TypeOK, Generations
  <2>5. CASE \E k \in Keys : EnsureSecrets(k)
    BY <2>5 DEF EnsureSecrets, TypeOK
  <2>6. CASE \E f \in Files : RenderFile(f)
    BY <2>6 DEF RenderFile, TypeOK
  <2>7. CASE DaemonReload
    BY <2>7 DEF DaemonReload, Files, TypeOK
  <2>8. CASE StartStack \/ WaitForPostgres \/ WaitForGarage \/ GarageDown
    <3>1. CASE StartStack
      <4>1. /\ pc = "StartStack" /\ pc' = "WaitForPostgres"
            /\ UNCHANGED <<todo, cfg, disk, loaded, results, budget>>
        BY <3>1 DEF StartStack
      <4> QED
        BY <4>1
    <3>2. CASE WaitForPostgres \/ WaitForGarage
      BY <3>2 DEF WaitForPostgres, WaitForGarage
    <3>3. CASE GarageDown
      BY <3>3 DEF GarageDown
    <3> QED
      BY <2>8, <3>1, <3>2, <3>3
  <2>9. CASE Layout \/ LayoutApply \/ Bucket \/ Key \/ Allow
    BY <2>9 DEF Layout, LayoutApply, Bucket, Key, Allow, GarageCommand
  <2>10. CASE HardenStalwart \/ HardenGivesUp \/ DnsSync \/ DnsSyncRefused \/ Healthcheck \/ MarkDone
    BY <2>10 DEF HardenStalwart, HardenGivesUp, DnsSync, DnsSyncRefused, Healthcheck, MarkDone
  <2>11. CASE Fault \/ Reboot
    <3>1. \A f \in Files : rendered'[f] = rendered[f] \/ rendered'[f] = 0
      BY <2>11 DEF Fault, Reboot, CutShort, TypeOK
    <3>2. /\ pc' = "idle"
          /\ UNCHANGED <<file, secrets, garage, hardened, dns, motd, stage2>>
          /\ \A c \in Containers : loaded'[c] \in {loaded[c], rendered'[c]}
      BY <2>11 DEF Fault, Reboot
    <3>3. \A c \in Containers : c \in Files
      BY DEF Files
    <3> QED
      BY <3>1, <3>2, <3>3
  <2>12. CASE \E c \in Containers : ContainerStarts(c) \/ ContainerStartFails(c) \/ ContainerDies(c)
    BY <2>12 DEF ContainerStarts, ContainerStartFails, ContainerDies
  <2> QED
    BY <2>1, <2>2, <2>3, <2>4, <2>5, <2>6, <2>7, <2>8, <2>9, <2>10, <2>11, <2>12
       DEF Next, SetupStep
<1> QED
  BY <1>1, <1>2

(* Every variable of the setup model keeps its type. *)
THEOREM TypeCorrect == Spec => []TypeOK
  BY TypeInductive, PTL DEF Spec

(* However often setup fails, is cut off or is rebooted away from, every   *)
(* secret, rendered file, DNS record and MOTD that any run has derived is  *)
(* derived from the config.json on disk (wizard.RunPostBoot, EnsureSecrets *)
(* and RenderAll).                                                         *)
THEOREM AnswersAgree == Spec => []ConfigAgrees
<1>1. IInv => ConfigAgrees
  BY DEF IInv
<1> QED
  BY <1>1, InvInductive, PTL DEF Spec

(* Behind stage2.done everything that setup.Run makes is in place, and no  *)
(* later run, fault or reboot takes away what it does not touch (Run and   *)
(* config.MarkDone).                                                       *)
THEOREM DoneMeansComplete == Spec => []Stage2Complete
<1>1. IInv => Stage2Complete
  BY DEF IInv
<1> QED
  BY <1>1, InvInductive, PTL DEF Spec

(* No step replaces a config.json that has a domain. *)
LEMMA FileKept ==
  ASSUME IInv, [Next]_setupVars, file \notin {0, Torn}
  PROVE  file' = file
<1>1. ConfigLoaded
  BY DEF IInv
<1> USE DEF answers, disk
<1>0. CASE UNCHANGED setupVars
  BY <1>0 DEF setupVars
<1>2. CASE SaveOpen \/ SaveWrite
  BY <1>1, <1>2 DEF SaveOpen, SaveWrite, ConfigLoaded
<1>3. CASE Start \/ Load \/ Prompt \/ FirewallStep \/ SecretsEnsured \/ Rendered \/ PullImages
  BY <1>3 DEF Start, Load, Prompt, FirewallStep, SecretsEnsured, Rendered, PullImages
<1>4. CASE (\E k \in Keys : EnsureSecrets(k)) \/ (\E f \in Files : RenderFile(f))
  BY <1>4 DEF EnsureSecrets, RenderFile
<1>5. CASE DaemonReload \/ StartStack \/ WaitForPostgres \/ WaitForGarage \/ GarageDown
  BY <1>5 DEF DaemonReload, StartStack, WaitForPostgres, WaitForGarage, GarageDown
<1>6. CASE Layout \/ LayoutApply \/ Bucket \/ Key \/ Allow
  BY <1>6 DEF Layout, LayoutApply, Bucket, Key, Allow, GarageCommand
<1>7. CASE HardenStalwart \/ HardenGivesUp \/ DnsSync \/ DnsSyncRefused \/ Healthcheck \/ MarkDone
  BY <1>7 DEF HardenStalwart, HardenGivesUp, DnsSync, DnsSyncRefused, Healthcheck, MarkDone
<1>8. CASE Fault \/ Reboot \/ \E c \in Containers :
             ContainerStarts(c) \/ ContainerStartFails(c) \/ ContainerDies(c)
  BY <1>8 DEF Fault, Reboot, ContainerStarts, ContainerStartFails, ContainerDies
<1> QED
  BY <1>0, <1>2, <1>3, <1>4, <1>5, <1>6, <1>7, <1>8 DEF Next, SetupStep

(* No step writes a config.json that has a domain: Save is reached only    *)
(* through a Load that found none (wizard.RunPostBoot).                    *)
THEOREM NeverPromptedAgain == Spec => PromptedOnce
<1>1. IInv /\ [Next]_setupVars => [file \notin {0, Torn} => file' = file]_setupVars
  BY FileKept
<1> QED
  BY <1>1, InvInductive, PTL DEF Spec, PromptedOnce

(* A sum of counters stays positive when one of them grows. *)
LEMMA CountsGrow ==
  \A a, b, c, d \in Nat : c <= d /\ a + b + c > 0 => a + b + d > 0
  OBVIOUS

(* ... and is positive if one of them is. *)
LEMMA OneCounted ==
  \A a, b, c \in Nat : a > 0 \/ b > 0 => a + b > 0 /\ a + b + c > 0
  OBVIOUS

(* What a command in the Garage container does, which must be running. *)
LEMMA GarageCommandMakes ==
  ASSUME NEW step, NEW makes, NEW next, GarageCommand(step, makes, next)
  PROVE  /\ pc = step /\ pc' = next /\ garage' = garage \cup makes
         /\ "garage" \in up
         /\ UNCHANGED <<file, wanted, up, fails, faults, reboots>>
  BY DEF GarageCommand, RunError, PodmanExec, answers, disk, services, budget

(* Nothing but a fault, a reboot or a container that dies leaves           *)
(* config.json cut short or the key without its grant.                     *)
LEMMA CutsInductive ==
  /\ Init => CutsCounted
  /\ IInv /\ CutsCounted /\ [Next]_setupVars => CutsCounted'
<1> USE SetupBounds
<1>1. Init => CutsCounted
  <2> SUFFICES ASSUME Init PROVE CutsCounted
    OBVIOUS
  <2>1. pc = "idle" /\ file = 0 /\ garage = {}
    BY Zenon DEF Init
  <2> QED
    BY <2>1 DEF CutsCounted, GrantUnlessCut
<1>2. IInv /\ CutsCounted /\ [Next]_setupVars => CutsCounted'
  <2> SUFFICES ASSUME IInv, CutsCounted, [Next]_setupVars PROVE CutsCounted'
    OBVIOUS
  <2>0. TypeOK /\ TypeOK' /\ ConfigLoaded
    BY TypeInductive DEF IInv
  <2>C. /\ faults \in Nat /\ reboots \in Nat /\ fails \in Nat
        /\ faults' \in Nat /\ reboots' \in Nat /\ fails' \in Nat
        /\ file' \in Generations \cup {Torn} /\ cfg \in Generations
    BY <2>0 DEF TypeOK
  <2> USE <2>C DEF CutsCounted, GrantUnlessCut, answers, disk, services, results, budget
  <2>1. CASE UNCHANGED setupVars
    BY <2>1 DEF setupVars
  <2>2. CASE Start \/ Load \/ Prompt \/ FirewallStep \/ SecretsEnsured \/ Rendered \/ PullImages
    BY <2>2 DEF Start, Load, Prompt, FirewallStep, SecretsEnsured, Rendered, PullImages
  <2>3. CASE SaveOpen \/ SaveWrite
    <3>1. cfg # Torn
      BY DEF Generations
    <3> QED
      BY <2>3, <3>1 DEF SaveOpen, SaveWrite
  <2>4. CASE (\E k \in Keys : EnsureSecrets(k)) \/ (\E f \in Files : RenderFile(f)) \/ DaemonReload
    BY <2>4 DEF EnsureSecrets, RenderFile, DaemonReload
  <2>5. CASE StartStack
    <3>1. /\ pc = "StartStack" /\ pc' = "WaitForPostgres"
          /\ UNCHANGED <<file, garage, faults, reboots>>
      BY <2>5 DEF StartStack
    <3>2. fails <= fails'
      <4>1. PICK bad \in SUBSET (wanted' \ up) : fails' = fails + Cardinality(bad)
        BY <2>5 DEF StartStack
      <4>2. Cardinality(bad) \in Nat
        BY <2>0, <4>1, FailsCounted DEF TypeOK
      <4> QED
        BY <4>1, <4>2
    <3>3. faults + reboots + fails > 0 => faults' + reboots' + fails' > 0
      BY <3>1, <3>2, CountsGrow
    <3> QED
      BY <3>1, <3>3
  <2>6. CASE WaitForPostgres \/ WaitForGarage
    BY <2>6 DEF WaitForPostgres, WaitForGarage
  <2>7. CASE GarageDown
    <3>1. /\ pc' = "idle" /\ pc # "SaveWrite" /\ "garage" \notin up
          /\ UNCHANGED <<file, garage, faults, reboots, fails>>
      BY <2>7 DEF GarageDown, GarageSteps, RunError, PodmanExec
    <3>2. pc = "Allow" => faults' + reboots' + fails' > 0
      BY <3>1
    <3> QED
      BY <3>1, <3>2
  <2>8. CASE Layout \/ LayoutApply \/ Bucket
    <3>1. /\ pc \notin {"SaveWrite", "Allow"} /\ pc' # "Allow"
          /\ garage' \in {garage, garage \cup {"staged"}, garage \cup {"layout"},
                         garage \cup {"bucket"}}
          /\ UNCHANGED <<file, faults, reboots, fails>>
      <4>1. CASE Layout
        BY <4>1, GarageCommandMakes DEF Layout
      <4>2. CASE LayoutApply \/ Bucket
        BY <4>2, GarageCommandMakes DEF LayoutApply, Bucket
      <4> QED
        BY <2>8, <4>1, <4>2
    <3> QED
      BY <3>1
  <2>9. CASE Key \/ Allow
    <3>1. /\ pc \in {"Key", "Allow"} /\ "garage" \in up
          /\ garage' \in {garage, garage \cup {"key"}, garage \cup {"grant"}}
          /\ UNCHANGED <<file, up, faults, reboots, fails>>
          /\ \/ pc' = "Allow"
             \/ garage' = garage /\ pc = "Key"
             \/ "grant" \in garage'
      <4>1. CASE Key
        <5>1. CASE "key" \in garage
          BY <4>1, <5>1, GarageCommandMakes DEF Key
        <5>2. CASE "key" \notin garage
          BY <4>1, <5>2, GarageCommandMakes DEF Key
        <5> QED
          BY <5>1, <5>2
      <4>2. CASE Allow
        BY <4>2, GarageCommandMakes DEF Allow
      <4> QED
        BY <2>9, <4>1, <4>2
    <3> QED
      BY <3>1
  <2>10. CASE HardenStalwart \/ HardenGivesUp \/ DnsSync \/ DnsSyncRefused \/ Healthcheck \/ MarkDone
    BY <2>10 DEF HardenStalwart, HardenGivesUp, DnsSync, DnsSyncRefused, Healthcheck, MarkDone
  <2>11. CASE Fault \/ Reboot
    <3>1. /\ pc' = "idle"
          /\ \/ faults' = faults + 1 /\ reboots' = reboots
             \/ faults' = faults /\ reboots' = reboots + 1
      BY <2>11 DEF Fault, Reboot
    <3>2. faults' > 0 \/ reboots' > 0
      BY <3>1
    <3>3. faults' + reboots' > 0 /\ faults' + reboots' + fails' > 0
      BY <3>2, OneCounted
    <3> QED
      BY <3>1, <3>3
  <2>12. CASE \E c \in Containers : ContainerStarts(c) \/ ContainerStartFails(c)
    <3>1. PICK c \in Containers : ContainerStarts(c) \/ ContainerStartFails(c)
      BY <2>12
    <3>2. /\ UNCHANGED <<pc, file, garage, faults, reboots>>
          /\ fails' = fails \/ fails' = fails + 1
      BY <3>1 DEF ContainerStarts, ContainerStartFails
    <3>3. "garage" \in up => "garage" \in up'
      <4>1. "garage" \notin Dependents(c)
        BY NeedsClosed DEF Dependents
      <4>2. up \ ({c} \cup Dependents(c)) \subseteq up' /\ c \notin up
        BY <3>1 DEF ContainerStarts, ContainerStartFails
      <4> QED
        BY <4>1, <4>2
    <3>4. fails <= fails' /\ (fails > 0 => fails' > 0)
      BY <3>2
    <3>5. faults + reboots + fails > 0 => faults' + reboots' + fails' > 0
      BY <3>2, <3>4, CountsGrow
    <3> QED
      BY <3>2, <3>3, <3>4, <3>5
  <2>13. CASE \E c \in Containers : ContainerDies(c)
    <3>1. fails' = fails + 1 /\ UNCHANGED <<pc, file, garage, faults, reboots>>
      BY <2>13 DEF ContainerDies
    <3>2. fails' > 0 /\ faults' + reboots' + fails' > 0
      BY <3>1
    <3> QED
      BY <3>1, <3>2
  <2> QED
    BY <2>1, <2>2, <2>3, <2>4, <2>5, <2>6, <2>7, <2>8, <2>9, <2>10, <2>11, <2>12, <2>13
       DEF Next, SetupStep
<1> QED
  BY <1>1, <1>2

(* A run that nothing interrupts, with a Garage that stays up, grants the  *)
(* key it creates (backing.BootstrapGarage).                               *)
THEOREM KeyGrantedUnlessCut == Spec => []GrantUnlessCut
<1>1. CutsCounted => GrantUnlessCut
  BY DEF CutsCounted
<1> QED
  BY <1>1, InvInductive, CutsInductive, PTL DEF Spec

(* config.json is found cut short only by a run that follows a fault or a  *)
(* reboot (config.Save).                                                   *)
THEOREM TornOnlyByCut == Spec => [](Blocked => faults + reboots > 0)
<1>1. CutsCounted => (Blocked => faults + reboots > 0)
  BY DEF CutsCounted, Blocked
<1> QED
  BY <1>1, InvInductive, CutsInductive, PTL DEF Spec

(* No step gets setup past a config.json that does not parse, or mends it. *)
LEMMA BlockedStep == IInv /\ Blocked /\ [Next]_setupVars => Blocked'
<1> SUFFICES ASSUME IInv, Blocked, [Next]_setupVars PROVE Blocked'
  OBVIOUS
<1> USE SetupBounds DEF Blocked, answers, disk
<1>1. CASE UNCHANGED setupVars
  BY <1>1 DEF setupVars
<1>2. CASE Start \/ Load
  BY <1>2 DEF Start, Load
<1>3. CASE Fault \/ Reboot
  BY <1>3 DEF Fault, Reboot
<1>4. CASE \E c \in Containers : ContainerStarts(c) \/ ContainerStartFails(c) \/ ContainerDies(c)
  BY <1>4 DEF ContainerStarts, ContainerStartFails, ContainerDies
<1>5. CASE SetupStep
  <2>1. SetupStep => Load \/ pc \notin {"idle", "Load"}
    BY DEF SetupStep, Prompt, SaveOpen, SaveWrite, FirewallStep, EnsureSecrets,
       SecretsEnsured, RenderFile, Rendered, DaemonReload, PullImages, StartStack,
       WaitForPostgres, WaitForGarage, GarageDown, GarageSteps, Layout, LayoutApply,
       Bucket, Key, Allow, GarageCommand, HardenStalwart, HardenGivesUp, DnsSync,
       DnsSyncRefused, Healthcheck, MarkDone
  <2> QED
    BY <1>5, <2>1, <1>2
<1> QED
  BY <1>1, <1>2, <1>3, <1>4, <1>5 DEF Next

(* Once a run has ended with config.json cut short, no later run of setup  *)
(* gets past Load, whatever the admin does: stage2.done is out of reach    *)
(* for good (config.Load and Save).  With RefusedIsFinal below, and with   *)
(* OnlyConfigBlocks, this says exactly when running setup again helps.     *)
THEOREM TornIsFinal == Spec => [](Blocked => [](Blocked /\ ~stage2))
<1>1. IInv /\ Blocked => ~stage2
  BY DEF IInv, Stage2Complete, Blocked
<1> QED
  BY <1>1, BlockedStep, InvInductive, PTL DEF Spec

(* Every answer in use is one that was given, and what dnscf.Sync has      *)
(* published Cloudflare has not refused.                                   *)
LEMMA RefusalsInductive ==
  /\ Init => RefusalsKept
  /\ IInv /\ RefusalsKept /\ [Next]_setupVars => RefusalsKept'
<1> USE SetupBounds
<1>1. Init => RefusalsKept
  <2> SUFFICES ASSUME Init PROVE RefusalsKept
    OBVIOUS
  <2>1. file = 0 /\ prompted = 0 /\ refused = {} /\ cfg = 0 /\ dns = 0
    BY Zenon DEF Init
  <2> QED
    BY <2>1 DEF RefusalsKept
<1>2. IInv /\ RefusalsKept /\ [Next]_setupVars => RefusalsKept'
  <2> SUFFICES ASSUME IInv, RefusalsKept, [Next]_setupVars PROVE RefusalsKept'
    OBVIOUS
  <2>0. /\ prompted \in Nat /\ ConfigLoaded
        /\ dns # 0 => dns = file
    BY DEF IInv, TypeOK, Generations, ConfigAgrees
  <2> USE <2>0 DEF RefusalsKept, answers, disk, results
  <2>1. CASE UNCHANGED setupVars
    BY <2>1 DEF setupVars
  <2>2. CASE Start \/ Load
    BY <2>2 DEF Start, Load
  <2>3. CASE Prompt
    <3>1. /\ pc = "Prompt" /\ pc' = "SaveOpen" /\ UNCHANGED <<file, dns>>
          /\ prompted' = prompted + 1 /\ cfg' = prompted + 1
      BY <2>3 DEF Prompt
    <3>0. refused' = refused \/ refused' = refused \cup {prompted + 1}
      BY <2>3, Zenon DEF Prompt
    <3>2. dns = 0 /\ file \in 0..prompted' \cup {Torn} /\ cfg' \in 0..prompted'
      BY <3>1
    <3>3. refused' \subseteq 1..prompted'
      <4>1. 1..prompted \subseteq 1..prompted' /\ prompted + 1 \in 1..prompted'
        BY <3>1
      <4>2. refused \subseteq 1..prompted
        OBVIOUS
      <4> HIDE <2>0 DEF RefusalsKept
      <4> QED
        BY <3>0, <4>1, <4>2, Zenon
    <3> QED
      BY <3>1, <3>2, <3>3
  <2>4. CASE SaveOpen \/ SaveWrite
    BY <2>4 DEF SaveOpen, SaveWrite
  <2>5. CASE DnsSync
    BY <2>5 DEF DnsSync
  <2>6. CASE FirewallStep \/ SecretsEnsured \/ Rendered \/ DaemonReload \/ PullImages
    BY <2>6 DEF FirewallStep, SecretsEnsured, Rendered, DaemonReload, PullImages
  <2>7. CASE (\E k \in Keys : EnsureSecrets(k)) \/ (\E f \in Files : RenderFile(f))
    BY <2>7 DEF EnsureSecrets, RenderFile
  <2>8. CASE StartStack \/ WaitForPostgres \/ WaitForGarage \/ GarageDown
    BY <2>8 DEF StartStack, WaitForPostgres, WaitForGarage, GarageDown
  <2>9. CASE Layout \/ LayoutApply \/ Bucket \/ Key \/ Allow
    BY <2>9 DEF Layout, LayoutApply, Bucket, Key, Allow, GarageCommand
  <2>10. CASE HardenStalwart \/ HardenGivesUp \/ DnsSyncRefused \/ Healthcheck \/ MarkDone
    BY <2>10 DEF HardenStalwart, HardenGivesUp, DnsSyncRefused, Healthcheck, MarkDone
  <2>11. CASE Fault \/ Reboot
    BY <2>11 DEF Fault, Reboot
  <2>12. CASE \E c \in Containers :
                ContainerStarts(c) \/ ContainerStartFails(c) \/ ContainerDies(c)
    BY <2>12 DEF ContainerStarts, ContainerStartFails, ContainerDies
  <2> QED
    BY <2>1, <2>2, <2>3, <2>4, <2>5, <2>6, <2>7, <2>8, <2>9, <2>10, <2>11, <2>12
       DEF Next, SetupStep
<1> QED
  BY <1>1, <1>2

(* No step takes a refusal back, and none replaces a config.json that has  *)
(* a domain.                                                               *)
LEMMA RefusedStep ==
  IInv /\ RefusalsKept /\ Refused /\ [Next]_setupVars => Refused'
<1> SUFFICES ASSUME IInv, RefusalsKept, Refused, [Next]_setupVars PROVE Refused'
  OBVIOUS
<1> USE DEF Refused
<1>1. file \notin {0, Torn}
  BY SetupBounds DEF IInv, TypeOK, Generations, RefusalsKept
<1>2. file' = file
  BY <1>1, FileKept
<1>3. refused \subseteq refused'
  <2> USE DEF answers, disk
  <2>1. CASE UNCHANGED setupVars
    BY <2>1 DEF setupVars
  <2>2. CASE Start \/ Load \/ Prompt \/ SaveOpen \/ SaveWrite \/ FirewallStep
    BY <2>2 DEF Start, Load, Prompt, SaveOpen, SaveWrite, FirewallStep
  <2>3. CASE (\E k \in Keys : EnsureSecrets(k)) \/ (\E f \in Files : RenderFile(f))
    BY <2>3 DEF EnsureSecrets, RenderFile
  <2>4. CASE SecretsEnsured \/ Rendered \/ DaemonReload \/ PullImages \/ StartStack
    BY <2>4 DEF SecretsEnsured, Rendered, DaemonReload, PullImages, StartStack
  <2>5. CASE WaitForPostgres \/ WaitForGarage \/ GarageDown
    BY <2>5 DEF WaitForPostgres, WaitForGarage, GarageDown
  <2>6. CASE Layout \/ LayoutApply \/ Bucket \/ Key \/ Allow
    BY <2>6 DEF Layout, LayoutApply, Bucket, Key, Allow, GarageCommand
  <2>7. CASE HardenStalwart \/ HardenGivesUp \/ DnsSync \/ DnsSyncRefused \/ Healthcheck \/ MarkDone
    BY <2>7 DEF HardenStalwart, HardenGivesUp, DnsSync, DnsSyncRefused, Healthcheck, MarkDone
  <2>8. CASE \/ Fault \/ Reboot
             \/ \E c \in Containers :
                  ContainerStarts(c) \/ ContainerStartFails(c) \/ ContainerDies(c)
    BY <2>8 DEF Fault, Reboot, ContainerStarts, ContainerStartFails, ContainerDies
  <2> QED
    BY <2>1, <2>2, <2>3, <2>4, <2>5, <2>6, <2>7, <2>8 DEF Next, SetupStep
<1> QED
  BY <1>2, <1>3

(* Answers that Cloudflare refuses, once saved, are final too: the wizard  *)
(* never asks again (wizard.RunPostBoot), every later run ends in          *)
(* dnscf.Sync, and stage2.done is out of reach for good.                   *)
THEOREM RefusedIsFinal == Spec => [](Refused => [](Refused /\ ~stage2))
<1>1. IInv /\ RefusalsKept /\ Refused => ~stage2
  BY DEF Refused, IInv, Stage2Complete, RefusalsKept
<1> QED
  BY <1>1, RefusedStep, InvInductive, RefusalsInductive, PTL DEF Spec

(* Nothing makes up for a grant that was left out. *)
LEMMA NoGrantStep == NoGrant /\ [Next]_setupVars => NoGrant'
<1> SUFFICES ASSUME NoGrant, [Next]_setupVars PROVE NoGrant'
  OBVIOUS
<1> USE DEF NoGrant, results
<1>1. CASE UNCHANGED setupVars
  BY <1>1 DEF setupVars
<1>2. CASE Start \/ Load \/ Prompt \/ SaveOpen \/ SaveWrite \/ FirewallStep
  BY <1>2 DEF Start, Load, Prompt, SaveOpen, SaveWrite, FirewallStep
<1>3. CASE (\E k \in Keys : EnsureSecrets(k)) \/ (\E f \in Files : RenderFile(f))
  BY <1>3 DEF EnsureSecrets, RenderFile
<1>4. CASE SecretsEnsured \/ Rendered \/ DaemonReload \/ PullImages \/ StartStack
  BY <1>4 DEF SecretsEnsured, Rendered, DaemonReload, PullImages, StartStack
<1>5. CASE WaitForPostgres \/ WaitForGarage \/ GarageDown
  BY <1>5 DEF WaitForPostgres, WaitForGarage, GarageDown
<1>6. CASE Layout \/ LayoutApply \/ Bucket
  <2>1. CASE Layout
    BY <2>1, GarageCommandMakes DEF Layout
  <2>2. CASE LayoutApply \/ Bucket
    BY <2>2, GarageCommandMakes DEF LayoutApply, Bucket
  <2> QED
    BY <1>6, <2>1, <2>2
<1>9. CASE Key \/ Allow
  BY <1>9, GarageCommandMakes DEF Key, Allow
<1>7. CASE HardenStalwart \/ HardenGivesUp \/ DnsSync \/ DnsSyncRefused \/ Healthcheck \/ MarkDone
  BY <1>7 DEF HardenStalwart, HardenGivesUp, DnsSync, DnsSyncRefused, Healthcheck, MarkDone
<1>8. CASE Fault \/ Reboot \/ \E c \in Containers :
             ContainerStarts(c) \/ ContainerStartFails(c) \/ ContainerDies(c)
  BY <1>8 DEF Fault, Reboot, ContainerStarts, ContainerStartFails, ContainerDies
<1> QED
  BY <1>1, <1>2, <1>3, <1>4, <1>5, <1>6, <1>7, <1>8, <1>9 DEF Next, SetupStep

(* A key that exists without its grant stays without it for good: every    *)
(* later run finds the key and skips the grant (backing.BootstrapGarage).  *)
THEOREM GrantNeverRepaired == Spec => [](NoGrant => []NoGrant)
  BY NoGrantStep, PTL DEF Spec

(* Whatever is rebooted, restarted or cut off, only the step of setup that *)
(* starts slfhst.target brings up a container that has no [Install] of its *)
(* own (deploy.startStack).                                                *)
THEOREM RestNeedsSetup == Spec => OnlySetupStarts
<1> DEFINE Stays == pc # "StartStack" => wanted' \cup up' \subseteq wanted \cup BootEnabled
<1>1. TypeOK /\ [Next]_setupVars => [Stays]_setupVars
  <2> SUFFICES ASSUME TypeOK, Next, pc # "StartStack"
               PROVE  wanted' \cup up' \subseteq wanted \cup BootEnabled
    OBVIOUS
  <2>0. up \subseteq wanted
    BY DEF TypeOK
  <2> USE <2>0 DEF services
  <2>1. CASE Start \/ Load \/ Prompt \/ SaveOpen \/ SaveWrite \/ FirewallStep
    BY <2>1 DEF Start, Load, Prompt, SaveOpen, SaveWrite, FirewallStep
  <2>2. CASE (\E k \in Keys : EnsureSecrets(k)) \/ (\E f \in Files : RenderFile(f))
    BY <2>2 DEF EnsureSecrets, RenderFile
  <2>3. CASE SecretsEnsured \/ Rendered \/ DaemonReload \/ PullImages \/ StartStack
    BY <2>3 DEF SecretsEnsured, Rendered, DaemonReload, PullImages, StartStack
  <2>4. CASE WaitForPostgres \/ WaitForGarage \/ GarageDown
    BY <2>4 DEF WaitForPostgres, WaitForGarage, GarageDown
  <2>5. CASE Layout \/ LayoutApply \/ Bucket \/ Key \/ Allow
    BY <2>5, GarageCommandMakes DEF Layout, LayoutApply, Bucket, Key, Allow
  <2>6. CASE HardenStalwart \/ HardenGivesUp \/ DnsSync \/ DnsSyncRefused \/ Healthcheck \/ MarkDone
    BY <2>6 DEF HardenStalwart, HardenGivesUp, DnsSync, DnsSyncRefused, Healthcheck, MarkDone
  <2>7. CASE Fault \/ Reboot
    BY <2>7 DEF Fault, Reboot
  <2>8. CASE \E c \in Containers : ContainerStarts(c) \/ ContainerStartFails(c) \/ ContainerDies(c)
    BY <2>8 DEF ContainerStarts, ContainerStartFails, ContainerDies
  <2> QED
    BY <2>1, <2>2, <2>3, <2>4, <2>5, <2>6, <2>7, <2>8 DEF Next, SetupStep
<1>2. Spec => [][Stays]_setupVars
  BY <1>1, TypeInductive, PTL DEF Spec
<1> QED
  BY <1>2 DEF OnlySetupStarts
=============================================================================
