------------------------------- MODULE Setup -------------------------------
(***************************************************************************)
(* Stage 2: `slfhst setup` on the installed appliance (internal/setup, Run *)
(* and the packages it calls).  The admin runs it over SSH, it stops at    *)
(* its first error, and the admin runs it again; the connection may drop,  *)
(* a command may fail and the machine may reboot between any two steps,    *)
(* while the containers it has started come and go by themselves.          *)
(*                                                                         *)
(* The answers and generated secrets of one prompt session are one         *)
(* generation, numbered from 1.  Whatever is derived from config.json      *)
(* (podman secrets, rendered files, DNS records, MOTD) is the generation   *)
(* it was derived from; 0 is absent.  The disk carries stage1.done (see    *)
(* Installer), so RequireDone("stage1") succeeds in every package, and     *)
(* one setup runs at a time: nothing in the code enforces that.            *)
(***************************************************************************)
EXTENDS Naturals, FiniteSets

CONSTANTS Keys,         \* config.json keys that become podman secrets
          Containers,   \* the services that slfhst.target wants
          ConfigFiles,  \* files of configFileDests that containers mount
          KeysOf,       \* per container: the secrets its unit references
          ReadsOf,      \* per container: the ConfigFiles it reads at start
          Needs,        \* per container: what it Requires=, and what that does
          BootEnabled,  \* containers whose own .container has an [Install]
          Position,     \* of a template in the sorted list of RenderAll
          Torn,         \* a config.json that does not parse
          MaxPrompts,   \* bound: prompt sessions
          MaxRefused,   \* bound: sessions with answers Cloudflare refuses
          MaxFaults,    \* bound: failing commands, dropped connections
          MaxReboots,   \* bound: reboots of the appliance
          MaxFails      \* bound: containers that die or fail to start

Files == Containers \cup ConfigFiles

(* What usr/share/slfhst/templates says of them. *)
ASSUME ContainersNamed ==
  /\ {"postgres", "garage", "stalwart"} \subseteq Containers
  /\ IsFiniteSet(Containers)
  /\ KeysOf \in [Containers -> SUBSET Keys]
  /\ ReadsOf \in [Containers -> SUBSET ConfigFiles]
  /\ BootEnabled \subseteq Containers
  /\ Position \in [Files -> Nat]

ASSUME NeedsClosed ==
  /\ Needs \in [Containers -> SUBSET Containers]
  /\ \A c \in Containers : c \notin Needs[c] /\ \A d \in Needs[c] : Needs[d] \subseteq Needs[c]
  /\ \A c \in BootEnabled \cup {"postgres", "garage"} : Needs[c] = {}

ASSUME SetupBounds ==
  /\ MaxPrompts \in Nat /\ MaxFaults \in Nat /\ MaxReboots \in Nat
  /\ MaxFails \in Nat /\ MaxRefused \in Nat
  /\ Torn \notin Nat

VARIABLES pc,        \* the step of setup.Run, or "idle"
          todo,      \* what the current loop has still to visit
          cfg,       \* the generation in the running process's memory
          file,      \* config.json: a generation, 0 (no domain) or Torn
          prompted,  \* generations handed out
          refused,   \* generations with which dnscf.Sync cannot succeed
          secrets,   \* podman secrets, per key
          rendered,  \* unit and config files on disk
          loaded,    \* the units as the user manager last read them
          wanted,    \* services the user manager has been told to run
          lost,      \* of these, the ones it has given up on
          up,        \* containers that run
          garage,    \* what has been made in Garage
          hardened,  \* generation whose plan Stalwart has applied
          dns,       \* generation published by dnscf.Sync
          motd,      \* generation in the MOTD
          stage2,    \* stage2.done
          faults, reboots, fails

setupVars == <<pc, todo, cfg, file, prompted, refused, secrets, rendered, loaded,
               wanted, lost, up, garage, hardened, dns, motd, stage2, faults,
               reboots, fails>>

answers  == <<file, prompted, refused>>
disk     == <<answers, secrets, rendered>>
services == <<loaded, wanted, lost, up, fails>>
results  == <<garage, hardened, dns, motd, stage2>>
budget   == <<faults, reboots>>

SetupSteps == {"Load", "Prompt", "SaveOpen", "SaveWrite", "Firewall",
               "EnsureSecrets", "Render", "DaemonReload", "PullImages",
               "StartStack", "WaitForPostgres", "WaitForGarage", "Layout",
               "LayoutApply", "Bucket", "Key", "Allow", "HardenStalwart",
               "DnsSync", "Healthcheck", "MarkDone"}

GarageObjects == {"staged", "layout", "bucket", "key", "grant"}

Init ==
  /\ pc = "idle" /\ todo = {} /\ cfg = 0
  /\ file = 0 /\ prompted = 0 /\ refused = {}
  /\ secrets = [k \in Keys |-> 0]
  /\ rendered = [f \in Files |-> 0]
  /\ loaded = [c \in Containers |-> 0]
  /\ wanted = {} /\ lost = {} /\ up = {}
  /\ garage = {} /\ hardened = 0 /\ dns = 0 /\ motd = 0 /\ stage2 = FALSE
  /\ faults = 0 /\ reboots = 0 /\ fails = 0

---------------------------------------------------------------------------
(* wizard.RunPostBoot and config.Save.                                     *)

Start ==
  /\ pc = "idle"
  /\ pc' = "Load"
  /\ UNCHANGED <<todo, cfg, disk, services, results, budget>>

(* Mutant: the check on cfg["domain"] is gone. *)
Mut_LoadReprompts ==
  /\ pc = "Load"
  /\ pc' = IF file = Torn THEN "idle" ELSE "Prompt"
  /\ UNCHANGED <<todo, cfg, disk, services, results, budget>>

(* A file that does not parse is an error; one with a domain is not asked  *)
(* for again.                                                              *)
Load ==
  /\ pc = "Load"
  /\ \/ file = Torn /\ pc' = "idle" /\ cfg' = cfg
     \/ file = 0 /\ pc' = "Prompt" /\ cfg' = cfg
     \/ file \notin {0, Torn} /\ pc' = "Firewall" /\ cfg' = file
  /\ UNCHANGED <<todo, disk, services, results, budget>>

(* The operator's answers and GenSecret's tokens are new each time.  Of    *)
(* the Cloudflare token only that it is not empty is checked: it may be    *)
(* wrong, and the domain may be on nobody's account.                       *)
Prompt ==
  /\ pc = "Prompt"
  /\ prompted < MaxPrompts
  /\ prompted' = prompted + 1
  /\ \/ refused' = refused
     \/ Cardinality(refused) < MaxRefused /\ refused' = refused \cup {prompted + 1}
  /\ cfg' = prompted + 1
  /\ pc' = "SaveOpen"
  /\ UNCHANGED <<todo, file, secrets, rendered, services, results, budget>>

(* os.WriteFile truncates config.json in place before it writes. *)
SaveOpen ==
  /\ pc = "SaveOpen"
  /\ file' = Torn
  /\ pc' = "SaveWrite"
  /\ UNCHANGED <<todo, cfg, prompted, refused, secrets, rendered, services, results, budget>>

SaveWrite ==
  /\ pc = "SaveWrite"
  /\ file' = cfg
  /\ pc' = "Firewall"
  /\ UNCHANGED <<todo, cfg, prompted, refused, secrets, rendered, services, results, budget>>

(* SyncCloudflareIPSets keeps nothing of setup's; the error of the update  *)
(* check after it is only printed.                                         *)
FirewallStep ==
  /\ pc = "Firewall"
  /\ pc' = "EnsureSecrets" /\ todo' = Keys
  /\ UNCHANGED <<cfg, disk, services, results, budget>>

---------------------------------------------------------------------------
(* quadlet.EnsureSecrets and RenderAll.                                    *)

(* Go visits the keys in any order; an existing secret is left as it is. *)
EnsureSecrets(k) ==
  /\ pc = "EnsureSecrets" /\ k \in todo
  /\ secrets' = [secrets EXCEPT ![k] = IF @ = 0 THEN cfg ELSE @]
  /\ todo' = todo \ {k}
  /\ UNCHANGED <<pc, cfg, answers, rendered, services, results, budget>>

SecretsEnsured ==
  /\ pc = "EnsureSecrets" /\ todo = {}
  /\ pc' = "Render" /\ todo' = Files
  /\ UNCHANGED <<cfg, disk, services, results, budget>>

(* The templates are rendered in the order of their names. *)
FirstOf(f, S) == f \in S /\ \A g \in S : Position[f] <= Position[g]

(* One container's unit, or one config file. *)
RenderFile(f) ==
  /\ pc = "Render" /\ FirstOf(f, todo)
  /\ rendered' = [rendered EXCEPT ![f] = cfg]
  /\ todo' = todo \ {f}
  /\ UNCHANGED <<pc, cfg, answers, secrets, services, results, budget>>

Rendered ==
  /\ pc = "Render" /\ todo = {}
  /\ pc' = "DaemonReload"
  /\ UNCHANGED <<todo, cfg, disk, services, results, budget>>

DaemonReload ==
  /\ pc = "DaemonReload"
  /\ loaded' = [c \in Containers |-> rendered[c]]
  /\ pc' = "PullImages"
  /\ UNCHANGED <<todo, cfg, disk, wanted, lost, up, fails, results, budget>>

---------------------------------------------------------------------------
(* deploy.Run.                                                             *)

PullImages ==
  /\ pc = "PullImages"
  /\ pc' = "StartStack"
  /\ UNCHANGED <<todo, cfg, disk, services, results, budget>>

(* A container starts from its loaded unit, the podman secrets it names    *)
(* and the config files as they are on disk at that moment.                *)
Startable(c) ==
  /\ loaded[c] # 0
  /\ \A k \in KeysOf[c] : secrets[k] # 0
  /\ \A f \in ReadsOf[c] : rendered[f] # 0

Dependents(c) == {d \in Containers : c \in Needs[d]}

(* Mutant: the containers are started behind the user manager's back. *)
Mut_StartStackUnmanaged ==
  /\ pc = "StartStack"
  /\ up' = up \cup {c \in Containers : Startable(c)}
  /\ pc' = "WaitForPostgres"
  /\ UNCHANGED <<todo, cfg, disk, loaded, wanted, lost, fails, results, budget>>

(* systemctl start waits for every service of the target, whether it       *)
(* started or failed.  One that failed is started again by systemd; the    *)
(* ones that require it are not (their job has failed with it).            *)
StartStack ==
  /\ pc = "StartStack"
  /\ wanted' = {c \in Containers : loaded[c] # 0}
  /\ \E bad \in SUBSET (wanted' \ up) :
       /\ fails + Cardinality(bad) <= MaxFails
       /\ fails' = fails + Cardinality(bad)
       /\ lost' = {c \in wanted' \ up : Needs[c] \cap bad # {}}
       /\ up' = {c \in wanted' \ (bad \cup lost') : c \in up \/ Startable(c)}
  /\ pc' = "WaitForPostgres"
  /\ UNCHANGED <<todo, cfg, disk, loaded, results, budget>>

---------------------------------------------------------------------------
(* backing.Run.                                                            *)

(* podman exec <container> ... has a non-zero exit unless it runs. *)
PodmanExec(c) == IF c \in up THEN 0 ELSE 1

(* Does runx.Run return an error?  With NoCheck a non-zero exit is none. *)
RunError(exit, noCheck) == exit # 0 /\ ~noCheck

(* waitFor returns nil at its first poll that is no error, and polls with  *)
(* NoCheck.                                                                *)
WaitFor(c) == ~RunError(PodmanExec(c), TRUE)

WaitForPostgres ==
  /\ pc = "WaitForPostgres"
  /\ WaitFor("postgres")
  /\ pc' = "WaitForGarage"
  /\ UNCHANGED <<todo, cfg, disk, services, results, budget>>

WaitForGarage ==
  /\ pc = "WaitForGarage"
  /\ WaitFor("garage")
  /\ pc' = "Layout"
  /\ UNCHANGED <<todo, cfg, disk, services, results, budget>>

GarageSteps == {"Layout", "LayoutApply", "Bucket", "Key", "Allow"}

GarageCommand(step, makes, next) ==
  /\ pc = step
  /\ ~RunError(PodmanExec("garage"), FALSE)
  /\ garage' = garage \cup makes
  /\ pc' = next
  /\ UNCHANGED <<todo, cfg, disk, services, hardened, dns, motd, stage2, budget>>

GarageDown ==
  /\ pc \in GarageSteps
  /\ RunError(PodmanExec("garage"), FALSE)
  /\ pc' = "idle"
  /\ UNCHANGED <<todo, cfg, disk, services, results, budget>>

(* Mutant: a layout that is only staged counts as assigned. *)
Mut_LayoutStagedIsEnough ==
  IF garage \cap {"staged", "layout"} # {}
  THEN GarageCommand("Layout", {}, "Bucket")
  ELSE GarageCommand("Layout", {"staged"}, "LayoutApply")

(* layout show, and, if no role is assigned, node id and layout assign.    *)
(* What layout show prints of an applied layout is taken to be what the    *)
(* code looks for.                                                         *)
Layout == IF "layout" \in garage
          THEN GarageCommand("Layout", {}, "Bucket")
          ELSE GarageCommand("Layout", {"staged"}, "LayoutApply")

LayoutApply == GarageCommand("LayoutApply", {"layout"}, "Bucket")

(* Mutant: bucket create without a look at bucket list. *)
Mut_BucketUnlisted ==
  \/ "bucket" \notin garage /\ GarageCommand("Bucket", {"bucket"}, "Key")
  \/ "bucket" \in garage /\ GarageCommand("Bucket", {}, "idle")

(* bucket list, and bucket create if "ente" is not in it. *)
Bucket == GarageCommand("Bucket", {"bucket"}, "Key")

(* Mutant: the grant is left to somebody else. *)
Mut_KeyWithoutGrant == GarageCommand("Key", {"key"}, "HardenStalwart")

(* key list, key create; the grant is only for a key just created. *)
Key == IF "key" \in garage
       THEN GarageCommand("Key", {}, "HardenStalwart")
       ELSE GarageCommand("Key", {"key"}, "Allow")

Allow == GarageCommand("Allow", {"grant"}, "HardenStalwart")

(* stalwart-cli apply, tried again and again ... *)
HardenStalwart ==
  /\ pc = "HardenStalwart"
  /\ WaitFor("stalwart")
  /\ "stalwart" \in up
  /\ hardened' = cfg
  /\ pc' = "DnsSync"
  /\ UNCHANGED <<todo, cfg, disk, services, garage, dns, motd, stage2, budget>>

(* ... and given up after two minutes, with a warning and no error. *)
HardenGivesUp ==
  /\ pc = "HardenStalwart"
  /\ pc' = "DnsSync"
  /\ UNCHANGED <<todo, cfg, disk, services, results, budget>>

---------------------------------------------------------------------------
(* dnscf.Sync and healthcheck.Run load config.json again; MarkDone.        *)

DnsSync ==
  /\ pc = "DnsSync"
  /\ file \notin {0, Torn} \cup refused
  /\ dns' = file
  /\ pc' = "Healthcheck"
  /\ UNCHANGED <<todo, cfg, disk, services, garage, hardened, motd, stage2, budget>>

(* With a wrong token or a domain that is not on the account Sync returns  *)
(* an error, now and on every later run, as it does on a box that has no   *)
(* IPv4 address.                                                           *)
DnsSyncRefused ==
  /\ pc = "DnsSync"
  /\ file \in refused
  /\ pc' = "idle"
  /\ UNCHANGED <<todo, cfg, disk, services, results, budget>>

(* A service that is not active is only printed. *)
Healthcheck ==
  /\ pc = "Healthcheck"
  /\ file # Torn
  /\ motd' = file
  /\ pc' = "MarkDone"
  /\ UNCHANGED <<todo, cfg, disk, services, garage, hardened, dns, stage2, budget>>

MarkDone ==
  /\ pc = "MarkDone"
  /\ stage2' = TRUE
  /\ pc' = "idle"
  /\ UNCHANGED <<todo, cfg, disk, services, garage, hardened, dns, motd, budget>>

---------------------------------------------------------------------------
(* Interruptions and the containers' own life.                             *)

(* What stops a run in the middle of RenderAll can leave one file cut      *)
(* short; in Save it leaves config.json as SaveOpen left it.               *)
CutShort ==
  IF pc = "Render"
  THEN \/ UNCHANGED rendered
       \/ \E f \in todo : FirstOf(f, todo) /\ rendered' = [rendered EXCEPT ![f] = 0]
  ELSE UNCHANGED rendered

(* A command fails, the SSH connection drops, the admin types ^C: an error *)
(* after a step's effect is the same as one at the start of the next step. *)
Fault ==
  /\ pc \in SetupSteps
  /\ faults < MaxFaults
  /\ faults' = faults + 1
  /\ pc' = "idle"
  /\ CutShort
  /\ UNCHANGED <<todo, cfg, answers, secrets, services, results, reboots>>

(* svc lingers, so its user manager starts at boot: Quadlet's generator    *)
(* reads the rendered units and honours their [Install] sections.  Nothing *)
(* enables slfhst.target.                                                  *)
Reboot ==
  /\ reboots < MaxReboots
  /\ reboots' = reboots + 1
  /\ pc' = "idle"
  /\ CutShort
  /\ loaded' = [c \in Containers |-> rendered'[c]]
  /\ wanted' = {c \in BootEnabled : rendered'[c] # 0}
  /\ lost' = {} /\ up' = {}
  /\ UNCHANGED <<todo, cfg, answers, secrets, fails, results, faults>>

(* Restart=always, behind what the service requires.  A service that is    *)
(* restarted takes the ones that require it along; one that systemd has    *)
(* given up on is started again when another that requires it is.          *)
ContainerStarts(c) ==
  /\ c \in wanted \ up
  /\ c \in lost => \E d \in Dependents(c) : d \in wanted \ (up \cup lost)
  /\ Startable(c) /\ Needs[c] \subseteq up
  /\ up' = (up \cup {c}) \ Dependents(c)
  /\ lost' = lost \ {c}
  /\ UNCHANGED <<pc, todo, cfg, disk, loaded, wanted, fails, results, budget>>

(* A start that fails.  systemd gives up on the service at its start limit *)
(* (the templates keep the default), and on the ones that require it.      *)
ContainerStartFails(c) ==
  /\ c \in wanted \ (up \cup lost)
  /\ Needs[c] \subseteq up
  /\ \/ ~Startable(c) /\ UNCHANGED fails
     \/ fails < MaxFails /\ fails' = fails + 1
  /\ \E gone \in SUBSET ({c} \cup Dependents(c)) :
       /\ lost' = lost \cup (gone \cap wanted)
       /\ up' = up \ gone
  /\ UNCHANGED <<pc, todo, cfg, disk, loaded, wanted, results, budget>>

ContainerDies(c) ==
  /\ c \in up
  /\ fails < MaxFails
  /\ fails' = fails + 1
  /\ up' = up \ {c}
  /\ UNCHANGED <<pc, todo, cfg, disk, loaded, wanted, lost, results, budget>>

SetupStep ==
  \/ Load \/ Prompt \/ SaveOpen \/ SaveWrite \/ FirewallStep
  \/ (\E k \in Keys : EnsureSecrets(k)) \/ SecretsEnsured
  \/ (\E f \in Files : RenderFile(f)) \/ Rendered \/ DaemonReload
  \/ PullImages \/ StartStack
  \/ WaitForPostgres \/ WaitForGarage \/ GarageDown
  \/ Layout \/ LayoutApply \/ Bucket \/ Key \/ Allow
  \/ HardenStalwart \/ HardenGivesUp
  \/ DnsSync \/ DnsSyncRefused \/ Healthcheck \/ MarkDone

Next ==
  \/ Start \/ SetupStep \/ Fault \/ Reboot
  \/ \E c \in Containers :
       ContainerStarts(c) \/ ContainerStartFails(c) \/ ContainerDies(c)

Spec == Init /\ [][Next]_setupVars

(* A started program makes progress, systemd restarts what it keeps        *)
(* running, and the admin runs setup again until stage2.done is there.     *)
SetupFairness ==
  /\ WF_setupVars(SetupStep)
  /\ WF_setupVars(Start /\ ~stage2)
  /\ \A c \in Containers : WF_setupVars(ContainerStarts(c))

FairSpec == Spec /\ SetupFairness

---------------------------------------------------------------------------
(* Properties.                                                             *)

Generations == 0..MaxPrompts

(* Every variable has its type. *)
TypeOK ==
  /\ pc \in SetupSteps \cup {"idle"}
  /\ todo \in SUBSET (Keys \cup Files)
  /\ cfg \in Generations
  /\ file \in Generations \cup {Torn}
  /\ prompted \in Generations
  /\ refused \in SUBSET Generations
  /\ secrets \in [Keys -> Generations]
  /\ rendered \in [Files -> Generations]
  /\ loaded \in [Containers -> Generations]
  /\ wanted \in SUBSET Containers
  /\ up \in SUBSET wanted /\ lost \in SUBSET (wanted \ up)
  /\ garage \in SUBSET GarageObjects
  /\ hardened \in Generations /\ dns \in Generations /\ motd \in Generations
  /\ stage2 \in BOOLEAN
  /\ faults \in 0..MaxFaults /\ reboots \in 0..MaxReboots /\ fails \in 0..MaxFails

(* Whatever setup has derived from the operator's answers, in this run or  *)
(* in an earlier one that was cut short, is derived from the config.json   *)
(* that is on disk: EnsureSecrets never replaces a secret, so a second set *)
(* of answers would lock the containers out of their own data.             *)
ConfigAgrees ==
  LET OfFile(g) == g # 0 => g = file IN
  /\ \A k \in Keys : OfFile(secrets[k])
  /\ \A f \in Files : OfFile(rendered[f])
  /\ \A c \in Containers : OfFile(loaded[c])
  /\ OfFile(hardened) /\ OfFile(dns) /\ OfFile(motd)

(* When a run gets to MarkDone the secrets, units, config files, Garage's  *)
(* layout, bucket and key, DNS records and MOTD are in place, and what     *)
(* later runs do not touch stays in place behind stage2.done.  The key's   *)
(* grant (KeyHasGrant) and Stalwart's hardening may be missing.            *)
Stage2Complete ==
  /\ pc = "MarkDone" \/ stage2 =>
       /\ file \notin {0, Torn}
       /\ \A k \in Keys : secrets[k] = file
       /\ {"layout", "bucket", "key"} \subseteq garage
       /\ dns = file /\ motd = file
  /\ pc = "MarkDone" => /\ \A f \in Files : rendered[f] = file
                        /\ \A c \in Containers : loaded[c] = file

(* Once there is a domain in config.json no run writes the file again: a   *)
(* box that has been through the prompts is not prompted a second time     *)
(* (RunPostBoot).                                                          *)
PromptedOnce == [][file \notin {0, Torn} => file' = file]_setupVars

(* "safe to re-run if anything needs retrying" (README.md:143-145):        *)
(* however often it fails, an admin who runs setup again gets stage2.done. *)
SetupCompletes == <>stage2

(* The states that running setup again does not mend: config.json cut      *)
(* short with no Save in progress, answers in it that Cloudflare refuses,  *)
(* and the key without the grant that only the run that creates the key    *)
(* makes.                                                                  *)
Blocked == file = Torn /\ pc \in {"idle", "Load"}
Refused == file \in refused
NoGrant == "key" \in garage /\ "grant" \notin garage /\ pc # "Allow"

(* Two things, and no other sequence of faults, reboots and dying          *)
(* containers, can keep an admin who runs setup again and again from       *)
(* stage2.done: a config.json cut short while Save wrote it, and answers   *)
(* that Cloudflare refuses, which are saved unchecked and not asked for    *)
(* again (RunPostBoot, dnscf.Sync).                                        *)
OnlyConfigBlocks == <>stage2 \/ <>[](file = Torn) \/ <>[]Refused

(* c, or a service it requires, has been given up by systemd or cannot     *)
(* start from the files that are on disk.                                  *)
Hindered(c) == \E d \in {c} \cup Needs[c] : d \in lost \/ ~Startable(d)

(* As long as the machine is not rebooted, every container of the stack    *)
(* runs after setup or will run again, whatever dies and however often a   *)
(* later run of setup is cut short, unless that run left one of the files  *)
(* it reads at start cut short (quadlet.go:29-33), or systemd has given up *)
(* on it or on a service it Requires=.                                     *)
StackComesUp ==
  stage2 ~> (reboots > 0 \/ \A c \in Containers : c \in up \/ Hindered(c))

(* After setup every container of the stack runs, or will run again:       *)
(* slfhst.target wants them all and is WantedBy=default.target.            *)
StackRuns == stage2 ~> (up = Containers)

(* WaitForPostgres "waits for the postgres container to become reachable"  *)
(* (backing.go:133).                                                       *)
PostgresAwaited ==
  [][pc = "WaitForPostgres" /\ pc' = "WaitForGarage" => "postgres" \in up]_setupVars

(* BootstrapGarage "idempotently [...] ensures the "ente" bucket +         *)
(* "museum" key (read/write/owner) exist" (backing.go:71-73).              *)
KeyHasGrant == stage2 => "grant" \in garage

(* A run that nothing cuts off does keep that promise: the key is without  *)
(* its grant only between two calls of a run, or because a run was stopped *)
(* or Garage died right there.                                             *)
GrantUnlessCut ==
  "key" \in garage /\ "grant" \notin garage =>
    pc = "Allow" \/ faults + reboots + fails > 0

(* A container without an [Install] of its own runs only because a run of  *)
(* setup has started slfhst.target: no reboot and no restart brings it up. *)
OnlySetupStarts ==
  [][pc # "StartStack" => wanted' \cup up' \subseteq wanted \cup BootEnabled]_setupVars

---------------------------------------------------------------------------
(* The inductive invariant behind the safety properties (SetupProofs): the *)
(* steps of Run behind which something is in place.                        *)

Configured  == SetupSteps \ {"Load", "Prompt", "SaveOpen", "SaveWrite"}
SecretsMade == Configured \ {"Firewall", "EnsureSecrets"}
AllRendered == SecretsMade \ {"Render"}
Reloaded    == AllRendered \ {"DaemonReload"}
LayoutDone  == {"Bucket", "Key", "Allow", "HardenStalwart", "DnsSync", "Healthcheck", "MarkDone"}
BucketDone  == LayoutDone \ {"Bucket"}
KeyDone     == BucketDone \ {"Key"}
Synced      == {"Healthcheck", "MarkDone"}

(* Between Load and Save there is no config.json to agree with, and behind *)
(* them the process has in memory what is on disk.                         *)
ConfigLoaded ==
  /\ pc \in {"Prompt", "SaveOpen"} => file = 0
  /\ pc = "SaveWrite" => file = Torn
  /\ pc \in {"SaveOpen", "SaveWrite"} => cfg # 0
  /\ pc \in Configured => file \notin {0, Torn} /\ cfg = file

(* What the loops of EnsureSecrets and RenderAll have been through. *)
LoopsDone ==
  /\ pc = "EnsureSecrets" => \A k \in Keys \ todo : secrets[k] = file
  /\ pc \in SecretsMade => \A k \in Keys : secrets[k] = file
  /\ pc = "Render" => \A f \in Files \ todo : rendered[f] = file
  /\ pc \in AllRendered => \A f \in Files : rendered[f] = file
  /\ pc \in Reloaded => \A c \in Containers : loaded[c] = file

(* What the calls behind them have made. *)
CallsDone ==
  /\ pc \in LayoutDone => "layout" \in garage
  /\ pc \in BucketDone => "bucket" \in garage
  /\ pc \in KeyDone => "key" \in garage
  /\ pc \in Synced => dns = file
  /\ pc = "MarkDone" => motd = file

(* What has to have happened for config.json to be left cut short, for the *)
(* grant to be left out, and for Garage to be down behind the command that *)
(* created the key.                                                        *)
CutsCounted ==
  /\ file = Torn => pc = "SaveWrite" \/ faults + reboots > 0
  /\ GrantUnlessCut
  /\ pc = "Allow" => "garage" \in up \/ fails > 0

(* What Cloudflare has accepted it has not refused. *)
RefusalsKept ==
  /\ refused \subseteq 1..prompted
  /\ file \in 0..prompted \cup {Torn} /\ cfg \in 0..prompted
  /\ pc \in {"Prompt", "SaveOpen", "SaveWrite"} => dns = 0
  /\ dns \notin refused

IInv == TypeOK /\ ConfigLoaded /\ LoopsDone /\ CallsDone /\ ConfigAgrees /\ Stage2Complete
=============================================================================
