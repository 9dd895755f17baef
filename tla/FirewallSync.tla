---------------------------- MODULE FirewallSync ----------------------------
(***************************************************************************)
(* internal/firewall, SyncCloudflareIPSets: bring firewalld's two ipsets   *)
(* of Cloudflare ranges, through which alone the web port is reachable, to *)
(* the lists baked into /usr.  setup, every check-all of the monitor's     *)
(* timer and `slfhst cf-ips sync` call it, and nothing keeps them apart.   *)
(* Each D-Bus call is one step: a sync can be overtaken, fail or be killed *)
(* between any two of them.                                                *)
(*                                                                         *)
(* An ipset holds the lists of an image, numbered from 1, or is Empty or   *)
(* Missing.  firewalld keeps a permanent configuration, which the calls    *)
(* change, and a runtime one, which reload copies from it.                 *)
(***************************************************************************)
EXTENDS Naturals, Sequences

CONSTANTS Syncers,        \* callers of SyncCloudflareIPSets
          Missing, Empty, \* no such ipset; an ipset without entries
          MaxFailures,    \* bound: syncs that are stopped
          MaxImages       \* bound: images booted

ASSUME FirewallBounds ==
  /\ MaxFailures \in Nat /\ MaxImages \in Nat \ {0}
  /\ Missing \notin Nat /\ Empty \notin Nat /\ Missing # Empty

(* cfIPSets, in order. *)
Families == <<"cloudflare-v4", "cloudflare-v6">>
Names == {Families[i] : i \in DOMAIN Families}

VARIABLES image,      \* the image that is booted
          permanent,  \* per ipset: its permanent configuration
          runtime,    \* per ipset: what filters packets
          pc,         \* per syncer: "idle", a step, "ok" or "failed"
          fam,        \* per syncer: position in Families
          failures

fwVars == <<image, permanent, runtime, pc, fam, failures>>

Lists == 1..MaxImages

SyncSteps == {"getIPSetByName", "addIPSet", "setEntries", "reload"}

(* SetupPreBoot has written both ipsets with the lists of the first image; *)
(* the owner may have deleted one since.                                   *)
Init ==
  /\ image = 1
  /\ permanent \in [Names -> {1, Missing}]
  /\ runtime = permanent
  /\ pc = [s \in Syncers |-> "idle"]
  /\ fam = [s \in Syncers |-> 1]
  /\ failures = 0

Goto(s, l) == pc' = [pc EXCEPT ![s] = l]
IPSet(s) == Families[fam[s]]

SystemBus(s) ==
  /\ pc[s] \in {"idle", "ok", "failed"}
  /\ fam' = [fam EXCEPT ![s] = 1]
  /\ Goto(s, "getIPSetByName")
  /\ UNCHANGED <<image, permanent, runtime, failures>>

(* Mutant: the ipset is always made anew. *)
Mut_GetIPSetByNameIgnored(s) ==
  /\ pc[s] = "getIPSetByName"
  /\ permanent' = [permanent EXCEPT ![IPSet(s)] = Missing]
  /\ Goto(s, "addIPSet")
  /\ UNCHANGED <<image, runtime, fam, failures>>

(* Mutant: every error of getIPSetByName is an error of the sync. *)
Mut_GetIPSetByNameStrict(s) ==
  /\ pc[s] = "getIPSetByName"
  /\ Goto(s, IF permanent[IPSet(s)] = Missing THEN "failed" ELSE "setEntries")
  /\ UNCHANGED <<image, permanent, runtime, fam, failures>>

(* readCIDRList, whose file no one changes while its image is booted, and  *)
(* ensureIPSet: a CallError means that there is no such ipset.             *)
GetIPSetByName(s) ==
  /\ pc[s] = "getIPSetByName"
  /\ Goto(s, IF permanent[IPSet(s)] = Missing THEN "addIPSet" ELSE "setEntries")
  /\ UNCHANGED <<image, permanent, runtime, fam, failures>>

(* addIPSet answers NAME_CONFLICT if somebody else has just added it. *)
AddIPSet(s) ==
  /\ pc[s] = "addIPSet"
  /\ \/ /\ permanent[IPSet(s)] = Missing
        /\ permanent' = [permanent EXCEPT ![IPSet(s)] = Empty]
        /\ Goto(s, "setEntries")
     \/ /\ permanent[IPSet(s)] # Missing
        /\ Goto(s, "failed")
        /\ UNCHANGED permanent
  /\ UNCHANGED <<image, runtime, fam, failures>>

(* setEntries; then the next family, or reload. *)
SetEntries(s) ==
  /\ pc[s] = "setEntries"
  /\ permanent' = [permanent EXCEPT ![IPSet(s)] = image]
  /\ \/ /\ fam[s] < Len(Families)
        /\ fam' = [fam EXCEPT ![s] = @ + 1]
        /\ Goto(s, "getIPSetByName")
     \/ /\ fam[s] = Len(Families)
        /\ fam' = fam
        /\ Goto(s, "reload")
  /\ UNCHANGED <<image, runtime, failures>>

(* Mutant: only the ipset handled last is reloaded. *)
Mut_ReloadLast(s) ==
  /\ pc[s] = "reload"
  /\ runtime' = [runtime EXCEPT ![IPSet(s)] = permanent[IPSet(s)]]
  /\ Goto(s, "ok")
  /\ UNCHANGED <<image, permanent, fam, failures>>

Reload(s) ==
  /\ pc[s] = "reload"
  /\ runtime' = permanent
  /\ Goto(s, "ok")
  /\ UNCHANGED <<image, permanent, fam, failures>>

(* The connection breaks, a call times out in firewalld, the process dies. *)
Stopped(s) ==
  /\ pc[s] \in SyncSteps
  /\ failures < MaxFailures
  /\ failures' = failures + 1
  /\ Goto(s, "failed")
  /\ UNCHANGED <<image, permanent, runtime, fam>>

(* An OS update is booted: new lists, and firewalld starts from what is    *)
(* permanent.                                                              *)
BootNewImage ==
  /\ image < MaxImages
  /\ image' = image + 1
  /\ runtime' = permanent
  /\ pc' = [s \in Syncers |-> "idle"]
  /\ UNCHANGED <<permanent, fam, failures>>

SyncStep(s) ==
  GetIPSetByName(s) \/ AddIPSet(s) \/ SetEntries(s) \/ Reload(s)

Next ==
  \/ BootNewImage
  \/ \E s \in Syncers : SystemBus(s) \/ SyncStep(s) \/ Stopped(s)

Spec == Init /\ [][Next]_fwVars

(* slfhst-monitor.timer runs a sync again and again. *)
FirewallFairness == \A s \in Syncers : WF_fwVars(SystemBus(s)) /\ WF_fwVars(SyncStep(s))

FairSpec == Spec /\ FirewallFairness

---------------------------------------------------------------------------
(* Properties.                                                             *)

(* Every variable has its type. *)
TypeOK ==
  /\ image \in Lists
  /\ permanent \in [Names -> Lists \cup {Missing, Empty}]
  /\ runtime \in [Names -> Lists \cup {Missing, Empty}]
  /\ pc \in [Syncers -> SyncSteps \cup {"idle", "ok", "failed"}]
  /\ fam \in [Syncers -> DOMAIN Families]
  /\ failures \in 0..MaxFailures

(* After a sync that returned nil, both families filter by the lists of    *)
(* the booted image until the next image is booted, whatever other syncs   *)
(* do, fail to do or leave half done in the meantime.                      *)
SyncedRules ==
  \A s \in Syncers : pc[s] = "ok" =>
    \A f \in Names : permanent[f] = image /\ runtime[f] = image

(* No step takes the entries away from an ipset that filters packets: the  *)
(* site behind it is never cut off, not even by a sync's reload while      *)
(* another sync is between addIPSet and setEntries, or by a reboot.        *)
NeverCutOff ==
  [][\A f \in Names : runtime[f] \in Lists => runtime'[f] \in Lists]_fwVars

(* As long as an image is booted, its lists stay in force once they are:   *)
(* no reload, of whichever sync and however little that sync or another    *)
(* one has done, brings older lists back or takes these away.              *)
InForceStays ==
  [][\A f \in Names : runtime[f] = image /\ image' = image => runtime'[f] = image]_fwVars

(* Once no more images are booted and no more syncs are stopped, the       *)
(* packet filter has the lists of the booted image for good.               *)
RulesConverge == <>[](\A f \in Names : runtime[f] = image)

---------------------------------------------------------------------------
(* The inductive invariant behind the safety properties                    *)
(* (FirewallSyncProofs).                                                   *)

(* The families a sync has been through have the lists of the booted image *)
(* in the permanent configuration, and no other sync takes them away.      *)
Handled ==
  \A s \in Syncers :
    /\ pc[s] \in {"getIPSetByName", "addIPSet", "setEntries"} =>
         \A i \in 1..(fam[s] - 1) : permanent[Families[i]] = image
    /\ pc[s] = "reload" => \A f \in Names : permanent[f] = image

(* An ipset that filters by some list has one in the permanent             *)
(* configuration, which the next reload will put into force.               *)
PermanentKept == \A f \in Names : runtime[f] \in Lists => permanent[f] \in Lists

(* Lists of the booted image are in force only if they are permanent too. *)
RuntimeCurrent == \A f \in Names : runtime[f] = image => permanent[f] = image

IInv == TypeOK /\ Handled /\ SyncedRules /\ PermanentKept /\ RuntimeCurrent
=============================================================================
