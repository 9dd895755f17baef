------------------------------ MODULE Monitor ------------------------------
(***************************************************************************)
(* internal/monitor: `slfhst check-all`, started by slfhst-monitor.timer.  *)
(* A check looks at one service, port and blocklist after the other while  *)
(* they change, refreshes the firewall's Cloudflare ranges, asks for       *)
(* updates, and mails what it found through the box's own mail server.     *)
(* The timer starts no check while one is running.                         *)
(*                                                                         *)
(* A problem is a service that is not active, a port that refuses, a       *)
(* blocklist that lists the box, or no way to learn the public address.    *)
(***************************************************************************)
EXTENDS Naturals, Sequences, FiniteSets

CONSTANTS appServices, portChecks, dnsblZones, \* what is checked, in order
          smtpPort,      \* the port alerts are sent to, one of portChecks
          AddressIsV4,   \* does PublicIP answer with an IPv4 address?
          AlertEmail,    \* is alert_email set?
          MaxChanges,    \* bound: changes of the world
          MaxFailures,   \* bound: failing commands, lookups and deliveries
          MaxHangs       \* bound: peers that stop answering

Elems(seq) == {seq[i] : i \in DOMAIN seq}

Problem(kind, which) == <<kind, which>>
Services == {Problem("service", s) : s \in Elems(appServices)}
Ports    == {Problem("port", p) : p \in Elems(portChecks)}
Listings == {Problem("dnsbl", z) : z \in Elems(dnsblZones)}
NoAddress == Problem("address", "unknown")
Problems == Services \cup Ports \cup Listings \cup {NoAddress}

Peers == {"firewalld", "sysupdated", "smtp"}

(* monitor.go lists each of them in a literal. *)
ASSUME ListsChecked ==
  /\ appServices \in Seq(Elems(appServices)) /\ appServices # <<>>
  /\ portChecks \in Seq(Elems(portChecks)) /\ portChecks # <<>>
  /\ dnsblZones \in Seq(Elems(dnsblZones)) /\ dnsblZones # <<>>

ASSUME MonitorConstants ==
  /\ smtpPort \in Elems(portChecks)
  /\ AddressIsV4 \in BOOLEAN /\ AlertEmail \in BOOLEAN
  /\ MaxChanges \in Nat /\ MaxFailures \in Nat /\ MaxHangs \in Nat

VARIABLES done,      \* stage2 is done
          world,     \* the problems there are
          hung,      \* peers that accept connections and never answer
          pc,        \* what the check does next
          next,      \* position in the list it goes through
          issues,    \* problems it has found
          due,       \* problems the check has had no excuse to miss
          reported,  \* issues of the last alert that was delivered
          changes, failures

vars == <<done, world, hung, pc, next, issues, due, reported, changes, failures>>
environment == <<done, world, hung, changes>>

Steps == <<"services", "ports", "address", "dnsbl", "firewall", "update", "alert">>

Init ==
  /\ done = FALSE
  /\ world \in SUBSET Problems
  /\ hung = {}
  /\ pc = "idle" /\ next = 1
  /\ issues = {} /\ due = {}
  /\ reported = {}
  /\ changes = 0 /\ failures = 0

Fail == failures < MaxFailures /\ failures' = failures + 1

(* Mutant: a loop is left at its first problem. *)
Mut_AdvanceBreaks(list, step) ==
  IF next < Len(list) /\ issues' = issues THEN next' = next + 1 /\ UNCHANGED pc
  ELSE next' = 1 /\ pc' = step

(* The next element of a list, or the next step. *)
Advance(list, step) ==
  IF next < Len(list) THEN next' = next + 1 /\ UNCHANGED pc
  ELSE next' = 1 /\ pc' = step

---------------------------------------------------------------------------
(* CheckAll.                                                               *)

(* IsDone and Load.  Before stage2 is done, and with a config that cannot  *)
(* be read, check-all does nothing.                                        *)
CheckAll ==
  /\ pc = "idle"
  /\ done
  /\ pc' = "services" /\ issues' = {}
  /\ due' = world
  /\ UNCHANGED <<environment, next, reported, failures>>

(* systemctl is-active for one service: "unknown" if it fails. *)
ServiceStatus ==
  /\ pc = "services"
  /\ LET p == Problem("service", appServices[next]) IN
       \/ /\ issues' = IF p \in world THEN issues \cup {p} ELSE issues
          /\ UNCHANGED failures
       \/ Fail /\ issues' = issues \cup {p}
  /\ Advance(appServices, "ports")
  /\ UNCHANGED <<environment, due, reported>>

failedPorts ==
  /\ pc = "ports"
  /\ LET p == Problem("port", portChecks[next])
     IN  issues' = IF p \in world THEN issues \cup {p} ELSE issues
  /\ Advance(portChecks, "address")
  /\ UNCHANGED <<environment, due, reported, failures>>

(* Mutant: without an address the check is over. *)
Mut_PublicIPReturns ==
  /\ pc = "address"
  /\ \/ /\ NoAddress \in world
        /\ pc' = "alert" /\ due' = due \ Listings
     \/ /\ NoAddress \notin world
        /\ pc' = IF AddressIsV4 THEN "dnsbl" ELSE "firewall"
        /\ due' = IF AddressIsV4 THEN due ELSE due \ Listings
  /\ UNCHANGED <<environment, next, issues, reported, failures>>

(* dnscf.PublicIP; reverseIPv4 has no name to look up for an IPv6 address. *)
PublicIP ==
  /\ pc = "address"
  /\ \/ /\ NoAddress \in world
        /\ issues' = issues \cup {NoAddress}
        /\ pc' = "firewall" /\ due' = due \ Listings
     \/ /\ NoAddress \notin world
        /\ UNCHANGED issues
        /\ pc' = IF AddressIsV4 THEN "dnsbl" ELSE "firewall"
        /\ due' = IF AddressIsV4 THEN due ELSE due \ Listings
  /\ UNCHANGED <<environment, next, reported, failures>>

(* One lookup.  A lookup that fails looks like "not listed", and any       *)
(* answer at all like "listed": one from a zone that refuses the resolver, *)
(* too.                                                                    *)
dnsblListings ==
  /\ pc = "dnsbl"
  /\ LET p == Problem("dnsbl", dnsblZones[next]) IN
       \/ /\ issues' = IF p \in world THEN issues \cup {p} ELSE issues
          /\ UNCHANGED <<due, failures>>
       \/ Fail /\ UNCHANGED issues /\ due' = due \ {p}
       \/ Fail /\ issues' = issues \cup {p} /\ UNCHANGED due
  /\ Advance(dnsblZones, "firewall")
  /\ UNCHANGED <<environment, reported>>

(* SyncCloudflareIPSets and CheckNewVersion: an error is printed or goes   *)
(* into the mail's last line; without an answer Call waits for ever.       *)
SyncCloudflareIPSets ==
  /\ pc = "firewall" /\ "firewalld" \notin hung
  /\ pc' = "update"
  /\ UNCHANGED <<environment, next, issues, due, reported, failures>>

CheckNewVersion ==
  /\ pc = "update" /\ "sysupdated" \notin hung
  /\ pc' = "alert"
  /\ UNCHANGED <<environment, next, issues, due, reported, failures>>

AllClear ==
  /\ pc = "alert" /\ issues = {}
  /\ pc' = "idle"
  /\ UNCHANGED <<environment, next, issues, due, reported, failures>>

RelayUp == Problem("port", smtpPort) \notin world

(* The relay takes the mail ... *)
sendAlert ==
  /\ pc = "alert" /\ issues # {}
  /\ AlertEmail /\ RelayUp /\ "smtp" \notin hung
  /\ reported' = issues
  /\ pc' = "idle"
  /\ UNCHANGED <<environment, next, issues, due, failures>>

(* ... or there is none, or it refuses at some step: the alert is lost. *)
AlertLost ==
  /\ pc = "alert" /\ issues # {}
  /\ \/ (~AlertEmail \/ ~RelayUp) /\ UNCHANGED failures
     \/ AlertEmail /\ RelayUp /\ "smtp" \notin hung /\ Fail
  /\ pc' = "idle"
  /\ UNCHANGED <<environment, next, issues, due, reported>>

(* The process is killed. *)
Killed ==
  /\ pc # "idle"
  /\ Fail
  /\ pc' = "idle" /\ next' = 1
  /\ UNCHANGED <<environment, issues, due, reported>>

---------------------------------------------------------------------------
(* The world.                                                              *)

Stage2Done ==
  /\ ~done /\ done' = TRUE
  /\ UNCHANGED <<world, hung, pc, next, issues, due, reported, changes, failures>>

WorldChanges ==
  /\ changes < MaxChanges /\ changes' = changes + 1
  /\ \E p \in Problems :
       world' = IF p \in world THEN world \ {p} ELSE world \cup {p}
  /\ due' = due \cap world'
  /\ UNCHANGED <<done, hung, pc, next, issues, reported, failures>>

Hangs ==
  /\ \E q \in Peers : q \notin hung /\ hung' = hung \cup {q}
  /\ Cardinality(hung) < MaxHangs
  /\ UNCHANGED <<done, world, pc, next, issues, due, reported, changes, failures>>

Step ==
  \/ ServiceStatus \/ failedPorts \/ PublicIP \/ dnsblListings
  \/ SyncCloudflareIPSets \/ CheckNewVersion \/ AllClear \/ sendAlert \/ AlertLost

Next == CheckAll \/ Step \/ Killed \/ Stage2Done \/ WorldChanges \/ Hangs

Spec == Init /\ [][Next]_vars

(* The timer starts a check whenever there is none, and a check goes on.   *)
MonitorFairness == WF_vars(CheckAll) /\ WF_vars(Step) /\ WF_vars(Stage2Done)

FairSpec == Spec /\ MonitorFairness

---------------------------------------------------------------------------
(* Properties.                                                             *)

(* Every variable has its type, and next is a place in the list gone       *)
(* through.                                                                *)
TypeOK ==
  /\ done \in BOOLEAN
  /\ world \subseteq Problems
  /\ hung \subseteq Peers
  /\ pc \in Elems(Steps) \cup {"idle"}
  /\ pc = "services" => next \in DOMAIN appServices
  /\ pc = "ports" => next \in DOMAIN portChecks
  /\ pc = "dnsbl" => next \in DOMAIN dnsblZones
  /\ pc \in {"idle", "address", "firewall", "update", "alert"} => next = 1
  /\ issues \subseteq Problems /\ due \subseteq Problems /\ reported \subseteq Problems
  /\ changes \in 0..MaxChanges /\ failures \in 0..MaxFailures

(* A check that gets as far as its verdict, all clear or alert, names      *)
(* every problem that was there when it began and has been there since: no *)
(* finding in one list keeps it from going through the others.  A listing  *)
(* may be missing only if its lookup failed or there was no IPv4 address   *)
(* to look up.                                                             *)
MissesNothing == pc = "alert" => due \subseteq issues

MailWorks == AlertEmail /\ RelayUp /\ hung = {}

(* What check-all can see: a listing only if it can look the address up.   *)
Visible(p) == p \notin Listings \/ (AddressIsV4 /\ NoAddress \notin world)

(* A problem that stays is in the mail from some check on, as long as the  *)
(* mail server works, whatever else comes and goes: no failing check keeps *)
(* another from being made, and the best-effort steps hold up nothing.     *)
ProblemReported ==
  \A p \in Problems :
    <>[](p \in world /\ Visible(p) /\ MailWorks) => <>[](p \in reported)

(* "Run slfhst health/DNSBL/Cloudflare-IP checks periodically"             *)
(* (slfhst-monitor.timer:2): there is always another check.                *)
ChecksGoOn == []<>(pc = "services")

---------------------------------------------------------------------------
(* The inductive invariant behind MissesNothing (MonitorProofs): what is   *)
(* due is there, and has been found in the lists, and in the parts of a    *)
(* list, that the check has been through.                                  *)
Behind(kind, list) == {Problem(kind, list[i]) : i \in {k \in DOMAIN list : k < next}}

PastServices == pc \notin {"idle", "services"}
PastPorts    == PastServices /\ pc # "ports"
PastAddress  == PastPorts /\ pc # "address"
PastListings == PastAddress /\ pc # "dnsbl"

FoundSoFar ==
  /\ pc = "services" => due \cap Behind("service", appServices) \subseteq issues
  /\ PastServices => due \cap Services \subseteq issues
  /\ pc = "ports" => due \cap Behind("port", portChecks) \subseteq issues
  /\ PastPorts => due \cap Ports \subseteq issues
  /\ PastAddress => due \cap {NoAddress} \subseteq issues
  /\ pc = "dnsbl" => due \cap Behind("dnsbl", dnsblZones) \subseteq issues
  /\ PastListings => due \cap Listings \subseteq issues

IInv == TypeOK /\ (pc # "idle" => due \subseteq world) /\ FoundSoFar
=============================================================================
