------------------------------ MODULE DnsSync ------------------------------
(***************************************************************************)
(* internal/dnscf: Sync makes the Cloudflare zone hold the appliance's     *)
(* records.  It asks for the public address, lists the zone once, and then *)
(* creates or replaces one record after the other against that list,       *)
(* returning at its first error.  `slfhst setup` and `slfhst dns sync`     *)
(* call it, possibly at the same time; whoever called it calls it again    *)
(* after an error.                                                         *)
(*                                                                         *)
(* The zone is the list that the API returns; a record's id is its place.  *)
(* The domain and the token are set (RunPostBoot), the zone exists.        *)
(***************************************************************************)
EXTENDS Naturals, Sequences

CONSTANTS Syncers,         \* processes that call Sync
          Subdomains,      \* names with a proxied A record, in order
          V4, V6,          \* public addresses the box can have
          AlertEmail,      \* is alert_email set?
          InitialZones,    \* what the zone may hold before the first sync
          PageSize,        \* per_page: records in one answer
          RefuseIdentical, \* does the API refuse to add an identical record?
          MaxFailures,     \* bound: requests that fail
          MaxMoves         \* bound: changes of the public address

Addresses == V4 \cup V6

ASSUME DnsBounds ==
  /\ PageSize \in Nat /\ MaxFailures \in Nat /\ MaxMoves \in Nat
  /\ AlertEmail \in BOOLEAN /\ RefuseIdentical \in BOOLEAN
  /\ Addresses # {} /\ V4 \cap V6 = {}

VARIABLES zone,      \* the zone's records
          addr,      \* the box's public address
          pc,        \* per syncer: "idle", "list", "upsert", "ok", "failed"
          ip,        \* per syncer: the address PublicIP returned
          existing,  \* per syncer: the records it listed
          next,      \* per syncer: position in Wanted
          failures, moves

dnsVars == <<zone, addr, pc, ip, existing, next, failures, moves>>

Key(type, name, prio) == [type |-> type, name |-> name, prio |-> prio]
Rec(key, content, proxied) == [key |-> key, content |-> content, proxied |-> proxied]

(* The records of Sync in the order of its upserts.  stalwartDKIMTXT has   *)
(* no key yet, so there is no DKIM record.                                 *)
Wanted(a) ==
  [i \in DOMAIN Subdomains |-> Rec(Key("A", Subdomains[i], "none"), a, TRUE)]
  \o << Rec(Key("A", "smtp", "none"), a, FALSE),
        Rec(Key("MX", "@", "10"), "smtp", FALSE),
        Rec(Key("TXT", "@", "none"), "spf", FALSE) >>
  \o IF AlertEmail THEN << Rec(Key("TXT", "_dmarc", "none"), "dmarc", FALSE) >>
     ELSE << >>

WantedSet(a) == {Wanted(a)[i] : i \in DOMAIN Wanted(a)}
WantedKeys == {r.key : r \in UNION {WantedSet(a) : a \in Addresses}}

Contents == Addresses \cup {"smtp", "spf", "dmarc"}
            \cup UNION {{z[i].content : i \in DOMAIN z} : z \in InitialZones}
Keys == WantedKeys \cup UNION {{z[i].key : i \in DOMAIN z} : z \in InitialZones}
Records == [key : Keys, content : Contents, proxied : BOOLEAN]

(* No two records of Sync have the same key. *)
ASSUME NamesDistinct ==
  /\ Subdomains \in Seq(STRING)
  /\ \A i, j \in DOMAIN Subdomains : Subdomains[i] = Subdomains[j] => i = j
  /\ \A i \in DOMAIN Subdomains : Subdomains[i] # "smtp"

ASSUME ZonesTyped == InitialZones \subseteq Seq(Records)

Init ==
  /\ zone \in InitialZones
  /\ addr \in Addresses
  /\ pc = [s \in Syncers |-> "idle"]
  /\ ip = [s \in Syncers |-> addr]
  /\ existing = [s \in Syncers |-> << >>]
  /\ next = [s \in Syncers |-> 1]
  /\ failures = 0 /\ moves = 0

Goto(s, l) == pc' = [pc EXCEPT ![s] = l]

---------------------------------------------------------------------------
(* Cloudflare and the network.                                             *)

Refused(rec) == rec.key.type = "A" /\ rec.content \in V6

Exists(rec) == \E i \in DOMAIN zone : zone[i].key = rec.key /\ zone[i].content = rec.content

---------------------------------------------------------------------------
(* Sync.                                                                   *)

(* RequireDone, Load and PublicIP. *)
PublicIP(s) ==
  /\ pc[s] \in {"idle", "ok", "failed"}
  /\ ip' = [ip EXCEPT ![s] = addr]
  /\ Goto(s, "list")
  /\ UNCHANGED <<zone, addr, existing, next, failures, moves>>

FirstPage == SubSeq(zone, 1, IF Len(zone) < PageSize THEN Len(zone) ELSE PageSize)

(* zoneID and existingRecords, which asks for one page. *)
ExistingRecords(s) ==
  /\ pc[s] = "list"
  /\ existing' = [existing EXCEPT ![s] = FirstPage]
  /\ next' = [next EXCEPT ![s] = 1]
  /\ Goto(s, "upsert")
  /\ UNCHANGED <<zone, addr, ip, failures, moves>>

(* Mutant: the priority is not compared. *)
Mut_SameKeyAnyPriority(e, rec) == e.key.type = rec.key.type /\ e.key.name = rec.key.name

(* Mutant: only the name is compared. *)
Mut_SameKeyNameOnly(e, rec) == e.key.name = rec.key.name

(* Type, name and samePriority. *)
SameKey(e, rec) == e.key = rec.key

(* Mutant: the proxied state is not compared. *)
Mut_UpToDateContentOnly(e, rec) == e.content = rec.content

(* Mutant: whatever is there is left as it is. *)
Mut_UpToDateAlways(e, rec) == TRUE

UpToDate(e, rec) == e.content = rec.content /\ e.proxied = rec.proxied

FirstMatch(list, rec, i) ==
  /\ i \in DOMAIN list
  /\ SameKey(list[i], rec)
  /\ \A j \in 1..(i - 1) : ~SameKey(list[j], rec)

NoMatch(list, rec) == \A i \in DOMAIN list : ~SameKey(list[i], rec)

(* Mutant: a record with another content is not replaced but joined. *)
Mut_upsertAdds(list, rec) ==
  \/ \E i \in DOMAIN list : SameKey(list[i], rec) /\ UpToDate(list[i], rec) /\ UNCHANGED zone
  \/ /\ \A i \in DOMAIN list : ~(SameKey(list[i], rec) /\ UpToDate(list[i], rec))
     /\ ~Refused(rec)
     /\ zone' = Append(zone, rec)

(* What upsert does to the zone when it returns nil: no request, a PUT on  *)
(* the id of the first match, or a POST.                                   *)
upsert(list, rec) ==
  \/ \E i \in DOMAIN list :
       /\ FirstMatch(list, rec, i)
       /\ IF UpToDate(list[i], rec)
          THEN UNCHANGED zone
          ELSE ~Refused(rec) /\ zone' = [zone EXCEPT ![i] = rec]
  \/ /\ NoMatch(list, rec)
     /\ ~Refused(rec)
     /\ ~(RefuseIdentical /\ Exists(rec))
     /\ zone' = Append(zone, rec)

(* Would the API refuse the request that upsert sends? *)
UpsertRefused(list, rec) ==
  /\ \A i \in DOMAIN list : FirstMatch(list, rec, i) => ~UpToDate(list[i], rec)
  /\ \/ Refused(rec)
     \/ NoMatch(list, rec) /\ RefuseIdentical /\ Exists(rec)

Current(s) == Wanted(ip[s])[next[s]]

(* Mutant: one upsert too many. *)
Mut_UpsertPastEnd(s) ==
  /\ pc[s] = "upsert"
  /\ upsert(existing[s], Current(s))
  /\ next' = [next EXCEPT ![s] = @ + 1]
  /\ Goto(s, IF next[s] > Len(Wanted(ip[s])) THEN "ok" ELSE "upsert")
  /\ UNCHANGED <<addr, ip, existing, failures, moves>>

Upsert(s) ==
  /\ pc[s] = "upsert"
  /\ upsert(existing[s], Current(s))
  /\ next' = [next EXCEPT ![s] = @ + 1]
  /\ Goto(s, IF next[s] = Len(Wanted(ip[s])) THEN "ok" ELSE "upsert")
  /\ UNCHANGED <<addr, ip, existing, failures, moves>>

Rejected(s) ==
  /\ pc[s] = "upsert"
  /\ UpsertRefused(existing[s], Current(s))
  /\ Goto(s, "failed")
  /\ UNCHANGED <<zone, addr, ip, existing, next, failures, moves>>

(* A request gets no answer or a bad one before it has had an effect, or   *)
(* the process is stopped there ...                                        *)
RequestFails(s) ==
  /\ pc[s] \in {"list", "upsert"}
  /\ failures < MaxFailures
  /\ failures' = failures + 1
  /\ Goto(s, "failed")
  /\ UNCHANGED <<zone, addr, ip, existing, next, moves>>

(* ... or after it (a timeout of 15 seconds). *)
AnswerLost(s) ==
  /\ pc[s] = "upsert"
  /\ failures < MaxFailures
  /\ failures' = failures + 1
  /\ upsert(existing[s], Current(s))
  /\ Goto(s, "failed")
  /\ UNCHANGED <<addr, ip, existing, next, moves>>

AddressChanges ==
  /\ moves < MaxMoves
  /\ moves' = moves + 1
  /\ \E a \in Addresses \ {addr} : addr' = a
  /\ UNCHANGED <<zone, pc, ip, existing, next, failures>>

SyncStep(s) == ExistingRecords(s) \/ Upsert(s) \/ Rejected(s)

Next ==
  \/ AddressChanges
  \/ \E s \in Syncers : PublicIP(s) \/ SyncStep(s) \/ RequestFails(s) \/ AnswerLost(s)

Spec == Init /\ [][Next]_dnsVars

(* A sync that runs goes on, and is run again until it has succeeded with  *)
(* the address the box has now.                                            *)
DnsFairness ==
  \A s \in Syncers :
    /\ WF_dnsVars(SyncStep(s))
    /\ WF_dnsVars(PublicIP(s) /\ (pc[s] # "ok" \/ ip[s] # addr))

FairSpec == Spec /\ DnsFairness

---------------------------------------------------------------------------
(* Properties.                                                             *)

(* Every variable has its type; the loop of Sync stays inside its list,    *)
(* and the ids a sync holds are ids of the zone.                           *)
TypeOK ==
  /\ zone \in Seq(Records)
  /\ addr \in Addresses
  /\ pc \in [Syncers -> {"idle", "list", "upsert", "ok", "failed"}]
  /\ ip \in [Syncers -> Addresses]
  /\ existing \in [Syncers -> Seq(Records)]
  /\ \A s \in Syncers : Len(existing[s]) <= Len(zone)
  /\ next \in [Syncers -> Nat]
  /\ \A s \in Syncers : pc[s] = "upsert" => next[s] \in DOMAIN Wanted(ip[s])
  /\ failures \in 0..MaxFailures /\ moves \in 0..MaxMoves

Holds(rec) == \E i \in DOMAIN zone : zone[i] = rec

Published(a) == \A rec \in WantedSet(a) : Holds(rec)

(* A Sync that returned nil has left every wanted record in the zone, for  *)
(* the address it saw, whatever was there before, wherever an earlier sync *)
(* stopped and whoever syncs the same address beside it.                   *)
SyncPublished == \A s \in Syncers : pc[s] = "ok" => Published(ip[s])

(* upsert touches no record of another (type, name, priority): the         *)
(* owner's other records survive, the MX records of a backup host among    *)
(* them, and keep their place in the list that ids stand for.              *)
ForeignKept ==
  [][\A i \in DOMAIN zone : zone[i].key \notin WantedKeys => zone'[i] = zone[i]]_dnsVars

(* While every sync that runs is for the address the box has, no record    *)
(* that is right leaves the zone: not by a sync with an old list, not by   *)
(* one that repeats what an earlier one left half done.                    *)
RightStays ==
  [][(\A s \in Syncers : pc[s] = "upsert" => ip[s] = addr) =>
       \A rec \in WantedSet(addr) : Holds(rec) => Holds(rec)']_dnsVars

(* Once the address stays the same, retries make the zone hold the records *)
(* for it, and it keeps holding them.                                      *)
ZoneConverges == <>[]Published(addr)

(* The zone as DnsZone sees it: per entry the values of its records, by    *)
(* their ids.                                                              *)
Value(rec) == <<rec.content, rec.proxied>>

Places(k) == {i \in DOMAIN zone : zone[i].key = k}

View == [k \in WantedKeys |-> [i \in Places(k) |-> Value(zone[i])]]

WantedValues(k) == {Value(r) : r \in {r \in UNION {WantedSet(a) : a \in Addresses} : r.key = k}}

Zone == INSTANCE DnsZone WITH
          Entries <- WantedKeys,
          Values <- (UNION {WantedValues(k) : k \in WantedKeys})
                    \cup (UNION {{Value(z[i]) : i \in DOMAIN z} : z \in InitialZones}),
          WantedAt <- [k \in WantedKeys |-> WantedValues(k)],
          view <- View

(* "upsert creates rec if no existing record matches its (type, name,      *)
(* priority), updates it if the content/proxied state differs, or is a     *)
(* no-op if it already matches" (dnscf.go:147-149): seen from outside, an  *)
(* entry has one value, and changes into the wanted one only.              *)
UpsertsZone == Zone!Spec

---------------------------------------------------------------------------
(* The inductive invariants behind the safety properties (DnsSyncProofs).  *)

(* Whoever syncs, syncs for the same address. *)
OneAddress == \A a, b \in Addresses : a = b
OneSyncer  == \A s, t \in Syncers : s = t

(* Two syncs that both create a record do not make two of it: the API      *)
(* refuses the second if they are for one address.                         *)
SyncsAgree == OneSyncer \/ (OneAddress /\ RefuseIdentical)

(* The ids a sync has read still stand for records of the same keys. *)
IdsKept == \A s \in Syncers : \A i \in DOMAIN existing[s] : zone[i].key = existing[s][i].key

(* A record has not changed since it was listed, or it is the wanted one. *)
ListFresh ==
  \A s \in Syncers : pc[s] = "upsert" =>
    \A i \in DOMAIN existing[s] :
      zone[i] = existing[s][i] \/ zone[i] \in WantedSet(ip[s])

(* The records a sync has been through are in the zone. *)
Upserted(s, j) == pc[s] = "ok" \/ (pc[s] = "upsert" /\ j < next[s])

UpsertedHeld ==
  \A s \in Syncers : \A j \in DOMAIN Wanted(ip[s]) : Upserted(s, j) => Holds(Wanted(ip[s])[j])

IInv == TypeOK /\ IdsKept
PInv == IInv /\ ListFresh /\ UpsertedHeld

(* No zone begins with two records for an entry of dnscf's. *)
OneRecordEach ==
  \A z \in InitialZones : \A i, j \in DOMAIN z :
    z[i].key = z[j].key /\ z[i].key \in WantedKeys => i = j

EntriesSingle ==
  \A i, j \in DOMAIN zone : zone[i].key = zone[j].key /\ zone[i].key \in WantedKeys => i = j

(* What has joined the zone since a sync read its list is wanted by it,    *)
(* and without another syncer it is its own work.                          *)
JoinedWanted ==
  \A s \in Syncers : pc[s] = "upsert" =>
    \A i \in DOMAIN zone \ DOMAIN existing[s] :
      \E j \in DOMAIN Wanted(ip[s]) :
        zone[i] = Wanted(ip[s])[j] /\ (OneSyncer => j < next[s])

RInv == IInv /\ EntriesSingle /\ JoinedWanted
=============================================================================
