--------------------------- MODULE DnsSyncProofs ---------------------------
(* Proofs about module DnsSync, for any syncers, subdomains, addresses and *)
(* zones, and any number of failing requests and changes of address.       *)
EXTENDS DnsSync, SequenceTheorems, TLAPS

---------------------------------------------------------------------------
(* The records of Sync.                                                    *)

(* Where each record is in Sync's list. *)
LEMMA WantedPlaces ==
  ASSUME NEW a \in Addresses
  PROVE  LET n == Len(Subdomains) IN
         /\ n \in Nat /\ DOMAIN Subdomains = 1..n
         /\ Len(Wanted(a)) = IF AlertEmail THEN n + 4 ELSE n + 3
         /\ DOMAIN Wanted(a) = 1..Len(Wanted(a))
         /\ \A i \in 1..n : Wanted(a)[i] = Rec(Key("A", Subdomains[i], "none"), a, TRUE)
         /\ Wanted(a)[n + 1] = Rec(Key("A", "smtp", "none"), a, FALSE)
         /\ Wanted(a)[n + 2] = Rec(Key("MX", "@", "10"), "smtp", FALSE)
         /\ Wanted(a)[n + 3] = Rec(Key("TXT", "@", "none"), "spf", FALSE)
         /\ AlertEmail => Wanted(a)[n + 4] = Rec(Key("TXT", "_dmarc", "none"), "dmarc", FALSE)
<1> DEFINE n == Len(Subdomains)
           sub(i) == Rec(Key("A", Subdomains[i], "none"), a, TRUE)
           smtp == Rec(Key("A", "smtp", "none"), a, FALSE)
           mx == Rec(Key("MX", "@", "10"), "smtp", FALSE)
           spf == Rec(Key("TXT", "@", "none"), "spf", FALSE)
           dmarc == Rec(Key("TXT", "_dmarc", "none"), "dmarc", FALSE)
           subs == [i \in DOMAIN Subdomains |-> sub(i)]
           last == IF AlertEmail THEN << dmarc >> ELSE << >>
           R == {sub(i) : i \in 1..n} \cup {smtp, mx, spf, dmarc}
<1>1. n \in Nat /\ DOMAIN Subdomains = 1..n
  BY NamesDistinct, LenProperties
<1>2. \A i \in 1..n : sub(i) \in R
  BY Zenon
<1>3. smtp \in R /\ mx \in R /\ spf \in R /\ dmarc \in R
  BY Zenon
<1>4. Wanted(a) = (subs \o << smtp, mx, spf >>) \o last
  BY Zenon DEF Wanted
<1> HIDE DEF R, n, sub, smtp, mx, spf, dmarc
<1>5. subs \in Seq(R) /\ Len(subs) = n /\ \A i \in 1..n : subs[i] = sub(i)
  <2>1. subs \in [1..n -> R]
    BY <1>1, <1>2
  <2>2. subs \in Seq(R)
    BY <1>1, <2>1
  <2> QED
    BY <1>1, <2>1, <2>2
<1>6. << smtp, mx, spf >> \in Seq(R) /\ Len(<< smtp, mx, spf >>) = 3
  BY <1>3
<1>7. last \in Seq(R) /\ Len(last) = (IF AlertEmail THEN 1 ELSE 0) /\ (AlertEmail => last[1] = dmarc)
  BY <1>3
<1> HIDE DEF subs, last
<1>8. /\ subs \o << smtp, mx, spf >> \in Seq(R) /\ Len(subs \o << smtp, mx, spf >>) = n + 3
      /\ \A i \in 1..n : (subs \o << smtp, mx, spf >>)[i] = sub(i)
      /\ (subs \o << smtp, mx, spf >>)[n + 1] = smtp
      /\ (subs \o << smtp, mx, spf >>)[n + 2] = mx
      /\ (subs \o << smtp, mx, spf >>)[n + 3] = spf
  BY <1>1, <1>5, <1>6, ConcatProperties
<1> DEFINE first == subs \o << smtp, mx, spf >>
<1> HIDE DEF first
<1>9. /\ first \in Seq(R) /\ Len(first) = n + 3
      /\ \A i \in 1..n : first[i] = sub(i)
      /\ first[n + 1] = smtp /\ first[n + 2] = mx /\ first[n + 3] = spf
  BY <1>8 DEF first
<1>10. /\ Len(first \o last) = (IF AlertEmail THEN n + 4 ELSE n + 3)
       /\ DOMAIN (first \o last) = 1..Len(first \o last)
       /\ \A i \in 1..(n + 3) : (first \o last)[i] = first[i]
       /\ AlertEmail => (first \o last)[n + 4] = dmarc
  <2>1. /\ first \o last \in Seq(R) /\ Len(first \o last) = Len(first) + Len(last)
        /\ \A i \in 1..(Len(first) + Len(last)) :
             (first \o last)[i] = IF i <= Len(first) THEN first[i] ELSE last[i - Len(first)]
    BY <1>7, <1>9, ConcatProperties
  <2>2. DOMAIN (first \o last) = 1..Len(first \o last)
    BY <2>1, LenProperties
  <2>3. CASE AlertEmail
    BY <1>1, <1>7, <1>9, <2>1, <2>2, <2>3
  <2>4. CASE ~AlertEmail
    BY <1>1, <1>7, <1>9, <2>1, <2>2, <2>4
  <2> QED
    BY <2>3, <2>4
<1>11. Wanted(a) = first \o last
  BY <1>4 DEF first
<1>12. /\ Len(Wanted(a)) = (IF AlertEmail THEN n + 4 ELSE n + 3)
       /\ DOMAIN Wanted(a) = 1..Len(Wanted(a))
       /\ \A i \in 1..n : Wanted(a)[i] = sub(i)
       /\ Wanted(a)[n + 1] = smtp /\ Wanted(a)[n + 2] = mx /\ Wanted(a)[n + 3] = spf
       /\ AlertEmail => Wanted(a)[n + 4] = dmarc
  <2>1. \A i \in 1..n : i \in 1..(n + 3)
    BY <1>1
  <2>3. \A i \in 1..n : Wanted(a)[i] = sub(i)
    BY <1>9, <1>10, <1>11, <2>1
  <2>4. Wanted(a)[n + 1] = smtp /\ Wanted(a)[n + 2] = mx /\ Wanted(a)[n + 3] = spf
    <3>1. n + 1 \in 1..(n + 3) /\ n + 2 \in 1..(n + 3) /\ n + 3 \in 1..(n + 3)
      BY <1>1
    <3>2. Wanted(a)[n + 1] = first[n + 1]
      BY <1>10, <1>11, <3>1
    <3>3. Wanted(a)[n + 2] = first[n + 2]
      BY <1>10, <1>11, <3>1
    <3>4. Wanted(a)[n + 3] = first[n + 3]
      BY <1>10, <1>11, <3>1
    <3>5. first[n + 1] = smtp /\ first[n + 2] = mx /\ first[n + 3] = spf
      BY <1>9, Zenon
    <3> QED
      BY <3>2, <3>3, <3>4, <3>5, Zenon
  <2>5. /\ Len(Wanted(a)) = (IF AlertEmail THEN n + 4 ELSE n + 3)
        /\ DOMAIN Wanted(a) = 1..Len(Wanted(a))
        /\ AlertEmail => Wanted(a)[n + 4] = dmarc
    BY <1>10, <1>11
  <2> QED
    BY <2>3, <2>4, <2>5
<1> QED
  BY <1>1, <1>12, Zenon DEF n, sub, smtp, mx, spf, dmarc

(* Sync's list is a sequence of records, is not empty, and has no key      *)
(* twice.                                                                  *)
LEMMA WantedList ==
  ASSUME NEW a \in Addresses
  PROVE  /\ Len(Wanted(a)) \in Nat \ {0} /\ DOMAIN Wanted(a) = 1..Len(Wanted(a))
         /\ \A i \in DOMAIN Wanted(a) :
              Wanted(a)[i] \in Records /\ Wanted(a)[i].key \in WantedKeys
         /\ \A i, j \in DOMAIN Wanted(a) : Wanted(a)[i].key = Wanted(a)[j].key => i = j
<1> DEFINE n == Len(Subdomains)
           W == Wanted(a)
<1>1. /\ n \in Nat /\ DOMAIN Subdomains = 1..n
      /\ Len(W) = IF AlertEmail THEN n + 4 ELSE n + 3
      /\ DOMAIN W = 1..Len(W)
  BY WantedPlaces
<1>2. /\ \A i \in 1..n : W[i].key = Key("A", Subdomains[i], "none")
      /\ W[n + 1].key = Key("A", "smtp", "none")
      /\ W[n + 2].key = Key("MX", "@", "10")
      /\ W[n + 3].key = Key("TXT", "@", "none")
      /\ AlertEmail => W[n + 4].key = Key("TXT", "_dmarc", "none")
  <2>1. /\ \A i \in 1..n : W[i] = Rec(Key("A", Subdomains[i], "none"), a, TRUE)
        /\ W[n + 1] = Rec(Key("A", "smtp", "none"), a, FALSE)
        /\ W[n + 2] = Rec(Key("MX", "@", "10"), "smtp", FALSE)
        /\ W[n + 3] = Rec(Key("TXT", "@", "none"), "spf", FALSE)
        /\ AlertEmail => W[n + 4] = Rec(Key("TXT", "_dmarc", "none"), "dmarc", FALSE)
    BY WantedPlaces, Zenon
  <2> HIDE DEF W, n
  <2>2. ASSUME NEW i \in 1..n PROVE W[i].key = Key("A", Subdomains[i], "none")
    <3>1. W[i] = Rec(Key("A", Subdomains[i], "none"), a, TRUE)
      BY <2>1, Zenon
    <3> QED
      BY <3>1 DEF Rec
  <2>3. W[n + 1].key = Key("A", "smtp", "none") /\ W[n + 2].key = Key("MX", "@", "10")
    BY <2>1 DEF Rec
  <2>4. W[n + 3].key = Key("TXT", "@", "none")
    BY <2>1 DEF Rec
  <2>5. ASSUME AlertEmail PROVE W[n + 4].key = Key("TXT", "_dmarc", "none")
    BY <2>1, <2>5 DEF Rec
  <2> QED
    BY <2>2, <2>3, <2>4, <2>5, Zenon
<1>3. Len(W) \in Nat \ {0}
  BY <1>1
<1>4. ASSUME NEW i \in DOMAIN W PROVE W[i] \in Records /\ W[i].key \in WantedKeys
  <2>1. W[i].key \in WantedKeys
    BY <1>4 DEF WantedKeys, WantedSet
  <2>2. \A c \in Contents, b \in BOOLEAN : \A k : Rec(k, c, b).key \in WantedKeys => Rec(k, c, b) \in Records
    BY Zenon DEF Rec, Records, Keys
  <2>3. a \in Contents /\ "smtp" \in Contents /\ "spf" \in Contents /\ "dmarc" \in Contents
    BY DEF Contents
  <2>4. i \in 1..n \/ i = n + 1 \/ i = n + 2 \/ i = n + 3 \/ (AlertEmail /\ i = n + 4)
    BY <1>1, <1>4
  <2>5. \E c \in Contents, b \in BOOLEAN : \E k : W[i] = Rec(k, c, b)
    BY <2>3, <2>4, WantedPlaces, Zenon
  <2> QED
    BY <2>1, <2>2, <2>5, Zenon
<1>5. ASSUME NEW i \in DOMAIN W, NEW j \in DOMAIN W, W[i].key = W[j].key PROVE i = j
  <2> HIDE DEF W
  <2>1. \A k \in DOMAIN W : k \in 1..n \/ k = n + 1 \/ k = n + 2 \/ k = n + 3 \/ (AlertEmail /\ k = n + 4)
    BY <1>1
  <2>2. ASSUME NEW k \in DOMAIN W
        PROVE  /\ k \in 1..n => W[k].key.type = "A" /\ W[k].key.name = Subdomains[k]
               /\ k = n + 1 => W[k].key.type = "A" /\ W[k].key.name = "smtp"
               /\ k = n + 2 => W[k].key.type = "MX"
               /\ k = n + 3 => W[k].key.type = "TXT" /\ W[k].key.name = "@"
               /\ AlertEmail /\ k = n + 4 => W[k].key.type = "TXT" /\ W[k].key.name = "_dmarc"
    <3>1. \A t, m, p : Key(t, m, p).type = t /\ Key(t, m, p).name = m
      BY Zenon DEF Key
    <3> QED
      BY <1>2, <2>2, <3>1
  <2>3. \A k \in 1..n : Subdomains[k] # "smtp"
    BY <1>1, NamesDistinct
  <2>4. CASE i \in 1..n
    <3>1. j \in 1..n
      BY <1>5, <2>1, <2>2, <2>3, <2>4
    <3> QED
      BY <1>1, <1>5, <2>2, <2>4, <3>1, NamesDistinct
  <2>5. CASE i = n + 1
    BY <1>5, <2>1, <2>2, <2>3, <2>5
  <2>6. CASE i = n + 2
    BY <1>5, <2>1, <2>2, <2>6
  <2>7. CASE i = n + 3
    BY <1>5, <2>1, <2>2, <2>7
  <2>8. CASE AlertEmail /\ i = n + 4
    BY <1>5, <2>1, <2>2, <2>8
  <2> QED
    BY <2>1, <2>4, <2>5, <2>6, <2>7, <2>8
<1> QED
  BY <1>1, <1>3, <1>4, <1>5

(* For one address a key stands for one record. *)
LEMMA WantedByKey ==
  ASSUME NEW a \in Addresses, NEW r \in WantedSet(a), NEW q \in WantedSet(a), r.key = q.key
  PROVE  r = q
<1>1. PICK i \in DOMAIN Wanted(a) : r = Wanted(a)[i]
  BY DEF WantedSet
<1>2. PICK j \in DOMAIN Wanted(a) : q = Wanted(a)[j]
  BY DEF WantedSet
<1> QED
  BY <1>1, <1>2, WantedList

(* The record a sync is about to upsert is one of those it wants. *)
LEMMA CurrentWanted ==
  ASSUME TypeOK, NEW s \in Syncers, pc[s] = "upsert"
  PROVE  /\ Current(s) \in Records /\ Current(s).key \in WantedKeys
         /\ Current(s) \in WantedSet(ip[s])
<1>1. ip[s] \in Addresses /\ next[s] \in DOMAIN Wanted(ip[s])
  BY DEF TypeOK
<1>2. Wanted(ip[s])[next[s]] \in Records /\ Wanted(ip[s])[next[s]].key \in WantedKeys
  BY <1>1, WantedList
<1> QED
  BY <1>1, <1>2 DEF Current, WantedSet

---------------------------------------------------------------------------
(* The zone.                                                               *)

(* The ids a sync holds are ids of the zone. *)
LEMMA IdsInZone ==
  ASSUME TypeOK, NEW s \in Syncers
  PROVE  /\ DOMAIN zone = 1..Len(zone) /\ Len(zone) \in Nat
         /\ DOMAIN existing[s] = 1..Len(existing[s]) /\ Len(existing[s]) \in Nat
         /\ DOMAIN existing[s] \subseteq DOMAIN zone
<1>1. zone \in Seq(Records) /\ existing[s] \in Seq(Records) /\ Len(existing[s]) <= Len(zone)
  BY DEF TypeOK
<1>2. /\ DOMAIN zone = 1..Len(zone) /\ Len(zone) \in Nat
      /\ DOMAIN existing[s] = 1..Len(existing[s]) /\ Len(existing[s]) \in Nat
  BY <1>1, LenProperties
<1> QED
  BY <1>1, <1>2

(* A record replaces another of its key, in place, or it joins the zone at *)
(* the end, or it was in the list that the sync has read.                  *)
LEMMA UpsertEffect ==
  ASSUME IInv, NEW s \in Syncers, NEW rec \in Records, upsert(existing[s], rec)
  PROVE  /\ zone' \in Seq(Records)
         /\ Len(zone') \in Nat /\ Len(zone) <= Len(zone')
         /\ DOMAIN zone \subseteq DOMAIN zone'
         /\ \A i \in DOMAIN zone :
              /\ zone'[i].key = zone[i].key
              /\ zone'[i] = zone[i] \/ zone'[i] = rec
         /\ \A i \in DOMAIN zone' \ DOMAIN zone : zone'[i] = rec
         /\ \/ \E i \in DOMAIN zone' : zone'[i] = rec
            \/ zone' = zone /\ \E i \in DOMAIN existing[s] : existing[s][i] = rec
<1>1. /\ zone \in Seq(Records) /\ existing[s] \in Seq(Records)
      /\ \A i \in DOMAIN existing[s] : zone[i].key = existing[s][i].key
  BY DEF IInv, TypeOK, IdsKept
<1>2. /\ DOMAIN zone = 1..Len(zone) /\ Len(zone) \in Nat
      /\ DOMAIN existing[s] = 1..Len(existing[s])
      /\ DOMAIN existing[s] \subseteq DOMAIN zone
  BY IdsInZone DEF IInv
<1>3. CASE zone' = Append(zone, rec)
  <2>1. /\ zone' \in Seq(Records) /\ Len(zone') = Len(zone) + 1
        /\ \A i \in 1..Len(zone) : zone'[i] = zone[i]
        /\ zone'[Len(zone) + 1] = rec
    BY <1>1, <1>3, AppendProperties
  <2>2. DOMAIN zone' = 1..(Len(zone) + 1)
    BY <2>1, LenProperties
  <2>3. \E i \in DOMAIN zone' : zone'[i] = rec
    BY <1>2, <2>1, <2>2
  <2> QED
    BY <1>2, <2>1, <2>2, <2>3
<1>4. ASSUME NEW i \in DOMAIN existing[s], FirstMatch(existing[s], rec, i),
             ~UpToDate(existing[s][i], rec), zone' = [zone EXCEPT ![i] = rec]
      PROVE  /\ zone' \in Seq(Records) /\ Len(zone') = Len(zone) /\ DOMAIN zone' = DOMAIN zone
             /\ zone[i].key = rec.key /\ zone'[i] = rec
             /\ \A j \in DOMAIN zone : j # i => zone'[j] = zone[j]
  <2>1. i \in 1..Len(zone)
    BY <1>2, <1>4
  <2>2. /\ zone' \in Seq(Records) /\ Len(zone') = Len(zone)
        /\ \A j \in 1..Len(zone) : zone'[j] = IF j = i THEN rec ELSE zone[j]
    BY <1>1, <1>4, <2>1, ExceptSeq
  <2>3. DOMAIN zone' = 1..Len(zone)
    BY <2>2, LenProperties
  <2>4. zone[i].key = rec.key
    BY <1>1, <1>4 DEF FirstMatch, SameKey
  <2> QED
    BY <1>2, <2>1, <2>2, <2>3, <2>4
<1>5. ASSUME NEW i \in DOMAIN existing[s], FirstMatch(existing[s], rec, i),
             UpToDate(existing[s][i], rec)
      PROVE  existing[s][i] = rec
  <2>1. existing[s][i] \in Records
    BY <1>1, <1>2, <1>5, ElementOfSeq
  <2> QED
    BY <1>5, <2>1 DEF FirstMatch, SameKey, UpToDate, Records
<1>6. CASE \E i \in DOMAIN existing[s] :
             /\ FirstMatch(existing[s], rec, i) /\ ~UpToDate(existing[s][i], rec)
             /\ zone' = [zone EXCEPT ![i] = rec]
  <2>1. PICK i \in DOMAIN existing[s] :
             /\ FirstMatch(existing[s], rec, i) /\ ~UpToDate(existing[s][i], rec)
             /\ zone' = [zone EXCEPT ![i] = rec]
    BY <1>6
  <2>2. /\ zone' \in Seq(Records) /\ Len(zone') = Len(zone) /\ DOMAIN zone' = DOMAIN zone
        /\ zone[i].key = rec.key /\ zone'[i] = rec
        /\ \A j \in DOMAIN zone : j # i => zone'[j] = zone[j]
    BY <1>4, <2>1
  <2> QED
    BY <1>2, <2>2
<1>7. CASE zone' = zone /\ \E i \in DOMAIN existing[s] :
                              FirstMatch(existing[s], rec, i) /\ UpToDate(existing[s][i], rec)
  <2>1. \E i \in DOMAIN existing[s] : existing[s][i] = rec
    BY <1>5, <1>7
  <2> QED
    BY <1>1, <1>2, <1>7, <2>1
<1>8. \/ zone' = Append(zone, rec)
      \/ \E i \in DOMAIN existing[s] :
           /\ FirstMatch(existing[s], rec, i) /\ ~UpToDate(existing[s][i], rec)
           /\ zone' = [zone EXCEPT ![i] = rec]
      \/ zone' = zone /\ \E i \in DOMAIN existing[s] :
                            FirstMatch(existing[s], rec, i) /\ UpToDate(existing[s][i], rec)
  BY DEF upsert
<1> QED
  BY <1>3, <1>6, <1>7, <1>8

(* The page that a sync reads is the beginning of the zone. *)
LEMMA PageRead ==
  ASSUME TypeOK
  PROVE  /\ FirstPage \in Seq(Records) /\ Len(FirstPage) <= Len(zone)
         /\ DOMAIN FirstPage = 1..Len(FirstPage)
         /\ \A i \in DOMAIN FirstPage : FirstPage[i] = zone[i]
         /\ Len(zone) <= PageSize => Len(FirstPage) = Len(zone)
<1> DEFINE m == IF Len(zone) < PageSize THEN Len(zone) ELSE PageSize
<1>1. zone \in Seq(Records) /\ Len(zone) \in Nat /\ PageSize \in Nat
  BY DnsBounds, LenProperties DEF TypeOK
<1>2. m \in Nat /\ m <= Len(zone) /\ (Len(zone) <= PageSize => m = Len(zone))
  BY <1>1
<1>3. \A i \in 1..m : zone[i] \in Records
  BY <1>1, <1>2, ElementOfSeq
<1> HIDE DEF m
<1>4. /\ SubSeq(zone, 1, m) \in Seq(Records)
      /\ Len(SubSeq(zone, 1, m)) = IF 1 <= m THEN m - 1 + 1 ELSE 0
      /\ \A i \in 1 .. m - 1 + 1 : SubSeq(zone, 1, m)[i] = zone[1 + i - 1]
  BY <1>2, <1>3, SubSeqProperties
<1>5. Len(SubSeq(zone, 1, m)) = m /\ \A i \in 1..m : SubSeq(zone, 1, m)[i] = zone[i]
  BY <1>2, <1>4
<1>6. FirstPage = SubSeq(zone, 1, m)
  BY DEF FirstPage, m
<1>7. DOMAIN FirstPage = 1..m
  BY <1>4, <1>5, <1>6, LenProperties
<1> QED
  BY <1>2, <1>4, <1>5, <1>6, <1>7

---------------------------------------------------------------------------
(* Types, ids, and the records of others.                                  *)

(* The invariant is inductive: the zone changes in upsert only. *)
LEMMA InvInductive ==
  /\ Init => IInv
  /\ IInv /\ [Next]_dnsVars => IInv'
<1> USE DnsBounds
<1>1. Init => IInv
  <2> SUFFICES ASSUME Init PROVE IInv
    OBVIOUS
  <2> USE DEF Init
  <2>1. /\ zone \in Seq(Records) /\ Len(zone) \in Nat
        /\ << >> \in Seq(Records) /\ Len(<< >>) = 0 /\ DOMAIN << >> = {}
    BY ZonesTyped, EmptySeq, LenProperties
  <2>2. TypeOK
    BY <2>1 DEF TypeOK
  <2>3. IdsKept
    BY <2>1 DEF IdsKept
  <2> QED
    BY <2>2, <2>3 DEF IInv
<1>2. IInv /\ [Next]_dnsVars => IInv'
  <2> SUFFICES ASSUME IInv, [Next]_dnsVars PROVE IInv'
    OBVIOUS
  <2>0. TypeOK /\ IdsKept
    BY DEF IInv
  <2>1. CASE UNCHANGED dnsVars
    BY <2>0, <2>1 DEF dnsVars, IInv, TypeOK, IdsKept
  <2>2. CASE AddressChanges
    BY <2>0, <2>2 DEF AddressChanges, IInv, TypeOK, IdsKept
  <2>3. ASSUME NEW s \in Syncers, PublicIP(s) PROVE IInv'
    BY <2>0, <2>3 DEF PublicIP, Goto, IInv, TypeOK, IdsKept
  <2>4. ASSUME NEW s \in Syncers, Rejected(s) \/ RequestFails(s) PROVE IInv'
    <3>1. /\ pc' = [pc EXCEPT ![s] = "failed"]
          /\ UNCHANGED <<zone, addr, ip, existing, next, moves>>
      BY <2>4 DEF Rejected, RequestFails, Goto
    <3>2. failures' \in 0..MaxFailures
      BY <2>0, <2>4 DEF Rejected, RequestFails, TypeOK
    <3> QED
      BY <2>0, <3>1, <3>2 DEF IInv, TypeOK, IdsKept
  <2>5. ASSUME NEW s \in Syncers, ExistingRecords(s) PROVE IInv'
    <3>1. /\ existing' = [existing EXCEPT ![s] = FirstPage]
          /\ next' = [next EXCEPT ![s] = 1] /\ pc' = [pc EXCEPT ![s] = "upsert"]
          /\ UNCHANGED <<zone, addr, ip, failures, moves>>
      BY <2>5 DEF ExistingRecords, Goto
    <3>2. /\ FirstPage \in Seq(Records) /\ Len(FirstPage) <= Len(zone)
          /\ \A i \in DOMAIN FirstPage : FirstPage[i] = zone[i]
      BY <2>0, PageRead
    <3>3. 1 \in DOMAIN Wanted(ip[s])
      BY <2>0, WantedList DEF TypeOK
    <3>4. TypeOK'
      BY <2>0, <3>1, <3>2, <3>3 DEF TypeOK
    <3>5. IdsKept'
      BY <2>0, <3>1, <3>2 DEF IdsKept, TypeOK
    <3> QED
      BY <3>4, <3>5 DEF IInv
  <2>6. ASSUME NEW s \in Syncers, Upsert(s) \/ AnswerLost(s) PROVE IInv'
    <3>1. /\ pc[s] = "upsert" /\ upsert(existing[s], Current(s))
          /\ UNCHANGED <<addr, ip, existing, moves>>
      BY <2>6 DEF Upsert, AnswerLost
    <3>2. Current(s) \in Records
      BY <2>0, <3>1, CurrentWanted
    <3>3. /\ zone' \in Seq(Records) /\ Len(zone') \in Nat /\ Len(zone) <= Len(zone')
          /\ \A i \in DOMAIN zone : zone'[i].key = zone[i].key
      BY <3>1, <3>2, UpsertEffect
    <3>4. \A t \in Syncers : Len(existing[t]) <= Len(zone')
      BY <2>0, <3>3, IdsInZone DEF TypeOK
    <3>5. /\ pc' \in [Syncers -> {"idle", "list", "upsert", "ok", "failed"}]
          /\ next' \in [Syncers -> Nat] /\ failures' \in 0..MaxFailures
      <4>1. CASE Upsert(s)
        <5>1. /\ next' = [next EXCEPT ![s] = next[s] + 1] /\ failures' = failures
              /\ \E l \in {"ok", "upsert"} : pc' = [pc EXCEPT ![s] = l]
          BY <4>1 DEF Upsert, Goto
        <5> QED
          BY <2>0, <5>1 DEF TypeOK
      <4>2. CASE AnswerLost(s)
        <5>1. /\ next' = next /\ failures < MaxFailures /\ failures' = failures + 1
              /\ pc' = [pc EXCEPT ![s] = "failed"]
          BY <4>2 DEF AnswerLost, Goto
        <5> QED
          BY <2>0, <5>1 DEF TypeOK
      <4> QED
        BY <2>6, <4>1, <4>2
    <3>6. \A t \in Syncers : pc'[t] = "upsert" => next'[t] \in DOMAIN Wanted(ip[t])
      <4> SUFFICES ASSUME NEW t \in Syncers, pc'[t] = "upsert"
                   PROVE  next'[t] \in DOMAIN Wanted(ip[t])
        OBVIOUS
      <4>1. CASE t # s
        BY <2>0, <2>6, <4>1 DEF Upsert, AnswerLost, Goto, TypeOK
      <4>2. CASE t = s
        <5>1. next'[s] = next[s] + 1 /\ next[s] # Len(Wanted(ip[s]))
          BY <2>0, <2>6, <4>2 DEF Upsert, AnswerLost, Goto, TypeOK
        <5>2. next[s] \in DOMAIN Wanted(ip[s]) /\ ip[s] \in Addresses
          BY <2>0, <3>1 DEF TypeOK
        <5>3. Len(Wanted(ip[s])) \in Nat /\ DOMAIN Wanted(ip[s]) = 1..Len(Wanted(ip[s]))
          BY <5>2, WantedList
        <5> QED
          BY <4>2, <5>1, <5>2, <5>3
      <4> QED
        BY <4>1, <4>2
    <3>7. TypeOK'
      BY <2>0, <3>1, <3>3, <3>4, <3>5, <3>6 DEF TypeOK
    <3>8. IdsKept'
      BY <2>0, <3>1, <3>3, IdsInZone DEF IdsKept
    <3> QED
      BY <3>7, <3>8 DEF IInv
  <2> QED
    BY <2>1, <2>2, <2>3, <2>4, <2>5, <2>6 DEF Next, SyncStep
<1> QED
  BY <1>1, <1>2

(* Every variable keeps its type: Sync's loop stays inside its list, and   *)
(* the ids it read are ids of the zone for as long as it uses them.        *)
THEOREM TypeCorrect == Spec => []TypeOK
<1>1. IInv => TypeOK
  BY DEF IInv
<1> QED
  BY <1>1, InvInductive, PTL DEF Spec

(* No sync, whatever list it holds and whoever syncs beside it, changes or *)
(* moves a record of a (type, name, priority) that dnscf does not manage   *)
(* (upsert and samePriority).                                              *)
THEOREM OthersKept == Spec => ForeignKept
<1> DEFINE Kept == \A i \in DOMAIN zone : zone[i].key \notin WantedKeys => zone'[i] = zone[i]
<1>1. IInv /\ [Next]_dnsVars => [Kept]_dnsVars
  <2> SUFFICES ASSUME IInv, Next PROVE Kept
    OBVIOUS
  <2>1. CASE zone' = zone
    BY <2>1
  <2>2. ASSUME NEW s \in Syncers, Upsert(s) \/ AnswerLost(s) PROVE Kept
    <3>1. pc[s] = "upsert" /\ upsert(existing[s], Current(s))
      BY <2>2 DEF Upsert, AnswerLost
    <3>2. Current(s) \in Records /\ Current(s).key \in WantedKeys
      BY <3>1, CurrentWanted DEF IInv
    <3> QED
      BY <3>1, <3>2, UpsertEffect
  <2> QED
    BY <2>1, <2>2 DEF Next, SyncStep, AddressChanges, PublicIP, ExistingRecords, Rejected, RequestFails
<1> QED
  BY <1>1, InvInductive, PTL DEF Spec, ForeignKept

---------------------------------------------------------------------------
(* What a sync has published.                                              *)

(* One box has one address at a time: two syncs for two addresses would    *)
(* undo each other's A records.                                            *)
LEMMA SameAddress ==
  ASSUME OneAddress \/ OneSyncer, TypeOK, NEW s \in Syncers, NEW t \in Syncers
  PROVE  ip[s] = ip[t] /\ ip[s] \in Addresses
  BY DEF OneAddress, OneSyncer, TypeOK

(* A record that the zone holds and that a sync wants is still there after *)
(* an upsert of that sync.                                                 *)
LEMMA WantedSurvives ==
  ASSUME IInv, NEW s \in Syncers, pc[s] = "upsert", upsert(existing[s], Current(s)),
         NEW rec \in WantedSet(ip[s]), Holds(rec)
  PROVE  Holds(rec)'
<1>1. TypeOK /\ ip[s] \in Addresses
  BY DEF IInv, TypeOK
<1>2. Current(s) \in Records /\ Current(s) \in WantedSet(ip[s])
  BY <1>1, CurrentWanted
<1>3. PICK i \in DOMAIN zone : zone[i] = rec
  BY DEF Holds
<1>4. /\ i \in DOMAIN zone' /\ zone'[i].key = zone[i].key
      /\ zone'[i] = zone[i] \/ zone'[i] = Current(s)
  BY <1>2, <1>3, UpsertEffect
<1>5. zone'[i] = rec
  BY <1>1, <1>2, <1>3, <1>4, WantedByKey
<1> QED
  BY <1>4, <1>5 DEF Holds

(* Whoever syncs, a record for the box's address that is in the zone stays *)
(* there, as long as all syncs that run are for that address (upsert).     *)
THEOREM RightRecordsStay == Spec => RightStays
<1> DEFINE Stays ==
      (\A s \in Syncers : pc[s] = "upsert" => ip[s] = addr) =>
         \A rec \in WantedSet(addr) : Holds(rec) => Holds(rec)'
<1>1. IInv /\ [Next]_dnsVars => [Stays]_dnsVars
  <2> SUFFICES ASSUME IInv, Next, \A s \in Syncers : pc[s] = "upsert" => ip[s] = addr,
                      NEW rec \in WantedSet(addr), Holds(rec)
               PROVE  Holds(rec)'
    OBVIOUS
  <2>1. CASE zone' = zone
    BY <2>1 DEF Holds
  <2>2. ASSUME NEW s \in Syncers, pc[s] = "upsert", upsert(existing[s], Current(s))
        PROVE  Holds(rec)'
    BY <2>2, WantedSurvives
  <2> QED
    BY <2>1, <2>2 DEF Next, SyncStep, AddressChanges, PublicIP, ExistingRecords, Upsert,
       Rejected, RequestFails, AnswerLost
<1>2. Spec => [][Stays]_dnsVars
  BY <1>1, InvInductive, PTL DEF Spec
<1> QED
  BY <1>2 DEF RightStays

(* The same for what any sync wants, if all are for one address. *)
LEMMA HeldSurvives ==
  ASSUME OneAddress \/ OneSyncer, PInv, NEW s \in Syncers, NEW t \in Syncers,
         pc[s] = "upsert", upsert(existing[s], Current(s)),
         NEW rec \in WantedSet(ip[t]), Holds(rec)
  PROVE  Holds(rec)'
<1>1. IInv /\ ip[s] = ip[t]
  BY SameAddress DEF PInv, IInv
<1> QED
  BY <1>1, WantedSurvives

(* The record that was upserted is there, even if the sync sent no request *)
(* because its list, read earlier, had the record.                         *)
LEMMA UpsertHolds ==
  ASSUME PInv, NEW s \in Syncers, pc[s] = "upsert", upsert(existing[s], Current(s))
  PROVE  \E i \in DOMAIN zone' : zone'[i] = Current(s)
<1>1. /\ IInv /\ TypeOK /\ IdsKept /\ ListFresh /\ ip[s] \in Addresses
  BY DEF PInv, IInv, TypeOK
<1>2. Current(s) \in Records /\ Current(s) \in WantedSet(ip[s])
  BY <1>1, CurrentWanted
<1>3. \/ \E i \in DOMAIN zone' : zone'[i] = Current(s)
      \/ zone' = zone /\ \E i \in DOMAIN existing[s] : existing[s][i] = Current(s)
  BY <1>1, <1>2, UpsertEffect
<1>4. ASSUME zone' = zone, NEW i \in DOMAIN existing[s], existing[s][i] = Current(s)
      PROVE  i \in DOMAIN zone' /\ zone'[i] = Current(s)
  <2>1. i \in DOMAIN zone
    BY <1>1, <1>4, IdsInZone
  <2>2. zone[i].key = existing[s][i].key /\ (zone[i] = existing[s][i] \/ zone[i] \in WantedSet(ip[s]))
    BY <1>1, <1>4 DEF IdsKept, ListFresh
  <2>3. zone[i] = Current(s)
    BY <1>1, <1>2, <1>4, <2>2, WantedByKey
  <2> QED
    BY <1>4, <2>1, <2>3
<1> QED
  BY <1>3, <1>4

(* The stronger invariant is inductive. *)
LEMMA PublishInductive ==
  ASSUME OneAddress \/ OneSyncer
  PROVE  /\ Init => PInv
         /\ PInv /\ [Next]_dnsVars => PInv'
<1>1. Init => PInv
  <2> SUFFICES ASSUME Init PROVE PInv
    OBVIOUS
  <2>1. \A s \in Syncers : pc[s] = "idle"
    BY DEF Init
  <2> QED
    BY <2>1, InvInductive DEF PInv, ListFresh, UpsertedHeld, Upserted
<1>2. PInv /\ [Next]_dnsVars => PInv'
  <2> SUFFICES ASSUME PInv, [Next]_dnsVars PROVE PInv'
    OBVIOUS
  <2>0. IInv /\ TypeOK /\ ListFresh /\ UpsertedHeld /\ IInv'
    BY InvInductive DEF PInv, IInv
  <2>A. SUFFICES ListFresh' /\ UpsertedHeld'
    BY <2>0 DEF PInv
  <2>1. CASE UNCHANGED dnsVars
    BY <2>0, <2>1 DEF dnsVars, ListFresh, UpsertedHeld, Upserted, Holds
  <2>2. CASE AddressChanges
    BY <2>0, <2>2 DEF AddressChanges, ListFresh, UpsertedHeld, Upserted, Holds
  <2>3. ASSUME NEW s \in Syncers,
               PublicIP(s) \/ Rejected(s) \/ RequestFails(s)
        PROVE  ListFresh' /\ UpsertedHeld'
    <3>1. /\ UNCHANGED <<zone, existing, next>>
          /\ \E l \in {"list", "failed"} : pc' = [pc EXCEPT ![s] = l]
          /\ \A t \in Syncers \ {s} : ip'[t] = ip[t]
      BY <2>0, <2>3 DEF PublicIP, Rejected, RequestFails, Goto, TypeOK
    <3>2. pc'[s] \notin {"upsert", "ok"} /\ \A t \in Syncers \ {s} : pc'[t] = pc[t]
      BY <2>0, <3>1 DEF TypeOK
    <3>3. ListFresh'
      BY <2>0, <3>1, <3>2 DEF ListFresh
    <3>4. UpsertedHeld'
      BY <2>0, <3>1, <3>2 DEF UpsertedHeld, Upserted, Holds
    <3> QED
      BY <3>3, <3>4
  <2>4. ASSUME NEW s \in Syncers, ExistingRecords(s) PROVE ListFresh' /\ UpsertedHeld'
    <3>1. /\ existing' = [existing EXCEPT ![s] = FirstPage]
          /\ next' = [next EXCEPT ![s] = 1] /\ pc' = [pc EXCEPT ![s] = "upsert"]
          /\ UNCHANGED <<zone, ip>>
      BY <2>4 DEF ExistingRecords, Goto
    <3>2. /\ existing'[s] = FirstPage /\ next'[s] = 1 /\ pc'[s] = "upsert"
          /\ \A t \in Syncers \ {s} :
               existing'[t] = existing[t] /\ next'[t] = next[t] /\ pc'[t] = pc[t]
      BY <2>0, <3>1 DEF TypeOK
    <3>3. \A i \in DOMAIN FirstPage : FirstPage[i] = zone[i]
      BY <2>0, PageRead
    <3>4. ListFresh'
      BY <2>0, <3>1, <3>2, <3>3 DEF ListFresh
    <3>5. \A j \in DOMAIN Wanted(ip[s]) : ~(j < 1)
      BY <2>0, WantedList DEF TypeOK
    <3>6. UpsertedHeld'
      BY <2>0, <3>1, <3>2, <3>5 DEF UpsertedHeld, Upserted, Holds
    <3> QED
      BY <3>4, <3>6
  <2>5. ASSUME NEW s \in Syncers, Upsert(s) \/ AnswerLost(s) PROVE ListFresh' /\ UpsertedHeld'
    <3>1. /\ pc[s] = "upsert" /\ upsert(existing[s], Current(s))
          /\ UNCHANGED <<ip, existing>>
      BY <2>5 DEF Upsert, AnswerLost
    <3>2. Current(s) \in Records /\ Current(s) \in WantedSet(ip[s])
      BY <2>0, <3>1, CurrentWanted
    <3>3. \A i \in DOMAIN zone : zone'[i] = zone[i] \/ zone'[i] = Current(s)
      BY <2>0, <3>1, <3>2, UpsertEffect
    <3>4. \A t \in Syncers \ {s} : pc'[t] = pc[t] /\ next'[t] = next[t]
      BY <2>0, <2>5 DEF Upsert, AnswerLost, Goto, TypeOK
    <3>5. ListFresh'
      <4> SUFFICES ASSUME NEW t \in Syncers, pc'[t] = "upsert", NEW i \in DOMAIN existing[t]
                   PROVE  zone'[i] = existing[t][i] \/ zone'[i] \in WantedSet(ip[t])
        BY <3>1 DEF ListFresh
      <4>1. pc[t] = "upsert" /\ ip[t] = ip[s]
        BY <2>0, <3>1, <3>4, SameAddress
      <4>2. i \in DOMAIN zone /\ (zone[i] = existing[t][i] \/ zone[i] \in WantedSet(ip[t]))
        BY <2>0, <4>1, IdsInZone DEF ListFresh
      <4> QED
        BY <3>2, <3>3, <4>1, <4>2
    <3>6. UpsertedHeld'
      <4> SUFFICES ASSUME NEW t \in Syncers, NEW j \in DOMAIN Wanted(ip[t]), Upserted(t, j)'
                   PROVE  \E i \in DOMAIN zone' : zone'[i] = Wanted(ip[t])[j]
        BY <3>1 DEF UpsertedHeld, Holds
      <4>1. Wanted(ip[t])[j] \in WantedSet(ip[t])
        BY DEF WantedSet
      <4>2. CASE Upserted(t, j)
        <5>1. Holds(Wanted(ip[t])[j])
          BY <2>0, <4>2 DEF UpsertedHeld
        <5>2. ASSUME NEW rec \in WantedSet(ip[t]), Holds(rec)
              PROVE  \E i \in DOMAIN zone' : zone'[i] = rec
          BY <3>1, <5>2, HeldSurvives DEF Holds
        <5> QED
          BY <4>1, <5>1, <5>2
      <4>3. CASE ~Upserted(t, j)
        <5>1. t = s
          BY <3>4, <4>3 DEF Upserted
        <5>2. j = next[s]
          <6>1. /\ next[s] \in 1..Len(Wanted(ip[s])) /\ j \in 1..Len(Wanted(ip[s]))
                /\ Len(Wanted(ip[s])) \in Nat
            BY <2>0, <3>1, <5>1, WantedList DEF TypeOK
          <6>2. ~(j < next[s])
            BY <3>1, <4>3, <5>1 DEF Upserted
          <6>3. CASE Upsert(s)
            <7>1. /\ next'[s] = next[s] + 1
                  /\ pc'[s] = IF next[s] = Len(Wanted(ip[s])) THEN "ok" ELSE "upsert"
              BY <2>0, <6>3 DEF Upsert, Goto, TypeOK
            <7> QED
              BY <5>1, <6>1, <6>2, <7>1 DEF Upserted
          <6>4. CASE AnswerLost(s)
            <7>1. pc'[s] = "failed"
              BY <2>0, <6>4 DEF AnswerLost, Goto, TypeOK
            <7> QED
              BY <5>1, <7>1 DEF Upserted
          <6> QED
            BY <2>5, <6>3, <6>4
        <5>3. \E i \in DOMAIN zone' : zone'[i] = Current(s)
          BY <3>1, UpsertHolds
        <5> QED
          BY <5>1, <5>2, <5>3 DEF Current
      <4> QED
        BY <4>2, <4>3
    <3> QED
      BY <3>5, <3>6
  <2> QED
    BY <2>1, <2>2, <2>3, <2>4, <2>5 DEF Next, SyncStep
<1> QED
  BY <1>1, <1>2

(* A Sync that returned nil has left every record it wants in the zone,    *)
(* whatever was there, wherever earlier syncs stopped, with stale lists    *)
(* and lost answers, as long as all syncs are for one address or there is  *)
(* one syncer: two syncs for two addresses take turns at the A records     *)
(* (dnscf.Sync).                                                           *)
THEOREM NilMeansPublished ==
  ASSUME OneAddress \/ OneSyncer
  PROVE  Spec => []SyncPublished
<1>1. PInv => SyncPublished
  BY DEF PInv, UpsertedHeld, Upserted, SyncPublished, Published, WantedSet
<1> QED
  BY <1>1, PublishInductive, PTL DEF Spec

---------------------------------------------------------------------------
(* The zone seen from outside.                                             *)

(* While the zone fits on one page, the record an upsert adds has a key    *)
(* that no record of the zone has.                                         *)
LEMMA NewKeyJoins ==
  ASSUME SyncsAgree, RInv, NEW s \in Syncers, pc[s] = "upsert",
         NoMatch(existing[s], Current(s)), ~(RefuseIdentical /\ Exists(Current(s)))
  PROVE  \A i \in DOMAIN zone : zone[i].key # Current(s).key
<1> SUFFICES ASSUME NEW i \in DOMAIN zone, zone[i].key = Current(s).key PROVE FALSE
  OBVIOUS
<1>1. /\ TypeOK /\ IdsKept /\ JoinedWanted
      /\ ip[s] \in Addresses /\ next[s] \in DOMAIN Wanted(ip[s])
  BY DEF RInv, IInv, TypeOK
<1>2. i \notin DOMAIN existing[s]
  BY <1>1 DEF IdsKept, NoMatch, SameKey
<1>3. PICK j \in DOMAIN Wanted(ip[s]) :
        zone[i] = Wanted(ip[s])[j] /\ (OneSyncer => j < next[s])
  BY <1>1, <1>2 DEF JoinedWanted
<1>4. j = next[s]
  BY <1>1, <1>3, WantedList DEF Current
<1>5. ~OneSyncer
  <2>1. ~(j < next[s])
    BY <1>1, <1>4, WantedList
  <2> QED
    BY <1>3, <2>1
<1>6. zone[i] = Current(s)
  BY <1>3, <1>4 DEF Current
<1>7. Exists(Current(s))
  BY <1>6 DEF Exists
<1> QED
  BY <1>5, <1>7 DEF SyncsAgree

(* An upsert changes nothing, or leaves its key with one record, where it  *)
(* had none or that one, and every other key with what it had.             *)
LEMMA EntryChanges ==
  ASSUME SyncsAgree, RInv, NEW s \in Syncers, pc[s] = "upsert",
         upsert(existing[s], Current(s)), zone' # zone
  PROVE  \E id \in DOMAIN zone' :
           /\ DOMAIN zone' = DOMAIN zone \cup {id}
           /\ zone'[id] = Current(s)
           /\ \A i \in DOMAIN zone : i # id => zone'[i] = zone[i] /\ zone[i].key # Current(s).key
           /\ id \in DOMAIN zone => zone[id].key = Current(s).key
<1>1. /\ IInv /\ TypeOK /\ IdsKept /\ EntriesSingle
      /\ zone \in Seq(Records) /\ existing[s] \in Seq(Records)
  BY DEF RInv, IInv, TypeOK
<1>2. /\ DOMAIN zone = 1..Len(zone) /\ Len(zone) \in Nat
      /\ DOMAIN existing[s] \subseteq DOMAIN zone
  BY <1>1, IdsInZone
<1>3. Current(s) \in Records /\ Current(s).key \in WantedKeys
  BY <1>1, CurrentWanted
<1>4. CASE zone' = Append(zone, Current(s)) /\ NoMatch(existing[s], Current(s))
           /\ ~(RefuseIdentical /\ Exists(Current(s)))
  <2>1. /\ zone' \in Seq(Records) /\ Len(zone') = Len(zone) + 1
        /\ \A i \in 1..Len(zone) : zone'[i] = zone[i]
        /\ zone'[Len(zone) + 1] = Current(s)
    BY <1>1, <1>3, <1>4, AppendProperties
  <2>2. DOMAIN zone' = 1..(Len(zone) + 1)
    BY <2>1, LenProperties
  <2>3. \A i \in DOMAIN zone : zone[i].key # Current(s).key
    BY <1>4, NewKeyJoins
  <2>4. /\ DOMAIN zone' = DOMAIN zone \cup {Len(zone) + 1} /\ Len(zone) + 1 \notin DOMAIN zone
        /\ \A i \in DOMAIN zone : zone'[i] = zone[i]
    BY <1>2, <2>1, <2>2
  <2> QED
    BY <2>1, <2>3, <2>4
<1>5. ASSUME NEW id \in DOMAIN existing[s], FirstMatch(existing[s], Current(s), id),
             zone' = [zone EXCEPT ![id] = Current(s)]
      PROVE  /\ id \in DOMAIN zone' /\ DOMAIN zone' = DOMAIN zone \cup {id}
             /\ zone'[id] = Current(s)
             /\ \A i \in DOMAIN zone : i # id => zone'[i] = zone[i] /\ zone[i].key # Current(s).key
             /\ id \in DOMAIN zone => zone[id].key = Current(s).key
  <2>1. id \in DOMAIN zone /\ zone[id].key = Current(s).key
    BY <1>1, <1>2, <1>5 DEF IdsKept, FirstMatch, SameKey
  <2>2. \A i \in DOMAIN zone : i # id => zone[i].key # Current(s).key
    BY <1>1, <1>3, <2>1 DEF EntriesSingle
  <2>3. /\ DOMAIN zone' = DOMAIN zone /\ zone'[id] = Current(s)
        /\ \A i \in DOMAIN zone : i # id => zone'[i] = zone[i]
    BY <1>1, <1>5, <2>1
  <2> QED
    BY <2>1, <2>2, <2>3
<1>6. \/ zone' = Append(zone, Current(s)) /\ NoMatch(existing[s], Current(s))
         /\ ~(RefuseIdentical /\ Exists(Current(s)))
      \/ \E id \in DOMAIN existing[s] : FirstMatch(existing[s], Current(s), id)
                                       /\ zone' = [zone EXCEPT ![id] = Current(s)]
  BY DEF upsert
<1>7. CASE \E id \in DOMAIN existing[s] : FirstMatch(existing[s], Current(s), id)
                                         /\ zone' = [zone EXCEPT ![id] = Current(s)]
  <2>1. PICK id \in DOMAIN existing[s] : FirstMatch(existing[s], Current(s), id)
                                      /\ zone' = [zone EXCEPT ![id] = Current(s)]
    BY <1>7
  <2> QED
    BY <1>5, <2>1
<1> QED
  BY <1>4, <1>6, <1>7

(* The invariant of the refinement is inductive while the zone fits. *)
LEMMA SingleInductive ==
  ASSUME SyncsAgree, OneRecordEach
  PROVE  /\ Init => RInv
         /\ RInv /\ Len(zone) <= PageSize /\ [Next]_dnsVars => RInv'
<1>1. Init => RInv
  <2> SUFFICES ASSUME Init PROVE RInv
    OBVIOUS
  <2>1. zone \in InitialZones /\ \A s \in Syncers : pc[s] = "idle"
    BY DEF Init
  <2>2. EntriesSingle /\ JoinedWanted
    BY <2>1 DEF EntriesSingle, JoinedWanted, OneRecordEach
  <2> QED
    BY <2>2, InvInductive DEF RInv
<1>2. RInv /\ Len(zone) <= PageSize /\ [Next]_dnsVars => RInv'
  <2> SUFFICES ASSUME RInv, Len(zone) <= PageSize, [Next]_dnsVars PROVE RInv'
    OBVIOUS
  <2>0. IInv /\ TypeOK /\ EntriesSingle /\ JoinedWanted /\ IInv'
    BY InvInductive DEF RInv, IInv
  <2>A. SUFFICES EntriesSingle' /\ JoinedWanted'
    BY <2>0 DEF RInv
  <2>1. CASE UNCHANGED dnsVars \/ AddressChanges
    <3>1. UNCHANGED <<zone, pc, ip, existing, next>>
      BY <2>1 DEF dnsVars, AddressChanges
    <3> QED
      BY <2>0, <3>1 DEF EntriesSingle, JoinedWanted
  <2>2. ASSUME NEW s \in Syncers, PublicIP(s) \/ Rejected(s) \/ RequestFails(s)
        PROVE  EntriesSingle' /\ JoinedWanted'
    <3>1. /\ UNCHANGED <<zone, existing, next>>
          /\ \E l \in {"list", "failed"} : pc' = [pc EXCEPT ![s] = l]
          /\ \A t \in Syncers \ {s} : ip'[t] = ip[t]
      BY <2>0, <2>2 DEF PublicIP, Rejected, RequestFails, Goto, TypeOK
    <3>2. pc'[s] # "upsert" /\ \A t \in Syncers \ {s} : pc'[t] = pc[t]
      BY <2>0, <3>1 DEF TypeOK
    <3> QED
      BY <2>0, <3>1, <3>2 DEF EntriesSingle, JoinedWanted
  <2>3. ASSUME NEW s \in Syncers, ExistingRecords(s) PROVE EntriesSingle' /\ JoinedWanted'
    <3>1. /\ existing' = [existing EXCEPT ![s] = FirstPage]
          /\ next' = [next EXCEPT ![s] = 1] /\ pc' = [pc EXCEPT ![s] = "upsert"]
          /\ UNCHANGED <<zone, ip>>
      BY <2>3 DEF ExistingRecords, Goto
    <3>2. /\ existing'[s] = FirstPage
          /\ \A t \in Syncers \ {s} :
               existing'[t] = existing[t] /\ next'[t] = next[t] /\ pc'[t] = pc[t]
      BY <2>0, <3>1 DEF TypeOK
    <3>3. DOMAIN FirstPage = DOMAIN zone
      BY <2>0, PageRead, IdsInZone
    <3> QED
      BY <2>0, <3>1, <3>2, <3>3 DEF EntriesSingle, JoinedWanted
  <2>4. ASSUME NEW s \in Syncers, Upsert(s) \/ AnswerLost(s) PROVE EntriesSingle' /\ JoinedWanted'
    <3>1. /\ pc[s] = "upsert" /\ upsert(existing[s], Current(s))
          /\ UNCHANGED <<ip, existing>>
      BY <2>4 DEF Upsert, AnswerLost
    <3>2. /\ next[s] \in DOMAIN Wanted(ip[s]) /\ next[s] \in Nat
          /\ \A t \in Syncers \ {s} : pc'[t] = pc[t] /\ next'[t] = next[t]
          /\ pc'[s] = "upsert" => next'[s] = next[s] + 1
      BY <2>0, <2>4, <3>1 DEF Upsert, AnswerLost, Goto, TypeOK
    <3>3. CASE zone' = zone
      <4>1. \A t \in Syncers, j \in Nat : pc'[t] = "upsert" /\ j < next[t] => pc[t] = "upsert" /\ j < next'[t]
        BY <2>0, <3>1, <3>2 DEF TypeOK
      <4>2. \A t \in Syncers : DOMAIN Wanted(ip[t]) \subseteq Nat
        BY <2>0, WantedList DEF TypeOK
      <4>3. \A t \in Syncers : pc'[t] = "upsert" => pc[t] = "upsert"
        BY <3>1, <3>2
      <4> QED
        BY <2>0, <3>1, <3>3, <4>1, <4>2, <4>3 DEF EntriesSingle, JoinedWanted
    <3>4. CASE zone' # zone
      <4>1. PICK id \in DOMAIN zone' :
              /\ DOMAIN zone' = DOMAIN zone \cup {id}
              /\ zone'[id] = Current(s)
              /\ \A i \in DOMAIN zone : i # id => zone'[i] = zone[i] /\ zone[i].key # Current(s).key
              /\ id \in DOMAIN zone => zone[id].key = Current(s).key
        BY <3>1, <3>4, EntryChanges
      <4>2. EntriesSingle'
        BY <2>0, <4>1 DEF EntriesSingle
      <4>3. JoinedWanted'
        <5> SUFFICES ASSUME NEW t \in Syncers, pc'[t] = "upsert",
                            NEW i \in DOMAIN zone' \ DOMAIN existing[t]
                     PROVE  \E j \in DOMAIN Wanted(ip[t]) :
                              zone'[i] = Wanted(ip[t])[j] /\ (OneSyncer => j < next'[t])
          BY <3>1 DEF JoinedWanted
        <5>1. pc[t] = "upsert" /\ next[t] <= next'[t] /\ next[t] \in Nat /\ next'[t] \in Nat
          BY <2>0, <3>1, <3>2 DEF TypeOK
        <5>2. CASE i # id
          <6>1. i \in DOMAIN zone \ DOMAIN existing[t] /\ zone'[i] = zone[i]
            BY <4>1, <5>2
          <6>2. PICK j \in DOMAIN Wanted(ip[t]) :
                  zone[i] = Wanted(ip[t])[j] /\ (OneSyncer => j < next[t])
            BY <2>0, <5>1, <6>1 DEF JoinedWanted
          <6>3. j \in Nat
            BY <2>0, WantedList DEF TypeOK
          <6> QED
            BY <5>1, <6>1, <6>2, <6>3
        <5>3. CASE i = id
          <6>1. ip[t] = ip[s] /\ zone'[i] = Wanted(ip[t])[next[s]] /\ next[s] \in DOMAIN Wanted(ip[t])
            BY <2>0, <3>2, <4>1, <5>3, SameAddress DEF SyncsAgree, Current
          <6>2. OneSyncer => next[s] < next'[t]
            BY <3>2 DEF OneSyncer
          <6> QED
            BY <6>1, <6>2
        <5> QED
          BY <5>2, <5>3
      <4> QED
        BY <4>2, <4>3
    <3> QED
      BY <3>3, <3>4
  <2> QED
    BY <2>1, <2>2, <2>3, <2>4 DEF Next, SyncStep
<1> QED
  BY <1>1, <1>2

(* A change of the zone is seen as one entry that gets a wanted value. *)
LEMMA SeenAsPublish ==
  ASSUME SyncsAgree, RInv, NEW s \in Syncers, pc[s] = "upsert",
         upsert(existing[s], Current(s)), zone' # zone
  PROVE  Zone!Next
<1>1. PICK rec : rec = Current(s)
  OBVIOUS
<1> DEFINE k == rec.key
<1>2. /\ k \in WantedKeys /\ rec \in WantedSet(ip[s]) /\ ip[s] \in Addresses
  BY <1>1, CurrentWanted DEF RInv, IInv, TypeOK
<1>3. PICK id \in DOMAIN zone' :
        /\ DOMAIN zone' = DOMAIN zone \cup {id}
        /\ zone'[id] = rec
        /\ \A i \in DOMAIN zone : i # id => zone'[i] = zone[i] /\ zone[i].key # k
        /\ id \in DOMAIN zone => zone[id].key = k
  BY <1>1, EntryChanges
<1>4. zone'[id].key = k
  BY <1>3
<1>5. Value(rec) \in WantedValues(k)
  BY <1>2 DEF WantedValues
<1> HIDE DEF k
<1>6. Places(k) \subseteq {id} /\ Places(k)' = {id}
  BY <1>3, <1>4 DEF Places
<1>7. ASSUME NEW q \in WantedKeys, q # k
      PROVE  Places(q)' = Places(q) /\ \A i \in Places(q) : zone'[i] = zone[i]
  BY <1>3, <1>4, <1>7 DEF Places
<1>8. View'[k] = [i \in {id} |-> Value(rec)] /\ DOMAIN View'[k] = {id}
  <2>1. View'[k] = [i \in Places(k)' |-> Value(zone'[i])]
    BY <1>2 DEF View, k
  <2> QED
    BY <1>3, <1>6, <2>1
<1>9. DOMAIN View[k] \subseteq {id}
  BY <1>2, <1>6 DEF View, k
<1>10. \A q \in WantedKeys : q # k => View'[q] = View[q]
  <2> SUFFICES ASSUME NEW q \in WantedKeys, q # k PROVE View'[q] = View[q]
    OBVIOUS
  <2>1. /\ View'[q] = [i \in Places(q)' |-> Value(zone'[i])]
        /\ View[q] = [i \in Places(q) |-> Value(zone[i])]
    BY DEF View
  <2> QED
    BY <1>7, <2>1
<1>11. View' = [View EXCEPT ![k] = [i \in {id} |-> Value(rec)]]
  BY <1>2, <1>8, <1>10 DEF View, k
<1>12. Zone!Publish(k)
  BY <1>2, <1>5, <1>8, <1>9, <1>11 DEF Zone!Publish, k
<1> QED
  BY <1>2, <1>12 DEF Zone!Next, k

(* dnscf implements DnsZone: as long as the zone fits on the one page that *)
(* Sync reads, an entry of the appliance's never has two records, none is  *)
(* withdrawn, and one changes, in place, only into a wanted value, through *)
(* failing requests, lost answers and retries (upsert, dnscf.go:147-149).  *)
THEOREM ImplementsZone ==
  ASSUME SyncsAgree, OneRecordEach
  PROVE  Spec /\ [](Len(zone) <= PageSize) => UpsertsZone
<1>1. Init => Zone!Init
  <2> SUFFICES ASSUME Init PROVE Zone!Init
    OBVIOUS
  <2>1. zone \in InitialZones /\ EntriesSingle
    BY SingleInductive DEF Init, RInv
  <2>2. View = [e \in WantedKeys |-> View[e]]
    BY DEF View
  <2>3. ASSUME NEW e \in WantedKeys
        PROVE  /\ \A i, j \in DOMAIN View[e] : i = j
               /\ \A i \in DOMAIN View[e] : i \in DOMAIN zone /\ View[e][i] = Value(zone[i])
    BY <2>1 DEF View, Places, EntriesSingle
  <2> DEFINE Found == UNION {{Value(z[i]) : i \in DOMAIN z} : z \in InitialZones}
  <2>4. ASSUME NEW i \in DOMAIN zone PROVE Value(zone[i]) \in Found
    <3>1. Value(zone[i]) \in {Value(zone[j]) : j \in DOMAIN zone}
      OBVIOUS
    <3>2. {Value(zone[j]) : j \in DOMAIN zone} \in {{Value(z[j]) : j \in DOMAIN z} : z \in InitialZones}
      BY <2>1
    <3> QED
      BY <3>1, <3>2
  <2> HIDE DEF Found
  <2>5. ASSUME NEW e \in WantedKeys, NEW i \in DOMAIN View[e]
        PROVE  View[e][i] \in (UNION {WantedValues(k) : k \in WantedKeys}) \cup Found
    <3>1. i \in DOMAIN zone /\ View[e][i] = Value(zone[i])
      BY <2>3
    <3>2. Value(zone[i]) \in Found
      BY <3>1, <2>4
    <3> QED
      BY <3>1, <3>2
  <2> QED
    BY <2>2, <2>3, <2>5 DEF Zone!Init, Found
<1>2. RInv /\ [Next]_dnsVars => [Zone!Next]_View
  <2> SUFFICES ASSUME RInv, [Next]_dnsVars, View' # View PROVE Zone!Next
    OBVIOUS
  <2>1. zone' # zone
    BY DEF View, Places
  <2>2. PICK s \in Syncers : Upsert(s) \/ AnswerLost(s)
    BY <2>1 DEF Next, SyncStep, dnsVars, AddressChanges, PublicIP, ExistingRecords, Rejected, RequestFails
  <2>3. pc[s] = "upsert" /\ upsert(existing[s], Current(s))
    BY <2>2 DEF Upsert, AnswerLost
  <2> QED
    BY <2>1, <2>3, SeenAsPublish
<1> QED
  BY <1>1, <1>2, SingleInductive, PTL DEF Spec, UpsertsZone, Zone!Spec
=============================================================================
