------------------------ MODULE FirewallSyncProofs ------------------------
(* Proofs about module FirewallSync, for any number of callers, images and *)
(* interruptions.                                                          *)
EXTENDS FirewallSync, TLAPS

(* cfIPSets has two entries. *)
LEMMA TwoFamilies ==
  /\ DOMAIN Families = {1, 2} /\ Len(Families) = 2
  /\ Names = {Families[1], Families[2]}
  /\ Families[1] # Families[2]
  BY DEF Families, Names

(* The ipset a sync is at is one of the two. *)
LEMMA IPSetNamed ==
  ASSUME TypeOK, NEW s \in Syncers
  PROVE  fam[s] \in {1, 2} /\ IPSet(s) \in Names
  BY TwoFamilies DEF TypeOK, IPSet

(* The type invariant holds initially and every step preserves it. *)
LEMMA TypeInductive ==
  /\ Init => TypeOK
  /\ TypeOK /\ [Next]_fwVars => TypeOK'
<1> USE TwoFamilies, FirewallBounds DEF Lists
<1>1. Init => TypeOK
  BY DEF Init, TypeOK, SyncSteps
<1>2. TypeOK /\ [Next]_fwVars => TypeOK'
  <2> SUFFICES ASSUME TypeOK, [Next]_fwVars PROVE TypeOK'
    OBVIOUS
  <2> USE DEF TypeOK, Goto, SyncSteps
  <2>1. CASE UNCHANGED fwVars
    BY <2>1 DEF fwVars
  <2>2. CASE BootNewImage
    BY <2>2 DEF BootNewImage
  <2>3. ASSUME NEW s \in Syncers, SystemBus(s) \/ Stopped(s) PROVE TypeOK'
    BY <2>3 DEF SystemBus, Stopped
  <2>4. ASSUME NEW s \in Syncers, SyncStep(s) PROVE TypeOK'
    <3>0. IPSet(s) \in Names /\ fam[s] \in {1, 2}
      BY IPSetNamed
    <3>1. CASE GetIPSetByName(s) \/ Reload(s)
      BY <3>1 DEF GetIPSetByName, Reload
    <3>2. CASE AddIPSet(s)
      BY <3>0, <3>2 DEF AddIPSet
    <3>3. CASE SetEntries(s)
      <4>1. permanent' \in [Names -> Lists \cup {Missing, Empty}]
        BY <3>0, <3>3 DEF SetEntries
      <4>2. fam' \in [Syncers -> DOMAIN Families] /\ pc' \in [Syncers -> SyncSteps \cup {"idle", "ok", "failed"}]
        BY <3>0, <3>3 DEF SetEntries
      <4> QED
        BY <4>1, <4>2, <3>3 DEF SetEntries
    <3> QED
      BY <2>4, <3>1, <3>2, <3>3 DEF SyncStep
  <2> QED
    BY <2>1, <2>2, <2>3, <2>4 DEF Next
<1> QED
  BY <1>1, <1>2

(* No step takes the booted image's lists, or any lists, out of the        *)
(* permanent configuration: addIPSet touches only an ipset that is not     *)
(* there.                                                                  *)
LEMMA PermanentGrows ==
  ASSUME TypeOK, [Next]_fwVars, NEW f \in Names
  PROVE  /\ permanent[f] \in Lists => permanent'[f] \in Lists
         /\ permanent[f] = image /\ image' = image => permanent'[f] = image'
<1> USE FirewallBounds DEF TypeOK, Lists
<1>1. CASE UNCHANGED fwVars \/ BootNewImage
  BY <1>1 DEF fwVars, BootNewImage
<1>2. ASSUME NEW s \in Syncers, SystemBus(s) \/ Stopped(s) \/ SyncStep(s)
      PROVE  /\ permanent[f] \in Lists => permanent'[f] \in Lists
             /\ permanent[f] = image /\ image' = image => permanent'[f] = image'
  <2>0. IPSet(s) \in Names
    BY IPSetNamed
  <2>1. CASE AddIPSet(s)
    BY <2>0, <2>1 DEF AddIPSet
  <2>2. CASE SetEntries(s)
    BY <2>0, <2>2 DEF SetEntries
  <2> QED
    BY <1>2, <2>1, <2>2 DEF SystemBus, Stopped, SyncStep, GetIPSetByName, Reload
<1> QED
  BY <1>1, <1>2 DEF Next

(* The invariant is inductive. *)
LEMMA InvInductive ==
  /\ Init => IInv
  /\ IInv /\ [Next]_fwVars => IInv'
<1>1. Init => IInv
  BY TypeInductive DEF Init, IInv, Handled, SyncedRules, PermanentKept, RuntimeCurrent
<1>2. IInv /\ [Next]_fwVars => IInv'
  <2> SUFFICES ASSUME IInv, [Next]_fwVars PROVE IInv'
    OBVIOUS
  <2>0. TypeOK /\ TypeOK'
    BY TypeInductive DEF IInv
  <2>1. CASE UNCHANGED fwVars
    BY <2>0, <2>1 DEF IInv, fwVars, Handled, SyncedRules, PermanentKept,
       RuntimeCurrent
  <2>2. CASE BootNewImage
    <3>1. Handled' /\ SyncedRules'
      BY <2>2 DEF BootNewImage, Handled, SyncedRules
    <3>2. PermanentKept' /\ RuntimeCurrent'
      BY <2>2 DEF BootNewImage, PermanentKept, RuntimeCurrent, Lists
    <3> QED
      BY <2>0, <3>1, <3>2 DEF IInv
  <2>3. ASSUME NEW s \in Syncers, SystemBus(s) \/ Stopped(s) \/ SyncStep(s)
        PROVE  IInv'
    <3> USE TwoFamilies
    <3>0. IPSet(s) \in Names /\ fam[s] \in {1, 2} /\ image' = image
      BY <2>0, <2>3, IPSetNamed DEF SystemBus, Stopped, SyncStep, GetIPSetByName,
         AddIPSet, SetEntries, Reload
    <3>1. \A f \in Names : /\ permanent[f] \in Lists => permanent'[f] \in Lists
                           /\ permanent[f] = image => permanent'[f] = image'
      BY <2>0, <3>0, PermanentGrows
    <3>2. \A r \in Syncers \ {s} : pc'[r] = pc[r] /\ fam'[r] = fam[r]
      BY <2>0, <2>3 DEF TypeOK, SystemBus, Stopped, SyncStep, GetIPSetByName,
         AddIPSet, SetEntries, Reload, Goto
    <3>3. ASSUME NEW r \in Syncers \ {s}
          PROVE  /\ pc'[r] \in {"getIPSetByName", "addIPSet", "setEntries"} =>
                      \A i \in 1..(fam'[r] - 1) : permanent'[Families[i]] = image'
                 /\ pc'[r] = "reload" => \A f \in Names : permanent'[f] = image'
      BY <2>0, <3>1, <3>2 DEF IInv, Handled, TypeOK
    <3>4. /\ pc'[s] \in {"getIPSetByName", "addIPSet", "setEntries"} =>
               \A i \in 1..(fam'[s] - 1) : permanent'[Families[i]] = image'
          /\ pc'[s] = "reload" => \A f \in Names : permanent'[f] = image'
      <4>1. CASE SystemBus(s) \/ Stopped(s)
        BY <2>0, <4>1 DEF SystemBus, Stopped, Goto, TypeOK
      <4>2. CASE GetIPSetByName(s) \/ AddIPSet(s)
        BY <2>0, <3>0, <3>1, <4>2 DEF GetIPSetByName, AddIPSet, Goto, TypeOK, IInv, Handled
      <4>3. CASE SetEntries(s)
        <5>1. permanent'[IPSet(s)] = image'
          BY <2>0, <3>0, <4>3 DEF SetEntries, TypeOK
        <5>2. pc[s] = "setEntries" /\ \A i \in 1..(fam[s] - 1) : permanent'[Families[i]] = image'
          BY <2>0, <3>0, <3>1, <4>3 DEF SetEntries, IInv, Handled
        <5>3. CASE fam[s] = 1
          BY <2>0, <5>1, <5>3, <4>3 DEF SetEntries, Goto, TypeOK, IPSet
        <5>4. CASE fam[s] = 2
          BY <2>0, <5>1, <5>2, <5>4, <4>3 DEF SetEntries, Goto, TypeOK, IPSet
        <5> QED
          BY <3>0, <5>3, <5>4
      <4>4. CASE Reload(s)
        BY <2>0, <4>4 DEF Reload, Goto, TypeOK
      <4> QED
        BY <2>3, <4>1, <4>2, <4>3, <4>4 DEF SyncStep
    <3>5. Handled'
      BY <3>3, <3>4 DEF Handled
    <3>6. runtime' = runtime \/ (Reload(s) /\ runtime' = permanent)
      BY <2>3 DEF SystemBus, Stopped, SyncStep, GetIPSetByName, AddIPSet, SetEntries, Reload
    <3>7. SyncedRules'
      <4> SUFFICES ASSUME NEW r \in Syncers, pc'[r] = "ok", NEW f \in Names
                   PROVE  permanent'[f] = image' /\ runtime'[f] = image'
        BY DEF SyncedRules
      <4>1. CASE Reload(s)
        BY <2>0, <3>0, <4>1 DEF Reload, IInv, Handled
      <4>2. CASE ~Reload(s)
        <5>1. pc[r] = "ok"
          BY <2>0, <2>3, <3>2, <4>2 DEF TypeOK, SystemBus, Stopped, SyncStep,
             GetIPSetByName, AddIPSet, SetEntries, Goto
        <5> QED
          BY <3>0, <3>1, <3>6, <4>2, <5>1 DEF IInv, SyncedRules
      <4> QED
        BY <4>1, <4>2
    <3>8. PermanentKept'
      BY <3>1, <3>6 DEF Reload, IInv, PermanentKept
    <3>9. RuntimeCurrent'
      BY <3>0, <3>1, <3>6 DEF Reload, IInv, RuntimeCurrent
    <3> QED
      BY <2>0, <3>5, <3>7, <3>8, <3>9 DEF IInv
  <2> QED
    BY <2>1, <2>2, <2>3 DEF Next
<1> QED
  BY <1>1, <1>2

(* Every variable of the ipset model keeps its type. *)
THEOREM TypeCorrect == Spec => []TypeOK
  BY TypeInductive, PTL DEF Spec

(* Whoever got nil from SyncCloudflareIPSets has both families in force,   *)
(* permanently and at run time, until the next image is booted, for any    *)
(* number of concurrent callers.                                           *)
THEOREM NilMeansInForce == Spec => []SyncedRules
<1>1. IInv => SyncedRules
  BY DEF IInv
<1> QED
  BY <1>1, InvInductive, PTL DEF Spec

(* What is in force changes only to what is permanent: by a sync's reload  *)
(* or by a boot.                                                           *)
LEMMA RuntimeFromPermanent ==
  ASSUME Next PROVE runtime' = runtime \/ runtime' = permanent
  BY DEF Next, BootNewImage, SystemBus, Stopped, SyncStep, GetIPSetByName,
     AddIPSet, SetEntries, Reload

(* No step of any caller, and no reboot, empties an ipset that filters     *)
(* packets.                                                                *)
THEOREM WebPortKept == Spec => NeverCutOff
<1> DEFINE Kept == \A f \in Names : runtime[f] \in Lists => runtime'[f] \in Lists
<1>1. IInv /\ [Next]_fwVars => [Kept]_fwVars
  <2> SUFFICES ASSUME IInv, Next, NEW f \in Names, runtime[f] \in Lists
               PROVE  runtime'[f] \in Lists
    OBVIOUS
  <2>1. permanent[f] \in Lists
    BY DEF IInv, PermanentKept
  <2> QED
    BY <2>1, RuntimeFromPermanent
<1>2. Spec => [][Kept]_fwVars
  BY <1>1, InvInductive, PTL DEF Spec
<1> QED
  BY <1>2 DEF NeverCutOff

(* Whatever any number of syncs do or leave half done, the booted image's  *)
(* lists stay in force once they are: every reload finds them in the       *)
(* permanent configuration (ensureIPSet and setEntries).                   *)
THEOREM InForceKept == Spec => InForceStays
<1> DEFINE Stays ==
      \A f \in Names : runtime[f] = image /\ image' = image => runtime'[f] = image
<1>1. IInv /\ [Next]_fwVars => [Stays]_fwVars
  <2> SUFFICES ASSUME IInv, Next, NEW f \in Names, runtime[f] = image, image' = image
               PROVE  runtime'[f] = image
    OBVIOUS
  <2>1. permanent[f] = image
    BY DEF IInv, RuntimeCurrent
  <2> QED
    BY <2>1, RuntimeFromPermanent
<1>2. Spec => [][Stays]_fwVars
  BY <1>1, InvInductive, PTL DEF Spec
<1> QED
  BY <1>2 DEF InForceStays
=============================================================================
