-------------------------- MODULE SysUpdateProofs --------------------------
(* Proofs about module SysUpdate, for any set of appliers, any listings    *)
(* and any number of releases and failures.                                *)
EXTENDS SysUpdate, SequenceTheorems, TLAPS

(* The elements of a sequence, and of two sequences one behind the other. *)
LEMMA ElemsOfConcat ==
  ASSUME NEW S, NEW s \in Seq(S), NEW t \in Seq(S)
  PROVE  /\ s \o t \in Seq(S)
         /\ Elems(s \o t) = Elems(s) \cup Elems(t)
<1>1. /\ s \o t \in Seq(S) /\ Len(s \o t) = Len(s) + Len(t)
      /\ \A i \in 1 .. Len(s) + Len(t) : (s \o t)[i] = IF i <= Len(s) THEN s[i] ELSE t[i - Len(s)]
  BY ConcatProperties
<1>2. /\ DOMAIN s = 1..Len(s) /\ DOMAIN t = 1..Len(t) /\ DOMAIN (s \o t) = 1..(Len(s) + Len(t))
      /\ Len(s) \in Nat /\ Len(t) \in Nat
  BY <1>1, LenProperties
<1>3. ASSUME NEW i \in DOMAIN (s \o t) PROVE (s \o t)[i] \in Elems(s) \cup Elems(t)
  <2>1. CASE i <= Len(s)
    BY <1>1, <1>2, <2>1 DEF Elems
  <2>2. CASE ~(i <= Len(s))
    <3>1. i - Len(s) \in DOMAIN t /\ (s \o t)[i] = t[i - Len(s)]
      BY <1>1, <1>2, <2>2
    <3> QED
      BY <3>1 DEF Elems
  <2> QED
    BY <2>1, <2>2
<1>4. ASSUME NEW i \in DOMAIN s PROVE s[i] \in Elems(s \o t)
  <2>1. i \in DOMAIN (s \o t) /\ (s \o t)[i] = s[i]
    BY <1>1, <1>2
  <2> QED
    BY <2>1 DEF Elems
<1>5. ASSUME NEW i \in DOMAIN t PROVE t[i] \in Elems(s \o t)
  <2>1. Len(s) + i \in DOMAIN (s \o t) /\ (s \o t)[Len(s) + i] = t[i]
    BY <1>1, <1>2
  <2> QED
    BY <2>1 DEF Elems
<1> QED
  BY <1>1, <1>3, <1>4, <1>5 DEF Elems

(* Behind the first element of a sequence are all its others. *)
LEMMA ElemsOfTail ==
  ASSUME NEW S, NEW s \in Seq(S), s # << >>
  PROVE  /\ Tail(s) \in Seq(S)
         /\ Head(s) \in Elems(s)
         /\ Elems(Tail(s)) \subseteq Elems(s)
         /\ Elems(s) \subseteq Elems(Tail(s)) \cup {Head(s)}
         /\ Len(s) = 1 <=> Tail(s) = << >>
<1>1. /\ Head(s) = s[1] /\ Tail(s) \in Seq(S) /\ Len(Tail(s)) = Len(s) - 1
      /\ \A i \in 1..Len(Tail(s)) : Tail(s)[i] = s[i + 1]
  BY HeadTailProperties
<1>2. /\ DOMAIN s = 1..Len(s) /\ DOMAIN Tail(s) = 1..(Len(s) - 1)
      /\ Len(s) \in Nat \ {0}
  BY <1>1, LenProperties, EmptySeq
<1>3. ASSUME NEW i \in DOMAIN Tail(s) PROVE Tail(s)[i] \in Elems(s)
  <2>1. i + 1 \in DOMAIN s /\ Tail(s)[i] = s[i + 1]
    BY <1>1, <1>2
  <2> QED
    BY <2>1 DEF Elems
<1>4. ASSUME NEW i \in DOMAIN s PROVE s[i] \in Elems(Tail(s)) \cup {Head(s)}
  <2>1. CASE i = 1
    BY <1>1, <2>1
  <2>2. CASE i # 1
    <3>1. i - 1 \in DOMAIN Tail(s) /\ Tail(s)[i - 1] = s[i]
      BY <1>1, <1>2, <2>2
    <3> QED
      BY <3>1 DEF Elems
  <2> QED
    BY <2>1, <2>2
<1>5. Head(s) \in Elems(s)
  BY <1>1, <1>2 DEF Elems
<1>6. Len(s) = 1 <=> Tail(s) = << >>
  <2>1. Tail(s) = << >> => Len(Tail(s)) = 0
    BY EmptySeq
  <2>2. Tail(s) # << >> => Len(Tail(s)) # 0
    BY <1>1, EmptySeq
  <2> QED
    BY <1>1, <1>2, <2>1, <2>2
<1> QED
  BY <1>1, <1>3, <1>4, <1>5, <1>6 DEF Elems

(* What Apply goes through: the host and uki targets of the listing, or    *)
(* all of it if it has neither, and at least one.                          *)
LEMMA ManagedOfListing ==
  ASSUME NEW l \in Listings
  PROVE  LET ours == {t \in Elems(l) : isHost(t) \/ isUKI(t)} IN
         /\ managedTargets(l) \in Seq(Elems(l)) /\ managedTargets(l) # << >>
         /\ Elems(managedTargets(l)) = IF ours = {} THEN Elems(l) ELSE ours
<1> DEFINE h == SelectSeq(l, isHost)
           u == SelectSeq(l, isUKI)
           ours == {t \in Elems(l) : isHost(t) \/ isUKI(t)}
<1>1. /\ l \in Seq(Elems(l)) /\ l # << >>
      /\ h \in Seq(Elems(l)) /\ Elems(h) = {t \in Elems(l) : isHost(t)}
      /\ u \in Seq(Elems(l)) /\ Elems(u) = {t \in Elems(l) : isUKI(t)}
  BY ListingsSelect, Zenon
<1>2. managedTargets(l) = IF h \o u # << >> THEN h \o u ELSE l
  BY Zenon DEF managedTargets
<1> HIDE DEF h, u
<1>3. h \o u \in Seq(Elems(l)) /\ Elems(h \o u) = ours
  BY <1>1, ElemsOfConcat
<1>4. h \o u = << >> <=> ours = {}
  <2>1. h \o u = << >> => Elems(h \o u) = {}
    BY DEF Elems
  <2>2. h \o u # << >> => (h \o u)[1] \in Elems(h \o u)
    BY <1>3, EmptySeq, LenProperties DEF Elems
  <2> QED
    BY <1>3, <2>1, <2>2
<1> QED
  BY <1>1, <1>2, <1>3, <1>4

(* The same for the listing there is. *)
LEMMA ManagedNow ==
  ASSUME listing \in Listings
  PROVE  /\ managedTargets(listing) \in Seq(Targets) /\ managedTargets(listing) # << >>
         /\ Managed = IF Ours = {} THEN Elems(listing) ELSE Ours
         /\ Managed \subseteq Targets
<1>1. Elems(listing) \subseteq Targets
  BY DEF Targets
<1>2. managedTargets(listing) \in Seq(Targets)
  BY <1>1, ManagedOfListing, SeqMonotonic
<1>3. Managed = IF Ours = {} THEN Elems(listing) ELSE Ours
  BY ManagedOfListing DEF Managed, Ours
<1>4. Managed \subseteq Elems(listing)
  BY <1>3 DEF Ours
<1> QED
  BY <1>1, <1>2, <1>3, <1>4, ManagedOfListing

(* A turn of Apply's loop that goes on: the target it leaves is accounted  *)
(* for, and the others are still before it.                                *)
LEMMA LoopGoesOn ==
  ASSUME IInv, NEW p \in Appliers, Applying(p), Continue(p), UNCHANGED listing,
         \A q \in Appliers : errs[q] \subseteq errs'[q] /\ started[q] \subseteq started'[q],
         Target(p) \in errs'[p] \cup started'[p]
  PROVE  /\ Target(p) \in Managed
         /\ pc' \in [Appliers -> {"idle", "checkNew", "update", "done"}]
         /\ \A q \in Appliers : Elems(todo'[q]) \subseteq Managed
         /\ LoopPlace' /\ VisitedAccounted'
<1>1. /\ TypeOK /\ LoopPlace /\ VisitedAccounted /\ Managed' = Managed
      /\ Targets' = Targets
  BY DEF IInv, Managed, Targets
<1>2. /\ pc \in [Appliers -> {"idle", "checkNew", "update", "done"}]
      /\ \A q \in Appliers : Elems(todo[q]) \subseteq Managed
  BY <1>1, ManagedNow DEF TypeOK
<1>3. todo[p] \in Seq(Targets) /\ todo[p] # << >> /\ todo \in [Appliers -> Seq(Targets)]
  BY <1>1 DEF LoopPlace
<1>4. /\ Tail(todo[p]) \in Seq(Targets) /\ Target(p) \in Elems(todo[p])
      /\ Elems(Tail(todo[p])) \subseteq Elems(todo[p])
      /\ Elems(todo[p]) \subseteq Elems(Tail(todo[p])) \cup {Target(p)}
      /\ Len(todo[p]) = 1 <=> Tail(todo[p]) = << >>
  BY <1>3, ElemsOfTail DEF Target
<1>5. /\ todo' = [todo EXCEPT ![p] = Tail(todo[p])]
      /\ pc' = [pc EXCEPT ![p] = IF Len(todo[p]) = 1 THEN "done" ELSE "checkNew"]
  BY DEF Continue, Goto
<1>6. pc' \in [Appliers -> {"idle", "checkNew", "update", "done"}]
  BY <1>2, <1>5
<1>7. /\ todo'[p] = Tail(todo[p]) /\ \A q \in Appliers \ {p} : todo'[q] = todo[q]
      /\ todo' \in [Appliers -> Seq(Targets)]
  BY <1>3, <1>4, <1>5
<1>8. /\ pc'[p] = IF Len(todo[p]) = 1 THEN "done" ELSE "checkNew"
      /\ \A q \in Appliers \ {p} : pc'[q] = pc[q]
  BY <1>2, <1>5
<1>9. \A q \in Appliers : Elems(todo'[q]) \subseteq Managed
  BY <1>2, <1>4, <1>7
<1>10. LoopPlace'
  BY <1>1, <1>4, <1>7, <1>8 DEF LoopPlace, Applying
<1>11. VisitedAccounted'
  <2> SUFFICES ASSUME NEW q \in Appliers, pc'[q] # "idle"
               PROVE  Managed \ Elems(todo'[q]) \subseteq errs'[q] \cup started'[q]
    BY <1>1 DEF VisitedAccounted
  <2>1. CASE q # p
    BY <1>1, <1>7, <1>8, <2>1 DEF VisitedAccounted
  <2>2. CASE q = p
    <3>1. Managed \ Elems(todo[p]) \subseteq errs[p] \cup started[p]
      BY <1>1 DEF VisitedAccounted, Applying
    <3> QED
      BY <1>4, <1>7, <2>2, <3>1
  <2> QED
    BY <2>1, <2>2
<1> QED
  BY <1>2, <1>4, <1>6, <1>9, <1>10, <1>11

(* An error is noted for the target in hand, and the loop goes on. *)
LEMMA ErrorNoted ==
  ASSUME IInv, NEW p \in Appliers, Applying(p), TargetError(p), failures' \in 0..MaxFailures
  PROVE  IInv'
<1>1. /\ TypeOK /\ (release = 0 => latest < MaxReleases)
      /\ errs' = [errs EXCEPT ![p] = errs[p] \cup {Target(p)}] /\ Continue(p)
      /\ UNCHANGED <<listing, release, latest, installed, jobs, new, started>>
  BY DEF IInv, TargetError, published
<1>2. /\ errs'[p] = errs[p] \cup {Target(p)}
      /\ \A q \in Appliers \ {p} : errs'[q] = errs[q]
  BY <1>1 DEF TypeOK
<1>3. /\ Target(p) \in Managed
      /\ pc' \in [Appliers -> {"idle", "checkNew", "update", "done"}]
      /\ \A q \in Appliers : Elems(todo'[q]) \subseteq Managed
      /\ LoopPlace' /\ VisitedAccounted'
  BY <1>1, <1>2, LoopGoesOn
<1>4. /\ Managed' = Managed /\ Targets' = Targets /\ Ours' = Ours
      /\ Managed = IF Ours = {} THEN Elems(listing) ELSE Ours
  BY <1>1, ManagedNow DEF TypeOK, Managed, Targets, Ours
<1>5. errs' \in [Appliers -> SUBSET Managed]
  BY <1>1, <1>3 DEF TypeOK
<1>6. TypeOK'
  BY <1>1, <1>3, <1>4, <1>5 DEF TypeOK
<1> QED
  BY <1>1, <1>3, <1>6 DEF IInv

(* The invariant is inductive. *)
LEMMA InvInductive ==
  /\ Init => IInv
  /\ IInv /\ [Next]_vars => IInv'
<1> USE UpdateBounds DEF Versions
<1>1. Init => IInv
  <2> SUFFICES ASSUME Init PROVE IInv
    OBVIOUS
  <2> USE DEF Init
  <2>1. << >> \in Seq(Targets) /\ Elems(<< >>) = {}
    BY EmptySeq DEF Elems
  <2>2. TypeOK
    BY <2>1 DEF TypeOK
  <2>3. LoopPlace /\ VisitedAccounted
    BY <2>1 DEF LoopPlace, VisitedAccounted, Applying
  <2> QED
    BY <2>2, <2>3 DEF IInv
<1>2. IInv /\ [Next]_vars => IInv'
  <2> SUFFICES ASSUME IInv, [Next]_vars PROVE IInv'
    OBVIOUS
  <2>0. /\ TypeOK /\ LoopPlace /\ VisitedAccounted
        /\ release = 0 => latest < MaxReleases
    BY DEF IInv
  <2>A. /\ listing \in Listings
        /\ Managed = IF Ours = {} THEN Elems(listing) ELSE Ours
        /\ Managed \subseteq Targets
    BY <2>0, ManagedNow DEF TypeOK
  <2>B. UNCHANGED listing => UNCHANGED <<Managed, Targets, Ours>>
    BY DEF Managed, Targets, Ours
  <2>1. CASE UNCHANGED vars
    BY <2>0, <2>1, <2>B DEF vars, IInv, TypeOK, LoopPlace, VisitedAccounted, Applying
  <2>2. CASE DeleteRelease \/ CreateRelease
    <3>1. /\ UNCHANGED <<listing, installed, jobs, pc, todo, new, errs, started, failures>>
          /\ latest' \in Versions /\ release' \in {0, latest'}
          /\ release' = 0 => latest' < MaxReleases
      BY <2>0, <2>2 DEF DeleteRelease, CreateRelease, TypeOK
    <3> QED
      BY <2>0, <2>B, <3>1 DEF IInv, TypeOK, LoopPlace, VisitedAccounted, Applying
  <2>3. CASE JobFails
    <3>1. /\ UNCHANGED <<listing, release, latest, installed, pc, todo, new, errs, started>>
          /\ jobs' \subseteq jobs /\ failures' \in 0..MaxFailures
      BY <2>0, <2>3 DEF JobFails, published, TypeOK
    <3> QED
      BY <2>0, <2>B, <3>1 DEF IInv, TypeOK, LoopPlace, VisitedAccounted, Applying
  <2>4. CASE Reboot
    <3>1. /\ UNCHANGED <<listing, release, latest, installed, todo, new, errs, started>>
          /\ jobs' = {} /\ failures' \in 0..MaxFailures
          /\ pc' = [p \in Appliers |-> "idle"]
      BY <2>0, <2>4 DEF Reboot, published, TypeOK
    <3> QED
      BY <2>0, <2>B, <3>1 DEF IInv, TypeOK, LoopPlace, VisitedAccounted, Applying
  <2>5. CASE \E t \in Targets : JobEnds(t)
    <3>1. PICK j \in jobs :
            /\ jobs' = jobs \ {j}
            /\ installed' = IF j.version \in {release, Newest} /\ HasNew(j.target)
                            THEN [installed EXCEPT ![j.target] = release]
                            ELSE installed
            /\ UNCHANGED <<listing, release, latest, pc, todo, new, errs, started, failures>>
      BY <2>5 DEF JobEnds, published
    <3>2. j.target \in Targets /\ installed \in [Targets -> Versions]
      BY <2>0, <2>A DEF TypeOK
    <3>3. HasNew(j.target) => release \in Versions
      BY <2>0, <3>2 DEF HasNew, TypeOK
    <3>4. installed' \in [Targets -> Versions]
      BY <3>1, <3>2, <3>3
    <3> QED
      BY <2>0, <2>B, <3>1, <3>4 DEF IInv, TypeOK, LoopPlace, VisitedAccounted, Applying
  <2>6. ASSUME NEW p \in Appliers, CurrentTargets(p) PROVE IInv'
    <3>1. /\ UNCHANGED <<listing, release, latest, installed, jobs, new, failures>>
          /\ todo' = [todo EXCEPT ![p] = managedTargets(listing)]
          /\ errs' = [errs EXCEPT ![p] = {}] /\ started' = [started EXCEPT ![p] = {}]
          /\ pc' = [pc EXCEPT ![p] = "checkNew"]
      BY <2>6 DEF CurrentTargets, Goto, published
    <3>2. managedTargets(listing) \in Seq(Targets) /\ managedTargets(listing) # << >>
      BY <2>A, ManagedNow
    <3>3. Elems(managedTargets(listing)) = Managed
      BY DEF Managed
    <3>4. TypeOK'
      BY <2>0, <2>A, <2>B, <3>1, <3>2, <3>3 DEF TypeOK, LoopPlace
    <3>5. LoopPlace'
      BY <2>0, <2>B, <3>1, <3>2 DEF TypeOK, LoopPlace, Applying
    <3>6. VisitedAccounted'
      BY <2>0, <2>B, <3>1, <3>3 DEF TypeOK, LoopPlace, VisitedAccounted
    <3> QED
      BY <2>0, <3>1, <3>4, <3>5, <3>6 DEF IInv
  <2>7. ASSUME NEW p \in Appliers, CheckNewAnswers(p) PROVE IInv'
    <3>1. /\ UNCHANGED <<listing, release, latest, installed, jobs, todo, errs, started, failures>>
          /\ pc' = [pc EXCEPT ![p] = "update"] /\ pc[p] = "checkNew"
          /\ \E v \in {release, Newest} : new' = [new EXCEPT ![p] = v]
          /\ release # 0
      BY <2>7 DEF CheckNewAnswers, Goto, published
    <3>2. new' \in [Appliers -> Versions \cup {Newest}]
      BY <2>0, <3>1 DEF TypeOK
    <3>3. pc' \in [Appliers -> {"idle", "checkNew", "update", "done"}]
      BY <2>0, <3>1 DEF TypeOK
    <3>4. TypeOK'
      BY <2>0, <2>B, <3>1, <3>2, <3>3 DEF TypeOK
    <3>5. LoopPlace' /\ VisitedAccounted'
      BY <2>0, <2>B, <3>1 DEF TypeOK, LoopPlace, VisitedAccounted, Applying
    <3> QED
      BY <2>0, <3>1, <3>4, <3>5 DEF IInv
  <2>8. ASSUME NEW p \in Appliers, CheckNewError(p) \/ UpdateBusy(p) \/ CallFails(p) PROVE IInv'
    <3>1. Applying(p) /\ TargetError(p) /\ failures' \in 0..MaxFailures
      BY <2>0, <2>8 DEF CheckNewError, UpdateBusy, CallFails, Applying, TypeOK
    <3> QED
      BY <3>1, ErrorNoted
  <2>9. ASSUME NEW p \in Appliers, Update(p) PROVE IInv'
    <3> DEFINE job == [target |-> Target(p), version |-> new[p]]
    <3>1. /\ UNCHANGED <<listing, release, latest, installed, new, errs, failures>>
          /\ Applying(p) /\ ~Busy(Target(p)) /\ jobs' = jobs \cup {job}
          /\ started' = [started EXCEPT ![p] = started[p] \cup {Target(p)}]
          /\ Continue(p)
      BY <2>9 DEF Update, Applying, published
    <3>2. /\ started'[p] = started[p] \cup {Target(p)}
          /\ \A q \in Appliers \ {p} : started'[q] = started[q]
      BY <2>0, <3>1 DEF TypeOK
    <3>3. /\ Target(p) \in Managed
          /\ pc' \in [Appliers -> {"idle", "checkNew", "update", "done"}]
          /\ \A q \in Appliers : Elems(todo'[q]) \subseteq Managed
          /\ LoopPlace' /\ VisitedAccounted'
      BY <3>1, <3>2, LoopGoesOn
    <3>4. started' \in [Appliers -> SUBSET Managed]
      BY <2>0, <3>1, <3>3 DEF TypeOK
    <3>5. job \in [target : Managed, version : Versions \cup {Newest}]
      BY <2>0, <3>3 DEF TypeOK
    <3>6. \A j \in jobs : j.target # job.target
      BY <3>1 DEF Busy
    <3>7. \A i, j \in jobs' : i.target = j.target => i = j
      BY <2>0, <3>1, <3>6 DEF TypeOK
    <3>8. TypeOK'
      BY <2>0, <2>A, <2>B, <3>1, <3>3, <3>4, <3>5, <3>7 DEF TypeOK
    <3> QED
      BY <2>0, <3>1, <3>3, <3>8 DEF IInv
  <2> QED
    BY <2>1, <2>2, <2>3, <2>4, <2>5, <2>6, <2>7, <2>8, <2>9 DEF Next, ApplyStep
<1> QED
  BY <1>1, <1>2

(* Every variable keeps its type: Apply visits no target that the          *)
(* appliance does not manage, and a target has one job at most however     *)
(* many appliers run (managedTargets, Apply).                              *)
THEOREM TypeCorrect == Spec => []TypeOK
<1>1. IInv => TypeOK
  BY DEF IInv
<1> QED
  BY <1>1, InvInductive, PTL DEF Spec

(* An Apply whose errors.Join is nil has started an update of every target *)
(* it manages, whoever applies beside it and whatever jobs, releases and   *)
(* reboots came between (Apply).                                           *)
THEOREM NilAccounts == Spec => []NilMeansStarted
<1>1. IInv => NilMeansStarted
  <2> SUFFICES ASSUME IInv, NEW p \in Appliers, pc[p] = "done", errs[p] = {}
               PROVE  started[p] = Managed
    BY DEF NilMeansStarted
  <2>1. Elems(todo[p]) = {}
    BY DEF IInv, LoopPlace, Elems
  <2>2. Managed \subseteq started[p]
    BY <2>1 DEF IInv, VisitedAccounted
  <2>3. started[p] \subseteq Managed
    BY DEF IInv, TypeOK
  <2> QED
    BY <2>2, <2>3
<1> QED
  BY <1>1, InvInductive, PTL DEF Spec
=============================================================================
