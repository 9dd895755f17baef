----------------------------- MODULE SysUpdate -----------------------------
(***************************************************************************)
(* internal/sysupdate: `slfhst update apply`, run by a daily timer and by  *)
(* admins, updates the host target (the usr partition) and the uki         *)
(* component one after the other through systemd-sysupdated, which has no  *)
(* transaction over the two.  Update only starts a job in the daemon: it   *)
(* ends later, or fails, on its own.  Both targets fetch from the rolling  *)
(* "latest" release, which CI deletes and creates again.                   *)
(*                                                                         *)
(* Versions are numbered in the order of their release.                    *)
(***************************************************************************)
EXTENDS Naturals, Sequences

CONSTANTS Appliers,     \* processes that run Apply
          Listings,     \* what ListTargets may answer
          Newest,       \* the empty version: CheckNew's "nothing new"
          MaxReleases,  \* bound: releases published
          MaxFailures   \* bound: failing calls and jobs, deaths, reboots

ASSUME UpdateBounds ==
  MaxReleases \in Nat \ {0} /\ MaxFailures \in Nat /\ Newest \notin Nat

VARIABLES listing,    \* the targets sysupdated knows
          release,    \* the version on the release page, 0 while there is none
          latest,     \* the version released last
          installed,  \* per target: its newest installed version
          jobs,       \* sysupdated's running jobs
          pc,         \* per applier: "idle", "checkNew", "update" or "done"
          todo,       \* per applier: targets still to visit
          new,        \* per applier: the version CheckNew answered
          errs,       \* per applier: targets with an error
          started,    \* per applier: targets whose update was started
          failures

vars == <<listing, release, latest, installed, jobs, pc, todo, new, errs, started, failures>>
published == <<listing, release, latest>>

isHost(t) == t.class = "host"
isUKI(t)  == t.class = "component" /\ t.name = "uki"

(* Mutant: whatever sysupdated lists is managed. *)
Mut_managedTargetsAll(all) == all

(* The host first, then uki; everything if neither is there. *)
managedTargets(all) ==
  LET ours == SelectSeq(all, isHost) \o SelectSeq(all, isUKI)
  IN  IF ours # << >> THEN ours ELSE all

Elems(seq) == {seq[i] : i \in DOMAIN seq}

(* A listing is not empty: managedTargets has an error for one that is.    *)
(* SelectSeq keeps the elements that pass its test (stated here because    *)
(* no prover unfolds its recursion; TLC evaluates it on every listing).    *)
ASSUME ListingsSelect ==
  \A l \in Listings :
    /\ l \in Seq(Elems(l)) /\ l # << >>
    /\ SelectSeq(l, isHost) \in Seq(Elems(l))
    /\ Elems(SelectSeq(l, isHost)) = {t \in Elems(l) : isHost(t)}
    /\ SelectSeq(l, isUKI) \in Seq(Elems(l))
    /\ Elems(SelectSeq(l, isUKI)) = {t \in Elems(l) : isUKI(t)}

Targets == UNION {Elems(l) : l \in Listings}
Managed == Elems(managedTargets(listing))

Init ==
  /\ listing \in Listings
  /\ release = 1 /\ latest = 1
  /\ installed = [t \in Targets |-> 1]
  /\ jobs = {}
  /\ pc = [p \in Appliers |-> "idle"]
  /\ todo = [p \in Appliers |-> << >>]
  /\ new = [p \in Appliers |-> Newest]
  /\ errs = [p \in Appliers |-> {}]
  /\ started = [p \in Appliers |-> {}]
  /\ failures = 0

Goto(p, l) == pc' = [pc EXCEPT ![p] = l]
Target(p) == Head(todo[p])
HasNew(t) == release > installed[t]

---------------------------------------------------------------------------
(* Apply.                                                                  *)

CurrentTargets(p) ==
  /\ pc[p] \in {"idle", "done"}
  /\ todo' = [todo EXCEPT ![p] = managedTargets(listing)]
  /\ errs' = [errs EXCEPT ![p] = {}]
  /\ started' = [started EXCEPT ![p] = {}]
  /\ Goto(p, "checkNew")
  /\ UNCHANGED <<published, installed, jobs, new, failures>>

(* The loop goes on to the next target. *)
Continue(p) ==
  /\ todo' = [todo EXCEPT ![p] = Tail(@)]
  /\ Goto(p, IF Len(todo[p]) = 1 THEN "done" ELSE "checkNew")

(* Mutant: the first error ends the loop. *)
Mut_TargetErrorReturns(p) ==
  /\ errs' = [errs EXCEPT ![p] = @ \cup {Target(p)}]
  /\ todo' = [todo EXCEPT ![p] = Tail(@)]
  /\ Goto(p, "done")
  /\ UNCHANGED <<published, installed, jobs, new, started>>

(* Mutant: the error is printed and forgotten. *)
Mut_TargetErrorDropped(p) ==
  /\ Continue(p)
  /\ UNCHANGED <<published, installed, jobs, new, errs, started>>

(* append to errs, continue *)
TargetError(p) ==
  /\ errs' = [errs EXCEPT ![p] = @ \cup {Target(p)}]
  /\ Continue(p)
  /\ UNCHANGED <<published, installed, jobs, new, started>>

CheckNewAnswers(p) ==
  /\ pc[p] = "checkNew"
  /\ release # 0
  /\ new' = [new EXCEPT ![p] = IF HasNew(Target(p)) THEN release ELSE Newest]
  /\ Goto(p, "update")
  /\ UNCHANGED <<published, installed, jobs, todo, errs, started, failures>>

(* There is no manifest, or sysupdated says "up to date" with an error:    *)
(* the code leaves open which it does.                                     *)
CheckNewError(p) ==
  /\ pc[p] = "checkNew"
  /\ ~HasNew(Target(p))
  /\ TargetError(p)
  /\ UNCHANGED failures

Busy(t) == \E j \in jobs : j.target = t

Update(p) ==
  /\ pc[p] = "update"
  /\ ~Busy(Target(p))
  /\ jobs' = jobs \cup {[target |-> Target(p), version |-> new[p]]}
  /\ started' = [started EXCEPT ![p] = @ \cup {Target(p)}]
  /\ Continue(p)
  /\ UNCHANGED <<published, installed, new, errs, failures>>

UpdateBusy(p) ==
  /\ pc[p] = "update"
  /\ Busy(Target(p))
  /\ TargetError(p)
  /\ UNCHANGED failures

CallFails(p) ==
  /\ pc[p] \in {"checkNew", "update"}
  /\ failures < MaxFailures
  /\ failures' = failures + 1
  /\ TargetError(p)

---------------------------------------------------------------------------
(* systemd-sysupdated, CI, and the machine.                                *)

(* A job gets the version it was started for, or the newest; if that is no *)
(* longer on the release page the job fails.                               *)
JobEnds(t) ==
  \E j \in jobs :
    /\ j.target = t
    /\ jobs' = jobs \ {j}
    /\ installed' = IF j.version \in {release, Newest} /\ HasNew(j.target)
                    THEN [installed EXCEPT ![j.target] = release]
                    ELSE installed
    /\ UNCHANGED <<published, pc, todo, new, errs, started, failures>>

JobFails ==
  /\ failures < MaxFailures
  /\ failures' = failures + 1
  /\ \E j \in jobs : jobs' = jobs \ {j}
  /\ UNCHANGED <<published, installed, pc, todo, new, errs, started>>

Reboot ==
  /\ failures < MaxFailures
  /\ failures' = failures + 1
  /\ jobs' = {}
  /\ pc' = [p \in Appliers |-> "idle"]
  /\ UNCHANGED <<published, installed, todo, new, errs, started>>

(* publish.yml: gh release delete ... *)
DeleteRelease ==
  /\ release # 0 /\ latest < MaxReleases
  /\ release' = 0
  /\ UNCHANGED <<listing, latest, installed, jobs, pc, todo, new, errs, started, failures>>

(* ... and gh release create. *)
CreateRelease ==
  /\ release = 0
  /\ release' = latest + 1 /\ latest' = latest + 1
  /\ UNCHANGED <<listing, installed, jobs, pc, todo, new, errs, started, failures>>

ApplyStep(p) == CheckNewAnswers(p) \/ CheckNewError(p) \/ Update(p) \/ UpdateBusy(p)

Next ==
  \/ DeleteRelease \/ CreateRelease \/ JobFails \/ Reboot
  \/ \E t \in Targets : JobEnds(t)
  \/ \E p \in Appliers : CurrentTargets(p) \/ ApplyStep(p) \/ CallFails(p)

Spec == Init /\ [][Next]_vars

(* The timer is daily, an Apply that runs goes on, jobs end, and CI        *)
(* finishes the release it began.                                          *)
UpdateFairness ==
  /\ \A p \in Appliers : WF_vars(CurrentTargets(p)) /\ WF_vars(ApplyStep(p))
  /\ \A t \in Targets : WF_vars(JobEnds(t))
  /\ WF_vars(CreateRelease)

FairSpec == Spec /\ UpdateFairness

---------------------------------------------------------------------------
(* Properties.                                                             *)

Versions == 1..MaxReleases

Ours == {t \in Elems(listing) : isHost(t) \/ isUKI(t)}

(* Every variable has its type; only managed targets are visited, and each *)
(* has one job at most.                                                    *)
TypeOK ==
  /\ listing \in Listings
  /\ latest \in Versions /\ release \in {0, latest}
  /\ installed \in [Targets -> Versions]
  /\ jobs \in SUBSET [target : Managed, version : Versions \cup {Newest}]
  /\ \A i, j \in jobs : i.target = j.target => i = j
  /\ pc \in [Appliers -> {"idle", "checkNew", "update", "done"}]
  /\ \A p \in Appliers : Elems(todo[p]) \subseteq IF Ours = {} THEN Elems(listing) ELSE Ours
  /\ new \in [Appliers -> Versions \cup {Newest}]
  /\ errs \in [Appliers -> SUBSET Managed]
  /\ started \in [Appliers -> SUBSET Managed]
  /\ failures \in 0..MaxFailures

(* An Apply that returns nil has started an update of every target it      *)
(* manages; a target that could not be checked or was busy is never passed *)
(* over in silence.                                                        *)
NilMeansStarted ==
  \A p \in Appliers : pc[p] = "done" /\ errs[p] = {} => started[p] = Managed

(* When releases and failures stop, both targets get to the last release,  *)
(* wherever an earlier Apply left them: "a failure on one doesn't block    *)
(* the other" (sysupdate.go:198).                                          *)
TargetsConverge == <>[](\A t \in Managed : installed[t] = latest)

(* What Check reports, and what CheckNewVersion tells the monitor: the     *)
(* version its host target, or the first target, would be updated to.      *)
Check == {t \in Managed : HasNew(t)}

CheckNewVersion ==
  LET managed == managedTargets(listing)
      hosts   == SelectSeq(managed, isHost)
      t       == IF hosts # << >> THEN hosts[1] ELSE managed[1]
  IN  IF HasNew(t) THEN release ELSE 0

(* "the host target's version is a faithful proxy for whether any update   *)
(* is available" (sysupdate.go:136-137), looked at when no update is       *)
(* running.                                                                *)
ProxyFaithful ==
  /\ jobs = {} /\ \A p \in Appliers : pc[p] \in {"idle", "done"}
  /\ Check # {}
  => CheckNewVersion # 0

---------------------------------------------------------------------------
(* The inductive invariant behind NilMeansStarted (SysUpdateProofs).       *)

Applying(p) == pc[p] \in {"checkNew", "update"}

(* An Apply in its loop has a target before it, and one that is through    *)
(* has none.                                                               *)
LoopPlace ==
  /\ todo \in [Appliers -> Seq(Targets)]
  /\ \A p \in Appliers : Applying(p) => todo[p] # << >>
  /\ \A p \in Appliers : pc[p] = "done" => todo[p] = << >>

(* A target is behind an Apply only with an error or a started update. *)
VisitedAccounted ==
  \A p \in Appliers :
    pc[p] # "idle" => Managed \ Elems(todo[p]) \subseteq errs[p] \cup started[p]

IInv ==
  /\ TypeOK /\ LoopPlace /\ VisitedAccounted
  /\ release = 0 => latest < MaxReleases
=============================================================================
