--------------------------- MODULE DiskSelection ---------------------------
(***************************************************************************)
(* One call of disks.SelectDisks on the list `lsblk` prints, step by step  *)
(* as internal/disks/disks.go computes it (three loops that filter a list, *)
(* two sorts, two first elements), against the set-based outcome of module *)
(* DiskSelect that the installer model uses.                               *)
(***************************************************************************)
EXTENDS DiskSelect, Sequences

CONSTANTS MachineSet,    \* the machines to try, functions as in DiskSelect
          Orders         \* the orders lsblk may list devices in

(* Devices have names, and sizes that are numbers of bytes. *)
ASSUME MachinesTyped ==
  \A m \in MachineSet : /\ NoName \notin DOMAIN m
                        /\ \A d \in DOMAIN m : m[d].size \in Nat

VARIABLES dev,        \* the machine
          listing,    \* lsblk's output order, a sequence of device names
          labelled,   \* the device carrying SLFHST_INSTALL, NoName if none
          pc,         \* the loop the call is in, or "call", or "return"
          next,       \* position in the list that this loop goes through
          kept,       \* the list that it appends to
          candidates,
          rootDisk,
          result      \* << >> until the call returns, then <<"error">> or
                      \* <<"ok", root, bulk>>

machine == <<dev, listing, labelled>>
vars == <<dev, listing, labelled, pc, next, kept, candidates, rootDisk, result>>

Pending == << >>
Error   == <<"error">>

Elems(s) == {s[i] : i \in DOMAIN s}
Distinct(s) == \A i, j \in DOMAIN s : s[i] = s[j] => i = j

(* lsblk lists every device of the machine, once. *)
Listings(m) == {o \in Orders : o \in Seq(DOMAIN m) /\ Distinct(o) /\ Elems(o) = DOMAIN m}

(* sort.Slice leaves its argument in some order by size: it is not stable, *)
(* so that equal sizes may come in any order.                              *)
Permuted(s) ==
  {[i \in DOMAIN s |-> s[p[i]]] :
     p \in {q \in [DOMAIN s -> DOMAIN s] : \A k \in DOMAIN s : \E i \in DOMAIN s : q[i] = k}}

bySize(s) ==
  {t \in Permuted(s) : \A i, j \in DOMAIN t : i < j => dev[t[i]].size <= dev[t[j]].size}

bySizeDescending(s) ==
  {t \in Permuted(s) : \A i, j \in DOMAIN t : i < j => dev[t[j]].size <= dev[t[i]].size}

(* lsblk has been run; a call that it fails in is a Fault of Installer. *)
Init ==
  /\ dev \in MachineSet
  /\ listing \in Listings(dev)
  /\ labelled \in DOMAIN dev \cup {NoName}
  /\ pc = "call" /\ next = 1
  /\ kept = << >> /\ candidates = << >> /\ rootDisk = NoName
  /\ result = Pending

excludeName == bootDiskName(dev, labelled)

Goto(loop) == pc' = loop /\ next' = 1 /\ kept' = << >>

Return(r) == pc' = "return" /\ result' = r /\ UNCHANGED <<machine, next, kept, candidates, rootDisk>>

(* blkid -L finds no device, or one that lsblk does not list: refuse to    *)
(* select without the exclusion.                                           *)
BootDeviceUnknown == pc = "call" /\ labelled = NoName /\ Return(Error)

BootDeviceKnown ==
  /\ pc = "call" /\ labelled # NoName
  /\ Goto("candidates")
  /\ UNCHANGED <<machine, candidates, rootDisk, result>>

(* One round of a loop over a list, which appends what passes its test. *)
Round(loop, list, test(_)) ==
  /\ pc = loop /\ next <= Len(list)
  /\ kept' = IF test(list[next]) THEN Append(kept, list[next]) ELSE kept
  /\ next' = next + 1
  /\ UNCHANGED <<machine, pc, candidates, rootDisk, result>>

Through(loop, list) == pc = loop /\ next > Len(list)

(* Mutant: the read-only filter is forgotten. *)
Mut_isCandidateKeepsRO(d) ==
  /\ dev[d].type = "disk" /\ dev[d].size > 0
  /\ excludeName = NoName \/ d # excludeName

isCandidate(d) ==
  /\ dev[d].type = "disk" /\ dev[d].size > 0 /\ ~dev[d].ro
  /\ excludeName = NoName \/ d # excludeName

isNonRotational(d) == ~dev[d].rota
isOther(d) == d # rootDisk

FilterCandidates == Round("candidates", listing, isCandidate)

TooFewDisks == Through("candidates", listing) /\ Len(kept) < 2 /\ Return(Error)

(* Mutant: one disk is enough. *)
Mut_EnoughDisksOne ==
  /\ Through("candidates", listing) /\ Len(kept) >= 1
  /\ candidates' = kept
  /\ Goto("nonRotational")
  /\ UNCHANGED <<machine, rootDisk, result>>

EnoughDisks ==
  /\ Through("candidates", listing) /\ Len(kept) >= 2
  /\ candidates' = kept
  /\ Goto("nonRotational")
  /\ UNCHANGED <<machine, rootDisk, result>>

FilterNonRotational == Round("nonRotational", candidates, isNonRotational)

(* Without a non-rotational disk the pool is candidates itself, which is   *)
(* then sorted in place.                                                   *)
SortPool ==
  /\ Through("nonRotational", candidates)
  /\ \E pool \in bySize(IF kept # << >> THEN kept ELSE candidates) :
       /\ rootDisk' = pool[1]
       /\ candidates' = IF kept # << >> THEN candidates ELSE pool
  /\ Goto("others")
  /\ UNCHANGED <<machine, result>>

FilterOthers == Round("others", candidates, isOther)

SortOthers ==
  /\ Through("others", candidates)
  /\ \E others \in bySizeDescending(kept) : Return(<<"ok", rootDisk, others[1]>>)

Next ==
  \/ BootDeviceUnknown \/ BootDeviceKnown
  \/ FilterCandidates \/ TooFewDisks \/ EnoughDisks
  \/ FilterNonRotational \/ SortPool
  \/ FilterOthers \/ SortOthers

Spec == Init /\ [][Next]_vars

---------------------------------------------------------------------------
(* Properties.                                                             *)

(* The code's filter-sort-index computation returns an error exactly when  *)
(* the outcome set of DiskSelect is empty, and otherwise a member of it,   *)
(* whatever order lsblk lists the devices in (disks.go, selectDisksFrom).  *)
MatchesOutcomeSet ==
  result # Pending /\ labelled # NoName =>
    result \in IF SelectDisks(dev, labelled) = {} THEN {Error}
               ELSE {<<"ok", c[1], c[2]>> : c \in SelectDisks(dev, labelled)}

(* The disk that holds the installer's own boot medium is neither the root *)
(* nor the bulk disk: SelectDisks' "never the installer's own boot device" *)
(* (disks.go, bootDiskName and its exclusion in selectDisksFrom).          *)
BootMediumExcluded ==
  Len(result) = 3 => WholeDisk(dev, labelled) \notin {result[2], result[3]}

(* pool[0] and others[0] exist when they are read: the one check of the    *)
(* number of candidates is enough for both (disks.go:173, 188, 197).       *)
FirstElementsExist ==
  /\ Through("nonRotational", candidates) => (IF kept # << >> THEN kept ELSE candidates) # << >>
  /\ Through("others", candidates) => kept # << >>

---------------------------------------------------------------------------
(* The inductive invariant behind these properties (DiskSelectionProofs).  *)

TypeOK ==
  /\ dev \in MachineSet /\ listing \in Listings(dev)
  /\ labelled \in DOMAIN dev \cup {NoName}
  /\ pc \in {"call", "candidates", "nonRotational", "others", "return"}
  /\ next \in Nat \ {0}
  /\ kept \in Seq(DOMAIN dev) /\ candidates \in Seq(DOMAIN dev)

(* What a loop has been through, and what it has kept of that. *)
Visited(s, n) == {s[i] : i \in {k \in DOMAIN s : k < n}}

LoopKeeps ==
  /\ pc = "candidates" =>
       Distinct(kept) /\ Elems(kept) = {d \in Visited(listing, next) : isCandidate(d)}
  /\ pc = "nonRotational" => Elems(kept) = {d \in Visited(candidates, next) : isNonRotational(d)}
  /\ pc = "others" => Elems(kept) = {d \in Visited(candidates, next) : isOther(d)}

(* What is known once there are candidates, and once there is a root disk. *)
CandidatesFound ==
  pc \in {"nonRotational", "others"} =>
    /\ Elems(candidates) = Candidates(dev, excludeName)
    /\ \E a, b \in Elems(candidates) : a # b

RootChosen ==
  pc = "others" => rootDisk \in Smallest(dev, RootPool(dev, Candidates(dev, excludeName)))

Returned ==
  /\ pc = "call" \/ pc = "return" \/ labelled # NoName
  /\ result = Pending <=> pc # "return"
  /\ result \in {Pending, Error} \/ labelled # NoName

FlatMachines == \A m \in MachineSet : FlatMachine(m)

IInv == TypeOK /\ LoopKeeps /\ CandidatesFound /\ RootChosen /\ Returned /\ MatchesOutcomeSet
=============================================================================
