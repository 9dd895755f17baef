------------------------ MODULE DiskSelectionProofs ------------------------
(* Proofs about module DiskSelection, for every set of machines, with any  *)
(* number of devices, and every order in which lsblk may list them.        *)
EXTENDS DiskSelection, SequenceTheorems, TLAPS

(* A loop that is through has visited its whole list, and one that begins  *)
(* has visited nothing.                                                    *)
LEMMA VisitedAll ==
  ASSUME NEW S, NEW s \in Seq(S)
  PROVE  /\ Visited(s, 1) = {}
         /\ \A n \in Nat : n > Len(s) => Visited(s, n) = Elems(s)
<1>1. DOMAIN s = 1..Len(s) /\ Len(s) \in Nat
  BY LenProperties
<1> QED
  BY <1>1 DEF Visited, Elems

(* Sorting keeps the elements of a list and its length. *)
LEMMA PermutedElems ==
  ASSUME NEW S, NEW s \in Seq(S), NEW t \in Permuted(s)
  PROVE  /\ t \in Seq(S) /\ DOMAIN t = DOMAIN s
         /\ Elems(t) = Elems(s)
<1>1. DOMAIN s = 1..Len(s) /\ Len(s) \in Nat /\ s \in [1..Len(s) -> S]
  BY LenProperties
<1>2. PICK p \in [DOMAIN s -> DOMAIN s] :
        /\ \A k \in DOMAIN s : \E i \in DOMAIN s : p[i] = k
        /\ t = [i \in DOMAIN s |-> s[p[i]]]
  BY DEF Permuted
<1>3. t \in [1..Len(s) -> S] /\ DOMAIN t = DOMAIN s
  BY <1>1, <1>2
<1>4. t \in Seq(S)
  BY <1>1, <1>3, SeqDef
<1>5. Elems(t) = Elems(s)
  BY <1>2, <1>3 DEF Elems
<1> QED
  BY <1>3, <1>4, <1>5

(* A list with an element has a first one. *)
LEMMA FirstExists ==
  ASSUME NEW S, NEW s \in Seq(S), Elems(s) # {}
  PROVE  s # << >> /\ 1 \in DOMAIN s /\ s[1] \in Elems(s)
<1>1. DOMAIN s = 1..Len(s) /\ Len(s) \in Nat
  BY LenProperties
<1> QED
  BY <1>1 DEF Elems

(* The first element of a list sorted by size is a smallest one, and of a  *)
(* list sorted the other way a largest one.                                *)
LEMMA SortedFirst ==
  ASSUME TypeOK, NEW s \in Seq(DOMAIN dev), Elems(s) # {}
  PROVE  /\ \A t \in bySize(s) :
              /\ t \in Seq(DOMAIN dev) /\ Elems(t) = Elems(s)
              /\ t[1] \in Smallest(dev, Elems(s))
         /\ \A t \in bySizeDescending(s) : t[1] \in Largest(dev, Elems(s))
<1>1. \A d \in DOMAIN dev : dev[d].size \in Nat
  BY MachinesTyped DEF TypeOK
<1>2. ASSUME NEW t \in Permuted(s)
      PROVE  /\ t \in Seq(DOMAIN dev) /\ Elems(t) = Elems(s)
             /\ 1 \in DOMAIN t /\ t[1] \in Elems(s)
             /\ \A d \in Elems(s) : d \in DOMAIN dev /\ \E i \in DOMAIN t : i \in Nat /\ 1 <= i /\ d = t[i]
  <2>1. t \in Seq(DOMAIN dev) /\ Elems(t) = Elems(s)
    BY PermutedElems
  <2>2. 1 \in DOMAIN t /\ t[1] \in Elems(s)
    BY <2>1, FirstExists
  <2>3. DOMAIN t = 1..Len(t) /\ Len(t) \in Nat /\ \A i \in 1..Len(t) : t[i] \in DOMAIN dev
    BY <2>1, LenProperties, ElementOfSeq
  <2>4. ASSUME NEW d \in Elems(s)
        PROVE  d \in DOMAIN dev /\ \E i \in DOMAIN t : i \in Nat /\ 1 <= i /\ d = t[i]
    <3>1. PICK i \in DOMAIN t : d = t[i]
      BY <2>1 DEF Elems
    <3> QED
      BY <2>3, <3>1
  <2> QED
    BY <2>1, <2>2, <2>4
<1>3. ASSUME NEW t \in bySize(s)
      PROVE  t[1] \in Smallest(dev, Elems(s))
  <2>1. t \in Permuted(s) /\ \A i, j \in DOMAIN t : i < j => dev[t[i]].size <= dev[t[j]].size
    BY DEF bySize
  <2>2. ASSUME NEW d \in Elems(s) PROVE dev[t[1]].size <= dev[d].size
    <3>1. PICK i \in DOMAIN t : i \in Nat /\ 1 <= i /\ d = t[i]
      BY <1>2, <2>1
    <3>2. CASE i = 1
      BY <1>1, <1>2, <2>1, <3>1, <3>2
    <3>3. CASE 1 < i
      BY <1>2, <2>1, <3>1, <3>3
    <3> QED
      BY <3>1, <3>2, <3>3
  <2> QED
    BY <1>2, <2>1, <2>2 DEF Smallest
<1>4. ASSUME NEW t \in bySizeDescending(s)
      PROVE  t[1] \in Largest(dev, Elems(s))
  <2>1. t \in Permuted(s) /\ \A i, j \in DOMAIN t : i < j => dev[t[j]].size <= dev[t[i]].size
    BY DEF bySizeDescending
  <2>2. ASSUME NEW d \in Elems(s) PROVE dev[d].size <= dev[t[1]].size
    <3>1. PICK i \in DOMAIN t : i \in Nat /\ 1 <= i /\ d = t[i]
      BY <1>2, <2>1
    <3>2. CASE i = 1
      BY <1>1, <1>2, <2>1, <3>1, <3>2
    <3>3. CASE 1 < i
      BY <1>2, <2>1, <3>1, <3>3
    <3> QED
      BY <3>1, <3>2, <3>3
  <2> QED
    BY <1>2, <2>1, <2>2 DEF Largest
<1>5. \A t \in bySize(s) : t \in Permuted(s)
  BY DEF bySize
<1> QED
  BY <1>2, <1>3, <1>4, <1>5

(* One round of a filter loop: what is kept is what passed the test among  *)
(* what has been visited, without repetition if the list has none.         *)
LEMMA RoundKeeps ==
  ASSUME kept \in Seq(DOMAIN dev), next \in Nat \ {0},
         NEW s \in Seq(DOMAIN dev), next <= Len(s),
         NEW T, Elems(kept) = Visited(s, next) \cap T,
         kept' = IF s[next] \in T THEN Append(kept, s[next]) ELSE kept
  PROVE  /\ kept' \in Seq(DOMAIN dev)
         /\ Elems(kept') = Visited(s, next + 1) \cap T
         /\ Distinct(s) /\ Distinct(kept) => Distinct(kept')
<1>1. /\ DOMAIN s = 1..Len(s) /\ Len(s) \in Nat
      /\ DOMAIN kept = 1..Len(kept) /\ Len(kept) \in Nat
      /\ next \in DOMAIN s /\ s[next] \in DOMAIN dev
  BY LenProperties, ElementOfSeq
<1>2. Visited(s, next + 1) = Visited(s, next) \cup {s[next]}
  BY <1>1 DEF Visited
<1>3. CASE s[next] \notin T
  BY <1>2, <1>3
<1>4. CASE s[next] \in T
  <2>1. /\ kept' = Append(kept, s[next]) /\ kept' \in Seq(DOMAIN dev)
        /\ Len(kept') = Len(kept) + 1
        /\ \A i \in 1..Len(kept) : kept'[i] = kept[i]
        /\ kept'[Len(kept) + 1] = s[next]
    BY <1>1, <1>4, AppendProperties
  <2>2. DOMAIN kept' = 1..(Len(kept) + 1)
    BY <2>1, LenProperties
  <2>3. Elems(kept') = Elems(kept) \cup {s[next]}
    <3>1. ASSUME NEW e \in Elems(kept') PROVE e \in Elems(kept) \cup {s[next]}
      BY <1>1, <2>1, <2>2 DEF Elems
    <3>2. ASSUME NEW e \in Elems(kept) PROVE e \in Elems(kept')
      BY <1>1, <2>1, <2>2 DEF Elems
    <3>3. s[next] \in Elems(kept')
      BY <1>1, <2>1, <2>2 DEF Elems
    <3> QED
      BY <3>1, <3>2, <3>3
  <2>4. ASSUME Distinct(s), Distinct(kept) PROVE Distinct(kept')
    <3>1. s[next] \notin Visited(s, next)
      BY <1>1, <2>4 DEF Distinct, Visited
    <3>2. \A i \in 1..Len(kept) : kept[i] # s[next]
      BY <1>1, <3>1 DEF Elems
    <3> QED
      BY <1>1, <2>1, <2>2, <2>4, <3>2 DEF Distinct
  <2> QED
    BY <1>2, <1>4, <2>1, <2>3, <2>4
<1> QED
  BY <1>3, <1>4

(* The loop's test is that of DiskSelect's set of candidates: a name that  *)
(* is not empty differs from an empty excludeName.                         *)
LEMMA CandidateSet ==
  ASSUME TypeOK
  PROVE  Candidates(dev, excludeName) = {d \in DOMAIN dev : isCandidate(d)}
<1>1. NoName \notin DOMAIN dev
  BY MachinesTyped DEF TypeOK
<1> QED
  BY <1>1 DEF Candidates, isCandidate

(* The rounds of the three loops keep the invariant. *)
LEMMA RoundsInductive ==
  ASSUME IInv, FilterCandidates \/ FilterNonRotational \/ FilterOthers
  PROVE  IInv'
<1> DEFINE T == CASE pc = "candidates" -> {d \in DOMAIN dev : isCandidate(d)}
                  [] pc = "nonRotational" -> {d \in DOMAIN dev : isNonRotational(d)}
                  [] OTHER -> {d \in DOMAIN dev : isOther(d)}
<1> DEFINE list == IF pc = "candidates" THEN listing ELSE candidates
<1>1. /\ UNCHANGED <<dev, listing, labelled, pc, candidates, rootDisk, result>>
      /\ pc \in {"candidates", "nonRotational", "others"}
      /\ next <= Len(list) /\ next' = next + 1
  BY DEF FilterCandidates, FilterNonRotational, FilterOthers, Round, machine
<1>2. /\ dev \in MachineSet /\ next \in Nat \ {0}
      /\ list \in Seq(DOMAIN dev) /\ kept \in Seq(DOMAIN dev)
      /\ Distinct(listing)
  BY DEF IInv, TypeOK, Listings
<1>3. \A n \in Nat : \A e \in Visited(list, n) : e \in DOMAIN dev
  BY <1>2, ElementOfSeq, LenProperties DEF Visited
<1>4. list[next] \in DOMAIN dev
  BY <1>1, <1>2, ElementOfSeq
<1>5. kept' = IF list[next] \in T THEN Append(kept, list[next]) ELSE kept
  <2>1. CASE FilterCandidates
    BY <1>4, <2>1 DEF FilterCandidates, Round
  <2>2. CASE FilterNonRotational
    BY <1>4, <2>2 DEF FilterNonRotational, Round
  <2>3. CASE FilterOthers
    BY <1>4, <2>3 DEF FilterOthers, Round
  <2> QED
    BY <2>1, <2>2, <2>3
<1>6. Elems(kept) = Visited(list, next) \cap T
  BY <1>1, <1>2, <1>3 DEF IInv, LoopKeeps
<1> HIDE DEF T, list
<1>7. /\ kept' \in Seq(DOMAIN dev)
      /\ Elems(kept') = Visited(list, next + 1) \cap T
      /\ Distinct(list) /\ Distinct(kept) => Distinct(kept')
  <2>1. /\ list \in Seq(DOMAIN dev) /\ kept \in Seq(DOMAIN dev)
        /\ next \in Nat \ {0} /\ next <= Len(list)
    BY <1>1, <1>2
  <2> QED
    BY <1>5, <1>6, <2>1, RoundKeeps
<1>8. TypeOK'
  BY <1>1, <1>2, <1>7 DEF IInv, TypeOK, Listings
<1>9. LoopKeeps'
  <2>1. CASE pc = "candidates"
    BY <1>1, <1>2, <1>3, <1>7, <2>1 DEF IInv, LoopKeeps, T, list, isCandidate, excludeName, bootDiskName
  <2>2. CASE pc = "nonRotational"
    BY <1>1, <1>2, <1>3, <1>7, <2>2 DEF T, list, LoopKeeps, isNonRotational
  <2>3. CASE pc = "others"
    BY <1>1, <1>2, <1>3, <1>7, <2>3 DEF T, list, LoopKeeps, isOther
  <2> QED
    BY <1>1, <2>1, <2>2, <2>3
<1>10. CandidatesFound' /\ RootChosen' /\ Returned' /\ MatchesOutcomeSet'
  BY <1>1 DEF IInv, CandidatesFound, RootChosen, Returned, MatchesOutcomeSet, excludeName
<1> QED
  BY <1>8, <1>9, <1>10 DEF IInv

(* Two candidates make an outcome possible, and without two there is none. *)
LEMMA PairsNeedTwo ==
  ASSUME NEW p \in SelectDisks(dev, labelled)
  PROVE  /\ p[1] \in Candidates(dev, excludeName) /\ p[2] \in Candidates(dev, excludeName)
         /\ p[1] # p[2]
  BY DEF SelectDisks, selectDisksFrom, excludeName, Largest

(* The end of the first loop: the list has all candidates, and the check   *)
(* of its length tells whether two of them differ.                         *)
LEMMA CandidatesListed ==
  ASSUME IInv, Through("candidates", listing)
  PROVE  /\ Elems(kept) = Candidates(dev, excludeName)
         /\ Len(kept) < 2 => \A a, b \in Elems(kept) : a = b
         /\ Len(kept) >= 2 => \E a, b \in Elems(kept) : a # b
<1>1. /\ kept \in Seq(DOMAIN dev) /\ listing \in Seq(DOMAIN dev)
      /\ Elems(listing) = DOMAIN dev /\ next \in Nat /\ next > Len(listing)
      /\ Distinct(kept) /\ Elems(kept) = {d \in Visited(listing, next) : isCandidate(d)}
  BY DEF IInv, TypeOK, Listings, LoopKeeps, Through
<1>2. Elems(kept) = {d \in DOMAIN dev : isCandidate(d)}
  BY <1>1, VisitedAll
<1>3. Elems(kept) = Candidates(dev, excludeName)
  BY <1>2, CandidateSet DEF IInv
<1>4. DOMAIN kept = 1..Len(kept) /\ Len(kept) \in Nat
  BY <1>1, LenProperties
<1>5. Len(kept) < 2 => \A a, b \in Elems(kept) : a = b
  BY <1>4 DEF Elems
<1>6. ASSUME Len(kept) >= 2 PROVE \E a, b \in Elems(kept) : a # b
  <2>1. 1 \in DOMAIN kept /\ 2 \in DOMAIN kept
    BY <1>4, <1>6
  <2>2. kept[1] \in Elems(kept) /\ kept[2] \in Elems(kept) /\ kept[1] # kept[2]
    BY <1>1, <2>1 DEF Elems, Distinct
  <2> QED
    BY <2>2
<1> QED
  BY <1>3, <1>5, <1>6

(* The end of the second loop: whatever list is sorted has the elements of *)
(* DiskSelect's pool, and there are some.                                  *)
LEMMA PoolListed ==
  ASSUME IInv, Through("nonRotational", candidates),
         NEW s, s = IF kept # << >> THEN kept ELSE candidates
  PROVE  /\ s \in Seq(DOMAIN dev)
         /\ Elems(s) = RootPool(dev, Candidates(dev, excludeName))
         /\ Elems(s) # {}
<1>1. /\ kept \in Seq(DOMAIN dev) /\ candidates \in Seq(DOMAIN dev)
      /\ next \in Nat /\ next > Len(candidates)
      /\ Elems(kept) = {d \in Visited(candidates, next) : isNonRotational(d)}
      /\ Elems(candidates) = Candidates(dev, excludeName)
      /\ \E a, b \in Elems(candidates) : a # b
  BY DEF IInv, TypeOK, LoopKeeps, CandidatesFound, Through
<1>2. Elems(kept) = {d \in Candidates(dev, excludeName) : ~dev[d].rota}
  BY <1>1, VisitedAll DEF isNonRotational
<1>3. kept # << >> <=> Elems(kept) # {}
  BY <1>1, FirstExists, EmptySeq DEF Elems
<1> QED
  BY <1>1, <1>2, <1>3 DEF RootPool

(* The end of the third loop: all candidates but the root disk, at least   *)
(* one.                                                                    *)
LEMMA OthersListed ==
  ASSUME IInv, Through("others", candidates)
  PROVE  /\ Elems(kept) = Candidates(dev, excludeName) \ {rootDisk}
         /\ Elems(kept) # {}
         /\ rootDisk \in Candidates(dev, excludeName)
<1>1. /\ candidates \in Seq(DOMAIN dev) /\ next \in Nat /\ next > Len(candidates)
      /\ Elems(kept) = {d \in Visited(candidates, next) : isOther(d)}
      /\ Elems(candidates) = Candidates(dev, excludeName)
      /\ \E a, b \in Elems(candidates) : a # b
      /\ rootDisk \in Smallest(dev, RootPool(dev, Candidates(dev, excludeName)))
  BY DEF IInv, TypeOK, LoopKeeps, CandidatesFound, RootChosen, Through
<1>2. Elems(kept) = Candidates(dev, excludeName) \ {rootDisk}
  BY <1>1, VisitedAll DEF isOther
<1>3. rootDisk \in Candidates(dev, excludeName)
  BY <1>1 DEF Smallest, RootPool
<1> QED
  BY <1>1, <1>2, <1>3

(* The empty list has no elements, and no first one. *)
LEMMA NothingKept == << >> \in Seq({}) /\ Elems(<< >>) = {} /\ Distinct(<< >>)
  BY DEF Elems, Distinct

(* IInv holds when SelectDisks is called and every step preserves it. *)
LEMMA InvInductive ==
  /\ Init => IInv
  /\ IInv /\ [Next]_vars => IInv'
<1>1. Init => IInv
  <2> SUFFICES ASSUME Init PROVE IInv
    OBVIOUS
  <2>1. TypeOK
    BY DEF Init, TypeOK
  <2> QED
    BY <2>1 DEF Init, IInv, LoopKeeps, CandidatesFound, RootChosen, Returned, MatchesOutcomeSet
<1>2. IInv /\ [Next]_vars => IInv'
  <2> SUFFICES ASSUME IInv, [Next]_vars PROVE IInv'
    OBVIOUS
  <2>1. CASE UNCHANGED vars
    BY <2>1 DEF vars, IInv, TypeOK, Listings, LoopKeeps, CandidatesFound, RootChosen, Returned,
         MatchesOutcomeSet, excludeName, isCandidate, isNonRotational, isOther
  <2>2. CASE BootDeviceUnknown
    BY <2>2 DEF BootDeviceUnknown, Return, machine, Pending, Error, IInv, TypeOK, Listings,
         LoopKeeps, CandidatesFound, RootChosen, Returned, MatchesOutcomeSet
  <2>3. CASE BootDeviceKnown
    <3>1. /\ UNCHANGED <<dev, listing, labelled, candidates, rootDisk, result>>
          /\ pc' = "candidates" /\ next' = 1 /\ kept' = << >> /\ labelled # NoName
      BY <2>3 DEF BootDeviceKnown, Goto, machine
    <3>2. TypeOK'
      BY <3>1 DEF IInv, TypeOK, Listings
    <3>3. Visited(listing, 1) = {}
      BY VisitedAll DEF IInv, TypeOK, Listings
    <3>4. LoopKeeps'
      BY <3>1, <3>3, NothingKept DEF LoopKeeps
    <3> QED
      BY <2>3, <3>1, <3>2, <3>4 DEF BootDeviceKnown, IInv, CandidatesFound, RootChosen, Returned,
           MatchesOutcomeSet
  <2>4. CASE FilterCandidates \/ FilterNonRotational \/ FilterOthers
    BY <2>4, RoundsInductive
  <2>5. CASE TooFewDisks
    <3>1. SelectDisks(dev, labelled) = {}
      BY <2>5, CandidatesListed, PairsNeedTwo DEF TooFewDisks
    <3>2. /\ UNCHANGED <<dev, listing, labelled, next, kept, candidates, rootDisk>>
          /\ pc' = "return" /\ result' = Error /\ pc = "candidates"
      BY <2>5 DEF TooFewDisks, Return, machine, Through
    <3> QED
      BY <3>1, <3>2 DEF Pending, Error, IInv, TypeOK, Listings,
           LoopKeeps, CandidatesFound, RootChosen, Returned, MatchesOutcomeSet
  <2>6. CASE EnoughDisks
    <3>1. /\ UNCHANGED <<dev, listing, labelled, rootDisk, result>>
          /\ pc' = "nonRotational" /\ next' = 1 /\ kept' = << >>
          /\ candidates' = kept /\ pc = "candidates" /\ Len(kept) >= 2
      BY <2>6 DEF EnoughDisks, Goto, machine, Through
    <3>2. TypeOK'
      BY <3>1 DEF IInv, TypeOK, Listings
    <3>3. Visited(kept, 1) = {}
      BY VisitedAll DEF IInv, TypeOK
    <3>4. LoopKeeps'
      BY <3>1, <3>3, NothingKept DEF LoopKeeps
    <3>5. CandidatesFound'
      BY <2>6, <3>1, CandidatesListed DEF CandidatesFound, excludeName, EnoughDisks
    <3> QED
      BY <3>1, <3>2, <3>4, <3>5 DEF IInv, RootChosen, Returned, MatchesOutcomeSet
  <2>7. CASE SortPool
    <3> DEFINE s == IF kept # << >> THEN kept ELSE candidates
    <3>1. PICK pool \in bySize(s) :
            rootDisk' = pool[1] /\ candidates' = IF kept # << >> THEN candidates ELSE pool
      BY <2>7 DEF SortPool
    <3>2. /\ UNCHANGED <<dev, listing, labelled, result>>
          /\ pc' = "others" /\ next' = 1 /\ kept' = << >> /\ pc = "nonRotational"
          /\ Through("nonRotational", candidates)
      BY <2>7 DEF SortPool, Goto, machine, Through
    <3>3. /\ s \in Seq(DOMAIN dev) /\ Elems(s) # {}
          /\ Elems(s) = RootPool(dev, Candidates(dev, excludeName))
      BY <3>2, PoolListed
    <3>4. /\ pool \in Seq(DOMAIN dev) /\ Elems(pool) = Elems(s)
          /\ pool[1] \in Smallest(dev, Elems(s))
      <4> HIDE DEF s
      <4> QED
        BY <3>1, <3>3, SortedFirst DEF IInv
    <3>5. candidates' \in Seq(DOMAIN dev) /\ Elems(candidates') = Elems(candidates)
      BY <3>1, <3>4 DEF IInv, TypeOK
    <3>6. TypeOK'
      BY <3>2, <3>5 DEF IInv, TypeOK, Listings
    <3>7. Visited(candidates', 1) = {}
      BY <3>5, VisitedAll
    <3>8. LoopKeeps'
      BY <3>2, <3>7, NothingKept DEF LoopKeeps
    <3>9. CandidatesFound'
      BY <3>2, <3>5 DEF IInv, CandidatesFound, excludeName
    <3>10. RootChosen'
      BY <3>1, <3>2, <3>3, <3>4 DEF RootChosen, excludeName
    <3> QED
      BY <3>2, <3>6, <3>8, <3>9, <3>10 DEF IInv, Returned, MatchesOutcomeSet
  <2>8. CASE SortOthers
    <3>1. PICK others \in bySizeDescending(kept) : Return(<<"ok", rootDisk, others[1]>>)
      BY <2>8 DEF SortOthers
    <3>2. /\ UNCHANGED <<dev, listing, labelled, next, kept, candidates, rootDisk>>
          /\ pc' = "return" /\ result' = <<"ok", rootDisk, others[1]>>
          /\ pc = "others" /\ Through("others", candidates)
      BY <2>8, <3>1 DEF SortOthers, Return, machine, Through
    <3>3. others[1] \in Largest(dev, Candidates(dev, excludeName) \ {rootDisk})
      BY <3>1, <3>2, OthersListed, SortedFirst DEF IInv, TypeOK
    <3>4. <<rootDisk, others[1]>> \in SelectDisks(dev, labelled)
      BY <3>2, <3>3, OthersListed DEF SelectDisks, selectDisksFrom, excludeName, Largest, IInv, RootChosen
    <3>5. MatchesOutcomeSet'
      BY <3>2, <3>4 DEF MatchesOutcomeSet
    <3>6. labelled # NoName
      BY <3>2 DEF IInv, Returned
    <3> QED
      BY <3>2, <3>5, <3>6 DEF Pending, IInv, TypeOK, Listings, LoopKeeps, CandidatesFound,
           RootChosen, Returned
  <2> QED
    BY <2>1, <2>2, <2>3, <2>4, <2>5, <2>6, <2>7, <2>8 DEF Next
<1> QED
  BY <1>1, <1>2

(* For every machine and every order of lsblk's list, what the loops and   *)
(* sorts of selectDisksFrom return is an outcome that DiskSelect allows,   *)
(* on which the installer's theorems rest, and an error where it has none. *)
THEOREM OutcomesAgree == Spec => []MatchesOutcomeSet
<1>1. IInv => MatchesOutcomeSet
  BY DEF IInv
<1> QED
  BY <1>1, InvInductive, PTL DEF Spec

(* pool[0] and others[0] are never read from an empty list: the first is   *)
(* not because there are candidates, the second because there are two.     *)
THEOREM NeverIndexesEmpty == Spec => []FirstElementsExist
<1>1. IInv => FirstElementsExist
  <2> SUFFICES ASSUME IInv PROVE FirstElementsExist
    OBVIOUS
  <2>1. Through("nonRotational", candidates) => (IF kept # << >> THEN kept ELSE candidates) # << >>
    BY PoolListed, NothingKept
  <2>2. Through("others", candidates) => kept # << >>
    BY OthersListed, NothingKept
  <2> QED
    BY <2>1, <2>2 DEF FirstElementsExist
<1> QED
  BY <1>1, InvInductive, PTL DEF Spec

(* On machines where the parent of a device is a whole disk, the disk that *)
(* carries the installer's own medium is neither root nor bulk disk,       *)
(* whether the label is on the disk, on a partition of it or on a drive of *)
(* another kind.  A device mapped over a partition is what FlatMachines    *)
(* leaves out, and what bootDiskName gets wrong.                           *)
THEOREM OwnMediumSpared ==
  ASSUME FlatMachines
  PROVE  Spec => []BootMediumExcluded
<1>1. IInv => BootMediumExcluded
  <2> SUFFICES ASSUME IInv, Len(result) = 3
               PROVE  WholeDisk(dev, labelled) \notin {result[2], result[3]}
    BY DEF BootMediumExcluded
  <2>1. result # Pending /\ result # Error
    BY DEF Pending, Error
  <2>2. labelled # NoName /\ labelled \in DOMAIN dev /\ dev \in MachineSet
    BY <2>1 DEF IInv, Returned, TypeOK
  <2>3. PICK p \in SelectDisks(dev, labelled) : result = <<"ok", p[1], p[2]>>
    BY <2>1, <2>2 DEF IInv, MatchesOutcomeSet
  <2>4. /\ result[2] \in Candidates(dev, excludeName)
        /\ result[3] \in Candidates(dev, excludeName)
    BY <2>3, PairsNeedTwo
  <2>5. WholeDisk(dev, labelled) = excludeName \/ dev[WholeDisk(dev, labelled)].type # "disk"
    BY <2>2, MachinesTyped DEF FlatMachines, FlatMachine, WholeDisk, Parent, excludeName, bootDiskName
  <2> QED
    BY <2>4, <2>5 DEF Candidates
<1> QED
  BY <1>1, InvInductive, PTL DEF Spec
=============================================================================
