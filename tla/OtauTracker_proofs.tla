------------------------- MODULE OtauTracker_proofs -------------------------
(* Proofs about the activity tracker, for every capacity and every set of   *)
(* devices.                                                                 *)
EXTENDS OtauTracker, SequenceTheorems, TLAPS

(* What erasing one entry leaves: the others, in order, moved up. *)
LEMMA RemoveAtProperties ==
    ASSUME NEW S, NEW s \in Seq(S), NEW i \in 1 .. Len(s)
    PROVE  /\ RemoveAt(s, i) \in Seq(S)
           /\ Len(RemoveAt(s, i)) = Len(s) - 1
           /\ \A j \in 1 .. Len(s) - 1 :
                 RemoveAt(s, i)[j] = IF j < i THEN s[j] ELSE s[j + 1]
<1> DEFINE before == SubSeq(s, 1, i - 1)
           after  == SubSeq(s, i + 1, Len(s))
<1>1. /\ before \in Seq(S)
      /\ Len(before) = i - 1
      /\ \A j \in 1 .. i - 1 : before[j] = s[j]
  <2>1. \A j \in 1 .. i - 1 : s[j] \in S
    BY ElementOfSeq
  <2> QED
    BY <2>1, SubSeqProperties
<1>2. /\ after \in Seq(S)
      /\ Len(after) = Len(s) - i
      /\ \A j \in 1 .. Len(s) - i : after[j] = s[i + j]
  <2>1. \A j \in i + 1 .. Len(s) : s[j] \in S
    BY ElementOfSeq
  <2>2. /\ after \in Seq(S)
        /\ Len(after) = IF i + 1 <= Len(s) THEN Len(s) - (i + 1) + 1 ELSE 0
        /\ \A j \in 1 .. Len(s) - (i + 1) + 1 : after[j] = s[(i + 1) + j - 1]
    BY <2>1, SubSeqProperties
  <2> QED
    BY <2>2
<1>3. RemoveAt(s, i) = before \o after
  BY DEF RemoveAt
<1> HIDE DEF before, after
<1>4. /\ before \o after \in Seq(S)
      /\ Len(before \o after) = Len(s) - 1
      /\ \A j \in 1 .. Len(s) - 1 :
            (before \o after)[j] = IF j <= i - 1 THEN before[j] ELSE after[j - (i - 1)]
  BY <1>1, <1>2, ConcatProperties
<1>5. \A j \in 1 .. Len(s) - 1 :
         (before \o after)[j] = IF j < i THEN s[j] ELSE s[j + 1]
  BY <1>1, <1>2, <1>4
<1> QED
  BY <1>3, <1>4, <1>5

(* The inductive invariant.  The bound and the absence of duplicates need   *)
(* the type; that the timer runs while there are entries needs nothing else *)
(* but is what makes the other two matter.                                  *)
TrackerInv == TrackerTypeOK /\ TrackerBounded /\ SlotsReclaimable

(* The empty tracker is well formed. *)
LEMMA TrackerInitInv == TrackerInit => TrackerInv
<1> SUFFICES ASSUME TrackerInit PROVE TrackerInv
  OBVIOUS
<1>1. TrackerTypeOK
  <2>1. activityTimer \in BOOLEAN
    BY Zenon DEF TrackerInit
  <2>2. otauTracker \in Seq(Nodes) /\ quiet \subseteq Tracked
    BY DEF TrackerInit
  <2> QED
    BY <2>1, <2>2 DEF TrackerTypeOK
<1>2. TrackerBounded
  <2>1. Len(otauTracker) = 0 /\ DOMAIN otauTracker = {}
    BY EmptySeq DEF TrackerInit
  <2> QED
    BY <2>1, TrackerAssumption DEF TrackerBounded, TrackerAssumption
<1>3. SlotsReclaimable
  BY DEF TrackerInit, SlotsReclaimable
<1> QED
  BY <1>1, <1>2, <1>3 DEF TrackerInv

(* markOtauActivity() keeps it well formed. *)
LEMMA MarkInv ==
    ASSUME TrackerInv, NEW n \in Nodes, MarkOtauActivity(n)
    PROVE  TrackerInv'
<1> USE DEF TrackerInv, TrackerTypeOK, TrackerBounded, SlotsReclaimable
<1>1. CASE n \in Tracked \/ Busy
  <2>1. otauTracker' = otauTracker
    BY <1>1 DEF MarkOtauActivity
  <2> QED
    BY <2>1 DEF MarkOtauActivity, Tracked
<1>2. CASE n \notin Tracked /\ ~Busy
  <2>1. otauTracker' = Append(otauTracker, n)
    BY <1>2 DEF MarkOtauActivity
  <2>2. /\ otauTracker' \in Seq(Nodes)
        /\ Len(otauTracker') = Len(otauTracker) + 1
        /\ \A i \in 1 .. Len(otauTracker) : otauTracker'[i] = otauTracker[i]
        /\ otauTracker'[Len(otauTracker) + 1] = n
    BY <2>1, AppendProperties
  <2>3. Len(otauTracker') <= OTAU_MAX_ACTIVE
    BY <1>2, <2>2, TrackerAssumption DEF Busy, TrackerAssumption
  <2>4. \A i \in 1 .. Len(otauTracker) : otauTracker[i] # n
    BY <1>2 DEF Tracked
  <2>5. \A i, j \in DOMAIN otauTracker' : otauTracker'[i] = otauTracker'[j] => i = j
    BY <2>2, <2>4
  <2>6. Tracked \subseteq Tracked'
    BY <2>2 DEF Tracked
  <2>7. quiet' \subseteq Tracked'
    BY <2>6 DEF MarkOtauActivity
  <2> QED
    BY <2>2, <2>3, <2>5, <2>7 DEF MarkOtauActivity
<1> QED
  BY <1>1, <1>2

(* So does erasing an entry (activityTimerFired). *)
LEMMA EraseInv ==
    ASSUME TrackerInv, NEW i \in DOMAIN otauTracker, EraseEntry(i)
    PROVE  TrackerInv'
<1> USE DEF TrackerInv, TrackerTypeOK, TrackerBounded, SlotsReclaimable
<1>1. i \in 1 .. Len(otauTracker)
  OBVIOUS
<1>2. /\ otauTracker' \in Seq(Nodes)
      /\ Len(otauTracker') = Len(otauTracker) - 1
      /\ \A j \in 1 .. Len(otauTracker) - 1 :
            otauTracker'[j] = IF j < i THEN otauTracker[j] ELSE otauTracker[j + 1]
  BY <1>1, RemoveAtProperties DEF EraseEntry
<1>3. \A j, k \in DOMAIN otauTracker' : otauTracker'[j] = otauTracker'[k] => j = k
  <2> SUFFICES ASSUME NEW j \in 1 .. Len(otauTracker) - 1,
                      NEW k \in 1 .. Len(otauTracker) - 1,
                      otauTracker'[j] = otauTracker'[k]
               PROVE  j = k
    BY <1>2
  <2> DEFINE up(l) == IF l < i THEN l ELSE l + 1
  <2>1. /\ up(j) \in DOMAIN otauTracker /\ otauTracker'[j] = otauTracker[up(j)]
        /\ up(k) \in DOMAIN otauTracker /\ otauTracker'[k] = otauTracker[up(k)]
    BY <1>1, <1>2
  <2>2. up(j) = up(k)
    <3> HIDE DEF up
    <3> QED
      BY <2>1
  <2> QED
    BY <1>1, <2>2
<1>4. quiet' \subseteq Tracked'
  <2>1. SUFFICES ASSUME NEW m \in quiet, m # otauTracker[i]
                 PROVE  m \in Tracked'
    BY DEF EraseEntry
  <2>2. PICK j \in 1 .. Len(otauTracker) : otauTracker[j] = m
    BY DEF Tracked
  <2>3. CASE j < i
    BY <1>2, <2>2, <2>3 DEF Tracked
  <2>4. CASE j > i
    <3>1. j - 1 \in 1 .. Len(otauTracker) - 1 /\ otauTracker'[j - 1] = m
      BY <1>1, <1>2, <2>2, <2>4
    <3> QED
      BY <1>2, <3>1 DEF Tracked
  <2> QED
    BY <1>1, <2>1, <2>2, <2>3, <2>4
<1>5. Len(otauTracker') <= OTAU_MAX_ACTIVE
  BY <1>2, TrackerAssumption DEF TrackerAssumption
<1>6. activityTimer' \in BOOLEAN /\ (otauTracker' # << >> => activityTimer')
  BY Zenon DEF EraseEntry
<1> QED
  BY <1>2, <1>3, <1>4, <1>5, <1>6

(* So does every step. *)
LEMMA TrackerNextInv == TrackerInv /\ [TrackerNext]_trackerVars => TrackerInv'
<1> SUFFICES ASSUME TrackerInv, [TrackerNext]_trackerVars
             PROVE  TrackerInv'
  OBVIOUS
<1>1. ASSUME NEW n \in Nodes, MarkOtauActivity(n)
      PROVE  TrackerInv'
  BY <1>1, MarkInv
<1>2. ASSUME NEW n \in Nodes, TrackerElapses(n)
      PROVE  TrackerInv'
  BY <1>2 DEF TrackerElapses, TrackerInv, TrackerTypeOK, TrackerBounded, SlotsReclaimable,
              Tracked
<1>3. CASE ActivityTimerFired
  <2>1. ASSUME NEW i \in DOMAIN otauTracker, EraseEntry(i)
        PROVE  TrackerInv'
    BY <2>1, EraseInv
  <2>2. CASE /\ activityTimer' = (otauTracker # << >>)
             /\ UNCHANGED <<otauTracker, quiet>>
    BY <2>2 DEF TrackerInv, TrackerTypeOK, TrackerBounded, SlotsReclaimable, Tracked
  <2> QED
    BY <1>3, <2>1, <2>2 DEF ActivityTimerFired
<1>4. CASE UNCHANGED trackerVars
  BY <1>4 DEF trackerVars, TrackerInv, TrackerTypeOK, TrackerBounded, SlotsReclaimable,
              Tracked
<1> QED
  BY <1>1, <1>2, <1>3, <1>4 DEF TrackerNext

(* The tracker is always well formed: the list holds at most OTAU_MAX_ACTIVE *)
(* different devices, and the activity timer runs while it holds any.        *)
THEOREM TrackerInvariant == TrackerSpec => []TrackerInv
<1>1. TrackerInit => TrackerInv
  BY TrackerInitInv
<1>2. TrackerInv /\ [TrackerNext]_trackerVars => TrackerInv'
  BY TrackerNextInv
<1> QED
  BY <1>1, <1>2, PTL DEF TrackerSpec

(* OTAU_MAX_ACTIVE bounds the tracker and no device takes two slots. *)
THEOREM TrackerIsBounded == TrackerSpec => []TrackerBounded
<1>1. TrackerInv => TrackerBounded
  BY DEF TrackerInv
<1> QED
  BY <1>1, TrackerInvariant, PTL

(* The entries are devices, and only a device that has an entry is silent   *)
(* (markOtauActivity, activityTimerFired).                                  *)
THEOREM TrackerTypeCorrect == TrackerSpec => []TrackerTypeOK
<1>1. TrackerInv => TrackerTypeOK
  BY DEF TrackerInv
<1> QED
  BY <1>1, TrackerInvariant, PTL

(* While a slot is taken the activity timer that can free it runs.          *)
THEOREM SlotsAreReclaimable == TrackerSpec => []SlotsReclaimable
<1>1. TrackerInv => SlotsReclaimable
  BY DEF TrackerInv
<1> QED
  BY <1>1, TrackerInvariant, PTL
=============================================================================
