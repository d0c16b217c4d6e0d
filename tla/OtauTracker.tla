---------------------------- MODULE OtauTracker ----------------------------
(***************************************************************************)
(* The activity tracker of the OTA server: the list m_otauTracker of the   *)
(* devices that were recently served, at most OTAU_MAX_ACTIVE of them, and *)
(* the periodic timer m_activityTimer that forgets devices which have been *)
(* silent for more than ten seconds.                                       *)
(*                                                                         *)
(* The time stamps are abstracted to one bit per entry: quiet holds the    *)
(* entries whose lastActivity is more than ten seconds old.                *)
(***************************************************************************)
EXTENDS Naturals, Sequences, SequencesExt

CONSTANTS Nodes,            \* devices, by extended address
          OTAU_MAX_ACTIVE   \* capacity of the tracker

ASSUME TrackerAssumption == OTAU_MAX_ACTIVE \in Nat \ {0}

VARIABLES otauTracker,      \* m_otauTracker, in insertion order
          quiet,            \* tracked devices silent for more than 10 s
          activityTimer     \* is m_activityTimer (repeating, 3 s) running?

trackerVars == <<otauTracker, quiet, activityTimer>>

Tracked == {otauTracker[i] : i \in DOMAIN otauTracker}

\* The server does not offer images to anyone while the tracker is full.
Busy == Len(otauTracker) >= OTAU_MAX_ACTIVE

TrackerInit ==
    /\ otauTracker = << >>
    /\ quiet = {}
    /\ activityTimer = FALSE

----------------------------------------------------------------------------
(* Mistakes that the properties below must notice, here and further down:   *)
(* each is the definition that follows it with one thing wrong.             *)

MarkWithoutTimer(n) ==
    /\ otauTracker' = IF n \in Tracked \/ Busy THEN otauTracker ELSE Append(otauTracker, n)
    /\ quiet' = quiet \ {n}
    /\ UNCHANGED activityTimer

MarkWithoutLimit(n) ==
    /\ otauTracker' = IF n \in Tracked THEN otauTracker ELSE Append(otauTracker, n)
    /\ quiet' = quiet \ {n}
    /\ activityTimer' = TRUE

----------------------------------------------------------------------------
(* markOtauActivity(): refresh the entry of n, or add one if there is room. *)
(* A device that finds the tracker full is served without being tracked.    *)
MarkOtauActivity(n) ==
    /\ otauTracker' = IF n \in Tracked \/ Busy THEN otauTracker ELSE Append(otauTracker, n)
    /\ quiet' = quiet \ {n}
    /\ activityTimer' = TRUE

(* The ten seconds of a tracked device elapse. *)
TrackerElapses(n) ==
    /\ n \in Tracked
    /\ quiet' = quiet \cup {n}
    /\ UNCHANGED <<otauTracker, activityTimer>>

(* The first entry that is too old, the one std::find_if returns. *)
IsFirstQuiet(i) ==
    /\ i \in DOMAIN otauTracker
    /\ otauTracker[i] \in quiet
    /\ \A j \in 1 .. i - 1 : otauTracker[j] \notin quiet

EraseLast(i) ==
    /\ otauTracker' = SubSeq(otauTracker, 1, Len(otauTracker) - 1)
    /\ quiet' = quiet \ {otauTracker[i]}
    /\ activityTimer' = (otauTracker' # << >>)

EraseForgetsOthers(i) ==
    /\ otauTracker' = RemoveAt(otauTracker, i)
    /\ quiet' = quiet \ {otauTracker[i]}
    /\ activityTimer' = FALSE

EraseEntry(i) ==
    /\ otauTracker' = RemoveAt(otauTracker, i)
    /\ quiet' = quiet \ {otauTracker[i]}
    /\ activityTimer' = (otauTracker' # << >>)

(* activityTimerFired(): at most one entry is dropped per tick, and the     *)
(* timer stops with the last one.                                           *)
ActivityTimerFired ==
    /\ activityTimer
    /\ \/ \E i \in DOMAIN otauTracker : IsFirstQuiet(i) /\ EraseEntry(i)
       \/ /\ \A i \in DOMAIN otauTracker : otauTracker[i] \notin quiet
          /\ activityTimer' = (otauTracker # << >>)
          /\ UNCHANGED <<otauTracker, quiet>>

TrackerNext ==
    \/ \E n \in Nodes : MarkOtauActivity(n) \/ TrackerElapses(n)
    \/ ActivityTimerFired

TrackerSpec == TrackerInit /\ [][TrackerNext]_trackerVars

(* Timers of the Qt event loop fire. *)
TrackerLiveSpec == TrackerSpec /\ WF_trackerVars(ActivityTimerFired)

----------------------------------------------------------------------------
TrackerTypeOK ==
    /\ otauTracker \in Seq(Nodes)
    /\ quiet \subseteq Tracked
    /\ activityTimer \in BOOLEAN

(* The tracker never holds more than OTAU_MAX_ACTIVE entries, and never two *)
(* for one device: markOtauActivity checks both before it appends, and the  *)
(* entries erased by the timer leave no gap that would let a device in      *)
(* twice. With a duplicate a single device would occupy two of the slots.   *)
TrackerBounded ==
    /\ Len(otauTracker) <= OTAU_MAX_ACTIVE
    /\ \A i, j \in DOMAIN otauTracker : otauTracker[i] = otauTracker[j] => i = j

(* A slot that is taken can be freed: while there are entries the activity  *)
(* timer runs, so a full tracker cannot refuse all later devices forever.   *)
SlotsReclaimable == otauTracker # << >> => activityTimer

(* Every device that stays silent loses its slot (or speaks again), however *)
(* many other silent entries stand before it: one is dropped per tick.      *)
QuietSlotsFreed == \A n \in Nodes : (n \in quiet) ~> (n \notin quiet)
=============================================================================
