----------------------------- MODULE PauseWatch -----------------------------
(***************************************************************************)
(* The notice about time the bot did not run (PauseWatch, the heartbeat    *)
(* file and runHeartbeat of intelligence-service).  A steady timer takes a *)
(* beat; the process remembers the last one, and the file keeps it over a  *)
(* restart.  A long gap between two beats is told once, after the fact.    *)
(*                                                                         *)
(* Taking a beat, writing the file and storing the notice are three steps  *)
(* with an await between any two; the clock may read an earlier time than  *)
(* before, a write may fail and the process may stop anywhere.             *)
(***************************************************************************)
EXTENDS Naturals

CONSTANTS
  PauseGap,  \* pauseMinMs, in clock steps
  LastTime,  \* bound: the last time of the clock
  MaxTrips   \* bound: restarts, failed reads and writes, clocks that go back

ASSUME PauseAssumption == {PauseGap, LastTime} \subseteq Nat \ {0} /\ MaxTrips \in Nat

VARIABLES
  wall,     \* the time
  file,     \* the beat the heartbeat file holds
  watch,    \* what the process remembers: the last beat, and that it has read the file
  beat,     \* the beat in progress
  pauses,   \* the stored notices: the last beat before a gap, and the first after it
  written,  \* history: beats that reached the file
  trips,
  slipped,  \* history: the clock went back or a beat was not written
  unsaid    \* history: the file was not readable or a notice was not stored

pauseVars == <<wall, file, watch, beat, pauses, written, trips, slipped, unsaid>>

Times == 1 .. LastTime
NoTime == 0
AtRest == [pc |-> "idle", at |-> NoTime, from |-> NoTime]
Asleep == [last |-> NoTime, ready |-> FALSE]

PauseTypeOK ==
  /\ wall \in Times
  /\ file \in Times \union {NoTime}
  /\ watch \in [last : Times \union {NoTime}, ready : BOOLEAN]
  /\ beat \in [pc : {"idle", "read", "write", "note"}, at : Times \union {NoTime}, from : Times \union {NoTime}]
  /\ pauses \subseteq [from : Times, to : Times]
  /\ written \subseteq Times
  /\ trips \in 0 .. MaxTrips /\ slipped \in BOOLEAN /\ unsaid \in BOOLEAN

PauseInit ==
  /\ wall = 1 /\ file = NoTime /\ watch = Asleep /\ beat = AtRest
  /\ pauses = {} /\ written = {}
  /\ trips = 0 /\ slipped = FALSE /\ unsaid = FALSE

Trip == trips < MaxTrips /\ trips' = trips + 1

\* PauseWatch.beat: a clock that went backwards does not move the last beat back;
\* the gap since the last beat, if it is a long one, begins there.
Heard(last, at) == IF at < last THEN last ELSE at
GapBefore(last, at) == IF last # NoTime /\ at > last + PauseGap THEN last ELSE NoTime

\* runHeartbeat: one beat at a time.  The first one of a process reads the file first.
BeatBegin ==
  \E at \in 1 .. wall :
    /\ beat.pc = "idle"
    /\ \/ at = wall /\ UNCHANGED <<trips, slipped>>
       \/ at < wall /\ Trip /\ slipped' = TRUE
    /\ watch' = [last |-> IF watch.ready THEN Heard(watch.last, at) ELSE watch.last, ready |-> TRUE]
    /\ beat' = [pc |-> IF watch.ready THEN "write" ELSE "read", at |-> at,
                from |-> IF watch.ready THEN GapBefore(watch.last, at) ELSE NoTime]
    /\ UNCHANGED <<wall, file, pauses, written, unsaid>>

\* readHeartbeat: a missing or damaged file is no beat.
BeatRead ==
  /\ beat.pc = "read"
  /\ \E saved \in {file, NoTime} :
       /\ IF saved = file THEN UNCHANGED <<trips, unsaid>> ELSE Trip /\ unsaid' = TRUE
       /\ watch' = [watch EXCEPT !.last = Heard(Heard(watch.last, saved), beat.at)]
       /\ beat' = [beat EXCEPT !.pc = "write", !.from = GapBefore(Heard(watch.last, saved), beat.at)]
  /\ UNCHANGED <<wall, file, pauses, written, slipped>>

Noting == beat' = IF beat.from = NoTime THEN AtRest ELSE [beat EXCEPT !.pc = "note"]

\* writeHeartbeat: a temporary file and a rename.
BeatWrite ==
  /\ beat.pc = "write"
  /\ file' = beat.at /\ written' = written \union {beat.at}
  /\ Noting
  /\ UNCHANGED <<wall, watch, pauses, trips, slipped, unsaid>>

BeatWriteFails ==
  /\ beat.pc = "write"
  /\ Trip /\ slipped' = TRUE
  /\ Noting
  /\ UNCHANGED <<wall, file, watch, pauses, written, unsaid>>

\* The notice is stored once per beginning of a gap.
BeatNote ==
  /\ beat.pc = "note"
  /\ pauses' = IF \E p \in pauses : p.from = beat.from THEN pauses
               ELSE pauses \union {[from |-> beat.from, to |-> beat.at]}
  /\ beat' = AtRest
  /\ UNCHANGED <<wall, file, watch, written, trips, slipped, unsaid>>

BeatNoteFails ==
  /\ beat.pc = "note"
  /\ Trip /\ unsaid' = TRUE
  /\ beat' = AtRest
  /\ UNCHANGED <<wall, file, watch, pauses, written, slipped>>

\* The process stops and is started again.
BeatCrash ==
  /\ Trip
  /\ unsaid' = (unsaid \/ beat.pc = "note")
  /\ watch' = Asleep /\ beat' = AtRest
  /\ UNCHANGED <<wall, file, pauses, written, slipped>>

TimePasses ==
  /\ wall < LastTime
  /\ wall' = wall + 1
  /\ UNCHANGED <<file, watch, beat, pauses, written, trips, slipped, unsaid>>

PauseNext ==
  \/ BeatBegin \/ BeatRead \/ BeatWrite \/ BeatWriteFails
  \/ BeatNote \/ BeatNoteFails \/ BeatCrash \/ TimePasses

-----------------------------------------------------------------------------
(* Properties                                                              *)

\* A pause that was told is one in which the bot did not run: it is long, no beat
\* was saved inside it, and no two of them overlap, over any number of restarts,
\* as long as every beat was written and the clock did not go back.
PausesAreReal ==
  ~slipped => \A p \in pauses :
    /\ p.from + PauseGap < p.to
    /\ \A t \in written : t <= p.from \/ p.to <= t
    /\ \A q \in pauses : p = q \/ p.to <= q.from \/ q.to <= p.from

\* And every such gap is told, the ones a restart lies in too, unless the file
\* could not be read or the notice itself was lost.
PausesAreTold ==
  ~slipped /\ ~unsaid => \A t, u \in written :
    (t + PauseGap < u /\ \A v \in written : v <= t \/ u <= v) =>
      \/ [from |-> t, to |-> u] \in pauses
      \/ beat.pc = "note" /\ beat.from = t /\ beat.at = u

\* Nothing is told twice, whatever fails (the identity pause:<from>).
PausesToldOnce == \A p, q \in pauses : p.from = q.from => p = q

PauseSafety == PauseTypeOK /\ PausesAreReal /\ PausesAreTold /\ PausesToldOnce
=============================================================================
