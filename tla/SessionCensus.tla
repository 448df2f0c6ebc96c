--------------------------- MODULE SessionCensus ----------------------------
(***************************************************************************)
(* handbook/integrations-identity/vcenter_exchange.py, --sessions and      *)
(* --compare: which integrations still sign in to vCenter as a person?     *)
(*                                                                         *)
(* A session list holds what is signed in at the moment it is read, so the *)
(* script is run again and again and the records are held to a coverage.   *)
(* A run stamps its record when it begins and reads the vCenters one after *)
(* another.  On one of them a job signs in at a fixed time of each cycle,  *)
(* from a client nobody sits at.                                           *)
(***************************************************************************)
EXTENDS Integers, FiniteSets

CONSTANTS
  Minute,           \* ticks of a minute, odd: the largest gap is rounded to minutes
  Hour, Day,        \* in ticks
  MaxGap,           \* --max-gap-minutes
  Span,             \* --span-days, in ticks
  CoverHours,       \* --cover-hours
  Cycle,            \* ticks from one session of the job to the next
  Lengths,          \* ticks a session of the job may last
  Lag,              \* ticks from the beginning of a run to its last read
  VCs, JobAt,       \* the vCenters, and the one the job signs in to
  LastStart, MaxUnread \* bounds: when a run may still begin, lists not read

CensusAssumption ==
  /\ {Hour, Day, Cycle, Span} \subseteq Nat \ {0} /\ {MaxGap, CoverHours, Lag, LastStart, MaxUnread} \subseteq Nat
  /\ Day <= LastStart /\ Minute \in Nat /\ Minute % 2 = 1 /\ Lengths \subseteq 1 .. Cycle /\ JobAt \in VCs

VARIABLES
  clock,     \* the first run may begin at any hour of the first day
  job,       \* who it signs in as, when, for how long, and to which day somebody has acknowledged it
  census,    \* the run in progress: when it began, the vCenters it has still to read, what it has read
  records,   \* what the records come to: how many, the first capture and the last, the largest gap, the hours of day,
             \* whether each read every vCenter, and whom they show the job as
  verdict,   \* the exit of --compare
  unreads

vars == <<clock, job, census, records, verdict, unreads>>

Never == -1
End == LastStart + Lag
DayOf(time) == time \div Day
HourOf(time) == (time % Day) \div Hour

\* classify: the vCenter's own administrator, an API client, or a domain nobody named; agents are taken as known.
Kinds == {"directory", "local administrator", "api client", "not placed"}
Jobs == [kind : Kinds, offset : 0 .. Cycle - 1, length : Lengths, until : Never .. DayOf(End)]
Reading == [at : 0 .. LastStart, todo : SUBSET VCs, whole : BOOLEAN, found : SUBSET Kinds]
Idle == [at |-> 0, todo |-> {}, whole |-> TRUE, found |-> {}]

TypeOK ==
  /\ clock \in 0 .. End /\ job \in Jobs /\ census \in Reading
  /\ records.count \in 0 .. 2 /\ {records.first, records.last} \subseteq 0 .. LastStart /\ records.gap \in 0 .. LastStart
  /\ records.hours \subseteq 0 .. HourOf(Day - 1) /\ records.whole \in BOOLEAN /\ records.found \subseteq Kinds \ {"not placed"}
  /\ records.first + records.gap <= records.last
  /\ verdict \in {Never, 0, 1, 3, 4, 5} /\ unreads \in 0 .. MaxUnread

Init ==
  /\ clock \in 0 .. Day - 1 /\ job \in Jobs /\ census = Idle
  /\ records = [count |-> 0, first |-> 0, last |-> 0, gap |-> 0, hours |-> {}, whole |-> TRUE, found |-> {}]
  /\ verdict = Never /\ unreads = 0

-----------------------------------------------------------------------------
SignedIn == (clock - job.offset) % Cycle < job.length
Running == census.todo # {}

\* A run reads its last vCenter within Lag of its beginning.
Tick ==
  /\ clock < End /\ (records.count > 0 \/ Running)
  /\ verdict = Never /\ (Running => clock < census.at + Lag)
  /\ clock' = clock + 1 /\ UNCHANGED <<job, census, records, verdict, unreads>>

-----------------------------------------------------------------------------
(* A run of --sessions.  One list of each vCenter. *)

Starts ==
  /\ ~Running /\ verdict = Never /\ clock <= LastStart /\ (records.count > 0 => clock > records.last)
  /\ census' = [Idle EXCEPT !.at = clock, !.todo = VCs]
  /\ UNCHANGED <<clock, job, records, verdict, unreads>>

Larger(a, b) == IF a < b THEN b ELSE a

\* The record of a run that has read its last vCenter joins the others.
Added(c) ==
  [count |-> IF records.count = 0 THEN 1 ELSE 2,     \* two or more
   first |-> IF records.count = 0 THEN c.at ELSE records.first, last |-> c.at,
   gap |-> IF records.count = 0 THEN 0 ELSE Larger(records.gap, c.at - records.last),
   hours |-> records.hours \cup {HourOf(c.at)},
   whole |-> records.whole /\ c.whole, found |-> records.found \cup c.found]

\* Mutant: a list that was not read is an empty one.
AnyReads(v, sees, placed) ==
  LET c == [census EXCEPT !.todo = @ \ {v}, !.found = @ \cup sees] IN
  /\ v \in census.todo /\ census' = IF c.todo = {} THEN Idle ELSE c
  /\ records' = IF c.todo = {} THEN Added(c) ELSE records
  /\ UNCHANGED <<clock, job, verdict>>

Reads(v, sees, placed) ==
  LET c == [census EXCEPT !.todo = @ \ {v}, !.whole = @ /\ placed, !.found = @ \cup sees] IN
  /\ v \in census.todo /\ census' = IF c.todo = {} THEN Idle ELSE c
  /\ records' = IF c.todo = {} THEN Added(c) ELSE records
  /\ UNCHANGED <<clock, job, verdict>>

\* The whole list; with a session of a domain nobody named it is not a read of that vCenter.
ReadsList(v) ==
  LET sees == IF v = JobAt /\ SignedIn THEN {job.kind} ELSE {} IN
  Reads(v, sees \ {"not placed"}, "not placed" \notin sees) /\ UNCHANGED unreads

\* No answer, or a list that is empty, lacks the session that reads it, or holds no other identity's.
Unread(v) == unreads < MaxUnread /\ unreads' = unreads + 1 /\ Reads(v, {}, FALSE)

-----------------------------------------------------------------------------
(* --compare over all the records. *)

\* Mutant: rounded down.
RoundedDown(gap) == gap \div Minute

\* Python rounds; with Minute odd there is nothing half way.
Rounded(gap) == (gap + Minute \div 2) \div Minute

Brief == Cardinality(records.hours) < CoverHours \/ records.last - records.first < Span

Acknowledged == job.until # Never /\ job.until >= DayOf(clock)

Unacknowledged == "directory" \in records.found /\ ~Acknowledged
NotCovered == ~records.whole \/ Brief \/ Rounded(records.gap) > MaxGap

Compares ==
  /\ records.count > 0 /\ ~Running /\ verdict = Never /\ UNCHANGED <<clock, job, census, records, unreads>>
  /\ verdict' =
       CASE records.count = 1 -> 5
         [] records.count > 1 /\ Unacknowledged -> 1
         [] records.count > 1 /\ ~Unacknowledged /\ NotCovered -> 3
         [] OTHER -> IF "local administrator" \in records.found THEN 4 ELSE 0

Next == Tick \/ Starts \/ (\E v \in VCs : ReadsList(v) \/ Unread(v)) \/ Compares

Spec == Init /\ [][Next]_vars

-----------------------------------------------------------------------------

InUse == \/ job.kind = "local administrator" \/ job.kind = "not placed"
         \/ job.kind = "directory" /\ ~Acknowledged

\* A session too long to fit between two reads: the gap may be half a minute more than is said, and a vCenter is read
\* up to Lag after the capture the gap is counted from.
TooLongToMiss == job.length >= MaxGap * Minute + Minute \div 2 + Lag

\* Exit 0 and exit 4 of the comparison: with a cycle within the span and a session too long to miss, no job signs in
\* with a directory account nobody acknowledged or from a domain nobody placed; exit 0, nor as the administrator.
\* Exit 1: there is such a directory account.
CompareIsTrue ==
  /\ verdict \in {0, 4} /\ Cycle <= Span /\ TooLongToMiss => ~InUse \/ (verdict = 4 /\ job.kind = "local administrator")
  /\ verdict = 1 => job.kind = "directory" /\ ~Acknowledged

\* "Read at intervals shorter than the shortest session a job holds".  It does not hold: a session longer than the
\* largest gap the comparison allows is missed, by the rounding and by the lag within a run.
IntervalIsEnough ==
  verdict = 0 /\ Cycle <= Span /\ job.length > MaxGap * Minute => ~InUse
=============================================================================
