----------------------------- MODULE WatchProofs ------------------------------
(***************************************************************************)
(* Proofs about what a schedule watches: for any intervals, credentials,   *)
(* tenants and schedules of a census, any number of runs and of changes.   *)
(***************************************************************************)
EXTENDS MCWatch, WellFoundedInduction, TLAPS

-----------------------------------------------------------------------------
(* Signing keys (KeyRefresh): how old a success may be at a moment of the hour. *)

\* The last success was q ticks after the hour, k hours ago; this hour's run has been, or may still come.
OnSchedule ==
  \E q \in 0 .. Delay, k \in 0 .. oauth.hours + 1 :
    /\ success = phase - q + k * Keys!Hour
    /\ ran => k <= oauth.hours

\* A success not yet disturbed is on schedule, and a missing key is no older than the last one or than the first run.
KeysInv ==
  /\ Keys!TypeOK
  /\ ~ran => phase <= Delay
  /\ failed => attempted
  /\ success = Keys!Never /\ attempted => failed
  /\ success # Keys!Never => missing <= success
  /\ oauth.auto /\ ~failed /\ ~edited =>
       IF success = Keys!Never THEN missing <= phase + (IF ran THEN 0 ELSE Keys!Hour) ELSE OnSchedule

-----------------------------------------------------------------------------
(* Credentials (Rollover): what the run that is under way or done has seen. *)

\* How long before an end a run warns, and whether the end in use can be read.
Warning == WarnDays * Tenth
Readable == Roll!Accepted /\ end[Roll!Using] # Roll!Unread

Watches == [pc : {"idle", "app", "done"}, read : SUBSET (Creds \cup Hints), exit : 0 .. 3, quiet : BOOLEAN]

\* What the run reads of the organization is what it has, as long as all has stayed so.
ReadInv ==
  /\ watch.pc = "idle" => watch = Roll!Idle /\ last = 0
  /\ watch.pc = "app" => last = now
  /\ watch.quiet => watch.read = IF saml THEN held ELSE {hint[c] : c \in held}
  /\ watch.pc # "idle" /\ since < last => watch.quiet

\* Whoever left things alone before the last run was warned, by that one or an earlier, of an end near to it.
ToldInv ==
  /\ watch.pc = "done" /\ since < last /\ Readable /\ end[Roll!Using] <= last + Warning => told
  /\ watch.pc = "app" /\ Readable /\ end[Roll!Using] <= now /\ since + Period < end[Roll!Using] => told

\* The last run is not longer ago than a period.
CredsInv ==
  /\ Roll!TypeOK /\ watch \in Watches /\ now <= last + Period /\ since <= now
  /\ ReadInv /\ ToldInv /\ Roll!ExitIsTrue

-----------------------------------------------------------------------------
(* Schedules: what the run has come to, and what the exits of all of them say. *)

\* The organization is the tenant's to watch.
Mine(t, o) ==
  /\ orgs[o].on /\ ~(orgs[o].tenant = Outside /\ config[t].expects)
  /\ config[t].mode \in {"app", "declared"} => orgs[o].tenant \in {t, Elsewhere}

\* Nothing is wrong with the organization in the eyes of a schedule, whose states are in S.
Clean(t, o, S) ==
  orgs[o].on =>
    /\ ~(orgs[o].tenant = Outside /\ config[t].expects)
    /\ Mine(t, o) =>
         /\ orgs[o].side \in S /\ config[t].mode # "undeclared"
         /\ config[t].mode = "app" => orgs[o].tenant # Elsewhere /\ orgs[o].entra \in S

\* The organization fails in its eyes.
Failing(t, o) ==
  Mine(t, o) /\ (orgs[o].side = "fail" \/ (config[t].mode = "app" /\ orgs[o].entra = "fail"))

\* The organization is one a schedule says something of.
Judging(t, o) == orgs[o].on /\ (config[t].mode \in {"app", "declared"} => orgs[o].tenant = t)

\* What the run under way has come to, of the organizations it has read.
TallyInv ==
  run.pc = "reading" /\ run.quiet =>
    /\ ~run.tally.bad => \A o \in Runs!Orgs : o < run.at => Clean(run.of, o, run.tally.states)
    /\ "fail" \in run.tally.states => \E o \in Runs!Orgs : Failing(run.of, o)
    /\ run.tally.named => \E o \in Runs!Orgs : orgs[o].on /\ orgs[o].tenant = run.of
    /\ run.tally.judged => run.tally.known /\ \E o \in Runs!Orgs : orgs[o].on

\* What each tenant's last exit says, until a change.
ExitInv ==
  \A t \in Tenants :
    /\ exits[t] = 0 => \A o \in Runs!Orgs : Clean(t, o, {"ok"})
    /\ exits[t] \in {0, 1} => \E o \in Runs!Orgs : Judging(t, o)
    /\ exits[t] = 2 => \E o \in Runs!Orgs : Failing(t, o)

\* The two together, and the record of the run.
SchedulesInv ==
  /\ Runs!TypeOK
  /\ run \in [pc : {"idle", "reading"}, of : Tenants, at : 1 .. Count + 1, tally : Runs!Tally, refused : BOOLEAN,
              quiet : BOOLEAN]
  /\ TallyInv /\ ExitInv

-----------------------------------------------------------------------------
(* Sessions (SessionCensus): when the job was not there. *)

\* The job's session begins at this moment.
Begins(s) == (s - job.offset) % Cycle = 0
\* The job's session is not there at this moment.
Away(r) == (r - job.offset) % Cycle >= job.length

\* A list was read as a whole, and does not show the job.
Unseen(c) == c.whole /\ job.kind \notin c.found

\* A census that did not see the job where it signs in was read while it was away.
CensusInv ==
  /\ Sessions!Running =>
       /\ census.at <= clock /\ clock <= census.at + Lag /\ (records.count > 0 => records.last < census.at)
       /\ Unseen(census) /\ JobAt \notin census.todo => \E r \in census.at .. clock : Away(r)

\* What the records have missed is no longer than the gaps between them.
RecordsInv ==
  /\ records.count = 2 => records.gap > 0
  /\ records.count < 2 => records.gap = 0 /\ records.first = records.last
  /\ records.count > 0 /\ Unseen(records) =>
       \A s \in records.first .. records.last :
         Begins(s) => job.length <= Lag \/ job.length < Lag + records.gap

\* How the lists may show it.
Shown == {job.kind} \ {"not placed"}

\* The four together with the verdict.
SessionsInv ==
  /\ Sessions!TypeOK
  /\ records \in [count : 0 .. 2, first : 0 .. LastStart, last : 0 .. LastStart, gap : 0 .. LastStart,
                  hours : SUBSET (0 .. Sessions!HourOf(CensusDay - 1)), whole : BOOLEAN,
                  found : SUBSET Sessions!Kinds]
  /\ records.found \cup census.found \subseteq Shown
  /\ CensusInv /\ RecordsInv
  /\ verdict # Sessions!Never => records.count > 0 /\ ~Sessions!Running
  /\ Sessions!CompareIsTrue

-----------------------------------------------------------------------------
(* Proofs about the signing keys. *)

\* An hour in ticks, and the oldest age that is told apart.
Hour == Keys!Hour
Oldest == (Keys!Longest + 2) * Hour

\* Whole parts of a quotient.
LEMMA Quotient ==
  ASSUME NEW a \in Int, NEW n \in Int, NEW m \in Nat \ {0}
  PROVE  /\ a \div m \in Int
         /\ a < n * m + m => a \div m <= n
         /\ a >= n * m + m => a \div m > n
         /\ a < n * m => a \div m < n
  <1> DEFINE q == a \div m
  <1>1. q \in Int /\ m * q <= a /\ a < m * q + m
    OBVIOUS
  <1>2. \A i, j \in Int : i > j => m * i >= m * j + m
    <2> SUFFICES ASSUME NEW i \in Int, NEW j \in Int, i > j PROVE m * i >= m * j + m
      OBVIOUS
    <2>1. m * (i - j - 1) >= 0
      <3> DEFINE d == i - j - 1
      <3>1. d \in Nat
        OBVIOUS
      <3> HIDE DEF d
      <3>2. m * d \in Nat
        BY <3>1
      <3> QED BY <3>2 DEF d
    <2>2. m * (i - j - 1) = m * i - m * j - m
      OBVIOUS
    <2> QED BY <2>1, <2>2
  <1>3. n * m = m * n /\ m * n \in Int
    OBVIOUS
  <1> HIDE DEF q
  <1>4. m * q \in Int
    BY <1>1
  <1>5. a < m * n + m => q <= n
    <2> SUFFICES ASSUME a < m * n + m, q > n PROVE FALSE
      BY <1>1
    <2>1. m * q >= m * n + m
      BY <1>1, <1>2
    <2> QED BY <2>1, <1>1, <1>3, <1>4
  <1>6. a >= m * n + m => q > n
    <2> SUFFICES ASSUME a >= m * n + m, ~(q > n) PROVE FALSE
      BY <1>1
    <2>1. q = n \/ n > q
      BY <1>1
    <2>2. CASE q = n
      BY <2>2, <1>1, <1>3, <1>4
    <2>3. CASE n > q
      <3>1. m * n >= m * q + m
        BY <2>3, <1>1, <1>2
      <3> QED BY <3>1, <1>1, <1>3, <1>4
    <2> QED BY <2>1, <2>2, <2>3
  <1>7. a < m * n => q < n
    <2> SUFFICES ASSUME a < m * n, ~(q < n) PROVE FALSE
      BY <1>1
    <2>1. q = n \/ q > n
      BY <1>1
    <2>2. CASE q = n
      BY <2>2, <1>1, <1>3, <1>4
    <2>3. CASE q > n
      <3>1. m * q >= m * n + m
        BY <2>3, <1>1, <1>2
      <3> QED BY <3>1, <1>1, <1>3, <1>4
    <2> QED BY <2>1, <2>2, <2>3
  <1> QED BY <1>1, <1>3, <1>5, <1>6, <1>7 DEF q

\* A quotient does not shrink as its dividend grows.
LEMMA QuotientGrows ==
  ASSUME NEW a \in Int, NEW b \in Int, NEW m \in Nat \ {0}, a <= b
  PROVE  a \div m <= b \div m
  <1> DEFINE v == b \div m
  <1>1. v \in Int /\ b < v * m + m
    OBVIOUS
  <1> HIDE DEF v
  <1>2. v * m \in Int
    BY <1>1
  <1>3. a < v * m + m
    BY <1>1, <1>2
  <1>4. a \div m <= v
    BY <1>1, <1>3, Quotient
  <1> QED BY <1>4 DEF v

\* Products of hours.
LEMMA Hours ==
  ASSUME NEW n \in Int, NEW k \in Int, NEW h \in Nat
  PROVE  /\ k * h \in Int /\ (k + 1) * h = k * h + h /\ 0 * h = 0
         /\ k <= n => k * h <= n * h
         /\ k < n => k * h + h <= n * h
  <1>1. \A i \in Nat : i * h \in Nat
    OBVIOUS
  <1>2. (n - k) * h = n * h - k * h /\ (n - k - 1) * h = n * h - k * h - h /\ k * h \in Int /\ n * h \in Int
    OBVIOUS
  <1>3. k <= n => (n - k) * h >= 0
    <2> DEFINE d == n - k
    <2>1. k <= n => d \in Nat
      OBVIOUS
    <2> HIDE DEF d
    <2>2. k <= n => d * h >= 0
      BY <1>1, <2>1
    <2> QED BY <2>2 DEF d
  <1>4. k < n => (n - k - 1) * h >= 0
    <2> DEFINE d == n - k - 1
    <2>1. k < n => d \in Nat
      OBVIOUS
    <2> HIDE DEF d
    <2>2. k < n => d * h >= 0
      BY <1>1, <2>1
    <2> QED BY <2>2 DEF d
  <1>5. (k + 1) * h = k * h + h /\ 0 * h = 0
    OBVIOUS
  <1> QED BY <1>2, <1>3, <1>4, <1>5

\* What the assumptions on the constants come to, products and all.
LEMMA KeysConstants ==
  /\ Minute \in Nat \ {0} /\ Minutes \in Nat \ {0} /\ Delay \in Nat /\ MaxFaults \in Nat /\ Delay < Minute
  /\ Hour \in Nat \ {0} /\ Minute <= Hour /\ Hour = Minutes * Minute
  /\ Intervals \subseteq Nat \ {0}
  /\ Keys!Longest \in Intervals /\ \A i \in Intervals : i <= Keys!Longest
  /\ Keys!Ages = 0 .. Oldest /\ Oldest \in Nat
  <1>1. /\ Minute \in Nat \ {0} /\ Minutes \in Nat \ {0} /\ Delay \in Nat /\ MaxFaults \in Nat /\ Delay < Minute
        /\ Intervals \subseteq Nat \ {0} /\ \E i \in Intervals : \A j \in Intervals : j <= i
    BY WatchAssumption DEF Keys!RefreshAssumption
  <1>2. Hour = Minutes * Minute /\ Hour = Minute * Minutes
    BY <1>1 DEF Hour, Keys!Hour
  <1>3. (Minutes - 1) * Minute \in Nat /\ (Minutes - 1) * Minute = Minutes * Minute - Minute /\ Minutes * Minute \in Nat
    <2> DEFINE d == Minutes - 1
    <2>1. d \in Nat
      BY <1>1
    <2> HIDE DEF d
    <2>2. d * Minute \in Nat
      BY <2>1, <1>1
    <2>3. (Minutes - 1) * Minute = Minutes * Minute - Minute
      BY <1>1
    <2> QED BY <1>1, <2>2, <2>3 DEF d
  <1>4. Hour \in Nat \ {0} /\ Minute <= Hour
    BY <1>1, <1>2, <1>3
  <1>5. Keys!Longest \in Intervals /\ \A i \in Intervals : i <= Keys!Longest
    BY <1>1 DEF Keys!Longest
  <1>6. Keys!Ages = 0 .. Oldest
    BY DEF Keys!Ages, Oldest, Hour
  <1>7. Oldest \in Nat
    BY <1>1, <1>4, <1>5 DEF Oldest
  <1> QED BY <1>1, <1>2, <1>4, <1>5, <1>6, <1>7

\* The same without the products, for leaves that reckon.
LEMMA KeysNumbers ==
  /\ Minute \in Nat \ {0} /\ Delay \in Nat /\ MaxFaults \in Nat /\ Delay < Minute
  /\ Hour \in Nat \ {0} /\ Minute <= Hour /\ Delay < Hour
  /\ Intervals \subseteq Nat \ {0}
  /\ Keys!Longest \in Intervals /\ \A i \in Intervals : i <= Keys!Longest
  /\ Keys!Ages = 0 .. Oldest /\ Oldest \in Nat
  BY KeysConstants

\* The settings of an organization.
Oauth == [auto : BOOLEAN, add : BOOLEAN, hours : Intervals]

\* The ranges of the variables as comparisons, which is how the leaves use them.
LEMMA KeysTypes ==
  ASSUME Keys!TypeOK
  PROVE  /\ phase \in Int /\ 0 <= phase /\ phase < Hour
         /\ oauth \in Oauth /\ oauth.hours \in Intervals /\ oauth.hours \in Nat \ {0} /\ oauth.auto \in BOOLEAN
         /\ success \in Int /\ -1 <= success /\ success <= Oldest
         /\ missing \in Int /\ -1 <= missing /\ missing <= Oldest
         /\ ran \in BOOLEAN /\ attempted \in BOOLEAN /\ failed \in BOOLEAN /\ edited \in BOOLEAN
         /\ keyFaults \in 0 .. MaxFaults /\ (success # -1 => attempted)
  <1>1. /\ phase \in 0 .. Hour - 1 /\ oauth \in Oauth /\ success \in Keys!Ages \cup {-1}
        /\ missing \in Keys!Ages \cup {-1} /\ ran \in BOOLEAN /\ attempted \in BOOLEAN /\ failed \in BOOLEAN
        /\ edited \in BOOLEAN /\ keyFaults \in 0 .. MaxFaults /\ (success # -1 => attempted)
    BY DEF Keys!TypeOK, Keys!Never, Hour, Oauth
  <1>2. phase \in Int /\ 0 <= phase /\ phase < Hour
    BY <1>1, KeysNumbers
  <1>3. oauth.hours \in Intervals /\ oauth.hours \in Nat \ {0} /\ oauth.auto \in BOOLEAN
    BY <1>1, KeysNumbers DEF Oauth
  <1>4. /\ success \in Int /\ -1 <= success /\ success <= Oldest
        /\ missing \in Int /\ -1 <= missing /\ missing <= Oldest
    BY <1>1, KeysNumbers
  <1> QED BY <1>1, <1>2, <1>3, <1>4

\* An age after a tick.
LEMMA OlderIs ==
  ASSUME NEW age \in Int, -1 <= age, age <= Oldest
  PROVE  /\ Keys!Older(age) \in Int /\ -1 <= Keys!Older(age) /\ Keys!Older(age) <= Oldest
         /\ (age = -1 <=> Keys!Older(age) = -1) /\ Keys!Older(age) <= age + 1
         /\ age # -1 /\ age + 1 <= Oldest => Keys!Older(age) = age + 1
         /\ age + 1 > Oldest => Keys!Older(age) = Oldest
  BY KeysNumbers DEF Keys!Older, Keys!Never

\* The success of a refresh that is on schedule is not older than its interval and an hour.
LEMMA OnScheduleIsRecent ==
  ASSUME Keys!TypeOK, OnSchedule, ~ran => phase <= Delay
  PROVE  success < (oauth.hours + 1) * Hour + Minute /\ success + 1 <= Oldest
  <1>1. PICK q \in 0 .. Delay, k \in 0 .. oauth.hours + 1 :
          success = phase - q + k * Hour /\ (ran => k <= oauth.hours)
    BY DEF OnSchedule, Hour
  <1> DEFINE n == oauth.hours
  <1>2. n \in Nat \ {0} /\ n <= Keys!Longest /\ Keys!Longest \in Nat \ {0} /\ k \in Nat /\ q \in Nat /\ q <= Delay
    BY <1>1, KeysTypes, KeysNumbers, SMTT(20)
  <1> HIDE DEF n
  <1>3. /\ (n + 1) * Hour \in Int /\ n * Hour \in Int /\ k * Hour \in Int
        /\ (k <= n => k * Hour <= n * Hour) /\ (k <= n + 1 => k * Hour <= (n + 1) * Hour)
        /\ (n + 1) * Hour = n * Hour + Hour /\ (n + 1) * Hour + Hour <= Oldest
    <2>1. Hour \in Nat /\ n + 1 \in Int /\ Keys!Longest + 2 \in Int /\ n + 1 < Keys!Longest + 2 /\ k \in Int
      BY <1>2, KeysNumbers
    <2>2. (n + 1) * Hour + Hour <= Oldest
      BY <2>1, Hours DEF Oldest
    <2>3. /\ (n + 1) * Hour \in Int /\ n * Hour \in Int /\ (n + 1) * Hour = n * Hour + Hour
      BY <1>2, <2>1, Hours
    <2>4. k * Hour \in Int /\ (k <= n => k * Hour <= n * Hour)
      BY <1>2, <2>1, Hours
    <2>5. k <= n + 1 => k * Hour <= (n + 1) * Hour
      BY <1>2, <2>1, Hours
    <2> QED BY <2>2, <2>3, <2>4, <2>5
  <1>4. k <= n + 1 /\ (ran => k <= n) /\ success = phase - q + k * Hour
    BY <1>1, KeysTypes DEF n
  <1>5. phase \in Int /\ 0 <= phase /\ phase < Hour /\ (~ran => phase <= Delay) /\ ran \in BOOLEAN
    BY KeysTypes
  <1>6. Hour \in Nat /\ Minute \in Nat \ {0} /\ Delay < Minute /\ Minute <= Hour /\ Delay \in Nat
    BY KeysNumbers
  <1>7. success < (n + 1) * Hour + Minute /\ success + 1 <= Oldest
    <2>0. Oldest \in Int
      BY KeysNumbers
    <2>1. CASE ran
      BY <2>0, <2>1, <1>2, <1>3, <1>4, <1>5, <1>6
    <2>2. CASE ~ran
      BY <2>0, <2>2, <1>2, <1>3, <1>4, <1>5, <1>6
    <2> QED BY <2>1, <2>2
  <1> QED BY <1>7 DEF n

\* It holds before anything has run.
LEMMA KeysStart ==
  ASSUME Keys!Init
  PROVE  KeysInv
  <1>1. /\ phase \in 0 .. Hour - 1 /\ ran = (phase > 0) /\ oauth \in Oauth
        /\ success = -1 /\ missing = -1
        /\ attempted = FALSE /\ failed = FALSE /\ edited = FALSE /\ keyFaults = 0
    BY DEF Keys!Init, Keys!Never, Hour, Oauth
  <1>2. phase \in Int /\ 0 <= phase /\ ran \in BOOLEAN
    BY <1>1, KeysNumbers
  <1>3. ~ran => phase <= Delay
    <2>1. ~ran => ~(phase > 0)
      BY <1>1, Zenon
    <2> QED BY <2>1, <1>2, KeysNumbers
  <1>5. Keys!TypeOK
    <2>1. keyFaults \in 0 .. MaxFaults
      BY <1>1, KeysNumbers
    <2> QED BY <1>1, <1>2, <2>1 DEF Keys!TypeOK, Keys!Never, Hour, Oauth
  <1>4. missing <= phase + (IF ran THEN 0 ELSE Keys!Hour)
    BY <1>1, <1>2, KeysNumbers DEF Hour
  <1> QED BY <1>1, <1>5, <1>3, <1>4 DEF KeysInv, Keys!Never

\* What there is of the invariant beside the schedule.
KeysBasics ==
  /\ Keys!TypeOK
  /\ ~ran => phase <= Delay
  /\ failed => attempted
  /\ success = Keys!Never /\ attempted => failed
  /\ success # Keys!Never => missing <= success

\* Time passes: every age grows by one, and a success that stays on schedule stays within it.
LEMMA TickKeepsKeys ==
  ASSUME KeysInv, Keys!Tick
  PROVE  KeysInv'
  <1>1. /\ ran \/ phase < Delay
        /\ phase' = (phase + 1) % Hour /\ ran' = (ran /\ phase' # 0)
        /\ success' = Keys!Older(success) /\ missing' = Keys!Older(missing)
        /\ UNCHANGED <<oauth, attempted, failed, edited, keyFaults>>
    BY DEF Keys!Tick, Hour
  <1>2. Keys!TypeOK /\ KeysBasics
    BY DEF KeysInv, KeysBasics
  <1>3. /\ phase \in Int /\ 0 <= phase /\ phase < Hour
        /\ success \in Int /\ -1 <= success /\ success <= Oldest
        /\ missing \in Int /\ -1 <= missing /\ missing <= Oldest /\ ran \in BOOLEAN
    BY <1>2, KeysTypes
  <1>4. \/ phase + 1 < Hour /\ phase' = phase + 1 /\ ran' = ran
        \/ phase + 1 = Hour /\ phase' = 0 /\ ran' = FALSE /\ ran
    <2>1. CASE phase + 1 < Hour
      <3>1. phase' = phase + 1
        BY <1>1, <1>3, <2>1, KeysNumbers
      <3> QED BY <1>1, <1>3, <2>1, <3>1
    <2>2. CASE phase + 1 = Hour
      <3>1. phase' = 0
        BY <1>1, <1>3, <2>2, KeysNumbers
      <3>2. ran
        BY <1>1, <1>3, <2>2, KeysNumbers
      <3> QED BY <1>1, <2>2, <3>1, <3>2
    <2>3. phase + 1 < Hour \/ phase + 1 = Hour
      BY <1>3, KeysNumbers
    <2> QED BY <2>1, <2>2, <2>3
  <1>5. /\ success' \in Int /\ -1 <= success' /\ success' <= Oldest /\ success' <= success + 1
        /\ (success = -1 <=> success' = -1)
        /\ (success # -1 /\ success + 1 <= Oldest => success' = success + 1)
        /\ (success + 1 > Oldest => success' = Oldest)
    BY <1>1, <1>3, OlderIs
  <1>6. /\ missing' \in Int /\ -1 <= missing' /\ missing' <= Oldest /\ missing' <= missing + 1
    BY <1>1, <1>3, OlderIs
  <1>7. KeysBasics'
    <2>1. phase' \in 0 .. Hour - 1
      BY <1>3, <1>4, KeysNumbers
    <2>2. {success', missing'} \subseteq Keys!Ages \cup {-1}
      BY <1>5, <1>6, KeysNumbers
    <2>3. Keys!TypeOK'
      BY <1>1, <1>2, <1>3, <1>4, <1>5, <2>1, <2>2 DEF Keys!TypeOK, Keys!Never, Hour, Keys!Hour, Keys!Ages, Keys!Longest
    <2>4. ~ran' => phase' <= Delay
      BY <1>1, <1>3, <1>4, KeysNumbers
    <2>5. (success # -1 => missing <= success) /\ (success = -1 /\ attempted => failed) /\ (failed => attempted)
      BY <1>2 DEF KeysBasics, Keys!Never
    <2>6. success' # -1 => missing' <= success'
      BY <2>5, <1>3, <1>5, <1>6, KeysNumbers
    <2> QED BY <2>3, <2>4, <2>5, <2>6, <1>1, <1>5 DEF KeysBasics, Keys!Never
  <1>8. ASSUME oauth.auto, ~failed, ~edited
        PROVE  IF success' = -1 THEN missing' <= phase' + (IF ran' THEN 0 ELSE Hour) ELSE OnSchedule'
    <2>1. CASE success = -1
      <3>1. missing <= phase + (IF ran THEN 0 ELSE Hour) /\ success' = -1
        BY <2>1, <1>5, <1>8 DEF KeysInv, Keys!Never, Hour
      <3> QED BY <3>1, <1>3, <1>4, <1>6, KeysNumbers
    <2>2. CASE success # -1
      <3>1. OnSchedule /\ success' # -1
        BY <2>2, <1>5, <1>8 DEF KeysInv, Keys!Never
      <3>2. success + 1 <= Oldest
        BY <3>1, <1>2, OnScheduleIsRecent DEF KeysBasics
      <3>3. success' = success + 1
        BY <2>2, <3>2, <1>5
      <3>4. PICK q \in 0 .. Delay, k \in 0 .. oauth.hours + 1 :
              success = phase - q + k * Hour /\ (ran => k <= oauth.hours)
        BY <3>1 DEF OnSchedule, Hour
      <3>5. k \in Int /\ q \in Int /\ k * Hour \in Int /\ (k + 1) * Hour = k * Hour + Hour /\ oauth.hours \in Nat
        BY <1>2, KeysTypes, KeysNumbers, Hours
      <3>6. CASE phase + 1 < Hour /\ phase' = phase + 1 /\ ran' = ran
        <4>1. success' = phase' - q + k * Hour /\ (ran' => k <= oauth'.hours) /\ k \in 0 .. oauth'.hours + 1
          BY <3>3, <3>4, <3>5, <3>6, <1>1, <1>3
        <4> QED BY <4>1, <3>1 DEF OnSchedule, Hour, Keys!Hour
      <3>7. CASE phase + 1 = Hour /\ phase' = 0 /\ ran' = FALSE /\ ran
        <4>1. success' = phase' - q + (k + 1) * Hour /\ (ran' => (k + 1) <= oauth'.hours)
          BY <3>3, <3>4, <3>5, <3>7, <1>1, <1>3
        <4>2. k + 1 \in 0 .. oauth'.hours + 1
          BY <3>4, <3>5, <3>7, <1>1
        <4> QED BY <4>1, <4>2, <3>1 DEF OnSchedule, Hour, Keys!Hour
      <3> QED BY <3>6, <3>7, <1>4
    <2> QED BY <2>1, <2>2
  <1>9. oauth'.auto /\ ~failed' /\ ~edited' =>
          IF success' = -1 THEN missing' <= phase' + (IF ran' THEN 0 ELSE Hour) ELSE OnSchedule'
    BY <1>1, <1>8
  <1> QED BY <1>7, <1>9 DEF KeysInv, KeysBasics, Keys!Never, Hour, Keys!Hour

\* The hourly run: the first success puts the age on schedule, a failure or an edit takes it off.
LEMMA RunKeepsKeys ==
  ASSUME KeysInv, Keys!HourlyRun
  PROVE  KeysInv'
  <1>1. /\ ~ran /\ phase <= Delay /\ ran' = TRUE /\ attempted' = (attempted \/ oauth.auto) /\ UNCHANGED <<phase, oauth>>
        /\ \/ ~Keys!Due /\ UNCHANGED <<success, missing, failed, edited, keyFaults>>
           \/ Keys!Due /\ success' = 0 /\ missing' = -1 /\ failed' = FALSE /\ edited' = FALSE /\ UNCHANGED keyFaults
           \/ /\ Keys!Due /\ keyFaults < MaxFaults /\ keyFaults' = keyFaults + 1
              /\ failed' = TRUE /\ UNCHANGED <<success, missing, edited>>
    BY DEF Keys!HourlyRun, Keys!Never
  <1>2. Keys!TypeOK /\ KeysBasics
    BY DEF KeysInv, KeysBasics
  <1>3. /\ phase \in Int /\ 0 <= phase /\ phase < Hour /\ phase <= Delay
        /\ oauth.hours \in Nat \ {0} /\ oauth.auto \in BOOLEAN
        /\ success \in Int /\ -1 <= success /\ success <= Oldest /\ (success # -1 => attempted)
        /\ missing \in Int /\ -1 <= missing /\ missing <= Oldest
        /\ attempted \in BOOLEAN /\ failed \in BOOLEAN /\ edited \in BOOLEAN /\ keyFaults \in 0 .. MaxFaults
    BY <1>1, <1>2, KeysTypes
  <1>4. attempted' \in BOOLEAN /\ (attempted \/ oauth.auto <=> attempted')
    BY <1>1, <1>3, Zenon
  <1>5. keyFaults' \in 0 .. MaxFaults
    BY <1>1, <1>3, KeysNumbers
  <1>6. {success', missing'} \subseteq Keys!Ages \cup {-1}
    <2>1. {success, missing} \subseteq Keys!Ages \cup {-1} /\ 0 \in Keys!Ages
      BY <1>2, KeysNumbers DEF Keys!TypeOK, Keys!Never
    <2> QED BY <1>1, <2>1
  <1>7. (success' # -1 => attempted') /\ (failed' => attempted') /\ {failed', edited'} \subseteq BOOLEAN
    <2>1. Keys!Due => oauth.auto
      BY DEF Keys!Due
    <2>2. failed => attempted
      BY <1>2 DEF KeysBasics
    <2>3. success' # -1 => attempted'
      BY <1>1, <1>3, <1>4, <2>1
    <2>4. failed' => attempted'
      BY <1>1, <1>4, <2>1, <2>2
    <2>5. {failed', edited'} \subseteq BOOLEAN
      BY <1>1, <1>3
    <2> QED BY <2>3, <2>4, <2>5
  <1>8. Keys!TypeOK'
    <2>1. /\ phase \in 0 .. Hour - 1 /\ oauth \in Oauth
      BY <1>2 DEF Keys!TypeOK, Hour, Oauth
    <2> QED BY <2>1, <1>1, <1>4, <1>5, <1>6, <1>7 DEF Keys!TypeOK, Keys!Never, Keys!Ages, Keys!Longest, Hour,
                Keys!Hour, Oauth
  <1>9. (success' = -1 /\ attempted' => failed') /\ (success' # -1 => missing' <= success')
    <2>1. (success # -1 => missing <= success) /\ (success = -1 /\ attempted => failed)
      BY <1>2 DEF KeysBasics, Keys!Never
    <2>2. ~Keys!Due => ~oauth.auto \/ success # -1
      BY DEF Keys!Due, Keys!Never
    <2> QED BY <1>1, <1>4, <2>1, <2>2
  <1>10. KeysBasics'
    BY <1>1, <1>7, <1>8, <1>9 DEF KeysBasics, Keys!Never
  <1>11. ASSUME oauth'.auto, ~failed', ~edited'
         PROVE  IF success' = -1 THEN missing' <= phase' + (IF ran' THEN 0 ELSE Hour) ELSE OnSchedule'
    <2>1. CASE ~Keys!Due /\ UNCHANGED <<success, missing, failed, edited, keyFaults>>
      <3>1. oauth.auto /\ ~failed /\ ~edited /\ success # -1 /\ ~(success >= oauth.hours * Hour)
        BY <2>1, <1>1, <1>11 DEF Keys!Due, Keys!Never, Hour
      <3>2. OnSchedule
        BY <3>1 DEF KeysInv, Keys!Never
      <3>3. PICK q \in 0 .. Delay, k \in 0 .. oauth.hours + 1 :
              success = phase - q + k * Hour /\ (ran => k <= oauth.hours)
        BY <3>2 DEF OnSchedule, Hour
      <3> DEFINE n == oauth.hours
      <3>4. /\ k \in Int /\ q \in Int /\ q <= Delay /\ n \in Nat /\ k \in Nat /\ q \in Nat
            /\ k * Hour \in Int /\ n * Hour \in Int /\ (k <= n + 1) /\ (n < k => n * Hour + Hour <= k * Hour)
        <4>1. k \in Int /\ q \in Int /\ q <= Delay /\ n \in Nat /\ k <= n + 1 /\ Hour \in Nat /\ k \in Nat /\ q \in Nat
          BY <3>3, <1>3, KeysNumbers
        <4> QED BY <4>1, Hours
      <3>5. success = phase - q + k * Hour /\ success < n * Hour
        BY <3>1, <3>3, <3>4, <1>3
      <3> HIDE DEF n
      <3>6. k <= n
        BY <3>4, <3>5, <1>3, KeysNumbers
      <3>7. success' = phase' - q + k * Hour /\ (ran' => k <= oauth'.hours) /\ k \in 0 .. oauth'.hours + 1
        BY <1>1, <2>1, <3>3, <3>6 DEF n
      <3> QED BY <2>1, <3>1, <3>7 DEF OnSchedule, Hour, Keys!Hour
    <2>2. CASE Keys!Due /\ success' = 0 /\ missing' = -1
      <3>1. phase \in 0 .. Delay /\ 0 \in 0 .. oauth'.hours + 1 /\ 0 <= oauth'.hours
        BY <1>1, <1>3, KeysNumbers
      <3>2. 0 * Hour = 0
        BY KeysNumbers, Hours
      <3>3. success' = phase' - phase + 0 * Hour
        BY <3>2, <2>2, <1>1, <1>3
      <3>4. OnSchedule'
        BY <3>1, <3>3 DEF OnSchedule, Hour, Keys!Hour
      <3> QED BY <3>4, <2>2
    <2> QED BY <2>1, <2>2, <1>1, <1>11
  <1> QED BY <1>10, <1>11 DEF KeysInv, KeysBasics, Keys!Never, Hour, Keys!Hour

\* Entra publishes a key.
LEMMA RollKeepsKeys ==
  ASSUME KeysInv, Keys!Rolls
  PROVE  KeysInv'
  <1>1. missing = -1 /\ missing' = 0 /\ UNCHANGED <<phase, ran, oauth, success, attempted, failed, edited, keyFaults>>
    BY DEF Keys!Rolls, Keys!Never
  <1>2. Keys!TypeOK /\ KeysBasics
    BY DEF KeysInv, KeysBasics
  <1>3. phase \in Int /\ 0 <= phase /\ success \in Int /\ -1 <= success /\ 0 \in Keys!Ages
    BY <1>2, KeysTypes, KeysNumbers
  <1>4. Keys!TypeOK'
    BY <1>1, <1>2, <1>3 DEF Keys!TypeOK, Keys!Never, Keys!Ages, Keys!Longest, Keys!Hour
  <1>5. KeysBasics'
    BY <1>1, <1>2, <1>3, <1>4 DEF KeysBasics, Keys!Never
  <1>6. missing' <= phase' + (IF ran' THEN 0 ELSE Hour)
    BY <1>1, <1>3, KeysNumbers
  <1>7. OnSchedule => OnSchedule'
    BY <1>1 DEF OnSchedule, Keys!Hour
  <1> QED BY <1>1, <1>5, <1>6, <1>7 DEF KeysInv, KeysBasics, Keys!Never, Hour, Keys!Hour

\* A write of the settings.
LEMMA WriteKeepsKeys ==
  ASSUME KeysInv, Keys!Writes
  PROVE  KeysInv'
  <1>1. /\ oauth' \in Oauth /\ missing' = -1
        /\ edited' = (edited \/ oauth'.hours # oauth.hours \/ oauth'.auto # oauth.auto)
        /\ UNCHANGED <<phase, ran, success, attempted, failed, keyFaults>>
    BY DEF Keys!Writes, Keys!Never, Oauth
  <1>2. Keys!TypeOK /\ KeysBasics
    BY DEF KeysInv, KeysBasics
  <1>3. phase \in Int /\ 0 <= phase /\ success \in Int /\ -1 <= success
    BY <1>2, KeysTypes
  <1>4. edited' \in BOOLEAN /\ (~edited' => ~edited /\ oauth'.hours = oauth.hours /\ oauth'.auto = oauth.auto)
    BY <1>1, Zenon
  <1>5. Keys!TypeOK'
    BY <1>1, <1>2, <1>4 DEF Keys!TypeOK, Keys!Never, Keys!Ages, Keys!Longest, Keys!Hour, Oauth
  <1>6. KeysBasics'
    BY <1>1, <1>2, <1>3, <1>5 DEF KeysBasics, Keys!Never
  <1>7. missing' <= phase' + (IF ran' THEN 0 ELSE Hour)
    BY <1>1, <1>3, KeysNumbers
  <1>8. OnSchedule /\ ~edited' => OnSchedule'
    BY <1>1, <1>4 DEF OnSchedule, Keys!Hour
  <1>9. oauth'.auto /\ ~failed' /\ ~edited' /\ success' # -1 => OnSchedule
    BY <1>1, <1>4 DEF KeysInv, Keys!Never
  <1> QED BY <1>6, <1>7, <1>8, <1>9 DEF KeysInv, KeysBasics, Keys!Never, Hour, Keys!Hour

\* Every step of the refreshes keeps the invariant.
LEMMA KeysStep ==
  ASSUME KeysInv, Keys!Next
  PROVE  KeysInv'
  BY TickKeepsKeys, RunKeepsKeys, RollKeepsKeys, WriteKeepsKeys DEF Keys!Next

\* What the schedule of the refreshes makes of the verdict.
LEMMA KeysPromises ==
  ASSUME KeysInv
  PROVE  Keys!FailIsReal /\ Keys!OutageIsBounded /\ Keys!OutageIsSeen
  <1> DEFINE n == oauth.hours
             most == (n + 1) * Minutes
  <1>1. Keys!TypeOK /\ KeysBasics
    BY DEF KeysInv, KeysBasics
  <1>2. /\ n \in Nat \ {0} /\ oauth.auto \in BOOLEAN
        /\ phase \in Int /\ 0 <= phase /\ phase < Hour /\ (~ran => phase <= Delay)
        /\ success \in Int /\ -1 <= success /\ missing \in Int /\ -1 <= missing
    BY <1>1, KeysTypes DEF KeysBasics
  <1>3. /\ (failed => attempted) /\ (success = -1 /\ attempted => failed) /\ (success # -1 => missing <= success)
    BY <1>1 DEF KeysBasics, Keys!Never
  <1>4. most \in Int /\ most * Minute = (n + 1) * Hour /\ (n + 1) * Hour \in Int
    <2>1. Hour = Minutes * Minute /\ Minutes \in Nat /\ Minute \in Nat
      BY KeysConstants
    <2> HIDE DEF n
    <2> QED BY <2>1, <1>2
  <1>5. (n + 1) * Hour = n * Hour + Hour /\ Hour <= n * Hour
    <2>1. n \in Int /\ 1 \in Int /\ 1 <= n /\ Hour \in Nat
      BY <1>2, KeysNumbers
    <2> HIDE DEF n
    <2> QED BY <2>1, Hours
  <1> HIDE DEF most, n
  <1>6. \A age \in Int : age < (n + 1) * Hour + Minute => age \div Minute <= most
    <2> TAKE age \in Int
    <2> QED BY <1>4, KeysNumbers, Quotient
  <1>7. \A a, b \in Int : a <= b => a \div Minute <= b \div Minute
    BY KeysNumbers, QuotientGrows
  <1>8. ASSUME oauth.auto, ~failed, ~edited
        PROVE  /\ success # -1 => success \div Minute <= most
               /\ missing \div Minute <= most
    <2>1. CASE success = -1
      <3>1. missing <= phase + (IF ran THEN 0 ELSE Hour)
        BY <2>1, <1>8 DEF KeysInv, Keys!Never, Hour
      <3>2. n * Hour \in Int
        BY <1>2, KeysNumbers, Hours
      <3>3. missing < (n + 1) * Hour + Minute
        BY <3>1, <3>2, <1>2, <1>4, <1>5, KeysNumbers
      <3> QED BY <2>1, <3>3, <1>2, <1>6
    <2>2. CASE success # -1
      <3>1. OnSchedule
        BY <2>2, <1>8 DEF KeysInv, Keys!Never
      <3>2. success < (n + 1) * Hour + Minute
        BY <3>1, <1>1, OnScheduleIsRecent DEF KeysBasics, n
      <3>3. missing < (n + 1) * Hour + Minute
        BY <2>2, <3>2, <1>2, <1>3, <1>4, KeysNumbers
      <3> QED BY <3>2, <3>3, <1>2, <1>6
    <2> QED BY <2>1, <2>2
  <1>9. Keys!Past <=> success \div Minute > most
    BY DEF Keys!Past, most, n
  <1>10. success \div Minute \in Int /\ missing \div Minute \in Int
    BY <1>2, KeysNumbers
  <1>11. Keys!FailIsReal
    <2> SUFFICES ASSUME Keys!Verdict = "fail", oauth.auto, ~failed, ~edited PROVE FALSE
      BY DEF Keys!FailIsReal
    <2>1. CASE success = -1
      <3>1. ~attempted
        BY <2>1, <1>3
      <3> QED BY <3>1, <2>1 DEF Keys!Verdict, Keys!Never
    <2>2. CASE success # -1
      <3>1. ~Keys!Past
        BY <2>2, <1>4, <1>8, <1>9, <1>10
      <3>2. Keys!Verdict # "fail"
        BY <2>2, <3>1 DEF Keys!Verdict, Keys!Never
      <3> QED BY <3>2
    <2> QED BY <2>1, <2>2
  <1>12. Keys!OutageIsBounded
    BY <1>8 DEF Keys!OutageIsBounded, most, n
  <1>13. Keys!OutageIsSeen
    <2> SUFFICES ASSUME ~edited, missing \div Minute > most PROVE Keys!Verdict = "fail"
      BY DEF Keys!OutageIsSeen, most, n
    <2>1. CASE ~oauth.auto
      BY <2>1 DEF Keys!Verdict
    <2>2. CASE oauth.auto
      <3>1. failed
        BY <2>2, <1>4, <1>8, <1>10
      <3>2. CASE success = -1
        BY <2>2, <3>1, <3>2, <1>3 DEF Keys!Verdict, Keys!Never
      <3>3. CASE success # -1
        <4>1. missing \div Minute <= success \div Minute
          BY <3>3, <1>2, <1>3, <1>7
        <4>2. Keys!Past
          BY <4>1, <1>4, <1>9, <1>10
        <4> QED BY <2>2, <3>3, <4>2 DEF Keys!Verdict, Keys!Never
      <3> QED BY <3>2, <3>3
    <2> QED BY <2>1, <2>2
  <1> QED BY <1>11, <1>12, <1>13

-----------------------------------------------------------------------------
(* Proofs about the credentials. *)

\* What the assumptions on the constants come to.
LEMMA CredsNumbers ==
  /\ WarnDays \in Nat /\ Period \in Nat /\ Horizon \in Nat /\ MaxActs \in Nat /\ MaxFaults \in Nat
  /\ Tenth \in Nat \ {0} /\ Tenth % 2 = 1 /\ EndsAt \subseteq Period .. Horizon
  /\ Warning \in Nat /\ Period <= Warning
  <1>1. /\ WarnDays \in Nat /\ Period \in Nat /\ Horizon \in Nat /\ MaxActs \in Nat /\ MaxFaults \in Nat
        /\ Tenth \in Nat /\ Tenth % 2 = 1 /\ EndsAt \subseteq Period .. Horizon /\ Period <= WarnDays * Tenth
    BY WatchAssumption DEF Roll!RolloverAssumption
  <1>2. Tenth # 0
    BY <1>1
  <1> QED BY <1>1, <1>2 DEF Warning

\* The ranges of the variables as comparisons.
LEMMA CredsTypes ==
  ASSUME Roll!TypeOK
  PROVE  /\ now \in Int /\ 0 <= now /\ now <= Horizon /\ saml \in BOOLEAN
         /\ end \in [Creds -> {-1} \cup EndsAt] /\ hint \in [Creds -> Hints]
         /\ listed \subseteq Creds /\ active \in Creds /\ held \subseteq Creds
         /\ (saml => active \in listed) /\ (~saml => \E c \in Creds : held = {c})
         /\ last \in Int /\ since \in Int /\ 0 <= last /\ 0 <= since /\ last <= now /\ told \in BOOLEAN
         /\ \A c \in Creds : end[c] \in Int /\ (end[c] # -1 => end[c] >= Period /\ end[c] >= 0)
  <1>1. /\ now \in 0 .. Horizon /\ saml \in BOOLEAN
        /\ end \in [Creds -> {-1} \cup EndsAt] /\ hint \in [Creds -> Hints]
        /\ listed \subseteq Creds /\ active \in Creds /\ held \subseteq Creds
        /\ (saml => active \in listed) /\ (~saml => \E c \in Creds : held = {c})
        /\ last \in 0 .. Horizon /\ since \in 0 .. Horizon /\ last <= now /\ told \in BOOLEAN
    BY DEF Roll!TypeOK, Roll!Unread
  <1>2. \A c \in Creds : end[c] \in {-1} \cup EndsAt
    BY <1>1
  <1>3. \A c \in Creds : end[c] \in Int /\ (end[c] # -1 => end[c] >= Period /\ end[c] >= 0)
    <2>1. \A e \in EndsAt : e \in Int /\ e >= Period /\ e >= 0
      <3>1. EndsAt \subseteq Period .. Horizon /\ Period \in Nat /\ Horizon \in Nat
        BY CredsNumbers
      <3> QED BY <3>1
    <2> QED BY <1>2, <2>1
  <1>4. /\ now \in Int /\ 0 <= now /\ now <= Horizon /\ last \in Int /\ since \in Int /\ 0 <= last /\ 0 <= since
    BY <1>1, CredsNumbers
  <1> QED BY <1>1, <1>3, <1>4

\* The credential in use is one.
LEMMA UsingIs ==
  ASSUME Roll!TypeOK
  PROVE  /\ Roll!Using \in Creds /\ (saml => Roll!Using = active) /\ (~saml => held = {Roll!Using})
         /\ (saml => (Roll!Accepted <=> active \in held)) /\ (~saml => (Roll!Accepted <=> Roll!Using \in listed))
         /\ (Roll!Accepted => Roll!Using \in listed)
         /\ end[Roll!Using] \in Int
  <1>1. CASE saml
    BY <1>1, CredsTypes DEF Roll!Using, Roll!Accepted
  <1>2. CASE ~saml
    <2>1. PICK c \in Creds : held = {c}
      BY <1>2, CredsTypes
    <2>2. Roll!Using = c
      BY <1>2, <2>1 DEF Roll!Using
    <2> QED BY <1>2, <2>1, <2>2, CredsTypes DEF Roll!Accepted
  <1> QED BY <1>1, <1>2

\* The three verdicts on an end that reads.
LEMMA EndVerdictIs ==
  ASSUME Roll!TypeOK, NEW c \in Creds
  PROVE  /\ Roll!EndVerdict(c) \in {"fail", "warn", "ok"}
         /\ Roll!EndVerdict(c) = "ok" => end[c] - now > Warning
         /\ Roll!EndVerdict(c) = "fail" => now >= end[c]
  <1> DEFINE half == Tenth \div 2
             left == end[c] - now + half
             d == left \div Tenth
  <1>1. half \in Int /\ 0 <= half /\ half < Tenth
    BY CredsNumbers
  <1>2. end[c] \in Int /\ now \in Int
    BY CredsTypes
  <1> HIDE DEF half
  <1>3. left \in Int
    BY <1>1, <1>2
  <1>4. Roll!Days(c) = d
    BY DEF Roll!Days, half
  <1>5. d \in Int
    BY <1>3, CredsNumbers
  <1>6. d > WarnDays => left >= Warning + Tenth
    <2>0. Tenth \in Nat \ {0} /\ WarnDays \in Nat
      BY CredsNumbers
    <2> HIDE DEF left
    <2>1. left < WarnDays * Tenth + Tenth => d <= WarnDays
      BY <2>0, <1>3, Quotient
    <2>2. Warning \in Int
      BY CredsNumbers
    <2> QED BY <2>0, <2>1, <2>2, <1>3, <1>5 DEF Warning
  <1>7. d < 0 => left < 0
    <2>0. Tenth \in Nat \ {0}
      BY CredsNumbers
    <2> HIDE DEF left
    <2> QED BY <2>0, <1>3
  <1> HIDE DEF d
  <1>8. /\ Roll!EndVerdict(c) \in {"fail", "warn", "ok"}
        /\ (Roll!EndVerdict(c) = "ok" => d > WarnDays) /\ (Roll!EndVerdict(c) = "fail" => d < 0)
    BY <1>4, <1>5, CredsNumbers DEF Roll!EndVerdict
  <1>9. left >= Warning + Tenth => end[c] - now > Warning
    BY <1>1, <1>2, CredsNumbers
  <1>10. left < 0 => now >= end[c]
    BY <1>1, <1>2
  <1> QED BY <1>6, <1>7, <1>8, <1>9, <1>10

\* A set of ends that read has a first.
LEMMA FirstIs ==
  ASSUME Roll!TypeOK, NEW S, S \subseteq Creds, S # {}, \A c \in S : end[c] # -1
  PROVE  Roll!First(S) \in S /\ \A d \in S : end[Roll!First(S)] <= end[d]
  <1> DEFINE T == {end[c] : c \in S}
             R == OpToRel(<, Nat)
  <1>1. T \subseteq Nat /\ T # {}
    BY CredsTypes
  <1>2. \E x \in T : \A y \in T : <<y, x>> \notin R
    <2>1. IsWellFoundedOn(R, Nat)
      BY NatLessThanWellFounded
    <2> HIDE DEF T, R
    <2> QED BY <1>1, <2>1, WFMin
  <1>3. PICK x \in T : \A y \in T : <<y, x>> \notin R
    BY <1>2
  <1>4. \A y \in T : x <= y
    <2> SUFFICES ASSUME NEW y \in T, ~(x <= y) PROVE FALSE
      OBVIOUS
    <2>1. x \in Nat /\ y \in Nat
      BY <1>1
    <2> HIDE DEF T
    <2>2. y < x
      BY <2>1
    <2>3. <<y, x>> \in R
      BY <2>1, <2>2 DEF OpToRel
    <2> QED BY <2>3, <1>3
  <1>5. \E c \in S : \A d \in S : end[c] <= end[d]
    BY <1>4
  <1> QED BY <1>5 DEF Roll!First

\* What exit 0 and exit 2 of a judgement of what was read say, at the moment it is made.
Passes ==
  /\ Roll!Using \in listed => end[Roll!Using] - now > Warning
  /\ saml \/ Roll!Alone => Roll!Accepted
  /\ saml => listed \subseteq held
\* What exit 2 says, spelled out.
Stopped == Roll!Alone => ~Roll!Accepted \/ Roll!Ended

\* The exit of a run and the states it is made of.
LEMMA ExitIs ==
  /\ Roll!ExitIsTrue <=> (Roll!Said(0) => Passes) /\ (Roll!Said(2) => Stopped)
  /\ \A S : Roll!ExitOf(S) \in 0 .. 3
  /\ \A S : Roll!ExitOf(S) = 0 => {"fail", "unknown", "warn"} \cap S = {}
  /\ \A S : Roll!ExitOf(S) = 2 => "fail" \in S
  <1>1. Roll!ExitIsTrue <=> (Roll!Said(0) => Passes) /\ (Roll!Said(2) => Stopped)
    BY DEF Roll!ExitIsTrue, Passes, Stopped, Warning
  <1>2. \A S : Roll!ExitOf(S) \in 0 .. 3
    BY DEF Roll!ExitOf
  <1>3. \A S : Roll!ExitOf(S) = 0 => {"fail", "unknown", "warn"} \cap S = {}
    BY DEF Roll!ExitOf
  <1>4. \A S : Roll!ExitOf(S) = 2 => "fail" \in S
    BY DEF Roll!ExitOf
  <1> QED BY <1>1, <1>2, <1>3, <1>4

\* What a run says of the certificates an organization signs with.
LEMMA SamlJudges ==
  ASSUME Roll!TypeOK, saml
  PROVE  /\ Roll!ExitOf(Roll!Verdicts(held)) = 0 => Passes
         /\ Roll!ExitOf(Roll!Verdicts(held)) = 2 => Stopped
  <1> DEFINE V == Roll!Verdicts(held)
  <1>1. V = {Roll!SamlCertEnd, Roll!SamlCertHeld(held)}
    BY DEF Roll!Verdicts
  <1>2. /\ Roll!Using = active /\ active \in Creds /\ (Roll!Accepted <=> active \in held)
        /\ end[active] \in Int /\ now \in Int
    BY UsingIs, CredsTypes
  <1>3. /\ Roll!SamlCertEnd \in {"fail", "unknown", "warn", "ok"}
        /\ Roll!SamlCertEnd = "ok" => end[active] - now > Warning
        /\ Roll!SamlCertEnd = "fail" => end[active] # -1 /\ now >= end[active]
    BY <1>2, EndVerdictIs DEF Roll!SamlCertEnd, Roll!Unread
  <1>4. /\ Roll!SamlCertHeld(held) \in {"fail", "warn", "ok"}
        /\ Roll!SamlCertHeld(held) = "ok" => active \in held /\ listed \subseteq held
        /\ Roll!SamlCertHeld(held) = "fail" => active \notin held
    BY DEF Roll!SamlCertHeld
  <1>5. Roll!ExitOf(V) = 0 => Roll!SamlCertEnd = "ok" /\ Roll!SamlCertHeld(held) = "ok"
    <2> SUFFICES ASSUME Roll!ExitOf(V) = 0 PROVE Roll!SamlCertEnd = "ok" /\ Roll!SamlCertHeld(held) = "ok"
      OBVIOUS
    <2>1. {"fail", "unknown", "warn"} \cap V = {}
      BY ExitIs
    <2> QED BY <2>1, <1>1, <1>3, <1>4
  <1>6. Roll!ExitOf(V) = 2 => Roll!SamlCertEnd = "fail" \/ Roll!SamlCertHeld(held) = "fail"
    <2>1. Roll!ExitOf(V) = 2 => "fail" \in V
      BY ExitIs
    <2> QED BY <2>1, <1>1
  <1>7. Roll!ExitOf(V) = 0 => Passes
    BY <1>2, <1>3, <1>4, <1>5 DEF Passes
  <1>8. Roll!ExitOf(V) = 2 => Stopped
    BY <1>2, <1>3, <1>4, <1>6 DEF Stopped, Roll!Ended, Roll!Unread
  <1> QED BY <1>7, <1>8

\* What a run says of the secret an organization presents.
LEMMA SecretJudges ==
  ASSUME Roll!TypeOK, ~saml
  PROVE  /\ Roll!ExitOf(Roll!Verdicts({hint[c] : c \in held})) = 0 => Passes
         /\ Roll!ExitOf(Roll!Verdicts({hint[c] : c \in held})) = 2 => Stopped
  <1> DEFINE u == Roll!Using
             prefix == {hint[c] : c \in held}
             use == Roll!InUse(prefix)
             unread == {c \in use : end[c] = -1}
             v == Roll!SecretEnd(prefix)
  <1>1. u \in Creds /\ held = {u} /\ (Roll!Accepted <=> u \in listed) /\ listed \subseteq Creds /\ now \in Int
    BY UsingIs, CredsTypes
  <1> HIDE DEF u
  <1>2. use = {c \in listed : hint[c] = hint[u]}
    BY <1>1 DEF Roll!InUse
  <1>3. Roll!Alone <=> \A c \in use : c = u
    BY <1>2 DEF Roll!Alone, u
  <1> HIDE DEF use, prefix
  <1>4. v = CASE use = {} -> "fail"
              [] unread # {} -> IF {c \in use \ unread : end[c] < now} # {} THEN "fail" ELSE "unknown"
              [] OTHER -> Roll!EndVerdict(Roll!First(use))
    BY DEF Roll!SecretEnd, use, Roll!Unread
  <1>5. Roll!Verdicts(prefix) = {v}
    BY DEF Roll!Verdicts
  <1> DEFINE f == Roll!First(use)
  <1>6. use # {} /\ unread = {} => f \in use /\ f \in Creds /\ \A d \in use : end[f] <= end[d]
    <2> SUFFICES ASSUME use # {}, unread = {} PROVE f \in use /\ f \in Creds /\ \A d \in use : end[f] <= end[d]
      OBVIOUS
    <2>1. use \subseteq Creds /\ \A c \in use : end[c] # -1
      BY <1>1, <1>2
    <2> QED BY <2>1, FirstIs
  <1>7. \A c \in Creds : end[c] \in Int
    BY CredsTypes
  <1> HIDE DEF f
  <1>8. use # {} /\ unread = {} =>
          /\ v = Roll!EndVerdict(f) /\ v \in {"fail", "warn", "ok"}
          /\ v = "ok" => end[f] - now > Warning
          /\ v = "fail" => now >= end[f]
    <2> SUFFICES ASSUME use # {}, unread = {}
                 PROVE  /\ v = Roll!EndVerdict(f) /\ v \in {"fail", "warn", "ok"}
                        /\ v = "ok" => end[f] - now > Warning
                        /\ v = "fail" => now >= end[f]
      OBVIOUS
    <2>1. v = Roll!EndVerdict(f)
      BY <1>4 DEF f
    <2>2. f \in Creds
      BY <1>6
    <2> HIDE DEF v
    <2> QED BY <2>1, <2>2, EndVerdictIs
  <1> DEFINE ended == {c \in use \ unread : end[c] < now}
  <1>9. (use = {} => v = "fail") /\ (use # {} /\ unread # {} => v = IF ended # {} THEN "fail" ELSE "unknown")
    BY <1>4
  <1> HIDE DEF v
  <1>10. v = "ok" => use # {} /\ unread = {}
    BY <1>9
  <1>11. v \in {"fail", "unknown", "warn", "ok"}
    BY <1>8, <1>9
  <1>12. Roll!ExitOf({v}) = 0 => v = "ok"
    <2>1. Roll!ExitOf({v}) = 0 => {"fail", "unknown", "warn"} \cap {v} = {}
      BY ExitIs
    <2> QED BY <2>1, <1>11
  <1>13. Roll!ExitOf({v}) = 2 => v = "fail"
    <2>1. Roll!ExitOf({v}) = 2 => "fail" \in {v}
      BY ExitIs
    <2> QED BY <2>1
  <1>14. ASSUME v = "ok"
         PROVE  Passes
    <2>1. f \in use /\ f \in Creds /\ end[f] - now > Warning /\ \A d \in use : end[f] <= end[d]
      BY <1>6, <1>8, <1>10, <1>14
    <2>2. u \in listed => end[u] - now > Warning
      <3>1. u \in listed => u \in use
        BY <1>2
      <3> QED BY <3>1, <2>1, <1>1, <1>7, CredsNumbers
    <2>3. Roll!Alone => Roll!Accepted
      BY <2>1, <1>1, <1>2, <1>3
    <2> QED BY <2>2, <2>3 DEF Passes, u
  <1>15. ASSUME v = "fail"
         PROVE  Stopped
    <2> SUFFICES ASSUME \A c \in use : c = u, u \in listed PROVE Roll!Ended
      BY <1>1, <1>3 DEF Stopped
    <2>1. use = {u}
      BY <1>2
    <2>2. CASE unread = {}
      <3>1. f = u /\ now >= end[f]
        BY <2>1, <2>2, <1>6, <1>8, <1>15
      <3>2. end[u] # -1
        BY <2>1, <2>2
      <3> QED BY <3>1, <3>2 DEF Roll!Ended, Roll!Unread, u
    <2>3. CASE unread # {}
      <3>1. unread = {u} /\ ended = {}
        BY <2>1, <2>3
      <3>2. v = "unknown"
        BY <3>1, <2>1, <2>3, <1>9
      <3> QED BY <3>2, <1>15
    <2> QED BY <2>2, <2>3
  <1> QED BY <1>5, <1>12, <1>13, <1>14, <1>15 DEF prefix

\* What the promises are about, besides the run.
Facts == <<saml, end, hint, listed, active, held>>

\* The two promises read only the time and the facts.
LEMMA FactsStay ==
  ASSUME UNCHANGED <<now, Facts>>
  PROVE  /\ (Passes <=> Passes') /\ (Stopped <=> Stopped') /\ (Readable <=> Readable')
         /\ Roll!Using' = Roll!Using /\ end[Roll!Using]' = end[Roll!Using] /\ Warning' = Warning
  <1>1. Roll!Using' = Roll!Using /\ Warning' = Warning
    BY DEF Facts, Roll!Using, Warning
  <1>2. (Roll!Accepted <=> Roll!Accepted') /\ (Roll!Ended <=> Roll!Ended') /\ (Roll!Alone <=> Roll!Alone')
    BY <1>1 DEF Facts, Roll!Accepted, Roll!Ended, Roll!Alone, Roll!Unread
  <1>3. Readable <=> Readable'
    BY <1>1, <1>2 DEF Facts, Readable, Roll!Unread
  <1>4. Passes <=> Passes'
    BY <1>1, <1>2 DEF Facts, Passes
  <1> QED BY <1>1, <1>2, <1>3, <1>4 DEF Facts, Stopped

\* It holds before the first run.
LEMMA CredsStart ==
  ASSUME Roll!Init
  PROVE  CredsInv
  <1>1. /\ now = 0 /\ watch = Roll!Idle /\ last = 0 /\ since = 0 /\ told = FALSE /\ acts = 0 /\ readFaults = 0
    BY DEF Roll!Init
  <1>2. watch \in Watches /\ watch.pc = "idle" /\ watch.quiet = FALSE
    BY <1>1 DEF Watches, Roll!Idle
  <1>3. Roll!TypeOK
    <2>1. 0 \in 0 .. Horizon /\ 0 \in 0 .. MaxActs /\ 0 \in 0 .. MaxFaults /\ 0 <= 0
      BY CredsNumbers
    <2> QED BY <2>1, <1>1, <1>2 DEF Roll!Init, Roll!TypeOK, Watches
  <1>4. now <= last + Period /\ since <= now
    BY <1>1, CredsNumbers
  <1> QED BY <1>1, <1>2, <1>3, <1>4 DEF CredsInv, ReadInv, ToldInv, Roll!ExitIsTrue, Roll!Said

\* A day passes; it may not take the last run out of its period.
LEMMA DayKeepsCreds ==
  ASSUME CredsInv, Roll!Tick
  PROVE  CredsInv'
  <1>1. /\ now < Horizon /\ watch.pc # "app" /\ now < last + Period
        /\ now' = now + 1 /\ UNCHANGED <<saml, end, hint, listed, active, held>>
         /\ UNCHANGED <<watch, last, since, told, acts, readFaults>>
    BY DEF Roll!Tick, Roll!app
  <1>2. Roll!TypeOK /\ now \in Int /\ 0 <= now /\ last <= now /\ last \in Int /\ since <= now /\ since \in Int
    BY CredsTypes DEF CredsInv
  <1>3. now' \in 0 .. Horizon /\ last' <= now' /\ now' <= last' + Period /\ since' <= now' /\ last' # now'
    BY <1>1, <1>2, CredsNumbers
  <1>4. Roll!TypeOK'
    BY <1>1, <1>2, <1>3 DEF Roll!TypeOK
  <1>5. ReadInv'
    BY <1>1 DEF CredsInv, ReadInv, Roll!Idle
  <1>6. ToldInv'
    <2>1. Roll!Using' = Roll!Using /\ (Roll!Accepted <=> Roll!Accepted')
      BY <1>1 DEF Roll!Using, Roll!Accepted
    <2> QED BY <1>1, <2>1 DEF CredsInv, ToldInv, Readable, Warning, Roll!Unread
  <1>7. Roll!ExitIsTrue'
    BY <1>3 DEF Roll!ExitIsTrue, Roll!Said
  <1> QED BY <1>1, <1>3, <1>4, <1>5, <1>6, <1>7 DEF CredsInv, Watches

\* A run that someone else has come between.
LEMMA QuietOff ==
  ASSUME watch \in Watches, watch' = [watch EXCEPT !.quiet = FALSE]
  PROVE  /\ watch' \in Watches /\ watch'.pc = watch.pc /\ watch'.read = watch.read /\ watch'.exit = watch.exit
         /\ watch'.quiet = FALSE /\ (watch = Roll!Idle => watch' = Roll!Idle)
  <1>1. /\ watch' \in Watches /\ watch'.pc = watch.pc /\ watch'.read = watch.read /\ watch'.exit = watch.exit
        /\ watch'.quiet = FALSE
    BY DEF Watches
  <1>2. watch' = [pc |-> watch.pc, read |-> watch.read, exit |-> watch.exit, quiet |-> FALSE]
    BY DEF Watches
  <1>3. watch = Roll!Idle => watch.pc = "idle" /\ watch.read = {} /\ watch.exit = 3
    BY DEF Roll!Idle
  <1>4. watch = Roll!Idle => watch' = Roll!Idle
    BY <1>2, <1>3 DEF Roll!Idle
  <1> QED BY <1>1, <1>4

\* Someone else's act: it ends the quiet of a run and starts a new age of things left alone.
LEMMA ActKeepsCreds ==
  ASSUME CredsInv, Roll!Acts,
         listed' \subseteq Creds, active' \in Creds, held' \subseteq Creds,
         saml => active' \in listed', ~saml => \E c \in Creds : held' = {c}
  PROVE  CredsInv'
  <1>1. /\ acts < MaxActs /\ acts' = acts + 1 /\ since' = now /\ told' = FALSE
        /\ watch' = [watch EXCEPT !.quiet = FALSE]
        /\ UNCHANGED <<now, saml, end, hint, last, readFaults>>
    BY DEF Roll!Acts
  <1>2. /\ Roll!TypeOK /\ watch \in Watches /\ now \in Int /\ last <= now /\ last \in Int /\ now \in 0 .. Horizon
        /\ acts \in 0 .. MaxActs
    BY CredsTypes DEF CredsInv, Roll!TypeOK
  <1>3. /\ watch' \in Watches /\ watch'.pc = watch.pc /\ watch'.quiet = FALSE
        /\ (watch = Roll!Idle => watch' = Roll!Idle)
    BY <1>1, <1>2, QuietOff
  <1>4. acts' \in 0 .. MaxActs
    BY <1>1, <1>2, CredsNumbers
  <1>5. Roll!TypeOK'
    <2>1. /\ watch'.pc \in {"idle", "app", "done"} /\ watch'.read \subseteq Creds \cup Hints
          /\ watch'.exit \in 0 .. 3 /\ {watch'.quiet, told'} \subseteq BOOLEAN
      BY <1>1, <1>3 DEF Watches
    <2> QED BY <1>1, <1>2, <1>4, <2>1 DEF Roll!TypeOK, Roll!Unread
  <1>6. since' <= now' /\ ~(since' < last')
    BY <1>1, <1>2
  <1>7. ReadInv'
    BY <1>1, <1>3, <1>6 DEF CredsInv, ReadInv
  <1>8. ToldInv'
    <2>1. end[Roll!Using]' \in Int
      <3>1. Roll!Using' \in Creds
        <4>1. CASE saml
          BY <4>1, <1>1 DEF Roll!Using
        <4>2. CASE ~saml
          BY <4>2, <1>1 DEF Roll!Using
        <4> QED BY <4>1, <4>2
      <3>2. end[Roll!Using]' = end[Roll!Using']
        BY <1>1
      <3> QED BY <3>1, <3>2, <1>2, CredsTypes
    <2>2. ~(end[Roll!Using]' <= now' /\ since' + Period < end[Roll!Using]')
      <3> DEFINE e == end[Roll!Using]'
      <3>1. e \in Int
        BY <2>1
      <3> HIDE DEF e
      <3>2. ~(e <= now' /\ since' + Period < e)
        BY <3>1, <1>1, <1>2, CredsNumbers
      <3> QED BY <3>2 DEF e
    <2> QED BY <2>2, <1>6 DEF ToldInv
  <1>9. Roll!ExitIsTrue'
    BY <1>3 DEF Roll!ExitIsTrue, Roll!Said
  <1> QED BY <1>1, <1>3, <1>5, <1>6, <1>7, <1>8, <1>9 DEF CredsInv

\* Each of the four steps of a roll.
LEMMA RollsKeepCreds ==
  ASSUME CredsInv, Roll!Lists \/ Roll!Removes \/ Roll!Activates \/ Roll!Stores
  PROVE  CredsInv'
  <1>1. /\ Roll!TypeOK /\ listed \subseteq Creds /\ active \in Creds /\ held \subseteq Creds
        /\ (saml => active \in listed) /\ (~saml => \E c \in Creds : held = {c})
    BY CredsTypes DEF CredsInv
  <1>2. CASE Roll!Lists
    <2>1. PICK c \in Creds \ listed : listed' = listed \cup {c} /\ Roll!Acts /\ UNCHANGED <<active, held>>
      BY <1>2 DEF Roll!Lists
    <2> QED BY <2>1, <1>1, ActKeepsCreds
  <1>3. CASE Roll!Removes
    <2>1. PICK c \in listed : (saml => c # active) /\ listed' = listed \ {c} /\ Roll!Acts /\ UNCHANGED <<active, held>>
      BY <1>3 DEF Roll!Removes
    <2> QED BY <2>1, <1>1, ActKeepsCreds
  <1>4. CASE Roll!Activates
    <2>1. saml /\ active' \in listed /\ Roll!Acts /\ UNCHANGED <<listed, held>>
      BY <1>4 DEF Roll!Activates
    <2> QED BY <2>1, <1>1, ActKeepsCreds
  <1>5. CASE Roll!Stores
    <2>1. held' \in (IF saml THEN {listed, {active}} ELSE {{c} : c \in Creds}) /\ Roll!Acts
          /\ UNCHANGED <<listed, active>>
      BY <1>5 DEF Roll!Stores
    <2>2. held' \subseteq Creds /\ (~saml => \E c \in Creds : held' = {c})
      BY <2>1, <1>1
    <2> QED BY <2>1, <2>2, <1>1, ActKeepsCreds
  <1> QED BY <1>2, <1>3, <1>4, <1>5

\* A run begins, and reads the organization.
LEMMA StartKeepsCreds ==
  ASSUME CredsInv, Roll!Starts
  PROVE  CredsInv'
  <1> DEFINE read == IF saml THEN held ELSE {hint[c] : c \in held}
  <1>1. /\ watch.pc # "app"
        /\ watch' = [pc |-> "app", read |-> read, exit |-> 3, quiet |-> TRUE]
        /\ last' = now /\ UNCHANGED <<now, saml, end, hint, listed, active, held, since, told, acts, readFaults>>
    BY DEF Roll!Starts, Roll!app
  <1>2. /\ Roll!TypeOK /\ watch \in Watches /\ now \in Int /\ last <= now /\ last \in Int /\ now \in 0 .. Horizon
        /\ 0 <= now /\ since \in Int /\ since <= now /\ 0 <= since /\ now <= last + Period
    BY CredsTypes DEF CredsInv, Roll!TypeOK
  <1>3. read \subseteq Creds \cup Hints
    BY <1>2, CredsTypes
  <1>4. watch' \in Watches /\ watch'.pc = "app" /\ watch'.quiet = TRUE /\ watch'.read = read /\ watch'.exit = 3
    <2> HIDE DEF read
    <2> QED BY <1>1, <1>3 DEF Watches
  <1>5. now' <= last' + Period /\ since' <= now' /\ last' <= now' /\ last' \in 0 .. Horizon
    BY <1>1, <1>2, CredsNumbers
  <1>6. Roll!TypeOK'
    <2>1. /\ watch'.pc \in {"idle", "app", "done"} /\ watch'.read \subseteq Creds \cup Hints
          /\ watch'.exit \in 0 .. 3 /\ {watch'.quiet, told'} \subseteq BOOLEAN
      <3>1. told' \in BOOLEAN
        BY <1>1, <1>2, CredsTypes
      <3> HIDE DEF read
      <3> QED BY <1>4, <3>1 DEF Watches
    <2> HIDE DEF read
    <2> QED BY <1>1, <1>2, <1>5, <2>1 DEF Roll!TypeOK, Roll!Unread
  <1>7. ReadInv'
    BY <1>1, <1>4 DEF ReadInv
  <1>8. ToldInv'
    <2> SUFFICES ASSUME Readable', end[Roll!Using]' <= now', since' + Period < end[Roll!Using]' PROVE told'
      BY <1>4 DEF ToldInv
    <2>1. Readable /\ end[Roll!Using] <= now /\ since + Period < end[Roll!Using]
      BY <1>1, FactsStay DEF Facts
    <2> DEFINE e == end[Roll!Using]
    <2>2. e \in Int
      BY <1>2, UsingIs
    <2> HIDE DEF e
    <2>3. e <= now /\ since + Period < e
      BY <2>1 DEF e
    <2>4. since < last /\ e <= last + Warning
      BY <2>2, <2>3, <1>2, CredsNumbers
    <2>5. watch.pc # "idle"
      <3>1. watch.pc = "idle" => last = 0
        BY DEF CredsInv, ReadInv
      <3> QED BY <3>1, <2>4, <1>2
    <2>6. watch.pc = "done"
      BY <2>5, <1>1, <1>2 DEF Watches
    <2>7. told
      BY <2>1, <2>4, <2>6 DEF CredsInv, ToldInv, e
    <2> QED BY <2>7, <1>1
  <1>9. Roll!ExitIsTrue'
    BY <1>4 DEF Roll!ExitIsTrue, Roll!Said
  <1> QED BY <1>4, <1>5, <1>6, <1>7, <1>8, <1>9 DEF CredsInv

\* A run ends with what it says.
LEMMA EndsKeepCreds ==
  ASSUME CredsInv, watch.pc = "app", NEW code \in 0 .. 3, watch' = [watch EXCEPT !.pc = "done", !.exit = code],
         told' = (told \/ code # 0), UNCHANGED <<now, Facts, last, since, acts>>, readFaults' \in 0 .. MaxFaults,
         watch.quiet /\ code = 0 => Passes, watch.quiet /\ code = 2 => Stopped
  PROVE  CredsInv'
  <1>1. /\ Roll!TypeOK /\ watch \in Watches /\ now \in Int /\ now <= last + Period /\ since <= now /\ told \in BOOLEAN
        /\ last = now /\ last \in Int
    BY CredsTypes DEF CredsInv, ReadInv
  <1>2. /\ watch' \in Watches /\ watch'.pc = "done" /\ watch'.exit = code /\ watch'.read = watch.read
        /\ watch'.quiet = watch.quiet
    BY <1>1 DEF Watches
  <1>3. told' \in BOOLEAN /\ (told' <=> told \/ code # 0)
    BY <1>1, Zenon
  <1>4. Roll!TypeOK'
    <2>1. /\ watch'.pc \in {"idle", "app", "done"} /\ watch'.read \subseteq Creds \cup Hints
          /\ watch'.exit \in 0 .. 3 /\ {watch'.quiet, told'} \subseteq BOOLEAN
      BY <1>2, <1>3 DEF Watches
    <2> QED BY <1>1, <2>1 DEF Roll!TypeOK, Roll!Unread, Facts
  <1>5. ReadInv'
    BY <1>2 DEF CredsInv, ReadInv, Facts
  <1>6. Roll!ExitIsTrue'
    <2>1. (Roll!Said(0)' => Passes') /\ (Roll!Said(2)' => Stopped')
      BY <1>2, FactsStay DEF Roll!Said
    <2> QED BY <2>1, ExitIs DEF Roll!ExitIsTrue, Passes, Stopped, Warning
  <1>7. ToldInv'
    <2> SUFFICES ASSUME since < last, Readable, end[Roll!Using] <= last + Warning PROVE told'
      BY <1>2, FactsStay DEF ToldInv, Readable
    <2>1. watch.quiet
      BY DEF CredsInv, ReadInv
    <2>2. CASE code # 0
      BY <2>2, <1>3
    <2>3. CASE code = 0
      <3>1. Passes
        BY <2>1, <2>3
      <3>2. Roll!Using \in listed /\ end[Roll!Using] \in Int
        BY <1>1, UsingIs DEF Readable
      <3>3. end[Roll!Using] - now > Warning
        BY <3>1, <3>2 DEF Passes
      <3> QED BY <3>2, <3>3, <1>1, CredsNumbers
    <2> QED BY <2>2, <2>3
  <1> QED BY <1>1, <1>2, <1>4, <1>5, <1>6, <1>7 DEF CredsInv

\* The run reads the application, or cannot.
LEMMA ReadKeepsCreds ==
  ASSUME CredsInv, Roll!ReadsApp \/ Roll!ReadFails
  PROVE  CredsInv'
  <1>0. Roll!TypeOK /\ watch \in Watches /\ readFaults \in 0 .. MaxFaults
    BY DEF CredsInv, Roll!TypeOK
  <1>1. CASE Roll!ReadsApp
    <2> DEFINE code == Roll!ExitOf(Roll!Verdicts(watch.read))
    <2>1. /\ watch.pc = "app" /\ watch' = [watch EXCEPT !.pc = "done", !.exit = code]
          /\ told' = (told \/ watch'.exit # 0) /\ UNCHANGED <<now, Facts, last, since, acts, readFaults>>
      BY <1>1 DEF Roll!ReadsApp, Roll!Says, Roll!app, Facts
    <2>2. code \in 0 .. 3
      BY ExitIs
    <2>3. ASSUME watch.quiet
          PROVE  (code = 0 => Passes) /\ (code = 2 => Stopped)
      <3>1. CASE saml
        <4>1. watch.read = held
          BY <2>3, <3>1 DEF CredsInv, ReadInv
        <4> QED BY <4>1, <3>1, <1>0, SamlJudges
      <3>2. CASE ~saml
        <4>1. watch.read = {hint[c] : c \in held}
          BY <2>3, <3>2 DEF CredsInv, ReadInv
        <4> QED BY <4>1, <3>2, <1>0, SecretJudges
      <3> QED BY <3>1, <3>2
    <2> HIDE DEF code
    <2>4. watch'.exit = code
      BY <2>1, <1>0 DEF Watches
    <2>5. told' = (told \/ code # 0)
      BY <2>1, <2>4
    <2> QED BY <2>1, <2>2, <2>3, <2>5, <1>0, EndsKeepCreds
  <1>2. CASE Roll!ReadFails
    <2>1. Roll!ExitOf({"unknown"}) = 3
      BY DEF Roll!ExitOf
    <2>2. /\ watch.pc = "app" /\ watch' = [watch EXCEPT !.pc = "done", !.exit = 3]
          /\ told' = (told \/ watch'.exit # 0) /\ UNCHANGED <<now, Facts, last, since, acts>>
          /\ readFaults < MaxFaults /\ readFaults' = readFaults + 1
      BY <1>2, <2>1 DEF Roll!ReadFails, Roll!Says, Roll!app, Facts
    <2>3. watch'.exit = 3
      BY <2>2, <1>0 DEF Watches
    <2>4. told' = (told \/ 3 # 0)
      BY <2>2, <2>3
    <2>5. readFaults' \in 0 .. MaxFaults /\ 3 \in 0 .. 3
      BY <2>2, <1>0, CredsNumbers
    <2> QED BY <2>2, <2>4, <2>5, EndsKeepCreds
  <1> QED BY <1>1, <1>2

\* Every step of the credentials keeps the invariant.
LEMMA CredsStep ==
  ASSUME CredsInv, Roll!Next
  PROVE  CredsInv'
  BY DayKeepsCreds, RollsKeepCreds, StartKeepsCreds, ReadKeepsCreds DEF Roll!Next

\* What the runs so far make of the warning.
LEMMA CredsPromise ==
  ASSUME CredsInv
  PROVE  Roll!EndIsForetold
  <1> SUFFICES ASSUME Roll!Accepted, Roll!Ended, since + Period < end[Roll!Using] PROVE told
    BY DEF Roll!EndIsForetold
  <1>1. /\ Roll!TypeOK /\ watch \in Watches /\ now \in Int /\ last <= now /\ last \in Int
        /\ since \in Int /\ 0 <= since /\ now <= last + Period
    BY CredsTypes DEF CredsInv
  <1> DEFINE e == end[Roll!Using]
  <1>2. e \in Int /\ e <= now /\ since + Period < e /\ Readable
    BY <1>1, UsingIs DEF Roll!Ended, Readable
  <1> HIDE DEF e
  <1>3. since < last /\ e <= last + Warning
    BY <1>1, <1>2, CredsNumbers
  <1>4. watch.pc # "idle"
    <2>1. watch.pc = "idle" => last = 0
      BY DEF CredsInv, ReadInv
    <2> QED BY <2>1, <1>1, <1>3
  <1> QED BY <1>1, <1>2, <1>3, <1>4 DEF CredsInv, ToldInv, Watches, e

-----------------------------------------------------------------------------
(* Proofs about the schedules. *)

\* What a run's record may be.
RunRecords ==
  [pc : {"idle", "reading"}, of : Tenants, at : 1 .. Count + 1, tally : Runs!Tally, refused : BOOLEAN, quiet : BOOLEAN]

\* What the assumptions on the constants come to.
LEMMA SchedulesNumbers ==
  /\ Outside \notin Tenants /\ Elsewhere \notin Tenants /\ Outside # Elsewhere
  /\ Count \in Nat /\ MaxChanges \in Nat /\ MaxFaults \in Nat
  /\ 0 \in 0 .. MaxChanges /\ 0 \in 0 .. MaxFaults /\ 1 \in 1 .. Count + 1
  BY WatchAssumption DEF Runs!SchedulesAssumption

\* The types of the variables, one by one.
LEMMA SchedulesTypes ==
  ASSUME SchedulesInv
  PROVE  /\ Runs!TypeOK /\ run \in RunRecords /\ run.tally \in Runs!Tally /\ run.of \in Tenants
         /\ run.at \in 1 .. Count + 1 /\ run.at \in Int /\ run.refused \in BOOLEAN /\ run.quiet \in BOOLEAN
         /\ run.tally.states \subseteq Runs!States /\ run.tally.bad \in BOOLEAN /\ run.tally.named \in BOOLEAN
         /\ run.tally.known \in BOOLEAN /\ run.tally.judged \in BOOLEAN
         /\ (run.tally.named => run.tally.known)
         /\ config \in [Tenants -> Runs!Configuration] /\ orgs \in [Runs!Orgs -> Runs!Organization \cup {Runs!Off}]
         /\ exits \in [Tenants -> {-1} \cup 0 .. 3]
         /\ changes \in 0 .. MaxChanges /\ orgFaults \in 0 .. MaxFaults
  <1>1. Runs!TypeOK /\ run \in RunRecords
    BY DEF SchedulesInv, RunRecords
  <1>2. /\ run.tally \in Runs!Tally /\ run.of \in Tenants /\ run.at \in 1 .. Count + 1 /\ run.refused \in BOOLEAN
        /\ run.quiet \in BOOLEAN
    BY <1>1 DEF RunRecords
  <1>3. /\ run.tally.states \subseteq Runs!States /\ run.tally.bad \in BOOLEAN /\ run.tally.named \in BOOLEAN
        /\ run.tally.known \in BOOLEAN /\ run.tally.judged \in BOOLEAN
    BY <1>2 DEF Runs!Tally
  <1> QED BY <1>1, <1>2, <1>3 DEF Runs!TypeOK, Runs!Stale

\* A record of a run that has not read anything.
LEMMA IdleIs ==
  ASSUME NEW t \in Tenants
  PROVE  /\ Runs!Idle(t) \in RunRecords /\ Runs!Idle(t).pc = "idle" /\ Runs!Idle(t).of = t /\ Runs!Idle(t).at = 1
         /\ Runs!Idle(t).tally = Runs!NoTally /\ Runs!Idle(t).quiet = FALSE /\ Runs!NoTally \in Runs!Tally
         /\ Runs!NoTally.states = {} /\ Runs!NoTally.named = FALSE /\ Runs!NoTally.judged = FALSE
  <1>1. /\ Runs!NoTally \in Runs!Tally
        /\ Runs!NoTally.states = {} /\ Runs!NoTally.named = FALSE /\ Runs!NoTally.judged = FALSE
    BY DEF Runs!NoTally, Runs!Tally
  <1> QED BY <1>1, SchedulesNumbers DEF Runs!Idle, RunRecords

\* It holds before any schedule has run.
LEMMA SchedulesStart ==
  ASSUME Runs!Init
  PROVE  SchedulesInv
  <1>1. PICK t \in Tenants : run = Runs!Idle(t)
    BY DEF Runs!Init
  <1>2. exits = [s \in Tenants |-> -1] /\ changes = 0 /\ orgFaults = 0 /\ config \in [Tenants -> Runs!Configuration]
    BY DEF Runs!Init, Runs!Stale
  <1>3. orgs \in [Runs!Orgs -> Runs!Organization \cup {Runs!Off}]
    <2>1. [on : {TRUE}, tenant : Tenants, side : {"ok"}, entra : {"ok"}] \subseteq Runs!Organization
      BY DEF Runs!Organization, Runs!States
    <2>2. orgs \in [Runs!Orgs -> [on : {TRUE}, tenant : Tenants, side : {"ok"}, entra : {"ok"}]]
      BY DEF Runs!Init
    <2> QED BY <2>1, <2>2
  <1>4. run \in RunRecords /\ run.pc = "idle" /\ run.tally = Runs!NoTally /\ run.tally.named = FALSE
    BY <1>1, IdleIs
  <1>5. Runs!TypeOK
    BY <1>2, <1>3, <1>4, SchedulesNumbers DEF Runs!TypeOK, Runs!Stale, RunRecords
  <1>6. TallyInv
    BY <1>4 DEF TallyInv
  <1>7. ExitInv
    <2>1. \A s \in Tenants : exits[s] = -1
      BY <1>2
    <2> QED BY <2>1 DEF ExitInv
  <1> QED BY <1>4, <1>5, <1>6, <1>7 DEF SchedulesInv, RunRecords

\* A change of an organization or a configuration: no exit and no run speaks for it any more.
LEMMA ChangeKeepsSchedules ==
  ASSUME SchedulesInv, Runs!Changes
  PROVE  SchedulesInv'
  <1>1. /\ changes < MaxChanges /\ changes' = changes + 1 /\ exits' = [t \in Tenants |-> -1]
        /\ run' = [run EXCEPT !.quiet = FALSE] /\ UNCHANGED <<config, orgFaults>>
        /\ \E o \in Runs!Orgs, r \in Runs!Organization \cup {Runs!Off} : orgs' = [orgs EXCEPT ![o] = r]
    BY DEF Runs!Changes, Runs!Stale
  <1>2. run' \in RunRecords /\ run'.quiet = FALSE /\ run'.tally = run.tally
    BY <1>1, SchedulesTypes DEF RunRecords
  <1>3. orgs' \in [Runs!Orgs -> Runs!Organization \cup {Runs!Off}]
    BY <1>1, SchedulesTypes
  <1>4. changes' \in 0 .. MaxChanges
    BY <1>1, SchedulesTypes, SchedulesNumbers
  <1>5. Runs!TypeOK'
    BY <1>1, <1>2, <1>3, <1>4, SchedulesTypes DEF Runs!TypeOK, Runs!Stale, RunRecords, Runs!Orgs
  <1>6. TallyInv'
    BY <1>2 DEF TallyInv
  <1>7. ExitInv'
    <2>1. \A s \in Tenants : exits'[s] = -1
      BY <1>1
    <2> QED BY <2>1 DEF ExitInv
  <1> QED BY <1>2, <1>5, <1>6, <1>7 DEF SchedulesInv, RunRecords

\* What the exits of the others say is not touched by an exit that is gone or new.
LEMMA ExitKeepsSchedules ==
  ASSUME SchedulesInv, UNCHANGED <<orgs, config, changes>>, run' \in RunRecords, run'.tally = Runs!NoTally,
         run'.pc = "reading" => run'.at = 1,
         NEW t \in Tenants, NEW code \in {-1} \cup 0 .. 3, exits' = [exits EXCEPT ![t] = code],
         code = 0 => \A o \in Runs!Orgs : Clean(t, o, {"ok"}),
         code \in {0, 1} => \E o \in Runs!Orgs : Judging(t, o),
         code = 2 => \E o \in Runs!Orgs : Failing(t, o),
         orgFaults' \in 0 .. MaxFaults
  PROVE  SchedulesInv'
  <1>1. exits' \in [Tenants -> {-1} \cup 0 .. 3] /\ exits'[t] = code /\ \A s \in Tenants : s # t => exits'[s] = exits[s]
    BY SchedulesTypes
  <1>2. Runs!NoTally.named = FALSE /\ Runs!NoTally.judged = FALSE /\ Runs!NoTally.states = {}
    BY IdleIs
  <1>3. Runs!TypeOK'
    BY <1>1, <1>2, SchedulesTypes DEF Runs!TypeOK, Runs!Stale, RunRecords, Runs!Orgs
  <1>4. TallyInv'
    <2> SUFFICES ASSUME run'.pc = "reading" PROVE TallyInv'
      BY DEF TallyInv
    <2>1. run'.at = 1 /\ run'.tally.states = {} /\ run'.tally.named = FALSE /\ run'.tally.judged = FALSE
      BY <1>2
    <2>2. \A o \in Runs!Orgs : ~(o < 1)
      BY SchedulesNumbers DEF Runs!Orgs
    <2> QED BY <2>1, <2>2 DEF TallyInv, Runs!Orgs
  <1>5. ExitInv'
    <2> SUFFICES ASSUME NEW s \in Tenants
                 PROVE  /\ exits'[s] = 0 => \A o \in Runs!Orgs : Clean(s, o, {"ok"})'
                        /\ exits'[s] \in {0, 1} => \E o \in Runs!Orgs : Judging(s, o)'
                        /\ exits'[s] = 2 => \E o \in Runs!Orgs : Failing(s, o)'
      BY DEF ExitInv, Runs!Orgs
    <2>1. \A o \in Runs!Orgs : /\ Clean(s, o, {"ok"})' <=> Clean(s, o, {"ok"})
                               /\ Judging(s, o)' <=> Judging(s, o)
                               /\ Failing(s, o)' <=> Failing(s, o)
      BY DEF Clean, Judging, Failing, Mine
    <2>2. /\ exits'[s] = 0 => \A o \in Runs!Orgs : Clean(s, o, {"ok"})
          /\ exits'[s] \in {0, 1} => \E o \in Runs!Orgs : Judging(s, o)
          /\ exits'[s] = 2 => \E o \in Runs!Orgs : Failing(s, o)
      <3>1. CASE s = t
        BY <3>1, <1>1
      <3>2. CASE s # t
        BY <3>2, <1>1 DEF SchedulesInv, ExitInv
      <3> QED BY <3>1, <3>2
    <2> QED BY <2>1, <2>2
  <1> QED BY <1>3, <1>4, <1>5 DEF SchedulesInv, RunRecords

\* A tenant's run begins.
LEMMA StartKeepsSchedules ==
  ASSUME SchedulesInv, NEW t \in Tenants, Runs!Starts(t)
  PROVE  SchedulesInv'
  <1>1. PICK refused \in BOOLEAN :
          /\ run' = [Runs!Idle(t) EXCEPT !.pc = "reading", !.refused = refused, !.quiet = TRUE]
          /\ IF refused THEN Runs!Fails ELSE UNCHANGED orgFaults
    BY DEF Runs!Starts
  <1>2. UNCHANGED <<orgs, config, changes>> /\ exits' = [exits EXCEPT ![t] = -1]
    BY DEF Runs!Starts, Runs!Platform, Runs!Stale
  <1>3. orgFaults' \in 0 .. MaxFaults
    BY <1>1, SchedulesTypes, SchedulesNumbers DEF Runs!Fails
  <1>4. run' \in RunRecords /\ run'.tally = Runs!NoTally /\ run'.at = 1
    <2> DEFINE r == Runs!Idle(t)
    <2>1. r \in RunRecords /\ r.tally = Runs!NoTally /\ r.at = 1
      BY IdleIs
    <2>2. run' = [r EXCEPT !.pc = "reading", !.refused = refused, !.quiet = TRUE]
      BY <1>1
    <2> HIDE DEF r
    <2> QED BY <2>1, <2>2 DEF RunRecords
  <1> DEFINE code == -1
  <1>5. code \in {-1} \cup 0 .. 3 /\ code \notin {0, 1, 2} /\ exits' = [exits EXCEPT ![t] = code]
    BY <1>2
  <1> HIDE DEF code
  <1> QED BY <1>2, <1>3, <1>4, <1>5, ExitKeepsSchedules

\* The run ends with nothing it can say.
LEMMA StopKeepsSchedules ==
  ASSUME SchedulesInv, Runs!Stops
  PROVE  SchedulesInv'
  <1>1. /\ run' = Runs!Idle(run.of) /\ exits' = [exits EXCEPT ![run.of] = IF run.quiet THEN 3 ELSE -1]
        /\ UNCHANGED <<orgs, config, changes>> /\ Runs!Fails
    BY DEF Runs!Stops, Runs!Ends, Runs!Platform, Runs!Stale
  <1>2. orgFaults' \in 0 .. MaxFaults
    BY <1>1, SchedulesTypes, SchedulesNumbers DEF Runs!Fails
  <1>3. run.of \in Tenants /\ run' \in RunRecords /\ run'.tally = Runs!NoTally /\ run'.pc = "idle"
    BY <1>1, SchedulesTypes, IdleIs
  <1> DEFINE code == IF run.quiet THEN 3 ELSE -1
  <1>4. code \in {-1} \cup 0 .. 3 /\ code \notin {0, 1, 2} /\ exits' = [exits EXCEPT ![run.of] = code]
    BY <1>1
  <1> HIDE DEF code
  <1> QED BY <1>1, <1>2, <1>3, <1>4, ExitKeepsSchedules

\* One more organization has been read, and the tally says of it what is so.
LEMMA GoesKeepsSchedules ==
  ASSUME SchedulesInv, run.pc = "reading", run.at <= Count, NEW tally \in Runs!Tally, Runs!Goes(tally),
         UNCHANGED <<orgs, config, changes, exits>>, orgFaults' \in 0 .. MaxFaults,
         run.tally.states \subseteq tally.states, run.tally.bad => tally.bad,
         ~tally.bad => Clean(run.of, run.at, tally.states),
         "fail" \in tally.states => "fail" \in run.tally.states \/ Failing(run.of, run.at),
         tally.named => run.tally.named \/ (orgs[run.at].on /\ orgs[run.at].tenant = run.of),
         run.quiet /\ tally.judged => tally.known /\ (run.tally.judged \/ orgs[run.at].on),
         tally.named => tally.known
  PROVE  SchedulesInv'
  <1>1. run' = [run EXCEPT !.at = run.at + 1, !.tally = tally]
    BY DEF Runs!Goes
  <1>2. run.at \in Runs!Orgs /\ run.at + 1 \in 1 .. Count + 1 /\ run.at \in Int
    BY SchedulesTypes, SchedulesNumbers DEF Runs!Orgs
  <1>3. /\ run' \in RunRecords /\ run'.pc = "reading" /\ run'.of = run.of /\ run'.at = run.at + 1 /\ run'.tally = tally
        /\ run'.quiet = run.quiet
    BY <1>1, <1>2, SchedulesTypes DEF RunRecords
  <1>4. Runs!TypeOK'
    BY <1>3, SchedulesTypes DEF Runs!TypeOK, Runs!Stale, RunRecords, Runs!Orgs
  <1>5. ExitInv'
    BY DEF SchedulesInv, ExitInv, Clean, Judging, Failing, Mine, Runs!Orgs
  <1>6. TallyInv'
    <2> SUFFICES ASSUME run.quiet
                 PROVE  /\ ~tally.bad => \A o \in Runs!Orgs : o < run.at + 1 => Clean(run.of, o, tally.states)
                        /\ "fail" \in tally.states => \E o \in Runs!Orgs : Failing(run.of, o)
                        /\ tally.named => \E o \in Runs!Orgs : orgs[o].on /\ orgs[o].tenant = run.of
                        /\ tally.judged => tally.known /\ \E o \in Runs!Orgs : orgs[o].on
      BY <1>3 DEF TallyInv, Clean, Failing, Mine, Runs!Orgs
    <2>1. /\ ~run.tally.bad => \A o \in Runs!Orgs : o < run.at => Clean(run.of, o, run.tally.states)
          /\ "fail" \in run.tally.states => \E o \in Runs!Orgs : Failing(run.of, o)
          /\ run.tally.named => \E o \in Runs!Orgs : orgs[o].on /\ orgs[o].tenant = run.of
          /\ run.tally.judged => run.tally.known /\ \E o \in Runs!Orgs : orgs[o].on
      BY DEF SchedulesInv, TallyInv
    <2>2. ASSUME ~tally.bad, NEW o \in Runs!Orgs, o < run.at + 1
          PROVE  Clean(run.of, o, tally.states)
      <3>1. o < run.at \/ o = run.at
        BY <2>2, <1>2, SchedulesNumbers DEF Runs!Orgs
      <3>2. CASE o = run.at
        BY <2>2, <3>2
      <3>3. CASE o < run.at
        <4>1. Clean(run.of, o, run.tally.states)
          BY <2>1, <2>2, <3>3
        <4> QED BY <4>1 DEF Clean
      <3> QED BY <3>1, <3>2, <3>3
    <2>3. "fail" \in tally.states => \E o \in Runs!Orgs : Failing(run.of, o)
      BY <2>1, <1>2
    <2>4. tally.named => \E o \in Runs!Orgs : orgs[o].on /\ orgs[o].tenant = run.of
      BY <2>1, <1>2
    <2>5. tally.judged => tally.known /\ \E o \in Runs!Orgs : orgs[o].on
      BY <2>1, <1>2
    <2> QED BY <2>2, <2>3, <2>4, <2>5
  <1> QED BY <1>3, <1>4, <1>5, <1>6 DEF SchedulesInv, RunRecords

\* Whose the organization is, and what its rollover checks come to.
LEMMA CoverIs ==
  ASSUME SchedulesInv, run.at \in Runs!Orgs, orgs[run.at].on
  PROVE  /\ Runs!Cover(orgs[run.at].tenant) \in {"mine", "other", "uncovered"}
         /\ Runs!Cover(orgs[run.at].tenant) = "mine" <=> Mine(run.of, run.at)
         /\ Runs!Cover(orgs[run.at].tenant) = "other" => ~(orgs[run.at].tenant = Outside /\ config[run.of].expects)
  BY DEF Runs!Cover, Runs!Named, Runs!Mode, Mine

\* What the checks of a rollover come to.
LEMMA RolloverIs ==
  ASSUME SchedulesInv, run.at \in Runs!Orgs, orgs[run.at].on, NEW r, r = Runs!Rollover(orgs[run.at])
  PROVE  /\ r.states \subseteq Runs!States /\ r.error \in BOOLEAN /\ r.owed \in BOOLEAN
         /\ "fail" \in r.states => config[run.of].mode = "app" /\ orgs[run.at].entra = "fail"
         /\ ~r.error /\ ~r.owed =>
              /\ config[run.of].mode # "undeclared"
              /\ config[run.of].mode = "app" => orgs[run.at].tenant # Elsewhere /\ orgs[run.at].entra \in r.states
  <1> DEFINE org == orgs[run.at]
             mode == config[run.of].mode
  <1>1. org \in Runs!Organization \cup {Runs!Off}
    BY SchedulesTypes
  <1>2. org \in Runs!Organization
    BY <1>1 DEF Runs!Off
  <1>3. org.entra \in {"ok", "fail", "missing"}
    BY <1>2 DEF Runs!Organization
  <1>4. mode \in Runs!Modes
    BY SchedulesTypes DEF Runs!Configuration
  <1>5. Runs!Mode = mode
    BY DEF Runs!Mode
  <1>6. run.refused \in BOOLEAN
    BY SchedulesTypes
  <1> HIDE DEF org, mode
  <1>7. r = Runs!Rollover(org)
    BY DEF org
  <1>8. \/ mode \in Runs!Declared /\ r = [states |-> {}, error |-> FALSE, owed |-> FALSE]
        \/ /\ mode \notin Runs!Declared /\ (mode = "undeclared" \/ org.tenant = Elsewhere)
           /\ r = [states |-> {"unknown"}, error |-> FALSE, owed |-> TRUE]
        \/ r = [states |-> {"unknown"}, error |-> TRUE, owed |-> FALSE]
        \/ mode = "app" /\ org.tenant # Elsewhere /\ org.entra # "missing"
            /\ r = [states |-> {org.entra}, error |-> FALSE, owed |-> FALSE]
    BY <1>4, <1>5, <1>6, <1>7 DEF Runs!Rollover, Runs!Modes, Runs!Declared
  <1>9. /\ r.states \subseteq Runs!States /\ r.error \in BOOLEAN /\ r.owed \in BOOLEAN
        /\ "fail" \in r.states => mode = "app" /\ org.entra = "fail"
        /\ ~r.error /\ ~r.owed => mode # "undeclared" /\ (mode = "app" =>
             org.tenant # Elsewhere /\ org.entra \in r.states)
    <2>1. CASE mode \in Runs!Declared /\ r = [states |-> {}, error |-> FALSE, owed |-> FALSE]
      BY <2>1 DEF Runs!Declared
    <2>2. CASE r = [states |-> {"unknown"}, error |-> FALSE, owed |-> TRUE]
      BY <2>2 DEF Runs!States
    <2>3. CASE r = [states |-> {"unknown"}, error |-> TRUE, owed |-> FALSE]
      BY <2>3 DEF Runs!States
    <2>4. CASE /\ mode = "app" /\ org.tenant # Elsewhere /\ org.entra # "missing"
               /\ r = [states |-> {org.entra}, error |-> FALSE, owed |-> FALSE]
      <3>1. r.states = {org.entra} /\ r.error = FALSE /\ r.owed = FALSE
        BY <2>4
      <3> QED BY <2>4, <3>1, <1>3 DEF Runs!States
    <2> QED BY <1>8, <2>1, <2>2, <2>3, <2>4
  <1> QED BY <1>9 DEF org, mode

\* The run reads the next organization, or cannot.
LEMMA ReadKeepsSchedules ==
  ASSUME SchedulesInv, Runs!ReadsOrg
  PROVE  SchedulesInv'
  <1> DEFINE org == orgs[run.at]
             cover == Runs!Cover(org.tenant)
             rollover == Runs!Rollover(org)
             old == run.tally
  <1>1. /\ run.pc = "reading" /\ run.at <= Count /\ UNCHANGED <<orgs, config, changes, exits>>
        /\ \/ ~org.on /\ Runs!Goes(old) /\ UNCHANGED orgFaults
           \/ /\ org.on /\ cover # "mine" /\ UNCHANGED orgFaults
              /\ Runs!Goes([old EXCEPT !.known = TRUE, !.bad = @ \/ cover = "uncovered"])
           \/ /\ org.on /\ cover = "mine" /\ UNCHANGED orgFaults
              /\ Runs!Judged({org.side} \cup rollover.states, rollover.error \/ rollover.owed)
           \/ /\ org.on /\ cover = "mine" /\ Runs!Fails
              /\ \E part \in SUBSET ({org.side, "unknown"} \cup rollover.states) : Runs!Judged(part, TRUE)
           \/ Runs!Fails /\ Runs!Goes([old EXCEPT !.bad = TRUE])
    BY DEF Runs!ReadsOrg, Runs!Platform
  <1>2. orgFaults' \in 0 .. MaxFaults
    <2>1. orgFaults' = orgFaults \/ (orgFaults < MaxFaults /\ orgFaults' = orgFaults + 1)
      BY <1>1 DEF Runs!Fails
    <2> QED BY <2>1, SchedulesTypes, SchedulesNumbers
  <1>3. run.at \in Runs!Orgs
    BY <1>1, SchedulesTypes, SchedulesNumbers DEF Runs!Orgs
  <1>4. /\ old \in Runs!Tally /\ old.states \subseteq Runs!States /\ old.bad \in BOOLEAN /\ old.named \in BOOLEAN
        /\ old.known \in BOOLEAN /\ old.judged \in BOOLEAN /\ (old.named => old.known)
    BY SchedulesTypes
  <1>5. run.quiet => (old.judged => old.known)
    BY <1>1 DEF SchedulesInv, TallyInv
  <1>6. org.on => org.side \in Runs!States
    <2>1. org \in Runs!Organization \cup {Runs!Off}
      BY <1>3, SchedulesTypes
    <2>2. org.on => org \in Runs!Organization
      BY <2>1 DEF Runs!Off
    <2> HIDE DEF org
    <2> QED BY <2>2 DEF Runs!Organization
  <1> HIDE DEF org, cover, rollover, old
  <1>7. org.on /\ cover = "mine" =>
          /\ Mine(run.of, run.at) /\ rollover.states \subseteq Runs!States
          /\ rollover.error \in BOOLEAN /\ rollover.owed \in BOOLEAN
          /\ "fail" \in {org.side} \cup rollover.states => Failing(run.of, run.at)
          /\ \A S : {org.side} \cup rollover.states \subseteq S /\ ~rollover.error /\ ~rollover.owed =>
               Clean(run.of, run.at, S)
    <2> SUFFICES ASSUME org.on, cover = "mine"
                 PROVE  /\ Mine(run.of, run.at) /\ rollover.states \subseteq Runs!States
                        /\ rollover.error \in BOOLEAN /\ rollover.owed \in BOOLEAN
                        /\ "fail" \in {org.side} \cup rollover.states => Failing(run.of, run.at)
                        /\ \A S : {org.side} \cup rollover.states \subseteq S /\ ~rollover.error /\ ~rollover.owed =>
                             Clean(run.of, run.at, S)
      OBVIOUS
    <2>1. Mine(run.of, run.at)
      BY <1>3, CoverIs DEF cover, org
    <2>2. /\ rollover.states \subseteq Runs!States /\ rollover.error \in BOOLEAN /\ rollover.owed \in BOOLEAN
          /\ "fail" \in rollover.states => config[run.of].mode = "app" /\ org.entra = "fail"
          /\ ~rollover.error /\ ~rollover.owed =>
               /\ config[run.of].mode # "undeclared"
               /\ config[run.of].mode = "app" => org.tenant # Elsewhere /\ org.entra \in rollover.states
      BY <1>3, RolloverIs DEF rollover, org
    <2>3. "fail" \in {org.side} \cup rollover.states => Failing(run.of, run.at)
      BY <2>1, <2>2 DEF Failing, org
    <2>4. \A S : {org.side} \cup rollover.states \subseteq S /\ ~rollover.error /\ ~rollover.owed =>
           Clean(run.of, run.at, S)
      BY <2>1, <2>2 DEF Clean, Mine, org
    <2> QED BY <2>1, <2>2, <2>3, <2>4
  <1>8. ASSUME NEW states \in SUBSET Runs!States, NEW bad \in BOOLEAN, org.on, Runs!Judged(states, bad),
               "fail" \in states => Failing(run.of, run.at), ~bad => Clean(run.of, run.at, states)
        PROVE  SchedulesInv'
    <2> DEFINE t == [states |-> old.states \cup states, bad |-> old.bad \/ bad, known |-> TRUE,
                     named |-> old.named \/ org.tenant = run.of, judged |-> old.judged \/ states # {}]
    <2>1. Runs!Goes(t)
      BY <1>8 DEF Runs!Judged, old, org
    <2> DEFINE b == old.bad \/ bad
               n == old.named \/ org.tenant = run.of
               j == old.judged \/ states # {}
    <2>2. b \in BOOLEAN /\ n \in BOOLEAN /\ j \in BOOLEAN
      BY Zenon
    <2>3. (b <=> old.bad \/ bad) /\ (n => old.named \/ org.tenant = run.of)
      OBVIOUS
    <2> HIDE DEF b, n, j
    <2>4. t = [states |-> old.states \cup states, bad |-> b, known |-> TRUE, named |-> n, judged |-> j]
      BY DEF b, n, j
    <2> HIDE DEF t
    <2>5. t \in Runs!Tally /\ t.states = old.states \cup states /\ t.bad = b
          /\ t.known = TRUE /\ t.named = n /\ t.judged = j
      BY <2>2, <2>4, <1>4 DEF Runs!Tally
    <2>6. ~t.bad => Clean(run.of, run.at, t.states)
      BY <2>3, <2>5, <1>8 DEF Clean
    <2>7. "fail" \in t.states => "fail" \in run.tally.states \/ Failing(run.of, run.at)
      BY <2>5, <1>8 DEF old
    <2>8. t.named => run.tally.named \/ (orgs[run.at].on /\ orgs[run.at].tenant = run.of)
      BY <2>3, <2>5, <1>8 DEF old, org
    <2>9. run.tally.states \subseteq t.states /\ (run.tally.bad => t.bad)
      BY <2>3, <2>5 DEF old
    <2>10. t.known /\ (run.tally.judged \/ orgs[run.at].on)
      BY <2>5, <1>8 DEF org
    <2> QED BY <2>1, <2>5, <2>6, <2>7, <2>8, <2>9, <2>10, <1>1, <1>2, GoesKeepsSchedules
  <1>9. CASE ~org.on /\ Runs!Goes(old)
    <2>1. Clean(run.of, run.at, old.states)
      BY <1>9 DEF Clean, org
    <2> QED BY <2>1, <1>1, <1>2, <1>4, <1>5, <1>9, GoesKeepsSchedules DEF old
  <1>10. CASE /\ org.on /\ cover # "mine"
              /\ Runs!Goes([old EXCEPT !.known = TRUE, !.bad = @ \/ cover = "uncovered"])
    <2> DEFINE b == old.bad \/ cover = "uncovered"
               t == [old EXCEPT !.known = TRUE, !.bad = b]
    <2>1. b \in BOOLEAN /\ (b <=> old.bad \/ cover = "uncovered")
      BY Zenon
    <2>2. Runs!Goes(t)
      BY <1>10
    <2> HIDE DEF b
    <2>3. /\ t \in Runs!Tally /\ t.states = old.states /\ t.bad = b /\ t.known = TRUE /\ t.named = old.named
          /\ t.judged = old.judged
      BY <2>1, <1>4 DEF Runs!Tally
    <2> HIDE DEF t
    <2>4. cover # "uncovered" => Clean(run.of, run.at, old.states)
      <3>1. cover # "uncovered" => cover = "other"
        BY <1>3, <1>10, CoverIs DEF cover, org
      <3>2. /\ ~Mine(run.of, run.at)
            /\ cover = "other" => ~(orgs[run.at].tenant = Outside /\ config[run.of].expects)
        BY <1>3, <1>10, CoverIs DEF cover, org
      <3> QED BY <3>1, <3>2 DEF Clean
    <2>5. ~t.bad => Clean(run.of, run.at, t.states)
      BY <2>1, <2>3, <2>4
    <2>6. run.tally.bad => t.bad
      BY <2>1, <2>3 DEF old
    <2> QED BY <2>2, <2>3, <2>5, <2>6, <1>1, <1>2, <1>4, <1>5, GoesKeepsSchedules DEF old
  <1>11. CASE /\ org.on /\ cover = "mine"
              /\ Runs!Judged({org.side} \cup rollover.states, rollover.error \/ rollover.owed)
    <2> DEFINE b == rollover.error \/ rollover.owed
               states == {org.side} \cup rollover.states
    <2>1. b \in BOOLEAN /\ (~b => ~rollover.error /\ ~rollover.owed)
      BY Zenon
    <2>2. states \in SUBSET Runs!States
      BY <1>6, <1>7, <1>11
    <2>3. ("fail" \in states => Failing(run.of, run.at)) /\ (~b => Clean(run.of, run.at, states))
      BY <2>1, <1>7, <1>11
    <2>4. Runs!Judged(states, b) /\ org.on
      BY <1>11
    <2> HIDE DEF b, states
    <2> QED BY <2>1, <2>2, <2>3, <2>4, <1>8
  <1>12. CASE /\ org.on /\ cover = "mine"
              /\ \E part \in SUBSET ({org.side, "unknown"} \cup rollover.states) : Runs!Judged(part, TRUE)
    <2>1. PICK part \in SUBSET ({org.side, "unknown"} \cup rollover.states) : Runs!Judged(part, TRUE)
      BY <1>12
    <2>2. part \in SUBSET Runs!States /\ ("fail" \in part => "fail" \in {org.side} \cup rollover.states)
      BY <2>1, <1>6, <1>7, <1>12 DEF Runs!States
    <2>3. "fail" \in part => Failing(run.of, run.at)
      BY <2>2, <1>7, <1>12
    <2> QED BY <2>1, <2>2, <2>3, <1>8, <1>12
  <1>13. CASE Runs!Goes([old EXCEPT !.bad = TRUE])
    <2> DEFINE t == [old EXCEPT !.bad = TRUE]
    <2>1. /\ t \in Runs!Tally /\ t.states = old.states /\ t.bad = TRUE /\ t.known = old.known /\ t.named = old.named
          /\ t.judged = old.judged
      BY <1>4 DEF Runs!Tally
    <2>2. Runs!Goes(t)
      BY <1>13
    <2> HIDE DEF t
    <2> QED BY <2>1, <2>2, <1>1, <1>2, <1>4, <1>5, GoesKeepsSchedules DEF old
  <1> QED BY <1>1, <1>9, <1>10, <1>11, <1>12, <1>13

\* The run is through, and exits with what it has come to.
LEMMA JudgeKeepsSchedules ==
  ASSUME SchedulesInv, Runs!Judges
  PROVE  SchedulesInv'
  <1> DEFINE S == run.tally.states
             unsure == "unknown" \in S \/ run.tally.bad \/ Runs!RunErrors
             said == CASE "fail" \in S -> 2
                       [] "fail" \notin S /\ unsure -> 3
                       [] OTHER -> IF "warn" \in S THEN 1 ELSE 0
             code == IF run.quiet THEN said ELSE -1
  <1>1. /\ run.pc = "reading" /\ run.at > Count /\ UNCHANGED <<orgs, config, changes, orgFaults>>
        /\ run' = Runs!Idle(run.of) /\ exits' = [exits EXCEPT ![run.of] = code]
    BY DEF Runs!Judges, Runs!Ends, Runs!Platform, Runs!Stale
  <1>2. run.of \in Tenants /\ run' \in RunRecords /\ run'.tally = Runs!NoTally /\ run'.pc = "idle"
    BY <1>1, SchedulesTypes, IdleIs
  <1>3. orgFaults' \in 0 .. MaxFaults
    BY <1>1, SchedulesTypes
  <1>4. /\ said \in 0 .. 3 /\ (said = 2 => "fail" \in S) /\ (said \in {0, 1} => "fail" \notin S /\ ~unsure)
        /\ (said = 0 => "warn" \notin S)
    BY DEF said
  <1>5. code \in {-1} \cup 0 .. 3 /\ (code \in {0, 1, 2} => run.quiet /\ code = said)
    BY <1>4
  <1>6. run.quiet =>
          /\ ~run.tally.bad => \A o \in Runs!Orgs : Clean(run.of, o, S)
          /\ "fail" \in S => \E o \in Runs!Orgs : Failing(run.of, o)
          /\ run.tally.named => \E o \in Runs!Orgs : orgs[o].on /\ orgs[o].tenant = run.of
          /\ run.tally.judged => run.tally.known /\ \E o \in Runs!Orgs : orgs[o].on
    <2>1. \A o \in Runs!Orgs : o < run.at
      BY <1>1, SchedulesTypes, SchedulesNumbers DEF Runs!Orgs
    <2> QED BY <2>1, <1>1 DEF SchedulesInv, TallyInv
  <1>7. S \subseteq Runs!States
    BY SchedulesTypes
  <1> HIDE DEF code, said
  <1>8. code = 0 => \A o \in Runs!Orgs : Clean(run.of, o, {"ok"})
    <2> SUFFICES ASSUME code = 0, NEW o \in Runs!Orgs PROVE Clean(run.of, o, {"ok"})
      OBVIOUS
    <2>1. run.quiet /\ "fail" \notin S /\ ~unsure /\ "warn" \notin S
      BY <1>4, <1>5
    <2>2. S \subseteq {"ok"}
      BY <2>1, <1>7 DEF Runs!States
    <2>3. Clean(run.of, o, S)
      BY <2>1, <1>6
    <2> QED BY <2>2, <2>3 DEF Clean
  <1>9. code \in {0, 1} => \E o \in Runs!Orgs : Judging(run.of, o)
    <2> SUFFICES ASSUME code \in {0, 1} PROVE \E o \in Runs!Orgs : Judging(run.of, o)
      OBVIOUS
    <2>1. run.quiet /\ ~Runs!RunErrors
      BY <1>4, <1>5
    <2>2. run.tally.judged /\ ~(Runs!Named /\ run.tally.known /\ ~run.tally.named)
      BY <2>1 DEF Runs!RunErrors
    <2>3. run.tally.known /\ \E o \in Runs!Orgs : orgs[o].on
      BY <2>1, <2>2, <1>6
    <2>4. CASE Runs!Named
      <3>1. PICK o \in Runs!Orgs : orgs[o].on /\ orgs[o].tenant = run.of
        BY <2>1, <2>2, <2>3, <2>4, <1>6
      <3> QED BY <3>1 DEF Judging
    <2>5. CASE ~Runs!Named
      BY <2>3, <2>5 DEF Judging, Runs!Named, Runs!Mode
    <2> QED BY <2>4, <2>5
  <1>10. code = 2 => \E o \in Runs!Orgs : Failing(run.of, o)
    BY <1>4, <1>5, <1>6
  <1> QED BY <1>1, <1>2, <1>3, <1>5, <1>8, <1>9, <1>10, ExitKeepsSchedules

\* Every step of the schedules keeps the invariant.
LEMMA SchedulesStep ==
  ASSUME SchedulesInv, Runs!Next
  PROVE  SchedulesInv'
  BY ChangeKeepsSchedules, StartKeepsSchedules, StopKeepsSchedules, ReadKeepsSchedules, JudgeKeepsSchedules
  DEF Runs!Next

\* What the exits of all the schedules say together.
LEMMA SchedulesPromises ==
  ASSUME SchedulesInv
  PROVE  Runs!ExitZeroIsTrue /\ Runs!ExitTwoIsTrue
  <1>1. ExitInv
    BY DEF SchedulesInv
  <1>2. ASSUME \A t \in Tenants : exits[t] = 0, NEW e \in Tenants, config[e].expects, NEW o \in Runs!Orgs, orgs[o].on
        PROVE  /\ orgs[o].side = "ok"
               /\ orgs[o].entra = "ok" \/
                    \E t \in Tenants : config[t].mode \in Runs!Declared /\ orgs[o].tenant \in {t, Elsewhere}
    <2>1. \A t \in Tenants : Clean(t, o, {"ok"})
      BY <1>1, <1>2 DEF ExitInv
    <2>2. orgs[o].tenant # Outside
      BY <2>1, <1>2 DEF Clean
    <2>3. orgs[o].tenant \in Tenants \cup {Outside, Elsewhere}
      <3>1. orgs[o] \in Runs!Organization \cup {Runs!Off}
        BY SchedulesTypes
      <3> DEFINE r == orgs[o]
      <3>2. r \in Runs!Organization
        BY <3>1, <1>2 DEF Runs!Off
      <3> HIDE DEF r
      <3>3. r.tenant \in Tenants \cup {Outside, Elsewhere}
        BY <3>2 DEF Runs!Organization
      <3> QED BY <3>3 DEF r
    <2>4. ASSUME NEW t \in Tenants, orgs[o].tenant \in {t, Elsewhere}
          PROVE  /\ orgs[o].side = "ok" /\ config[t].mode \in {"app", "declared", "declaredAll"}
                 /\ config[t].mode = "app" => orgs[o].tenant # Elsewhere /\ orgs[o].entra = "ok"
      <3>1. Mine(t, o)
        BY <2>2, <2>4, <1>2 DEF Mine
      <3>2. config[t].mode \in Runs!Modes
        BY SchedulesTypes DEF Runs!Configuration
      <3> QED BY <2>1, <3>1, <3>2, <1>2 DEF Clean, Runs!Modes
    <2>5. CASE orgs[o].tenant = Elsewhere
      BY <2>4, <2>5, <1>2 DEF Runs!Declared
    <2>6. CASE orgs[o].tenant \in Tenants
      BY <2>4, <2>6 DEF Runs!Declared
    <2> QED BY <2>2, <2>3, <2>5, <2>6
  <1>3. \A t \in Tenants : exits[t] \in {0, 1} =>
          \E o \in Runs!Orgs : orgs[o].on /\ (config[t].mode \in {"app", "declared"} => orgs[o].tenant = t)
    BY <1>1 DEF ExitInv, Judging
  <1>4. Runs!ExitZeroIsTrue
    BY <1>2, <1>3 DEF Runs!ExitZeroIsTrue
  <1>5. Runs!ExitTwoIsTrue
    BY <1>1 DEF ExitInv, Failing, Mine, Runs!ExitTwoIsTrue
  <1> QED BY <1>4, <1>5

-----------------------------------------------------------------------------
(* Proofs about the sessions. *)

\* Which of the constants is odd: kept apart, as no leaf that reckons needs it.
LEMMA CensusMinute == Minute \in Nat \ {0} /\ Minute % 2 = 1
  BY WatchAssumption DEF Sessions!CensusAssumption, Keys!RefreshAssumption

\* What the assumptions on the constants come to.
LEMMA SessionsNumbers ==
  /\ CensusHour \in Nat \ {0} /\ CensusDay \in Nat \ {0} /\ Cycle \in Nat \ {0} /\ Span \in Nat \ {0}
  /\ MaxGap \in Nat /\ Lag \in Nat /\ LastStart \in Nat /\ MaxFaults \in Nat
  /\ CensusDay <= LastStart /\ Lengths \subseteq 1 .. Cycle /\ JobAt \in VCs
  /\ Sessions!End = LastStart + Lag /\ Sessions!Never = -1
  BY WatchAssumption DEF Sessions!CensusAssumption, Sessions!End, Sessions!Never

\* A remainder that is known.
LEMMA Remainder ==
  ASSUME NEW c \in Nat \ {0}, NEW k \in Int, NEW d \in Nat, d < c
  PROVE  (k * c + d) % c = d
  <1> DEFINE y == k * c + d
             q == y \div c
  <1>1. k * c \in Int /\ (k - 1) * c = k * c - c
    OBVIOUS
  <1>2. y \in Int
    BY <1>1
  <1>3. q <= k
    <2>1. y < k * c + c
      BY <1>1
    <2> HIDE DEF y
    <2> QED BY <2>1, <1>2, Quotient
  <1>4. q > k - 1
    <2>1. y >= (k - 1) * c + c
      BY <1>1
    <2>2. k - 1 \in Int
      OBVIOUS
    <2> HIDE DEF y
    <2> QED BY <2>1, <2>2, <1>2, Quotient
  <1>5. q \in Int /\ y = c * q + (y % c) /\ y % c \in Int
    <2> HIDE DEF y
    <2> QED BY <1>2
  <1>6. q = k
    BY <1>3, <1>4, <1>5
  <1>7. c * k = k * c
    OBVIOUS
  <1> HIDE DEF q
  <1>8. y = k * c + (y % c)
    BY <1>5, <1>6, <1>7
  <1>9. y = k * c + d
    OBVIOUS
  <1> HIDE DEF y
  <1>10. y % c = d
    BY <1>1, <1>2, <1>5, <1>8, <1>9
  <1> QED BY <1>10 DEF y

\* The types of the variables, one by one.
LEMMA SessionsTypes ==
  ASSUME SessionsInv
  PROVE  /\ clock \in Int /\ 0 <= clock /\ clock <= LastStart + Lag
         /\ job \in Sessions!Jobs /\ job.kind \in Sessions!Kinds /\ job.offset \in Int /\ job.length \in 1 .. Cycle
         /\ job.length \in Nat
         /\ census \in Sessions!Reading /\ census.at \in Int /\ 0 <= census.at /\ census.at <= LastStart
         /\ census.todo \subseteq VCs /\ census.whole \in BOOLEAN
         /\ census.found \subseteq Shown
         /\ records.count \in 0 .. 2 /\ records.count \in Int /\ records.first \in Int /\ 0 <= records.first
         /\ records.first <= LastStart /\ records.last \in Int /\ records.last <= LastStart /\ 0 <= records.last
         /\ records.gap \in Int /\ 0 <= records.gap /\ records.gap <= LastStart
         /\ records.first + records.gap <= records.last
         /\ records.hours \subseteq 0 .. Sessions!HourOf(CensusDay - 1) /\ records.whole \in BOOLEAN
         /\ records.found \subseteq Shown
         /\ verdict \in {-1, 0, 1, 3, 4, 5} /\ unreads \in 0 .. MaxFaults
  <1>1. /\ clock \in 0 .. LastStart + Lag /\ job \in Sessions!Jobs /\ census \in Sessions!Reading
        /\ records.count \in 0 .. 2 /\ {records.first, records.last} \subseteq 0 .. LastStart
        /\ records.gap \in 0 .. LastStart /\ records.first + records.gap <= records.last
        /\ records.hours \subseteq 0 .. Sessions!HourOf(CensusDay - 1) /\ records.whole \in BOOLEAN
        /\ verdict \in {-1, 0, 1, 3, 4, 5} /\ unreads \in 0 .. MaxFaults
    BY SessionsNumbers DEF SessionsInv, Sessions!TypeOK
  <1>2. job.kind \in Sessions!Kinds /\ job.offset \in Int /\ job.length \in 1 .. Cycle
    <2>1. job.kind \in Sessions!Kinds /\ job.offset \in 0 .. Cycle - 1 /\ job.length \in Lengths
      BY <1>1 DEF Sessions!Jobs
    <2>2. Lengths \subseteq 1 .. Cycle /\ Cycle \in Nat
      BY SessionsNumbers
    <2>3. job.length \in 1 .. Cycle
      BY <2>1, <2>2
    <2>4. job.offset \in Int
      BY <2>1, <2>2
    <2> QED BY <2>1, <2>3, <2>4
  <1>3. census.at \in 0 .. LastStart /\ census.todo \subseteq VCs /\ census.whole \in BOOLEAN
    BY <1>1 DEF Sessions!Reading
  <1>4. census.found \subseteq Shown /\ records.found \subseteq Shown
    BY DEF SessionsInv
  <1>5. LastStart \in Nat /\ Lag \in Nat /\ Cycle \in Nat
    BY SessionsNumbers
  <1>6. /\ clock \in Int /\ 0 <= clock /\ clock <= LastStart + Lag /\ job.length \in Nat
        /\ census.at \in Int /\ 0 <= census.at /\ census.at <= LastStart
    BY <1>1, <1>2, <1>3, <1>5
  <1>7. /\ records.first \in 0 .. LastStart /\ records.last \in 0 .. LastStart /\ records.gap \in 0 .. LastStart
        /\ records.count \in Int
    BY <1>1
  <1>8. /\ records.first \in Int /\ 0 <= records.first /\ records.first <= LastStart
        /\ records.last \in Int /\ records.last <= LastStart /\ 0 <= records.last
        /\ records.gap \in Int /\ 0 <= records.gap /\ records.gap <= LastStart
    BY <1>5, <1>7
  <1> QED BY <1>1, <1>2, <1>3, <1>4, <1>6, <1>7, <1>8

\* Their ranges as comparisons.
LEMMA SessionsInts ==
  ASSUME SessionsInv
  PROVE  /\ clock \in Int /\ 0 <= clock /\ census.at \in Int /\ 0 <= census.at /\ census.at <= LastStart
         /\ records.count \in Int /\ (records.count > 0 => records.count = 1 \/ records.count = 2)
         /\ (records.count = 0 \/ records.count > 0)
         /\ records.first \in Int /\ 0 <= records.first /\ records.last \in Int /\ records.last <= LastStart
         /\ records.gap \in Int /\ 0 <= records.gap /\ records.gap <= LastStart
         /\ records.first + records.gap <= records.last
         /\ job.length \in Int /\ 0 <= job.length /\ Lag \in Nat /\ LastStart \in Nat /\ MaxGap \in Nat
  <1>1. records.count = 0 \/ records.count = 1 \/ records.count = 2
    <2>1. records.count \in 0 .. 2
      BY SessionsTypes
    <2> QED BY <2>1
  <1>2. job.length \in Int /\ 0 <= job.length
    <2>1. job.length \in Nat
      BY SessionsTypes
    <2> QED BY <2>1
  <1>3. /\ clock \in Int /\ 0 <= clock /\ census.at \in Int /\ 0 <= census.at /\ census.at <= LastStart
        /\ records.first \in Int /\ 0 <= records.first /\ records.last \in Int /\ records.last <= LastStart
        /\ records.gap \in Int /\ 0 <= records.gap /\ records.gap <= LastStart
        /\ records.first + records.gap <= records.last
    BY SessionsTypes
  <1>4. Lag \in Nat /\ LastStart \in Nat /\ MaxGap \in Nat
    BY SessionsNumbers
  <1> QED BY <1>1, <1>2, <1>3, <1>4

\* The kind the job's session is shown as, if it is shown.
LEMMA ShownIs ==
  /\ \A x : x \in Shown <=> x = job.kind /\ x # "not placed"
  /\ {} \subseteq Shown
  BY Zenon DEF Shown

\* It is the job's alone.
LEMMA ShownStays ==
  ASSUME UNCHANGED job
  PROVE  Shown' = Shown
  BY DEF Shown

\* A session that has begun and was over when the vCenter was read is no longer than the time between.
LEMMA OverBy ==
  ASSUME SessionsInv, NEW s \in Int, NEW r \in Int, s <= r, Begins(s), Away(r)
  PROVE  job.length <= r - s
  <1> DEFINE x == s - job.offset
             k == x \div Cycle
             d == r - s
  <1>1. /\ job.offset \in Int /\ job.length \in Int /\ job.length <= Cycle /\ Cycle \in Nat \ {0}
    <2>1. job.offset \in Int /\ job.length \in 1 .. Cycle /\ Cycle \in Nat \ {0}
      BY SessionsTypes, SessionsNumbers
    <2> QED BY <2>1
  <1>2. x \in Int /\ d \in Nat /\ r - job.offset = x + d
    BY <1>1
  <1>3. x % Cycle = 0 /\ (r - job.offset) % Cycle >= job.length
    BY DEF Begins, Away
  <1> HIDE DEF x, d
  <1>4. k \in Int /\ x = k * Cycle
    BY <1>1, <1>2, <1>3
  <1> HIDE DEF k
  <1>5. CASE d < Cycle
    <2>1. (k * Cycle + d) % Cycle = d
      BY <1>1, <1>2, <1>4, <1>5, Remainder
    <2>2. d >= job.length
      BY <2>1, <1>2, <1>3, <1>4
    <2> QED BY <2>2, <1>1, <1>2 DEF d
  <1>6. CASE d >= Cycle
    <2>1. d >= job.length
      BY <1>1, <1>2, <1>6
    <2> QED BY <2>1, <1>1, <1>2 DEF d
  <1> QED BY <1>1, <1>2, <1>5, <1>6

\* In each cycle there is a session.
LEMMA SessionBegins ==
  ASSUME SessionsInv, NEW a \in Int
  PROVE  \E s \in Int : a <= s /\ s < a + Cycle /\ Begins(s)
  <1> DEFINE x == job.offset - a
             k == x \div Cycle
             d == x % Cycle
  <1>1. job.offset \in Int /\ Cycle \in Nat \ {0}
    BY SessionsTypes, SessionsNumbers
  <1>2. x \in Int
    BY <1>1
  <1> HIDE DEF x
  <1>3. k \in Int /\ d \in Nat /\ d < Cycle /\ x = k * Cycle + d
    BY <1>1, <1>2
  <1> HIDE DEF k, d
  <1>4. k * Cycle \in Int /\ (-k) * Cycle = -(k * Cycle) /\ -k \in Int
    BY <1>1, <1>3
  <1>5. ((-k) * Cycle + 0) % Cycle = 0
    BY <1>1, <1>3, <1>4, Remainder
  <1> DEFINE s == a + d
  <1>6. s - job.offset = (-k) * Cycle + 0
    BY <1>1, <1>2, <1>3, <1>4 DEF x
  <1>7. (s - job.offset) % Cycle = 0
    BY <1>5, <1>6
  <1>8. s \in Int /\ a <= s /\ s < a + Cycle
    BY <1>1, <1>3
  <1> HIDE DEF s
  <1>9. Begins(s)
    BY <1>7 DEF Begins
  <1> QED BY <1>8, <1>9

\* The hours of a day.
Hours24 == 0 .. Sessions!HourOf(CensusDay - 1)
\* What the records of the censuses may be.
RecordSet ==
  [count : 0 .. 2, first : 0 .. LastStart, last : 0 .. LastStart, gap : 0 .. LastStart, hours : SUBSET Hours24,
   whole : BOOLEAN, found : SUBSET Sessions!Kinds]

\* The hour of a moment is one of the day's.
LEMMA HourIs ==
  ASSUME NEW t \in Nat
  PROVE  Sessions!HourOf(t) \in Hours24
  <1>1. CensusDay \in Nat \ {0} /\ CensusHour \in Nat \ {0}
    BY SessionsNumbers
  <1> DEFINE r == t % CensusDay
  <1>2. r \in Int /\ 0 <= r /\ r <= CensusDay - 1 /\ CensusDay - 1 \in Int
    BY <1>1
  <1>3. (CensusDay - 1) % CensusDay = CensusDay - 1
    BY <1>1
  <1> HIDE DEF r
  <1>4. r \div CensusHour \in Int /\ 0 <= r \div CensusHour
    BY <1>1, <1>2
  <1>5. r \div CensusHour <= (CensusDay - 1) \div CensusHour
    BY <1>1, <1>2, QuotientGrows
  <1>6. (CensusDay - 1) \div CensusHour \in Int
    BY <1>1, <1>2
  <1>7. Sessions!HourOf(t) = r \div CensusHour /\ Sessions!HourOf(CensusDay - 1) = (CensusDay - 1) \div CensusHour
    BY <1>3 DEF Sessions!HourOf, r
  <1> QED BY <1>4, <1>5, <1>6, <1>7 DEF Hours24

\* It holds before the first census.
LEMMA SessionsStart ==
  ASSUME Sessions!Init
  PROVE  SessionsInv
  <1>1. /\ clock \in 0 .. CensusDay - 1 /\ job \in Sessions!Jobs /\ census = Sessions!Idle
        /\ records = [count |-> 0, first |-> 0, last |-> 0, gap |-> 0, hours |-> {}, whole |-> TRUE, found |-> {}]
        /\ verdict = -1 /\ unreads = 0
    BY SessionsNumbers DEF Sessions!Init
  <1>2. 0 \in 0 .. LastStart /\ 0 \in 0 .. MaxFaults /\ 0 + 0 <= 0
    BY SessionsNumbers
  <1>3. clock \in 0 .. LastStart + Lag
    <2>1. clock \in Int /\ 0 <= clock /\ clock <= CensusDay - 1
      BY <1>1, SessionsNumbers
    <2> QED BY <2>1, SessionsNumbers
  <1>4. census \in Sessions!Reading /\ census.todo = {} /\ census.found = {}
    BY <1>1, <1>2 DEF Sessions!Idle, Sessions!Reading
  <1>5. /\ records \in RecordSet /\ records.count = 0 /\ records.gap = 0 /\ records.first = 0 /\ records.last = 0
        /\ records.found = {} /\ records.hours = {} /\ records.whole = TRUE
    BY <1>1, <1>2 DEF RecordSet
  <1>6. Sessions!TypeOK
    BY <1>1, <1>2, <1>3, <1>4, <1>5, SessionsNumbers DEF Sessions!TypeOK
  <1>7. CensusInv
    BY <1>4 DEF CensusInv, Sessions!Running
  <1>8. RecordsInv
    BY <1>5 DEF RecordsInv
  <1>9. Sessions!CompareIsTrue
    BY <1>1 DEF Sessions!CompareIsTrue
  <1> QED BY <1>1, <1>4, <1>5, <1>6, <1>7, <1>8, <1>9, SessionsNumbers DEF SessionsInv, RecordSet, Hours24

\* Time passes, and not further than a census may lag.
LEMMA TickKeepsSessions ==
  ASSUME SessionsInv, Sessions!Tick
  PROVE  SessionsInv'
  <1>1. /\ clock < LastStart + Lag /\ verdict = -1 /\ (Sessions!Running => clock < census.at + Lag)
        /\ clock' = clock + 1 /\ UNCHANGED <<job, census, records, verdict, unreads>>
    BY SessionsNumbers DEF Sessions!Tick
  <1>2. clock \in Int /\ 0 <= clock /\ census.at \in Int
    BY SessionsTypes
  <1>3. clock' \in 0 .. LastStart + Lag
    BY <1>1, <1>2, SessionsNumbers
  <1>4. Sessions!TypeOK'
    BY <1>1, <1>3, SessionsNumbers DEF SessionsInv, Sessions!TypeOK, Sessions!Jobs, Sessions!Reading,
          Sessions!DayOf, Sessions!End,
       Sessions!HourOf, Sessions!Kinds, Sessions!Never
  <1>5. CensusInv'
    <2>1. CensusInv
      BY DEF SessionsInv
    <2> SUFFICES ASSUME Sessions!Running
                 PROVE  /\ census.at <= clock' /\ clock' <= census.at + Lag
                         /\ (records.count > 0 => records.last < census.at)
                        /\ Unseen(census) /\ JobAt \notin census.todo => \E r \in census.at .. clock' : Away(r)
      BY <1>1 DEF CensusInv, Sessions!Running, Unseen, Away
    <2>2. census.at <= clock /\ clock < census.at + Lag /\ (records.count > 0 => records.last < census.at)
      BY <2>1, <1>1 DEF CensusInv
    <2>3. census.at <= clock' /\ clock' <= census.at + Lag
      BY <2>2, <1>1, <1>2, SessionsNumbers
    <2>4. \A r \in census.at .. clock : r \in census.at .. clock'
      BY <1>1, <1>2
    <2> QED BY <2>1, <2>2, <2>3, <2>4 DEF CensusInv
  <1>6. RecordsInv'
    BY <1>1 DEF SessionsInv, RecordsInv, Unseen, Begins
  <1>7. Sessions!CompareIsTrue'
    BY <1>1 DEF Sessions!CompareIsTrue
  <1> QED BY <1>1, <1>4, <1>5, <1>6, <1>7, ShownStays, SessionsNumbers
      DEF SessionsInv, Sessions!HourOf, Sessions!Kinds, Sessions!Running

\* A census begins.
LEMMA StartKeepsSessions ==
  ASSUME SessionsInv, Sessions!Starts
  PROVE  SessionsInv'
  <1>1. /\ ~Sessions!Running /\ verdict = -1 /\ clock <= LastStart /\ (records.count > 0 => clock > records.last)
        /\ census' = [Sessions!Idle EXCEPT !.at = clock, !.todo = VCs]
        /\ UNCHANGED <<clock, job, records, verdict, unreads>>
    BY SessionsNumbers DEF Sessions!Starts
  <1>2. clock \in Int /\ 0 <= clock /\ clock \in 0 .. LastStart /\ Lag \in Nat
    BY <1>1, SessionsInts
  <1>3. census' = [at |-> clock, todo |-> VCs, whole |-> TRUE, found |-> {}]
    BY <1>1 DEF Sessions!Idle
  <1>4. census' \in Sessions!Reading /\ census'.at = clock /\ census'.todo = VCs /\ census'.found = {}
    BY <1>2, <1>3 DEF Sessions!Reading
  <1>5. Sessions!TypeOK'
    BY <1>1, <1>4, SessionsNumbers DEF SessionsInv, Sessions!TypeOK, Sessions!Jobs, Sessions!Reading,
          Sessions!DayOf, Sessions!End,
       Sessions!HourOf, Sessions!Kinds, Sessions!Never
  <1>6. CensusInv'
    <2>1. JobAt \in census'.todo
      BY <1>4, SessionsNumbers
    <2>2. clock <= clock /\ clock <= clock + Lag /\ (records.count > 0 => records.last < clock)
      BY <1>1, <1>2, SessionsInts
    <2> QED BY <2>1, <2>2, <1>1, <1>4 DEF CensusInv
  <1>7. RecordsInv'
    BY <1>1 DEF SessionsInv, RecordsInv, Unseen, Begins
  <1>8. Sessions!CompareIsTrue'
    BY <1>1 DEF Sessions!CompareIsTrue
  <1>9. census'.found \subseteq Shown
    BY <1>4, ShownIs
  <1> QED BY <1>1, <1>4, <1>5, <1>6, <1>7, <1>8, <1>9, ShownStays, SessionsNumbers
      DEF SessionsInv, Sessions!HourOf, Sessions!Kinds

\* What a comparison makes of records that are covered.
LEMMA CompareKeepsSessions ==
  ASSUME SessionsInv, Sessions!Compares
  PROVE  SessionsInv'
  <1>1. /\ records.count > 0 /\ ~Sessions!Running /\ UNCHANGED <<clock, job, census, records, unreads>>
        /\ verdict' =
             CASE records.count = 1 -> 5
               [] records.count > 1 /\ Sessions!Unacknowledged -> 1
               [] records.count > 1 /\ ~Sessions!Unacknowledged /\ Sessions!NotCovered -> 3
               [] OTHER -> IF "local administrator" \in records.found THEN 4 ELSE 0
    BY DEF Sessions!Compares
  <1>2. records.count = 1 \/ records.count = 2
    BY <1>1, SessionsInts
  <1>3. /\ verdict' \in {5, 1, 3, 4, 0}
        /\ verdict' = 1 => Sessions!Unacknowledged
        /\ verdict' \in {0, 4} => records.count = 2 /\ ~Sessions!Unacknowledged /\ ~Sessions!NotCovered
        /\ verdict' = 0 => "local administrator" \notin records.found
    <2>1. CASE records.count = 1
      <3>1. verdict' = 5
        BY <1>1, <2>1
      <3> QED BY <3>1
    <2>2. CASE records.count = 2
      <3>1. CASE Sessions!Unacknowledged
        <4>1. verdict' = 1
          BY <1>1, <2>2, <3>1
        <4> QED BY <4>1, <3>1
      <3>2. CASE ~Sessions!Unacknowledged /\ Sessions!NotCovered
        <4>1. verdict' = 3
          BY <1>1, <2>2, <3>2
        <4> QED BY <4>1
      <3>3. CASE ~Sessions!Unacknowledged /\ ~Sessions!NotCovered
        <4>1. ~(records.count = 1) /\ records.count > 1
          BY <2>2
        <4>2. CASE "local administrator" \in records.found
          <5>1. verdict' = 4
            BY <1>1, <4>1, <4>2, <3>3, Zenon
          <5> QED BY <5>1, <2>2, <3>3
        <4>3. CASE "local administrator" \notin records.found
          <5>1. verdict' = 0
            BY <1>1, <4>1, <4>3, <3>3, Zenon
          <5>2. verdict' \in {5, 1, 3, 4, 0} /\ verdict' # 1
            BY <5>1
          <5> QED BY <5>2, <4>3, <2>2, <3>3
        <4> QED BY <4>2, <4>3
      <3> QED BY <3>1, <3>2, <3>3
    <2> QED BY <1>2, <2>1, <2>2
  <1>4. Sessions!TypeOK'
    BY <1>1, <1>3, SessionsNumbers DEF SessionsInv, Sessions!TypeOK, Sessions!Jobs, Sessions!Reading,
          Sessions!DayOf, Sessions!End,
       Sessions!HourOf, Sessions!Kinds, Sessions!Never
  <1>5. CensusInv'
    BY <1>1 DEF CensusInv, Sessions!Running
  <1>6. RecordsInv'
    BY <1>1 DEF SessionsInv, RecordsInv, Unseen, Begins
  <1>7. records.found \subseteq Shown
    BY SessionsTypes
  <1>8. ASSUME verdict' \in {0, 4}, Cycle <= Span, Sessions!TooLongToMiss
        PROVE  job.kind \in records.found
    <2> SUFFICES ASSUME job.kind \notin records.found PROVE FALSE
      OBVIOUS
    <2> DEFINE half == Minute \div 2
               most == MaxGap * Minute
               gap == records.gap
    <2>1. /\ records.whole /\ ~(records.last - records.first < Span) /\ ~(Sessions!Rounded(gap) > MaxGap)
          /\ records.count = 2
      BY <1>3, <1>8 DEF Sessions!NotCovered, Sessions!Brief
    <2>2. /\ gap > 0
          /\ \A s \in records.first .. records.last : Begins(s) => job.length <= Lag \/ job.length < Lag + gap
      <3>1. Unseen(records) /\ records.count > 0
        BY <2>1 DEF Unseen
      <3> QED BY <2>1, <3>1 DEF SessionsInv, RecordsInv
    <2>3. PICK s \in Int : records.first <= s /\ s < records.first + Cycle /\ Begins(s)
      BY SessionsInts, SessionBegins
    <2>4. s \in records.first .. records.last
      <3>1. Cycle \in Int /\ Span \in Int
        BY SessionsNumbers
      <3> QED BY <2>1, <2>3, <3>1, <1>8, SessionsInts
    <2>5. job.length <= Lag \/ job.length < Lag + gap
      BY <2>2, <2>3, <2>4
    <2>6. half \in Int /\ 0 <= half /\ half + half + 1 = Minute /\ Minute \in Nat \ {0}
      BY CensusMinute
    <2>7. most \in Int
      BY SessionsNumbers, CensusMinute
    <2>8. gap \in Int /\ job.length \in Int /\ Lag \in Nat /\ MaxGap \in Nat
      BY SessionsInts
    <2>9. (gap + half) \div Minute = Sessions!Rounded(gap)
      BY DEF Sessions!Rounded
    <2> HIDE DEF half, gap
    <2>10. gap + half < MaxGap * Minute + Minute
      <3> DEFINE a == gap + half
      <3>1. a \in Int
        BY <2>6, <2>8
      <3>2. ~(a \div Minute > MaxGap)
        BY <2>1, <2>9 DEF gap
      <3> HIDE DEF a
      <3>3. a >= MaxGap * Minute + Minute => a \div Minute > MaxGap
        BY <3>1, <2>6, <2>8, Quotient
      <3>4. a < MaxGap * Minute + Minute
        BY <3>1, <3>2, <3>3, <2>6, <2>7
      <3> QED BY <3>4 DEF a
    <2>11. job.length >= most + half + Lag
      BY <1>8 DEF Sessions!TooLongToMiss, half
    <2> HIDE DEF most
    <2>12. gap + half < most + Minute
      BY <2>10 DEF most
    <2> QED BY <2>2, <2>5, <2>6, <2>7, <2>8, <2>11, <2>12 DEF gap
  <1>9. Sessions!CompareIsTrue'
    <2>1. /\ Sessions!InUse' <=> Sessions!InUse
          /\ Sessions!TooLongToMiss' <=> Sessions!TooLongToMiss
          /\ Sessions!Acknowledged' <=> Sessions!Acknowledged
      BY <1>1 DEF Sessions!InUse, Sessions!TooLongToMiss, Sessions!Acknowledged, Sessions!DayOf, Sessions!Never
    <2>2. ASSUME verdict' \in {0, 4}, Cycle <= Span, Sessions!TooLongToMiss
          PROVE  ~Sessions!InUse \/ (verdict' = 4 /\ job.kind = "local administrator")
      <3>1. job.kind \in records.found /\ job.kind # "not placed"
        BY <2>2, <1>7, <1>8, ShownIs
      <3>2. ~Sessions!Unacknowledged
        BY <2>2, <1>3
      <3> QED BY <2>2, <3>1, <3>2, <1>3 DEF Sessions!InUse, Sessions!Unacknowledged
    <2>3. verdict' = 1 => job.kind = "directory" /\ ~Sessions!Acknowledged
      BY <1>3, <1>7, ShownIs DEF Sessions!Unacknowledged
    <2> QED BY <2>1, <2>2, <2>3, <1>1 DEF Sessions!CompareIsTrue
  <1> QED BY <1>1, <1>4, <1>5, <1>6, <1>9, ShownStays, SessionsNumbers
      DEF SessionsInv, Sessions!HourOf, Sessions!Kinds, Sessions!Running

\* The record of a run that is over: the sessions it and those before it missed are short.
LEMMA AddedKeeps ==
  ASSUME SessionsInv, NEW at \in 0 .. LastStart, NEW entire \in BOOLEAN, NEW seen \in SUBSET Sessions!Kinds,
         seen \subseteq Shown, at <= clock, clock <= at + Lag,
         records.count > 0 => records.last < at,
         entire /\ job.kind \notin seen => \E r \in at .. clock : Away(r),
         records' = [count |-> IF records.count = 0 THEN 1 ELSE 2,
                     first |-> IF records.count = 0 THEN at ELSE records.first, last |-> at,
                     gap |-> IF records.count = 0 THEN 0 ELSE Sessions!Larger(records.gap, at - records.last),
                     hours |-> records.hours \cup {Sessions!HourOf(at)},
                     whole |-> records.whole /\ entire, found |-> records.found \cup seen],
         UNCHANGED <<clock, job>>
  PROVE  /\ records' \in RecordSet /\ records'.first + records'.gap <= records'.last /\ records'.count > 0
         /\ records'.found \subseteq Shown /\ RecordsInv'
  <1> DEFINE first == IF records.count = 0 THEN at ELSE records.first
             gap == IF records.count = 0 THEN 0 ELSE Sessions!Larger(records.gap, at - records.last)
             count == IF records.count = 0 THEN 1 ELSE 2
             whole == records.whole /\ entire
             found == records.found \cup seen
             hours == records.hours \cup {Sessions!HourOf(at)}
  <1>1. records' = [count |-> count, first |-> first, last |-> at, gap |-> gap, hours |-> hours, whole |-> whole,
                    found |-> found]
    OBVIOUS
  <1>2. at \in 0 .. LastStart /\ at \in Int /\ 0 <= at /\ at \in Nat
    BY SessionsInts
  <1>3. whole \in BOOLEAN /\ (whole => records.whole /\ entire)
    BY Zenon
  <1>4. /\ found \subseteq Shown /\ found \in SUBSET Sessions!Kinds
        /\ job.kind \notin found => job.kind \notin seen /\ job.kind \notin records.found
    <2>1. records.found \subseteq Shown /\ job.kind \in Sessions!Kinds
      BY SessionsTypes
    <2>2. found \subseteq Shown
      BY <2>1
    <2>3. Shown \subseteq Sessions!Kinds
      <3> SUFFICES ASSUME NEW x \in Shown PROVE x \in Sessions!Kinds
        OBVIOUS
      <3>1. x = job.kind
        BY ShownIs
      <3> QED BY <2>1, <3>1
    <2>4. job.kind \notin found => job.kind \notin seen /\ job.kind \notin records.found
      OBVIOUS
    <2> QED BY <2>2, <2>3, <2>4
  <1>5. hours \in SUBSET Hours24
    BY <1>2, HourIs, SessionsTypes DEF Hours24
  <1>6. /\ count \in 0 .. 2 /\ first \in 0 .. LastStart /\ gap \in 0 .. LastStart /\ first + gap <= at
        /\ first \in Int /\ gap \in Int /\ count > 0 /\ (count = 2 => gap > 0)
        /\ (count < 2 => gap = 0 /\ first = at) /\ first <= at
    <2>1. CASE records.count = 0
      BY <2>1, <1>2, SessionsInts
    <2>2. CASE records.count # 0
      <3>1. /\ first = records.first /\ count = 2 /\ records.last < at
            /\ gap = Sessions!Larger(records.gap, at - records.last)
        BY <2>2, SessionsInts
      <3>2. Sessions!Larger(records.gap, at - records.last) =
              IF records.gap < at - records.last THEN at - records.last ELSE records.gap
        BY DEF Sessions!Larger
      <3> HIDE DEF first, count, gap
      <3>3. gap = records.gap \/ gap = at - records.last
        BY <3>1, <3>2
      <3>4. gap \in Int /\ gap >= at - records.last /\ gap >= records.gap
        BY <3>1, <3>2, <1>2, SessionsInts
      <3>5. at <= LastStart
        BY <1>2, SessionsNumbers
      <3>6. /\ first \in Int /\ 0 <= first /\ first <= records.last /\ records.last \in Int /\ records.last < at
            /\ first + records.gap <= records.last /\ LastStart \in Nat
        BY <3>1, SessionsInts
      <3>7. first \in 0 .. LastStart /\ first <= at
        BY <3>5, <3>6, <1>2
      <3>8. gap \in 0 .. LastStart /\ first + gap <= at /\ gap > 0
        <4>1. CASE gap = records.gap
          BY <4>1, <3>4, <3>5, <3>6, <1>2
        <4>2. CASE gap = at - records.last
          BY <4>2, <3>4, <3>5, <3>6, <1>2
        <4> QED BY <3>3, <4>1, <4>2
      <3> QED BY <3>1, <3>4, <3>6, <3>7, <3>8
    <2> QED BY <2>1, <2>2
  <1>7. records.count > 0 => gap >= records.gap /\ gap >= at - records.last /\ first = records.first
    <2> SUFFICES ASSUME records.count > 0 PROVE gap >= records.gap /\ gap >= at - records.last /\ first = records.first
      OBVIOUS
    <2>1. /\ gap = IF records.gap < at - records.last THEN at - records.last ELSE records.gap
          /\ first = records.first
      BY SessionsInts DEF Sessions!Larger
    <2> QED BY <2>1, <1>2, SessionsInts
  <1>8. records.count = 0 => first = at
    OBVIOUS
  <1> HIDE DEF first, gap, count, whole, found, hours
  <1>9. /\ records' \in RecordSet /\ records'.count = count /\ records'.first = first /\ records'.last = at
        /\ records'.gap = gap /\ records'.whole = whole /\ records'.found = found
    BY <1>1, <1>2, <1>3, <1>4, <1>5, <1>6 DEF RecordSet
  <1>10. ASSUME whole, job.kind \notin found, NEW s \in first .. at, Begins(s)
         PROVE  job.length <= Lag \/ job.length < Lag + gap
    <2>1. (entire /\ job.kind \notin seen) /\ Unseen(records)
      BY <1>3, <1>4, <1>10 DEF Unseen
    <2>2. s \in Int /\ first <= s /\ s <= at
      BY <1>2, <1>6, <1>10
    <2>3. PICK r \in at .. clock : Away(r)
      BY <2>1
    <2>4. r \in Int /\ at <= r /\ r <= clock /\ s <= r
      BY <2>2, <2>3, <1>2, SessionsInts
    <2>5. job.length <= r - s
      BY <2>2, <2>3, <2>4, <1>10, OverBy
    <2>6. r <= at + Lag
      BY <2>4, <1>2, SessionsInts
    <2>7. CASE records.count = 0
      <3>1. s = at
        BY <2>2, <2>7, <1>2, <1>8
      <3> QED BY <3>1, <2>4, <2>5, <2>6, <1>2, SessionsInts
    <2>8. CASE records.count > 0 /\ s <= records.last
      <3>1. s \in records.first .. records.last
        BY <2>2, <2>8, <1>7, SessionsInts
      <3>2. job.length <= Lag \/ job.length < Lag + records.gap
        BY <2>1, <2>8, <3>1, <1>10 DEF SessionsInv, RecordsInv
      <3> QED BY <3>2, <2>8, <1>6, <1>7, SessionsInts
    <2>9. CASE records.count > 0 /\ ~(s <= records.last)
      <3>1. gap >= at - records.last
        BY <2>9, <1>7
      <3> QED BY <3>1, <2>2, <2>4, <2>5, <2>6, <2>9, <1>2, <1>6, SessionsInts
    <2> QED BY <2>7, <2>8, <2>9, SessionsInts
  <1>11. RecordsInv'
    <2> SUFFICES ASSUME whole, job.kind \notin found
                 PROVE  \A s \in first .. at : Begins(s) => job.length <= Lag \/ job.length < Lag + gap
      BY <1>6, <1>9 DEF RecordsInv, Unseen, Begins
    <2> QED BY <1>10
  <1> QED BY <1>4, <1>6, <1>9, <1>11

\* One more vCenter's list has been read, or could not be.
LEMMA ListKeepsSessions ==
  ASSUME SessionsInv, NEW v \in VCs, NEW sees \in SUBSET Sessions!Kinds, NEW placed \in BOOLEAN,
         Sessions!Reads(v, sees, placed), sees \subseteq Shown, unreads' \in 0 .. MaxFaults,
         v = JobAt /\ placed /\ job.kind \notin sees => Away(clock)
  PROVE  SessionsInv'
  <1> DEFINE c == [census EXCEPT !.todo = @ \ {v}, !.whole = @ /\ placed, !.found = @ \cup sees]
             w == census.whole /\ placed
  <1>1. /\ v \in census.todo /\ census' = (IF c.todo = {} THEN Sessions!Idle ELSE c)
        /\ records' = (IF c.todo = {} THEN Sessions!Added(c) ELSE records)
        /\ UNCHANGED <<clock, job, verdict>>
    BY DEF Sessions!Reads
  <1>2. w \in BOOLEAN /\ (w => census.whole /\ placed)
    BY Zenon
  <1> HIDE DEF w
  <1>3. census \in Sessions!Reading /\ census.todo \subseteq VCs /\ census.found \subseteq Shown
    BY SessionsTypes
  <1>4. c = [census EXCEPT !.todo = @ \ {v}, !.whole = w, !.found = @ \cup sees]
    BY DEF w
  <1> HIDE DEF c
  <1>5. /\ c \in Sessions!Reading /\ c.at = census.at /\ c.todo = census.todo \ {v} /\ c.whole = w
        /\ c.found = census.found \cup sees
    BY <1>2, <1>3, <1>4 DEF Sessions!Reading
  <1>6. c.found \subseteq Shown
    BY <1>3, <1>5
  <1>7. /\ Sessions!Running /\ verdict = -1
        /\ c.at <= clock /\ clock <= c.at + Lag /\ (records.count > 0 => records.last < c.at)
    BY <1>1, <1>5, SessionsNumbers DEF SessionsInv, CensusInv, Sessions!Running
  <1>8. Unseen(c) /\ JobAt \notin c.todo => \E r \in c.at .. clock : Away(r)
    <2> SUFFICES ASSUME Unseen(c), JobAt \notin c.todo PROVE \E r \in c.at .. clock : Away(r)
      OBVIOUS
    <2>1. Unseen(census) /\ placed /\ job.kind \notin sees
      BY <1>2, <1>5 DEF Unseen
    <2>2. CASE v = JobAt
      <3>1. Away(clock)
        BY <2>1, <2>2
      <3>2. clock \in c.at .. clock
        BY <1>5, <1>7, SessionsInts
      <3> QED BY <3>1, <3>2
    <2>3. CASE v # JobAt
      <3>1. JobAt \notin census.todo
        BY <2>3, <1>5
      <3> QED BY <2>1, <3>1, <1>5, <1>7 DEF SessionsInv, CensusInv
    <2> QED BY <2>2, <2>3
  <1>9. Sessions!CompareIsTrue'
    BY <1>1, <1>7 DEF Sessions!CompareIsTrue
  <1>10. /\ clock' \in 0 .. Sessions!End /\ job' \in Sessions!Jobs /\ verdict' \in {-1, 0, 1, 3, 4, 5}
    BY <1>1, SessionsNumbers DEF SessionsInv, Sessions!TypeOK
  <1>11. CASE c.todo = {}
    <2>1. census' = Sessions!Idle /\ records' = Sessions!Added(c)
      BY <1>1, <1>11
    <2>2. /\ records' \in RecordSet /\ records'.first + records'.gap <= records'.last /\ records'.count > 0
          /\ records'.found \subseteq Shown /\ RecordsInv'
      <3> DEFINE at == c.at
                 seen == c.found
      <3>1. at \in 0 .. LastStart /\ seen \in SUBSET Sessions!Kinds
        BY <1>5 DEF Sessions!Reading
      <3>2. /\ seen \subseteq Shown /\ at <= clock /\ clock <= at + Lag /\ (records.count > 0 => records.last < at)
            /\ w /\ job.kind \notin seen => \E r \in at .. clock : Away(r)
        BY <1>5, <1>6, <1>7, <1>8, <1>11 DEF Unseen
      <3>3. records' = [count |-> IF records.count = 0 THEN 1 ELSE 2,
                        first |-> IF records.count = 0 THEN at ELSE records.first, last |-> at,
                        gap |-> IF records.count = 0 THEN 0 ELSE Sessions!Larger(records.gap, at - records.last),
                        hours |-> records.hours \cup {Sessions!HourOf(at)},
                        whole |-> records.whole /\ w, found |-> records.found \cup seen]
        BY <2>1, <1>5 DEF Sessions!Added
      <3> HIDE DEF at, seen
      <3> QED BY <3>1, <3>2, <3>3, <1>1, <1>2, AddedKeeps
    <2>3. census' \in Sessions!Reading /\ census'.todo = {} /\ census'.found = {}
      BY <2>1, SessionsNumbers DEF Sessions!Idle, Sessions!Reading
    <2>4. Sessions!TypeOK'
      <3>1. /\ records'.count \in 0 .. 2 /\ {records'.first, records'.last} \subseteq 0 .. LastStart
            /\ records'.gap \in 0 .. LastStart /\ records'.hours \subseteq Hours24
            /\ records'.whole \in BOOLEAN /\ records'.found \subseteq Sessions!Kinds
        BY <2>2 DEF RecordSet
      <3>2. records'.found \subseteq Sessions!Kinds \ {"not placed"}
        BY <2>2, <3>1, ShownIs
      <3> QED BY <2>2, <2>3, <3>1, <3>2, <1>10, SessionsNumbers
          DEF Sessions!TypeOK, Sessions!Jobs, Sessions!Reading, Sessions!DayOf, Sessions!End,
               Sessions!HourOf, Sessions!Kinds,
              Sessions!Never, Hours24
    <2>5. CensusInv'
      BY <2>3 DEF CensusInv, Sessions!Running
    <2>6. census'.found \subseteq Shown
      BY <2>3, ShownIs
    <2> QED BY <2>2, <2>3, <2>4, <2>5, <2>6, <1>1, <1>9, ShownStays, SessionsNumbers
        DEF SessionsInv, RecordSet, Hours24, Sessions!HourOf, Sessions!Kinds, Sessions!Running
  <1>12. CASE c.todo # {}
    <2>1. census' = c /\ records' = records
      BY <1>1, <1>12
    <2>2. Sessions!TypeOK'
      BY <2>1, <1>5, <1>10, SessionsNumbers
      DEF SessionsInv, Sessions!TypeOK, Sessions!Jobs, Sessions!Reading, Sessions!DayOf, Sessions!End, Sessions!HourOf,
          Sessions!Kinds, Sessions!Never
    <2>3. CensusInv'
      BY <2>1, <1>1, <1>7, <1>8 DEF CensusInv, Unseen, Away
    <2>4. RecordsInv'
      BY <2>1, <1>1 DEF SessionsInv, RecordsInv, Unseen, Begins
    <2> QED BY <2>1, <2>2, <2>3, <2>4, <1>1, <1>6, <1>7, <1>9, ShownStays, SessionsNumbers
        DEF SessionsInv, Sessions!HourOf, Sessions!Kinds
  <1> QED BY <1>11, <1>12

\* A job that has no session at this moment is away.
LEMMA NotSignedIn ==
  ASSUME SessionsInv, ~Sessions!SignedIn
  PROVE  Away(clock)
  <1>1. job.offset \in Int /\ Cycle \in Nat \ {0}
    BY SessionsTypes, SessionsNumbers
  <1>2. clock - job.offset \in Int
    BY <1>1, SessionsInts
  <1>3. (clock - job.offset) % Cycle \in Int /\ job.length \in Int
    BY <1>1, <1>2, SessionsInts
  <1> QED BY <1>3 DEF Sessions!SignedIn, Away

\* Every step of the sessions keeps the invariant.
LEMMA SessionsStep ==
  ASSUME SessionsInv, Sessions!Next
  PROVE  SessionsInv'
  <1>1. ASSUME NEW v \in VCs, Sessions!ReadsList(v)
        PROVE  SessionsInv'
    <2> DEFINE sees == IF v = JobAt /\ Sessions!SignedIn THEN {job.kind} ELSE {}
               placed == "not placed" \notin sees
    <2>1. Sessions!Reads(v, sees \ {"not placed"}, placed) /\ unreads' = unreads
      BY <1>1 DEF Sessions!ReadsList
    <2>2. placed \in BOOLEAN /\ sees \ {"not placed"} \in SUBSET Sessions!Kinds /\ sees \ {"not placed"} \subseteq Shown
      <3>1. job.kind \in Sessions!Kinds
        BY SessionsTypes
      <3>2. sees \subseteq {job.kind}
        OBVIOUS
      <3> HIDE DEF sees
      <3>3. sees \ {"not placed"} \subseteq Shown
        BY <3>2, ShownIs
      <3>4. sees \ {"not placed"} \in SUBSET Sessions!Kinds
        BY <3>1, <3>2
      <3> QED BY <3>3, <3>4
    <2>3. unreads' \in 0 .. MaxFaults
      BY <2>1, SessionsTypes
    <2>4. v = JobAt /\ placed /\ job.kind \notin sees \ {"not placed"} => Away(clock)
      <3> SUFFICES ASSUME v = JobAt, placed, job.kind \notin sees \ {"not placed"} PROVE Away(clock)
        OBVIOUS
      <3>1. ~Sessions!SignedIn
        OBVIOUS
      <3> QED BY <3>1, NotSignedIn
    <2> HIDE DEF sees, placed
    <2> QED BY <2>1, <2>2, <2>3, <2>4, ListKeepsSessions
  <1>2. ASSUME NEW v \in VCs, Sessions!Unread(v)
        PROVE  SessionsInv'
    <2>1. unreads < MaxFaults /\ unreads' = unreads + 1 /\ Sessions!Reads(v, {}, FALSE)
      BY <1>2 DEF Sessions!Unread
    <2>2. unreads' \in 0 .. MaxFaults
      BY <2>1, SessionsTypes, SessionsNumbers
    <2>3. {} \subseteq Shown /\ {} \in SUBSET Sessions!Kinds /\ FALSE \in BOOLEAN
      BY ShownIs
    <2> QED BY <2>1, <2>2, <2>3, ListKeepsSessions
  <1> QED BY <1>1, <1>2, TickKeepsSessions, StartKeepsSessions, CompareKeepsSessions DEF Sessions!Next

-----------------------------------------------------------------------------
(* All of them. *)

\* The behaviour's script keeps its component's invariant.
WatchInv ==
  /\ script \in {"keys", "credentials", "schedules", "sessions"}
  /\ script = "keys" => KeysInv
  /\ script = "credentials" => CredsInv
  /\ script = "schedules" => SchedulesInv
  /\ script = "sessions" => SessionsInv

\* A step that leaves the variables of a component alone leaves its invariant alone.
LEMMA KeysStay == ASSUME KeysInv, UNCHANGED keys PROVE KeysInv'
  BY DEF keys, KeysInv, OnSchedule, Keys!TypeOK, Keys!Never, Keys!Hour, Keys!Ages, Keys!Longest

\* The same of the credentials.
LEMMA CredsStay == ASSUME CredsInv, UNCHANGED creds PROVE CredsInv'
  <1>1. UNCHANGED <<now, Facts>> /\ UNCHANGED <<watch, last, since, told, acts, readFaults>>
    BY DEF creds, Facts
  <1>2. Roll!TypeOK' /\ watch' \in Watches /\ now' <= last' + Period /\ since' <= now'
    BY <1>1 DEF CredsInv, Facts, Roll!TypeOK, Roll!Unread, Watches
  <1>3. ReadInv' /\ ToldInv'
    BY <1>1, FactsStay DEF CredsInv, ReadInv, ToldInv, Facts, Roll!Idle
  <1>4. Roll!ExitIsTrue'
    <2>1. (Roll!Said(0)' => Passes') /\ (Roll!Said(2)' => Stopped')
      BY <1>1, FactsStay, ExitIs DEF CredsInv, Roll!Said
    <2> QED BY <2>1 DEF Roll!ExitIsTrue, Passes, Stopped, Warning
  <1> QED BY <1>2, <1>3, <1>4 DEF CredsInv, Watches

\* The same of the schedules.
LEMMA SchedulesStay == ASSUME SchedulesInv, UNCHANGED schedules PROVE SchedulesInv'
  <1>1. UNCHANGED <<orgs, config, run, exits, changes, orgFaults>>
    BY DEF schedules
  <1>2. Runs!TypeOK'
    BY <1>1 DEF SchedulesInv, Runs!TypeOK, Runs!Orgs, Runs!Organization, Runs!Off, Runs!Configuration, Runs!Tally,
       Runs!Stale, Runs!States, Runs!Modes
  <1>3. /\ \A t, o : Failing(t, o)' = Failing(t, o) /\ Judging(t, o)' = Judging(t, o)
        /\ \A t, o, S : Clean(t, o, S)' = Clean(t, o, S)
    BY <1>1 DEF Clean, Failing, Judging, Mine
  <1>4. TallyInv'
    <2>1. Runs!Orgs' = Runs!Orgs
      BY DEF Runs!Orgs
    <2> QED BY <1>1, <1>3, <2>1 DEF SchedulesInv, TallyInv
  <1>5. ExitInv'
    <2>1. Runs!Orgs' = Runs!Orgs
      BY DEF Runs!Orgs
    <2> QED BY <1>1, <1>3, <2>1 DEF SchedulesInv, ExitInv
  <1>6. run' \in [pc : {"idle", "reading"}, of : Tenants, at : 1 .. Count + 1, tally : Runs!Tally, refused : BOOLEAN,
                  quiet : BOOLEAN]
    BY <1>1 DEF SchedulesInv
  <1> QED BY <1>2, <1>4, <1>5, <1>6 DEF SchedulesInv, Runs!Tally, Runs!States

\* The same of the sessions.
LEMMA SessionsStay == ASSUME SessionsInv, UNCHANGED sessions PROVE SessionsInv'
  <1>1. UNCHANGED <<clock, job, census, records, verdict, unreads>>
    BY DEF sessions
  <1>2. Sessions!TypeOK'
    BY <1>1 DEF SessionsInv, Sessions!TypeOK, Sessions!Jobs, Sessions!Reading, Sessions!DayOf, Sessions!End,
       Sessions!HourOf, Sessions!Kinds, Sessions!Never
  <1>3. CensusInv' /\ RecordsInv'
    BY <1>1 DEF SessionsInv, CensusInv, RecordsInv, Unseen, Away, Begins, Sessions!Running
  <1>4. Sessions!CompareIsTrue'
    BY <1>1 DEF SessionsInv, Sessions!CompareIsTrue, Sessions!InUse, Sessions!TooLongToMiss, Sessions!Acknowledged,
       Sessions!DayOf, Sessions!Never
  <1> QED BY <1>1, <1>2, <1>3, <1>4, ShownStays
      DEF SessionsInv, Sessions!HourOf, Sessions!Kinds, Sessions!Running, Sessions!Never

\* Each component begins within its invariant.
LEMMA WatchStart ==
  ASSUME Init
  PROVE  WatchInv
  <1>1. script \in {"keys", "credentials", "schedules", "sessions"}
    BY DEF Init
  <1>2. Keys!Init /\ Roll!Init /\ Runs!Init /\ Sessions!Init
    BY DEF Init, KeysInit, KeysRest, CredsInit, CredsRest, SchedulesInit, SchedulesRest, SessionsInit, SessionsRest
  <1> QED BY <1>1, <1>2, KeysStart, CredsStart, SchedulesStart, SessionsStart DEF WatchInv

\* Each step is one of the chosen component's, or nobody's.
LEMMA WatchStep ==
  ASSUME WatchInv, [Next]_vars
  PROVE  WatchInv'
  <1>1. CASE Next
    <2>1. script' = script
      BY <1>1 DEF Next
    <2>2. CASE script = "keys"
      BY <1>1, <2>1, <2>2, KeysStep DEF Next, WatchInv
    <2>3. CASE script = "credentials"
      BY <1>1, <2>1, <2>3, CredsStep DEF Next, WatchInv
    <2>4. CASE script = "schedules"
      BY <1>1, <2>1, <2>4, SchedulesStep DEF Next, WatchInv
    <2>5. CASE script = "sessions"
      BY <1>1, <2>1, <2>5, SessionsStep DEF Next, WatchInv
    <2> QED BY <2>2, <2>3, <2>4, <2>5 DEF WatchInv
  <1>2. CASE UNCHANGED vars
    <2>1. script' = script /\ UNCHANGED keys /\ UNCHANGED creds /\ UNCHANGED schedules /\ UNCHANGED sessions
      BY <1>2 DEF vars
    <2> QED BY <2>1, KeysStay, CredsStay, SchedulesStay, SessionsStay DEF WatchInv
  <1> QED BY <1>1, <1>2

\* The inductive invariant of the four components.
THEOREM WatchAlways == Spec => []WatchInv
  <1>1. Init => WatchInv
    BY WatchStart
  <1>2. WatchInv /\ [Next]_vars => WatchInv'
    BY WatchStep
  <1> QED BY <1>1, <1>2, PTL DEF Spec

\* The types of signing keys, credentials, schedules and sessions.
THEOREM WatchTypes == Spec => []TypeOK
  <1>1. WatchInv => TypeOK
    BY DEF WatchInv, KeysInv, CredsInv, SchedulesInv, SessionsInv, TypeOK
  <1> QED BY <1>1, WatchAlways, PTL

\* What a run says is so: a refresh said to fail has failed, exits 0 and 2 of a credential and of all the schedules,
\* and exits 0, 1 and 4 of a comparison of session records, for any timing of runs, rolls, reads and sessions.
THEOREM ExitAlwaysTrue == Spec => []ExitIsTrue
  <1>1. WatchInv => ExitIsTrue
    BY KeysPromises, SchedulesPromises DEF WatchInv, CredsInv, SessionsInv, ExitIsTrue
  <1> QED BY <1>1, WatchAlways, PTL

\* No credential ends unannounced as long as runs begin within Period of each other, and no organization lacks a key
\* for longer than its interval and an hour without a refresh that failed, nor unseen.
THEOREM EndAlwaysForetold == Spec => []EndIsForetold
  <1>1. WatchInv => EndIsForetold
    BY KeysPromises, CredsPromise DEF WatchInv, EndIsForetold
  <1> QED BY <1>1, WatchAlways, PTL
=============================================================================
