--------------------------- MODULE BackupSchedule ---------------------------
(***************************************************************************)
(* Scheduled backups: the scheduler that wakes on wall-clock ticks, the run *)
(* it takes when one is due, pruning, the next run that the server names,   *)
(* and the schedule card with its draft.  `part` chooses what is followed:  *)
(* the clock, or the card.                                                  *)
(***************************************************************************)
EXTENDS Naturals, FiniteSets, FiniteSetsExt

CONSTANTS Tick,     \* seconds between two checks of the scheduler (backupTick)
          Interval, \* cadence -> its period in seconds
          KeepMax,  \* the largest keep that may be set (the smallest is 1)
          KeepDefault, \* the keep that is applied while none is set
          Keeps,    \* keeps that a configuration may hold; 0: none was ever set
          MaxNow,   \* bound: the clock
          MaxLate,  \* bound: seconds the timer may fire late
          MaxSaves  \* bound: saves of this page and of another one

VARIABLES
  part,     \* "clock" or "card"
  now,      \* the server's wall clock
  wake,     \* when the scheduler's timer is due
  sched,    \* the stored schedule: on, cadence, keep, lastRun (0: never)
  taken,    \* times of the scheduled backups that are kept
  promise,  \* the next run a client was told since the last run or save; 0: none
  cached,   \* the card's query: the schedule as the server last sent it
  form,     \* the fields: on, cadence, keep (0: emptied)
  seed,     \* the values the fields were last filled with
  invalid,  \* the keep field is marked
  touched,  \* the user changed a field since it was filled
  save,     \* the save under way
  saves     \* counter of the bound

vars == <<part, now, wake, sched, taken, promise, cached, form, seed, invalid, touched, save, saves>>
clock == <<now, wake, taken, promise>>
card  == <<cached, form, seed, invalid, touched, save, saves>>

Cadences == DOMAIN Interval
NoSave   == [st |-> "no"]

(***************************************************************************)
(* The server                                                               *)
(***************************************************************************)
\* Faulty variant: a run is named for the tick before its time.
NextTickDown(t) == (t \div Tick) * Tick

NextTick(t) == ((t + Tick - 1) \div Tick) * Tick

\* The later of now and the last run plus the period, rounded up to a tick; 0 while it is off.
NextRun(t) ==
  IF ~sched.on THEN 0
  ELSE NextTick(IF sched.lastRun = 0 THEN t ELSE Max({t, sched.lastRun + Interval[sched.cadence]}))

EffectiveKeep(k) == IF k = 0 THEN KeepDefault ELSE k
Newest(S, k) == {t \in S : Cardinality({u \in S : u > t}) < k}

\* The schedule as GET sends it.
WireSchedule(s) == [on |-> s.on, cadence |-> s.cadence, keep |-> EffectiveKeep(s.keep)]

\* Time passes up to the timer; it may fire late.
Pass ==
  /\ part = "clock" /\ now < MaxNow /\ now < wake + MaxLate /\ now' = now + 1
  /\ UNCHANGED <<part, wake, sched, taken, promise, card>>

\* maybeRunScheduledBackup, then the timer is armed for the next tick from the wall clock.  A
\* backup that fails leaves the last run alone, so the next tick tries again.
Due == sched.on /\ (sched.lastRun = 0 \/ now - sched.lastRun >= Interval[sched.cadence])
Wake ==
  /\ part = "clock" /\ now >= wake /\ wake' = (now \div Tick) * Tick + Tick
  /\ \/ /\ Due
        /\ sched' = [sched EXCEPT !.lastRun = now]
        /\ taken' = Newest(taken \cup {now}, EffectiveKeep(sched.keep)) /\ promise' = 0
     \/ Due /\ promise' = 0 /\ UNCHANGED <<sched, taken>>
     \/ ~Due /\ UNCHANGED <<sched, taken, promise>>
  /\ UNCHANGED <<part, now, card>>

\* A client reads the schedule, between two wakes of the scheduler (the server's clock is finer
\* than the model's, so that a read is before or after a tick, never at it).
ReadSchedule ==
  /\ part = "clock" /\ now < wake /\ now % Tick # 0 /\ sched.on /\ promise = 0 /\ promise' = NextRun(now)
  /\ UNCHANGED <<part, now, wake, sched, taken, card>>

\* A keep above the largest one is taken only when it is the stored one.
Accepts(k) == k \in 1 .. KeepMax \/ (k > KeepMax /\ k = sched.keep)
\* The last run stays; a schedule that is on prunes at once.
Stored(f) ==
  /\ sched' = [sched EXCEPT !.on = f.on, !.cadence = f.cadence, !.keep = f.keep]
  /\ taken' = IF f.on THEN Newest(taken, EffectiveKeep(f.keep)) ELSE taken
  /\ promise' = 0

SaveElsewhere ==
  /\ saves < MaxSaves /\ saves' = saves + 1
  /\ \E f \in [on : BOOLEAN, cadence : Cadences, keep : 1 .. KeepMax] : Stored(f)
  /\ UNCHANGED <<part, now, wake, cached, form, seed, invalid, touched, save>>

(***************************************************************************)
(* The card                                                                 *)
(***************************************************************************)
\* The stored keep goes back as it is; any other one is brought into 1 .. KeepMax.
ClampKeep(k, stored) == IF k = 0 \/ k = stored THEN stored ELSE Min({KeepMax, k})
ScheduleDirty == \/ form.keep = 0 \/ form.on # cached.on \/ form.cadence # cached.cadence
                 \/ ClampKeep(form.keep, cached.keep) # cached.keep

SeedKey(s) == s

\* The query gets an answer: values that are new fill the fields in place.
Receive(s, f, marked) ==
  /\ cached' = s
  /\ IF SeedKey(s) # seed
     THEN seed' = SeedKey(s) /\ form' = s /\ invalid' = FALSE /\ touched' = FALSE
     ELSE form' = f /\ invalid' = marked /\ UNCHANGED <<seed, touched>>

Refetch ==
  /\ part = "card" /\ cached # WireSchedule(sched) /\ Receive(WireSchedule(sched), form, invalid)
  /\ UNCHANGED <<part, clock, sched, save, saves>>

\* The keep field takes whole numbers from 1 to the largest keep, or to a stored one above it.
Edit ==
  /\ part = "card" /\ touched' = TRUE
  /\ \/ form' = [form EXCEPT !.on = ~@] /\ UNCHANGED invalid
     \/ \E c \in Cadences \ {form.cadence} : form' = [form EXCEPT !.cadence = c] /\ UNCHANGED invalid
     \/ \E k \in 0 .. Max({KeepMax, cached.keep}) \ {form.keep} :
          form' = [form EXCEPT !.keep = k] /\ invalid' = FALSE
  /\ UNCHANGED <<part, clock, sched, cached, seed, save, saves>>

Submit ==
  /\ part = "card" /\ ScheduleDirty /\ save = NoSave /\ saves < MaxSaves /\ saves' = saves + 1
  /\ form' = [form EXCEPT !.keep = ClampKeep(@, cached.keep)]
  /\ save' = [st |-> "sent", form |-> form']
  /\ UNCHANGED <<part, clock, sched, cached, seed, invalid, touched>>

Serve ==
  /\ save.st = "sent"
  /\ \/ Accepts(save.form.keep) /\ Stored(save.form) /\ save' = [st |-> "done", view |-> WireSchedule(sched')]
     \/ ~Accepts(save.form.keep) /\ save' = [st |-> "invalid"] /\ UNCHANGED <<sched, taken, promise>>
  /\ UNCHANGED <<part, now, wake, cached, form, seed, invalid, touched, saves>>

\* The answer carries the saved schedule, which goes to the cache and from there to the fields.
Answer ==
  /\ save' = NoSave
  /\ \/ save.st = "done" /\ Receive(save.view, form, invalid)
     \/ save.st = "invalid" /\ invalid' = TRUE /\ UNCHANGED <<cached, form, seed, touched>>
  /\ UNCHANGED <<part, clock, sched, saves>>

Init ==
  /\ part \in {"clock", "card"} /\ now = 1 /\ wake = Tick /\ taken = {} /\ promise = 0
  /\ sched \in [on : BOOLEAN, cadence : Cadences, keep : Keeps, lastRun : {0}]
  /\ cached = WireSchedule(sched) /\ form = cached /\ seed = SeedKey(cached)
  /\ invalid = FALSE /\ touched = FALSE /\ save = NoSave /\ saves = 0

Next == Pass \/ Wake \/ ReadSchedule \/ SaveElsewhere \/ Refetch \/ Edit \/ Submit \/ Serve \/ Answer
Spec == Init /\ [][Next]_vars

(***************************************************************************)
(* Properties                                                               *)
(***************************************************************************)
TypeOK ==
  /\ sched.on \in BOOLEAN /\ sched.cadence \in Cadences /\ sched.keep \in Nat /\ wake % Tick = 0
  /\ form.keep \in Nat /\ form.cadence \in Cadences /\ saves <= MaxSaves

\* A backup is never later than the run the server named: as long as the named run stands, neither
\* taken nor tried nor replaced by a save, the scheduler's next wake is not behind it, however late
\* its timer fires.
RunNotLaterThanNamed == promise # 0 => wake <= promise

\* The card says "Unsaved changes" only for what the user changed since the fields were filled,
\* whatever saves of another tab, refused keeps and answers came in between.
UnsavedIsTyped == ScheduleDirty => touched

ScheduleKeepsItsWord == TypeOK /\ RunNotLaterThanNamed /\ UnsavedIsTyped
=============================================================================
