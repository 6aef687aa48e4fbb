------------------------------ MODULE Scheduler ------------------------------
(***************************************************************************)
(* The backup scheduler (internal/backup/schedule.go): the loop of Start    *)
(* with its timer, runs asked for by hand beside it, the record of the last *)
(* run, the mail to the operator, and edits of the schedule                 *)
(* (handlePutBackupConfig, in internal/server/backupengine.go).             *)
(*                                                                          *)
(* Time goes in ticks, and is kept as the hour of the day, what is left on  *)
(* the timer and the age of the record.  Timers fire in their tick; the     *)
(* loop and the bookkeeping of a run take no time, though other goroutines  *)
(* may step in between; backups and the mail take any time.  What a run     *)
(* does to its targets is left to AppBackup, and pruning to Engines.        *)
(***************************************************************************)
EXTENDS Integers

CONSTANTS
  Manual,   \* runs asked for by hand
  Night,    \* the run of the schedule
  None,     \* no record of a last run
  Day,      \* ticks in a day
  Hours,    \* times of the day the schedule may be set to
  Jitter,   \* the box's offset: the schedule's run starts so much later
  Grace,    \* an hour: a record is old after a day and an hour
  MaxEdits, \* bound on edits under way at once
  Faults    \* TRUE when mails and writes of the record may fail

ASSUME SchedulerAssumption ==
  /\ Night \notin Manual
  /\ Day \in Nat \ {0} /\ Jitter \in Nat /\ Grace \in Nat
  /\ Hours # {} /\ Hours \subseteq 0..(Day - 1)
  /\ MaxEdits \in Nat
  /\ Faults \in BOOLEAN
  /\ None \notin [age : Nat, failed : BOOLEAN] \cup BOOLEAN

Runs == Manual \cup {Night}
Configs == [on : BOOLEAN, at : Hours]
Old == Day + Grace + 1
Records == [age : 0..Old, failed : BOOLEAN]

VARIABLES
  hour,     \* of the day
  conf,     \* the stored configuration: enabled, and at which hour
  unsaid,   \* edits stored of which Reload has not told the loop yet
  reload,   \* the channel of capacity one holds a token
  loop,     \* "off" (no process), "plan", "arm", "wait" or "run"
  planned,  \* the configuration the timer was computed from
  left,     \* what is left on the timer
  pc,       \* pc[r]: where run r is
  running,  \* state.Running
  failures, \* state.Failures is not zero
  failed,   \* failed[r]: run r's own copy of it
  prev,     \* prev[r]: whether the last run failed, as run r read it, or None
  last,     \* the record on disk
  told,     \* the last mail said that backups fail
  steady,   \* since this night's hour only a timer or a run has moved the loop
  covered,  \* there was a run in progress at that hour or since
  excused   \* the record and the mail were kept from going together

vars == <<hour, conf, unsaid, reload, loop, planned, left, pc, running, failures,
          failed, prev, last, told, steady, covered, excused>>
config == <<conf, unsaid>>
timer == <<planned, left>>
runState == <<running, failures>>
own == <<failed, prev>>
news == <<last, told, excused>>
night == <<steady, covered>>

\* A run under RunAll's flag, and the rest of it.
Busy == {"targets", "read", "clear"}
Ending == {"clear", "write", "mail"}

\* The types, and that the loop is inside a run exactly while the run is under way.
TypeOK ==
  /\ hour \in 0..(Day - 1)
  /\ conf \in Configs /\ planned \in Configs
  /\ unsaid \in 0..MaxEdits
  /\ loop \in {"off", "plan", "arm", "wait", "run"}
  /\ left \in 0..(Day + Jitter)
  /\ pc \in [Runs -> {"idle", "claim", "write", "mail"} \cup Busy]
  /\ loop = "run" <=> pc[Night] # "idle"
  /\ loop = "off" => ~reload /\ unsaid = 0 /\ \A r \in Runs : pc[r] = "idle"
  /\ failed \in [Runs -> BOOLEAN]
  /\ prev \in [Runs -> BOOLEAN \cup {None}]
  /\ last \in Records \cup {None}
  /\ {reload, running, failures, told, steady, covered, excused} \subseteq BOOLEAN

Init ==
  /\ hour = 0
  /\ conf \in Configs /\ planned = conf
  /\ unsaid = 0
  /\ reload = FALSE
  /\ loop = "plan" /\ left = 0
  /\ pc = [r \in Runs |-> "idle"]
  /\ running = FALSE /\ failures = FALSE
  /\ failed = [r \in Runs |-> FALSE]
  /\ prev = [r \in Runs |-> None]
  /\ last = None /\ told = FALSE /\ excused = FALSE
  /\ steady = FALSE /\ covered = FALSE

-----------------------------------------------------------------------------
(* The timetable *)

\* untilNext: ticks to the next hour h, a whole day at that hour itself.
UntilNext(h) == 1 + ((h - hour - 1) % Day)

\* missedARun: there is a record, more than a day and an hour old.
Missed == last # None /\ last.age > Day + Grace

\* Mutant of Wait: a ticker of 24 hours, set right only when there is no record.
TickerWait(c) == IF last = None THEN UntilNext(c.at) + Jitter ELSE Day

\* How long the loop's timer is set for: a minute if a run was missed.
Wait(c) == IF c.on /\ Missed THEN 0 ELSE UntilNext(c.at) + Jitter

\* The loop reads the configuration ...
Plan ==
  /\ loop = "plan"
  /\ loop' = "arm"
  /\ planned' = conf
  /\ UNCHANGED <<hour, config, reload, left, pc, runState, own, news, night>>

\* ... then the record, sets its timer and waits.
Arm ==
  /\ loop = "arm"
  /\ loop' = "wait"
  /\ left' = Wait(planned)
  /\ UNCHANGED <<hour, config, reload, planned, pc, runState, own, news, night>>

TakeReload ==
  /\ loop = "wait" /\ reload
  /\ reload' = FALSE
  /\ loop' = "plan"
  /\ left' = 0
  /\ steady' = FALSE
  /\ UNCHANGED <<hour, config, planned, pc, runState, own, news, covered>>

\* The timer fires; whether the schedule is enabled is read again.
Fire ==
  /\ loop = "wait" /\ left = 0
  /\ \/ conf.on /\ loop' = "run" /\ pc' = [pc EXCEPT ![Night] = "claim"]
     \/ ~conf.on /\ loop' = "plan" /\ UNCHANGED pc
  /\ UNCHANGED <<hour, config, reload, timer, runState, own, news, night>>

\* Nothing that takes no time is left to do in this tick.
Settled ==
  /\ loop \notin {"plan", "arm"} /\ unsaid = 0
  /\ ~(loop = "wait" /\ (reload \/ left = 0))
  /\ \A r \in Runs : pc[r] \notin {"claim", "read", "clear", "write"}

Tick ==
  /\ Settled
  /\ hour' = (hour + 1) % Day
  /\ left' = IF loop = "wait" THEN left - 1 ELSE left
  /\ last' = IF last # None /\ last.age < Old THEN [last EXCEPT !.age = @ + 1] ELSE last
  /\ IF hour' = conf.at THEN steady' = (loop # "off") /\ covered' = running
                        ELSE UNCHANGED night
  /\ UNCHANGED <<config, reload, loop, planned, pc, runState, own, told, excused>>

-----------------------------------------------------------------------------
(* A run *)

\* The call of RunAll returns; the schedule's own goes back to its loop.
Leave(r) ==
  /\ pc' = [pc EXCEPT ![r] = "idle"]
  /\ loop' = IF r = Night THEN "plan" ELSE loop
  /\ failed' = [failed EXCEPT ![r] = FALSE]
  /\ prev' = [prev EXCEPT ![r] = None]

Goto(r, stage) ==
  /\ pc' = [pc EXCEPT ![r] = stage]
  /\ UNCHANGED loop

Ask(r) ==
  /\ loop # "off" /\ r # Night /\ pc[r] = "idle"
  /\ Goto(r, "claim")
  /\ UNCHANGED <<hour, config, reload, timer, runState, own, news, night>>

Enter(r) ==
  /\ running' = TRUE /\ failures' = FALSE /\ covered' = TRUE
  /\ Goto(r, "targets")
  /\ UNCHANGED own

\* Mutant of Claim: a second run is let in.
ClaimAnyway(r) ==
  /\ pc[r] = "claim"
  /\ Enter(r)
  /\ UNCHANGED <<hour, config, reload, timer, news, steady>>

\* Skip, do not queue: a run in progress turns the next one away.
Claim(r) ==
  /\ pc[r] = "claim"
  /\ \/ ~running /\ Enter(r)
     \/ running /\ Leave(r) /\ UNCHANGED <<runState, covered>>
  /\ UNCHANGED <<hour, config, reload, timer, news, steady>>

\* One target is backed up and recorded: a failure does not stop the rest.
Target(r) ==
  /\ pc[r] = "targets"
  /\ \E bad \in BOOLEAN, stage \in {"targets", "read"} :
       /\ failures' = (failures \/ bad)
       /\ Goto(r, stage)
  /\ UNCHANGED <<hour, config, reload, timer, running, own, news, night>>

\* The previous record is read, although another run may be about to write one.
ReadLast(r) ==
  /\ pc[r] = "read"
  /\ prev' = [prev EXCEPT ![r] = IF last = None THEN None ELSE last.failed]
  /\ excused' = (excused \/ \E q \in Runs : pc[q] \in {"write", "mail"})
  /\ Goto(r, "clear")
  /\ UNCHANGED <<hour, config, reload, timer, runState, failed, last, told, night>>

\* Running is cleared, the failures are taken along.
Clear(r) ==
  /\ pc[r] = "clear"
  /\ running' = FALSE
  /\ failed' = [failed EXCEPT ![r] = failures]
  /\ Goto(r, "write")
  /\ UNCHANGED <<hour, config, reload, timer, failures, prev, news, night>>

\* The record is written, or is not, or is cut: an unreadable one is none.
WriteLast(r) ==
  /\ pc[r] = "write"
  /\ \/ last' = [age |-> 0, failed |-> failed[r]] /\ UNCHANGED excused
     \/ Faults /\ last' \in {last, None} /\ excused' = TRUE
  /\ Goto(r, "mail")
  /\ UNCHANGED <<hour, config, reload, timer, runState, own, told, night>>

\* Mutant of Changed: the first run of all is never announced.
ChangedFirst(r) == prev[r] # None /\ prev[r] # failed[r]

\* notifyOutcome: the health changed, or the first run of all failed.
Changed(r) == IF prev[r] = None THEN failed[r] ELSE prev[r] # failed[r]

Mail(r) ==
  /\ pc[r] = "mail"
  /\ \/ Changed(r) /\ told' = failed[r] /\ UNCHANGED excused
     \/ Changed(r) /\ Faults /\ excused' = TRUE /\ UNCHANGED told
     \/ ~Changed(r) /\ UNCHANGED <<told, excused>>
  /\ Leave(r)
  /\ steady' = (steady /\ r # Night)
  /\ UNCHANGED <<hour, config, reload, timer, runState, last, covered>>

RunStep(r) ==
  Ask(r) \/ Claim(r) \/ Target(r) \/ ReadLast(r) \/ Clear(r) \/ WriteLast(r) \/ Mail(r)

-----------------------------------------------------------------------------
(* Edits, and the box *)

\* handlePutBackupConfig stores the configuration ...
Store ==
  /\ loop # "off" /\ unsaid < MaxEdits
  /\ conf' \in Configs \ {conf}
  /\ unsaid' = unsaid + 1
  /\ steady' = FALSE
  /\ UNCHANGED <<hour, reload, loop, timer, pc, runState, own, news, covered>>

\* Mutant of Reload: the loop must be waiting to hear of it.
ReloadUnbuffered ==
  /\ unsaid > 0
  /\ unsaid' = unsaid - 1
  /\ reload' = (reload \/ loop = "wait")
  /\ UNCHANGED <<hour, conf, loop, timer, pc, runState, own, news, night>>

\* ... and tells the loop.  Reload never blocks: a token more or the one there was.
Reload ==
  /\ unsaid > 0
  /\ unsaid' = unsaid - 1
  /\ reload' = TRUE
  /\ UNCHANGED <<hour, conf, loop, timer, pc, runState, own, news, night>>

\* The box is switched off, or Maison is killed.
PowerOff ==
  /\ loop # "off"
  /\ loop' = "off"
  /\ pc' = [r \in Runs |-> "idle"]
  /\ failed' = [r \in Runs |-> FALSE] /\ prev' = [r \in Runs |-> None]
  /\ running' = FALSE /\ failures' = FALSE /\ reload' = FALSE /\ unsaid' = 0 /\ left' = 0
  /\ steady' = FALSE
  /\ excused' = (excused \/ \E r \in Runs : pc[r] = "mail" /\ Changed(r))
  /\ UNCHANGED <<hour, conf, planned, last, told, covered>>

Boot ==
  /\ loop = "off"
  /\ loop' = "plan"
  /\ UNCHANGED <<hour, config, reload, timer, pc, runState, own, news, night>>

Next ==
  \/ Plan \/ Arm \/ TakeReload \/ Fire \/ Tick
  \/ \E r \in Runs : RunStep(r)
  \/ Store \/ Reload \/ PowerOff \/ Boot

Spec == Init /\ [][Next]_vars

-----------------------------------------------------------------------------
(* Properties *)

\* One run at a time, whoever asked for it (RunAll's comment: "Strictly
\* sequential"): two would take two apps down at once.
OneRun == \A r, q \in Runs : pc[r] \in Busy /\ pc[q] \in Busy => r = q

\* "Changing the schedule takes effect without a restart" (Start's comment): a loop
\* that waits and has nothing to be told of waits by the stored configuration.
EditTakesEffect == loop = "wait" /\ ~reload /\ unsaid = 0 => planned = conf

\* How long ago this night's hour struck.
Since == (hour - conf.at) % Day

\* The loop was left alone since then, and should have started or met a run.
Overdue == conf.on /\ steady /\ Settled /\ Since > Jitter

\* On a box that is on, with a schedule that is not touched, no night goes by
\* without a run, also when runs last into the next night or come by hand.  The
\* loop waits for the mail it sends: a night that falls into that is let off.
NoNightSkipped == Overdue /\ pc[Night] # "mail" => covered

\* The same without letting it off: "a broken SMTP configuration must never turn a
\* successful backup into a failed one" (notifyOutcome's comment), nor into none.
MailHoldsNothingUp == Overdue => covered

\* What the operator was last told is how the last recorded run ended ("one mail on
\* the transition into failure and one on recovery"), once no run is about to tell.
\* A record or a mail that fails, a kill before the mail, and a run that ends while
\* another one records its end are excused: after each of them the code may be silent.
ToldTheTruth ==
  ~excused /\ (\A r \in Runs : pc[r] \notin Ending)
    => told = (last # None /\ last.failed)

\* "A PCS that was off at 03:00 backs up when it returns" (docs/backup.md): if the
\* hour has struck since the last recorded run ended, the timer of a waiting loop
\* is set for this night, not for the next.
CaughtUp ==
  loop = "wait" /\ planned = conf /\ conf.on /\ last # None /\ last.age > Since
    => left + Since <= Jitter \/ left = 0
=============================================================================
