--------------------------- MODULE Scheduler_proofs ---------------------------
(***************************************************************************)
(* Proofs about the nightly backups, in two parts.  The scheduler, for any   *)
(* day, hours and offset of the box and for any number of runs and edits:    *)
(* one run at a time, an edit that takes effect, no night that goes by       *)
(* without a run, and mails that tell how the last run ended.  The engines   *)
(* it calls, for any number of backups, restores and deletes: the newest     *)
(* backup is kept, and what was deleted is gone from the store.              *)
(***************************************************************************)
EXTENDS Scheduler, Engines, FiniteSetTheorems, TLAPS

USE SchedulerAssumption

-----------------------------------------------------------------------------
(* The clock *)

LEMMA ModAbove ==
  ASSUME NEW d \in Nat \ {0}, NEW x \in 0..(d - 1)
  PROVE  x % d = x
  BY SMT

LEMMA ModBelow ==
  ASSUME NEW d \in Nat \ {0}, NEW x \in (-d)..(-1)
  PROVE  x % d = x + d
  BY SMT

LEMMA ModAt ==
  ASSUME NEW d \in Nat \ {0}
  PROVE  d % d = 0
  BY SMT

\* The next hour of the day.
LEMMA NextHour ==
  ASSUME hour \in 0..(Day - 1)
  PROVE  (hour + 1) % Day = IF hour + 1 = Day THEN 0 ELSE hour + 1
<1>1. CASE hour + 1 = Day
  BY <1>1, ModAt
<1>2. CASE hour + 1 # Day
  BY <1>2, ModAbove
<1> QED BY <1>1, <1>2

\* How long from one hour of the day until another, and how long since.
LEMMA Ahead ==
  ASSUME NEW a \in 0..(Day - 1), NEW h \in 0..(Day - 1)
  PROVE  1 + ((h - a - 1) % Day) = IF h > a THEN h - a ELSE h - a + Day
<1>1. CASE h > a
  BY <1>1, ModAbove
<1>2. CASE ~(h > a)
  BY <1>2, ModBelow
<1> QED BY <1>1, <1>2

LEMMA Behind ==
  ASSUME NEW a \in 0..(Day - 1), NEW h \in 0..(Day - 1)
  PROVE  (a - h) % Day = IF a >= h THEN a - h ELSE a - h + Day
<1>1. CASE a >= h
  BY <1>1, ModAbove
<1>2. CASE ~(a >= h)
  BY <1>2, ModBelow
<1> QED BY <1>1, <1>2

LEMMA UntilNextIs ==
  ASSUME hour \in 0..(Day - 1), NEW h \in Hours
  PROVE  UntilNext(h) \in 1..Day
  BY Ahead DEF UntilNext

\* As the hour strikes, the next one is a tick nearer, or has just come.
LEMMA Struck ==
  ASSUME hour \in 0..(Day - 1), hour' = (hour + 1) % Day, NEW h \in Hours
  PROVE  /\ hour' = h => UntilNext(h) = 1 /\ UntilNext(h)' = Day
         /\ hour' # h => UntilNext(h)' = UntilNext(h) - 1
<1>1. hour' \in 0..(Day - 1) /\ hour' = IF hour + 1 = Day THEN 0 ELSE hour + 1
  BY NextHour
<1>2. h \in 0..(Day - 1)
  OBVIOUS
<1>3. UntilNext(h) = IF h > hour THEN h - hour ELSE h - hour + Day
  BY <1>2, Ahead DEF UntilNext
<1>4. UntilNext(h)' = IF h > hour' THEN h - hour' ELSE h - hour' + Day
  BY <1>1, <1>2, Ahead DEF UntilNext
<1> QED BY <1>1, <1>2, <1>3, <1>4

LEMMA Elapsed ==
  ASSUME hour \in 0..(Day - 1), hour' = (hour + 1) % Day, conf \in Configs, conf' = conf
  PROVE  /\ Since \in Nat
         /\ hour' = conf.at => Since' = 0
         /\ hour' # conf.at => Since' = Since + 1
<1>1. hour' \in 0..(Day - 1) /\ hour' = IF hour + 1 = Day THEN 0 ELSE hour + 1
  BY NextHour
<1>2. conf.at \in 0..(Day - 1)
  BY DEF Configs
<1>3. Since = IF hour >= conf.at THEN hour - conf.at ELSE hour - conf.at + Day
  BY <1>2, Behind DEF Since
<1>4. Since' = IF hour' >= conf.at THEN hour' - conf.at ELSE hour' - conf.at + Day
  BY <1>1, <1>2, Behind DEF Since
<1> QED BY <1>1, <1>2, <1>3, <1>4

-----------------------------------------------------------------------------
(* Types *)

Stages == {"idle", "claim", "targets", "read", "clear", "write", "mail"}

\* TypeOK, one variable at a time.
Typed ==
  /\ hour \in 0..(Day - 1)
  /\ conf \in Configs /\ planned \in Configs
  /\ unsaid \in 0..MaxEdits
  /\ loop \in {"off", "plan", "arm", "wait", "run"}
  /\ left \in 0..(Day + Jitter)
  /\ pc \in [Runs -> Stages]
  /\ loop = "run" <=> pc[Night] # "idle"
  /\ loop = "off" => ~reload /\ unsaid = 0 /\ \A r \in Runs : pc[r] = "idle"
  /\ failed \in [Runs -> BOOLEAN]
  /\ prev \in [Runs -> BOOLEAN \cup {None}]
  /\ last \in Records \cup {None}
  /\ reload \in BOOLEAN /\ running \in BOOLEAN /\ failures \in BOOLEAN /\ told \in BOOLEAN
  /\ steady \in BOOLEAN /\ covered \in BOOLEAN /\ excused \in BOOLEAN

LEMMA NightIsARun == Night \in Runs
  BY DEF Runs

LEMMA TypedIsTypeOK == Typed => TypeOK
  BY Zenon DEF Typed, TypeOK, Stages, Busy

LEMMA TypedInit == Init => Typed
<1> SUFFICES ASSUME Init PROVE Typed
  OBVIOUS
<1>1. /\ pc \in [Runs -> Stages] /\ failed \in [Runs -> BOOLEAN]
      /\ prev \in [Runs -> BOOLEAN \cup {None}]
      /\ \A r \in Runs : pc[r] = "idle"
  BY DEF Init, Stages
<1>2. /\ hour \in 0..(Day - 1) /\ unsaid \in 0..MaxEdits /\ left \in 0..(Day + Jitter)
      /\ conf \in Configs /\ planned \in Configs /\ loop = "plan"
      /\ last \in Records \cup {None}
  BY DEF Init
<1>3. /\ reload \in BOOLEAN /\ running \in BOOLEAN /\ failures \in BOOLEAN /\ told \in BOOLEAN
      /\ steady \in BOOLEAN /\ covered \in BOOLEAN /\ excused \in BOOLEAN
  BY DEF Init
<1> QED BY NightIsARun, <1>1, <1>2, <1>3 DEF Typed

\* What the steps of a run do to the stages of all.
LEMMA TypedGoto ==
  ASSUME Typed, NEW r \in Runs, NEW stage \in Stages \ {"idle"}, Goto(r, stage),
         r = Night => loop = "run", loop # "off"
  PROVE  /\ pc' \in [Runs -> Stages] /\ loop' = loop
         /\ loop' = "run" <=> pc'[Night] # "idle"
  BY NightIsARun DEF Typed, Goto

LEMMA TypedLeave ==
  ASSUME Typed, NEW r \in Runs, Leave(r), r = Night => loop = "run", loop # "off"
  PROVE  /\ pc' \in [Runs -> Stages]
         /\ loop' \in {"plan", "arm", "wait", "run"}
         /\ loop' = "run" <=> pc'[Night] # "idle"
         /\ failed' \in [Runs -> BOOLEAN]
         /\ prev' \in [Runs -> BOOLEAN \cup {None}]
  BY NightIsARun DEF Typed, Leave, Stages

\* A run that is under way is one of a box that is on.
LEMMA UnderWay ==
  ASSUME Typed, NEW r \in Runs, pc[r] # "idle"
  PROVE  loop # "off" /\ (r = Night => loop = "run")
  BY DEF Typed

LEMMA TypedStep == Typed /\ [Next]_vars => Typed'
<1> SUFFICES ASSUME Typed, [Next]_vars PROVE Typed'
  OBVIOUS
<1>0. Night \in Runs
  BY NightIsARun
<1>1. CASE Plan
  BY <1>0, <1>1 DEF Plan, Typed, config, runState, own, news, night
<1>2. CASE Arm
  <2>1. left' \in 0..(Day + Jitter)
    <3>1. UntilNext(planned.at) \in 1..Day
      BY UntilNextIs DEF Typed, Configs
    <3>2. left' = 0 \/ left' = UntilNext(planned.at) + Jitter
      BY <1>2, Zenon DEF Arm, Wait
    <3> QED BY <3>1, <3>2
  <2> QED BY <1>0, <1>2, <2>1 DEF Arm, Typed, config, runState, own, news, night
<1>3. CASE TakeReload
  <2>1. /\ hour' = hour /\ conf' = conf /\ planned' = planned /\ unsaid' = unsaid /\ pc' = pc
        /\ UNCHANGED <<runState, own, news, covered>>
        /\ loop = "wait" /\ loop' = "plan" /\ left' = 0
        /\ reload' = FALSE /\ steady' = FALSE
    BY <1>3 DEF TakeReload, config
  <2>2. left' \in 0..(Day + Jitter)
    BY <2>1
  <2>3. reload' \in BOOLEAN /\ steady' \in BOOLEAN
    BY <2>1, Zenon
  <2> QED BY <1>0, <2>1, <2>2, <2>3 DEF Typed, runState, own, news
<1>4. CASE Fire
  BY <1>0, <1>4 DEF Fire, Typed, Stages, config, timer, runState, own, news, night
<1>5. CASE Tick
  <2>1. hour' \in 0..(Day - 1)
    BY <1>5, NextHour DEF Tick, Typed
  <2>2. left' \in 0..(Day + Jitter)
    BY <1>5 DEF Tick, Typed, Settled
  <2>3. last' \in Records \cup {None}
    BY <1>5 DEF Tick, Typed, Records, Old
  <2>4. steady' \in BOOLEAN /\ covered' \in BOOLEAN
    BY <1>5 DEF Tick, Typed, night
  <2> QED BY <1>0, <1>5, <2>1, <2>2, <2>3, <2>4 DEF Tick, Typed, config, runState, own
<1>6. ASSUME NEW r \in Runs, Ask(r) PROVE Typed'
  <2>1. r # Night /\ loop # "off" /\ Goto(r, "claim")
    BY <1>6 DEF Ask
  <2>2. /\ pc' \in [Runs -> Stages] /\ loop' = loop
        /\ loop' = "run" <=> pc'[Night] # "idle"
    BY <2>1, TypedGoto DEF Stages
  <2> QED BY <1>6, <2>1, <2>2 DEF Ask, Typed, config, timer, runState, own, news, night
<1>7. ASSUME NEW r \in Runs, Claim(r) PROVE Typed'
  <2>0. loop # "off" /\ (r = Night => loop = "run")
    BY <1>7, UnderWay DEF Claim
  <2>1. CASE Enter(r)
    <3>1. /\ pc' \in [Runs -> Stages] /\ loop' = loop
          /\ loop' = "run" <=> pc'[Night] # "idle"
      BY <2>0, <2>1, TypedGoto DEF Enter, Stages
    <3> QED BY <1>7, <2>0, <2>1, <3>1 DEF Claim, Enter, Typed, config, timer, own, news
  <2>2. CASE Leave(r) /\ UNCHANGED <<runState, covered>>
    <3>1. /\ pc' \in [Runs -> Stages]
          /\ loop' \in {"plan", "arm", "wait", "run"}
          /\ loop' = "run" <=> pc'[Night] # "idle"
          /\ failed' \in [Runs -> BOOLEAN]
          /\ prev' \in [Runs -> BOOLEAN \cup {None}]
      BY <2>0, <2>2, TypedLeave
    <3> QED BY <1>7, <2>2, <3>1 DEF Claim, Typed, config, timer, runState, news
  <2> QED BY <1>7, <2>1, <2>2 DEF Claim
<1>8. ASSUME NEW r \in Runs, Target(r) PROVE Typed'
  <2>0. loop # "off" /\ (r = Night => loop = "run")
    BY <1>8, UnderWay DEF Target
  <2>1. PICK bad \in BOOLEAN, stage \in {"targets", "read"} :
          failures' = (failures \/ bad) /\ Goto(r, stage)
    BY <1>8 DEF Target
  <2>2. /\ pc' \in [Runs -> Stages] /\ loop' = loop
        /\ loop' = "run" <=> pc'[Night] # "idle"
    BY <2>0, <2>1, TypedGoto DEF Stages
  <2>3. failures' \in BOOLEAN
    BY <2>1
  <2> QED BY <1>8, <2>0, <2>2, <2>3 DEF Target, Typed, config, timer, own, news, night
<1>9. ASSUME NEW r \in Runs, ReadLast(r) PROVE Typed'
  <2>0. loop # "off" /\ (r = Night => loop = "run")
    BY <1>9, UnderWay DEF ReadLast
  <2>1. /\ pc' \in [Runs -> Stages] /\ loop' = loop
        /\ loop' = "run" <=> pc'[Night] # "idle"
    BY <1>9, <2>0, TypedGoto DEF ReadLast, Stages
  <2>2. prev' \in [Runs -> BOOLEAN \cup {None}] /\ excused' \in BOOLEAN
    BY <1>9 DEF ReadLast, Typed, Records
  <2> QED BY <1>9, <2>0, <2>1, <2>2 DEF ReadLast, Typed, config, timer, runState, night
<1>10. ASSUME NEW r \in Runs, Clear(r) PROVE Typed'
  <2>0. loop # "off" /\ (r = Night => loop = "run")
    BY <1>10, UnderWay DEF Clear
  <2>1. /\ pc' \in [Runs -> Stages] /\ loop' = loop
        /\ loop' = "run" <=> pc'[Night] # "idle"
    BY <1>10, <2>0, TypedGoto DEF Clear, Stages
  <2> QED BY <1>10, <2>0, <2>1 DEF Clear, Typed, config, timer, news, night
<1>11. ASSUME NEW r \in Runs, WriteLast(r) PROVE Typed'
  <2>0. loop # "off" /\ (r = Night => loop = "run")
    BY <1>11, UnderWay DEF WriteLast
  <2>1. /\ pc' \in [Runs -> Stages] /\ loop' = loop
        /\ loop' = "run" <=> pc'[Night] # "idle"
    BY <1>11, <2>0, TypedGoto DEF WriteLast, Stages
  <2>2. last' \in Records \cup {None}
    <3>1. [age |-> 0, failed |-> failed[r]] \in Records
      BY DEF Records, Old, Typed
    <3> QED BY <1>11, <3>1 DEF WriteLast, Typed
  <2>3. excused' \in BOOLEAN
    BY <1>11 DEF WriteLast, Typed
  <2> QED BY <1>11, <2>0, <2>1, <2>2, <2>3 DEF WriteLast, Typed, config, timer, runState, own, night
<1>12. ASSUME NEW r \in Runs, Mail(r) PROVE Typed'
  <2>0. loop # "off" /\ (r = Night => loop = "run")
    BY <1>12, UnderWay DEF Mail
  <2>1. /\ pc' \in [Runs -> Stages]
        /\ loop' \in {"plan", "arm", "wait", "run"}
        /\ loop' = "run" <=> pc'[Night] # "idle"
        /\ failed' \in [Runs -> BOOLEAN]
        /\ prev' \in [Runs -> BOOLEAN \cup {None}]
    BY <1>12, <2>0, TypedLeave DEF Mail
  <2>2. told' \in BOOLEAN /\ excused' \in BOOLEAN /\ steady' \in BOOLEAN
    BY <1>12 DEF Mail, Typed
  <2> QED BY <1>12, <2>1, <2>2 DEF Mail, Typed, config, timer, runState
<1>13. CASE Store
  <2>1. unsaid' \in 0..MaxEdits
    BY <1>13 DEF Store, Typed
  <2>3. conf' \in Configs /\ steady' \in BOOLEAN
    BY <1>13, Zenon DEF Store
  <2>2. loop # "off" /\ hour' = hour /\ planned' = planned /\ left' = left /\ pc' = pc
    BY <1>13 DEF Store, timer
  <2> QED BY <1>0, <1>13, <2>1, <2>2, <2>3 DEF Store, Typed, runState, own, news
<1>14. CASE Reload
  BY <1>0, <1>14 DEF Reload, Typed, timer, runState, own, news, night
<1>15. CASE PowerOff
  <2>1. /\ pc' \in [Runs -> Stages] /\ failed' \in [Runs -> BOOLEAN]
        /\ prev' \in [Runs -> BOOLEAN \cup {None}]
        /\ \A r \in Runs : pc'[r] = "idle"
    BY <1>15 DEF PowerOff, Stages
  <2>2. unsaid' \in 0..MaxEdits /\ left' \in 0..(Day + Jitter)
    BY <1>15 DEF PowerOff
  <2>3. /\ reload' \in BOOLEAN /\ running' \in BOOLEAN /\ failures' \in BOOLEAN
        /\ steady' \in BOOLEAN /\ excused' \in BOOLEAN /\ ~reload'
    BY <1>15 DEF PowerOff, Typed
  <2>4. loop' = "off" /\ unsaid' = 0 /\ UNCHANGED <<hour, conf, planned, last, told, covered>>
    BY <1>15 DEF PowerOff
  <2> QED BY <1>0, <2>1, <2>2, <2>3, <2>4 DEF Typed
<1>16. CASE Boot
  BY <1>0, <1>16 DEF Boot, Typed, config, timer, runState, own, news, night
<1>17. CASE UNCHANGED vars
  BY <1>17 DEF vars, Typed, config, timer, runState, own, news, night
<1> QED BY <1>1, <1>2, <1>3, <1>4, <1>5, <1>6, <1>7, <1>8, <1>9, <1>10, <1>11, <1>12, <1>13,
           <1>14, <1>15, <1>16, <1>17 DEF Next, RunStep

-----------------------------------------------------------------------------
(* One run at a time *)

\* The flag says whether there is a run in progress, and there is one.
Flagged ==
  /\ \A r \in Runs : pc[r] \in Busy => running
  /\ OneRun

\* Steps that neither begin nor end a run.
LEMMA FlaggedKept ==
  ASSUME Flagged, running => running', \A r \in Runs : pc'[r] \in Busy => pc[r] \in Busy
  PROVE  Flagged'
  BY DEF Flagged, OneRun

LEMMA FlaggedStep == Typed /\ Flagged /\ [Next]_vars => Flagged'
<1> SUFFICES ASSUME Typed, Flagged, [Next]_vars PROVE Flagged'
  OBVIOUS
<1>0. pc \in [Runs -> Stages] /\ Night \in Runs
  BY NightIsARun DEF Typed
<1>1. CASE Plan \/ Arm \/ TakeReload \/ Tick \/ Store \/ Reload \/ Boot \/ UNCHANGED vars
  <2>1. running' = running /\ pc' = pc
    BY <1>1 DEF Plan, Arm, TakeReload, Tick, Store, Reload, Boot, vars, runState
  <2> QED BY <2>1, FlaggedKept
<1>2. CASE Fire
  BY <1>0, <1>2, FlaggedKept DEF Fire, runState, Busy
<1>3. ASSUME NEW r \in Runs, Ask(r) PROVE Flagged'
  BY <1>0, <1>3, FlaggedKept DEF Ask, Goto, runState, Busy
<1>4. ASSUME NEW r \in Runs, Claim(r) PROVE Flagged'
  <2>1. CASE ~running /\ Enter(r)
    <3>1. \A q \in Runs : pc[q] \notin Busy
      BY <2>1 DEF Flagged
    <3>2. running' /\ \A q \in Runs \ {r} : pc'[q] \notin Busy
      BY <1>0, <2>1, <3>1 DEF Enter, Goto
    <3> QED BY <3>2 DEF Flagged, OneRun
  <2>2. CASE Leave(r) /\ UNCHANGED <<runState, covered>>
    BY <1>0, <2>2, FlaggedKept DEF Leave, runState, Busy
  <2> QED BY <1>4, <2>1, <2>2 DEF Claim
<1>5. ASSUME NEW r \in Runs, Target(r) \/ ReadLast(r) PROVE Flagged'
  BY <1>0, <1>5, FlaggedKept DEF Target, ReadLast, Goto, runState, Busy
<1>6. ASSUME NEW r \in Runs, Clear(r) PROVE Flagged'
  <2>1. \A q \in Runs : pc[q] \in Busy => q = r
    BY <1>6 DEF Clear, Flagged, OneRun, Busy
  <2>2. \A q \in Runs : pc'[q] \notin Busy
    BY <1>0, <1>6, <2>1 DEF Clear, Goto, Busy
  <2> QED BY <2>2 DEF Flagged, OneRun
<1>7. ASSUME NEW r \in Runs, WriteLast(r) PROVE Flagged'
  BY <1>0, <1>7, FlaggedKept DEF WriteLast, Goto, runState, Busy
<1>8. ASSUME NEW r \in Runs, Mail(r) PROVE Flagged'
  BY <1>0, <1>8, FlaggedKept DEF Mail, Leave, runState, Busy
<1>9. CASE PowerOff
  BY <1>9 DEF PowerOff, Flagged, OneRun, Busy
<1> QED BY <1>1, <1>2, <1>3, <1>4, <1>5, <1>6, <1>7, <1>8, <1>9 DEF Next, RunStep

-----------------------------------------------------------------------------
(* Edits *)

\* A loop that has read the configuration has read the stored one, or will be told.
Heard == loop \in {"arm", "wait"} /\ ~reload /\ unsaid = 0 => planned = conf

LEMMA HeardStep == Typed /\ Heard /\ [Next]_vars => Heard'
<1> SUFFICES ASSUME Typed, Heard, [Next]_vars PROVE Heard'
  OBVIOUS
<1>1. CASE Plan \/ Arm \/ TakeReload \/ Fire \/ Tick
  BY <1>1 DEF Plan, Arm, TakeReload, Fire, Tick, Heard, config, timer
<1>2. ASSUME NEW r \in Runs, RunStep(r) PROVE Heard'
  BY <1>2 DEF RunStep, Ask, Claim, Target, ReadLast, Clear, WriteLast, Mail, Enter, Goto, Leave,
              Heard, config, timer
<1>3. CASE Store
  BY <1>3 DEF Store, Heard, Typed
<1>4. CASE Reload \/ PowerOff \/ Boot
  BY <1>4 DEF Reload, PowerOff, Boot, Heard
<1>5. CASE UNCHANGED vars
  BY <1>5 DEF vars, config, timer, Heard
<1> QED BY <1>1, <1>2, <1>3, <1>4, <1>5 DEF Next

-----------------------------------------------------------------------------
(* Nights *)

\* A loop that waits does so until the schedule's next hour at most, with its offset; and
\* since this night's hour has struck it has been waiting for this night's run, has just
\* started it, or is sending a mail.
InTime ==
  /\ running => covered
  /\ loop = "wait" => left <= UntilNext(planned.at) + Jitter
  /\ steady /\ conf.on /\ ~covered =>
       \/ loop = "wait" /\ left + Since <= Jitter
       \/ pc[Night] \in {"claim", "mail"}

\* Steps that change nothing of it.
LEMMA InTimeKept ==
  ASSUME InTime, UNCHANGED <<hour, conf, planned, left, covered, loop>>,
         pc'[Night] = pc[Night], running' => covered, steady' => steady
  PROVE  InTime'
  BY DEF InTime, UntilNext, Since

LEMMA InTimeStep == Typed /\ Flagged /\ Heard /\ InTime /\ [Next]_vars => InTime'
<1> SUFFICES ASSUME Typed, Flagged, Heard, InTime, [Next]_vars PROVE InTime'
  OBVIOUS
<1>0. /\ pc \in [Runs -> Stages] /\ Night \in Runs
      /\ hour \in 0..(Day - 1) /\ conf \in Configs /\ planned \in Configs
      /\ conf.at \in Hours /\ planned.at \in Hours
  BY NightIsARun DEF Typed, Configs
<1>1. CASE Plan \/ Boot
  <2>1. pc[Night] = "idle" /\ loop # "wait" /\ loop' # "wait"
    BY <1>0, <1>1 DEF Plan, Boot, Typed
  <2>2. UNCHANGED <<running, covered, steady, conf>>
    BY <1>1 DEF Plan, Boot, config, runState, night
  <2> QED BY <2>1, <2>2 DEF InTime
<1>2. CASE Arm
  <2>1. pc[Night] = "idle" /\ loop # "wait"
    BY <1>0, <1>2 DEF Arm, Typed
  <2>2. UNCHANGED <<running, covered, steady, conf, hour, planned>>
    BY <1>2 DEF Arm, config, runState, night
  <2>3. left' <= UntilNext(planned.at) + Jitter
    <3>1. UntilNext(planned.at) \in 1..Day
      BY <1>0, UntilNextIs
    <3>2. left' = 0 \/ left' = UntilNext(planned.at) + Jitter
      BY <1>2, Zenon DEF Arm, Wait
    <3> QED BY <3>1, <3>2
  <2>4. UntilNext(planned.at)' = UntilNext(planned.at)
    BY <2>2 DEF UntilNext
  <2> QED BY <2>1, <2>2, <2>3, <2>4 DEF InTime
<1>3. CASE TakeReload
  BY <1>3 DEF TakeReload, InTime, runState
<1>4. CASE Fire
  <2>1. loop' # "wait" /\ (conf.on => pc'[Night] = "claim")
    BY <1>0, <1>4 DEF Fire
  <2>2. UNCHANGED <<running, covered, conf>>
    BY <1>4 DEF Fire, config, runState, night
  <2> QED BY <2>1, <2>2 DEF InTime
<1>5. CASE Tick
  <2>1. /\ Settled /\ hour' = (hour + 1) % Day
        /\ left' = IF loop = "wait" THEN left - 1 ELSE left
        /\ UNCHANGED <<conf, planned, loop, pc, running>>
    BY <1>5 DEF Tick, config, runState
  <2>2. left \in Nat /\ Jitter \in Nat /\ (loop = "wait" => left # 0)
    BY <2>1 DEF Typed, Settled
  <2>3. UntilNext(planned.at) \in 1..Day /\ UntilNext(conf.at) \in 1..Day /\ Since \in Nat
    BY <1>0, <2>1, UntilNextIs, Elapsed
  <2>4. loop = "wait" => left' <= UntilNext(planned.at)' + Jitter
    <3>1. /\ hour' = planned.at => UntilNext(planned.at)' = Day
          /\ hour' # planned.at => UntilNext(planned.at)' = UntilNext(planned.at) - 1
      BY <1>0, <2>1, Struck
    <3>2. loop = "wait" => left <= UntilNext(planned.at) + Jitter
      BY DEF InTime
    <3> QED BY <2>1, <2>2, <2>3, <3>1, <3>2
  <2>5. CASE hour' = conf.at
    <3>1. steady' = (loop # "off") /\ covered' = running
      BY <1>5, <2>5 DEF Tick
    <3>2. Since' = 0 /\ UntilNext(conf.at) = 1
      BY <1>0, <2>1, <2>5, Struck, Elapsed
    <3>3. CASE loop = "wait"
      <4>1. planned = conf
        BY <2>1, <3>3 DEF Settled, Heard
      <4>2. left <= 1 + Jitter
        BY <3>2, <3>3, <4>1 DEF InTime
      <4>3. left' + Since' <= Jitter
        BY <2>1, <2>2, <3>2, <3>3, <4>2
      <4> QED BY <2>1, <2>4, <3>1, <3>3, <4>3 DEF InTime
    <3>4. CASE loop = "run" /\ ~running
      <4>1. pc[Night] = "mail"
        BY <1>0, <2>1, <3>4 DEF Settled, Flagged, Busy, Stages, Typed
      <4> QED BY <2>1, <3>1, <3>4, <4>1 DEF InTime
    <3>5. CASE running \/ loop = "off"
      BY <2>1, <2>4, <3>1, <3>5 DEF InTime
    <3>6. loop \in {"off", "wait", "run"}
      BY <2>1 DEF Settled, Typed
    <3> QED BY <3>3, <3>4, <3>5, <3>6
  <2>6. CASE hour' # conf.at
    <3>1. UNCHANGED night
      BY <1>5, <2>6 DEF Tick
    <3>2. Since' = Since + 1
      BY <1>0, <2>1, <2>6, Elapsed
    <3>3. loop = "wait" /\ left + Since <= Jitter => left' + Since' <= Jitter
      BY <2>1, <2>2, <2>3, <3>2
    <3> QED BY <2>1, <2>4, <3>1, <3>3 DEF InTime, night
  <2> QED BY <2>5, <2>6
<1>6. ASSUME NEW r \in Runs, Ask(r) PROVE InTime'
  <2>1. r # Night /\ pc'[Night] = pc[Night]
    BY <1>0, <1>6 DEF Ask, Goto
  <2> QED BY <1>6, <2>1, InTimeKept DEF Ask, Goto, InTime, config, timer, runState, night
<1>7. ASSUME NEW r \in Runs, Claim(r) PROVE InTime'
  <2>1. CASE Enter(r)
    <3>1. covered' /\ loop' = loop /\ UNCHANGED <<hour, planned, left>>
      BY <1>7, <2>1 DEF Claim, Enter, Goto, timer
    <3> QED BY <3>1 DEF InTime, UntilNext
  <2>2. CASE running /\ Leave(r) /\ UNCHANGED <<runState, covered>>
    <3>1. covered' /\ UNCHANGED <<hour, planned, left>> /\ (loop' = "wait" => loop = "wait")
      BY <1>7, <2>2 DEF Claim, Leave, timer, InTime
    <3> QED BY <3>1 DEF InTime, UntilNext
  <2> QED BY <1>7, <2>1, <2>2 DEF Claim
<1>8. ASSUME NEW r \in Runs, Target(r) \/ ReadLast(r) \/ Clear(r) \/ WriteLast(r)
      PROVE  InTime'
  <2>1. /\ UNCHANGED <<hour, conf, planned, left, covered, loop, steady>>
        /\ running' => running
        /\ \A q \in Runs \ {r} : pc'[q] = pc[q]
        /\ pc[r] \notin {"idle", "claim", "mail"}
    BY <1>0, <1>8 DEF Target, ReadLast, Clear, WriteLast, Goto, config, timer, runState, night
  <2>2. CASE r = Night
    <3>1. loop = "run"
      BY <2>1, <2>2 DEF Typed
    <3>2. covered \/ ~steady \/ ~conf.on
      BY <2>1, <2>2, <3>1 DEF InTime
    <3> QED BY <2>1, <3>1, <3>2 DEF InTime
  <2>3. CASE r # Night
    BY <1>0, <2>1, <2>3, InTimeKept DEF InTime
  <2> QED BY <2>2, <2>3
<1>9. ASSUME NEW r \in Runs, Mail(r) PROVE InTime'
  <2>1. /\ UNCHANGED <<hour, conf, planned, left, covered, running>>
        /\ \A q \in Runs \ {r} : pc'[q] = pc[q]
        /\ loop' = IF r = Night THEN "plan" ELSE loop
        /\ steady' = (steady /\ r # Night)
    BY <1>0, <1>9 DEF Mail, Leave, config, timer, runState
  <2>2. CASE r = Night
    BY <2>1, <2>2 DEF InTime
  <2>3. CASE r # Night
    BY <1>0, <2>1, <2>3, InTimeKept DEF InTime
  <2> QED BY <2>2, <2>3
<1>10. CASE Store
  BY <1>10 DEF Store, InTime, UntilNext, timer, runState
<1>11. CASE Reload
  BY <1>11, InTimeKept DEF Reload, InTime, timer, runState, night
<1>12. CASE PowerOff
  BY <1>12 DEF PowerOff, InTime
<1>13. CASE UNCHANGED vars
  BY <1>13, InTimeKept DEF vars, InTime, config, timer, runState, night
<1> QED BY <1>1, <1>2, <1>3, <1>4, <1>5, <1>6, <1>7, <1>8, <1>9, <1>10, <1>11, <1>12, <1>13
        DEF Next, RunStep

-----------------------------------------------------------------------------
(* Mails *)

\* What the record says.
LastFailed == last # None /\ last.failed

\* What a run should have read of it.
LastIs(p) == p = IF last = None THEN None ELSE last.failed

\* One run at a time ends, if none is excused: it has read the record that it replaces, and
\* the operator was told of that.
Tells ==
  ~excused =>
    /\ \A r, q \in Runs : pc[r] \in Ending /\ pc[q] \in Ending => r = q
    /\ \A r \in Runs :
         /\ pc[r] \in {"clear", "write"} => LastIs(prev[r])
         /\ pc[r] = "mail" =>
              /\ last # None /\ last.failed = failed[r]
              /\ told <=> prev[r] # None /\ prev[r]
    /\ (\A r \in Runs : pc[r] # "mail") => (told <=> LastFailed)

\* Steps of anything but the end of a run.
LEMMA TellsKept ==
  ASSUME Tells, excused' = excused, told' = told,
         last' = last \/ (last # None /\ last' # None /\ last'.failed = last.failed),
         \A r \in Runs : pc'[r] \in Ending =>
           pc'[r] = pc[r] /\ failed'[r] = failed[r] /\ prev'[r] = prev[r],
         \A r \in Runs : pc[r] = "mail" => pc'[r] = "mail"
  PROVE  Tells'
<1> SUFFICES ASSUME ~excused PROVE Tells'
  BY DEF Tells
<1>1. \A r, q \in Runs : pc'[r] \in Ending /\ pc'[q] \in Ending => r = q
  BY DEF Tells
<1>2. \A r \in Runs : pc'[r] \in {"clear", "write"} => LastIs(prev[r])'
  BY DEF Tells, LastIs, Ending
<1>3. \A r \in Runs : pc'[r] = "mail" =>
              /\ last' # None /\ last'.failed = failed'[r]
              /\ told' <=> prev'[r] # None /\ prev'[r]
  BY DEF Tells, Ending
<1>4. (\A r \in Runs : pc'[r] # "mail") => (told' <=> LastFailed')
  BY DEF Tells, LastFailed
<1> QED BY <1>1, <1>2, <1>3, <1>4 DEF Tells

LEMMA TellsStep == Typed /\ Flagged /\ Tells /\ [Next]_vars => Tells'
<1> SUFFICES ASSUME Typed, Flagged, Tells, [Next]_vars PROVE Tells'
  OBVIOUS
<1>0. /\ pc \in [Runs -> Stages] /\ Night \in Runs
      /\ failed \in [Runs -> BOOLEAN] /\ prev \in [Runs -> BOOLEAN \cup {None}]
      /\ last # None => last.failed \in BOOLEAN
      /\ failures \in BOOLEAN /\ told \in BOOLEAN
  BY NightIsARun DEF Typed, Records
<1>1. CASE Plan \/ Arm \/ TakeReload \/ Store \/ Reload \/ Boot \/ UNCHANGED vars
  <2>1. /\ pc' = pc /\ failed' = failed /\ prev' = prev
        /\ last' = last /\ told' = told /\ excused' = excused
    BY <1>1 DEF Plan, Arm, TakeReload, Store, Reload, Boot, vars, own, news
  <2> QED BY <2>1, TellsKept
<1>2. CASE Fire
  <2>1. /\ failed' = failed /\ prev' = prev
        /\ last' = last /\ told' = told /\ excused' = excused
    BY <1>2 DEF Fire, own, news
  <2>2. pc[Night] = "idle"
    BY <1>0, <1>2 DEF Fire, Typed
  <2>3. \A r \in Runs : pc'[r] = pc[r] \/ (pc[r] = "idle" /\ pc'[r] = "claim")
    BY <1>0, <1>2, <2>2 DEF Fire
  <2> QED BY <2>1, <2>3, TellsKept DEF Ending
<1>3. CASE Tick
  <2>1. /\ pc' = pc /\ failed' = failed /\ prev' = prev
        /\ told' = told /\ excused' = excused
    BY <1>3 DEF Tick, own
  <2>2. last' = last \/ (last # None /\ last' # None /\ last'.failed = last.failed)
    BY <1>3 DEF Tick, Typed, Records, Old
  <2> QED BY <2>1, <2>2, TellsKept
<1>4. ASSUME NEW r \in Runs, Ask(r) \/ Target(r) PROVE Tells'
  <2>1. /\ failed' = failed /\ prev' = prev
        /\ last' = last /\ told' = told /\ excused' = excused
    BY <1>4 DEF Ask, Target, own, news
  <2>2. /\ pc[r] \in {"idle", "targets"} /\ pc'[r] \in {"claim", "targets", "read"}
        /\ \A q \in Runs \ {r} : pc'[q] = pc[q]
    BY <1>0, <1>4 DEF Ask, Target, Goto
  <2> QED BY <2>1, <2>2, TellsKept DEF Ending
<1>5. ASSUME NEW r \in Runs, Claim(r) PROVE Tells'
  <2>1. last' = last /\ told' = told /\ excused' = excused
    BY <1>5 DEF Claim, news
  <2>2. pc[r] = "claim" /\ pc'[r] \in {"targets", "idle"}
    BY <1>0, <1>5 DEF Claim, Enter, Goto, Leave
  <2>3. \A q \in Runs \ {r} : pc'[q] = pc[q] /\ failed'[q] = failed[q] /\ prev'[q] = prev[q]
    BY <1>0, <1>5 DEF Claim, Enter, Goto, Leave, own
  <2> QED BY <2>1, <2>2, <2>3, TellsKept DEF Ending
<1>6. ASSUME NEW r \in Runs, ReadLast(r) PROVE Tells'
  <2>1. /\ LastIs(prev'[r]) /\ pc[r] = "read" /\ pc'[r] = "clear"
        /\ \A q \in Runs \ {r} : pc'[q] = pc[q] /\ prev'[q] = prev[q]
        /\ failed' = failed /\ last' = last /\ told' = told
    BY <1>0, <1>6 DEF ReadLast, Goto, LastIs
  <2>2. excused' = (excused \/ \E q \in Runs : pc[q] \in {"write", "mail"})
    BY <1>6 DEF ReadLast
  <2> SUFFICES ASSUME ~excused' PROVE Tells'
    BY DEF Tells
  <2>3. ~excused /\ \A q \in Runs : pc[q] \notin {"write", "mail"}
    BY <2>2
  <2>4. \A q \in Runs \ {r} : pc[q] # "clear"
    BY <2>1 DEF Flagged, OneRun, Busy
  <2>5. \A q \in Runs : pc'[q] \in Ending => q = r
    BY <2>1, <2>3, <2>4 DEF Ending
  <2>6. told' <=> LastFailed'
    BY <2>1, <2>3 DEF Tells, LastFailed
  <2>7. LastIs(prev[r])'
    BY <2>1 DEF LastIs
  <2> QED BY <2>1, <2>5, <2>6, <2>7 DEF Tells, Ending
<1>7. ASSUME NEW r \in Runs, Clear(r) PROVE Tells'
  BY <1>0, <1>7 DEF Clear, Goto, Tells, Ending, LastIs, LastFailed, news
<1>8. ASSUME NEW r \in Runs, WriteLast(r) PROVE Tells'
  <2> SUFFICES ASSUME ~excused' PROVE Tells'
    BY DEF Tells
  <2>1. last' = [age |-> 0, failed |-> failed[r]] /\ excused' = excused
    BY <1>8 DEF WriteLast
  <2>2. last' \in [age : Nat, failed : BOOLEAN] /\ last'.failed = failed[r]
    BY <1>0, <2>1
  <2>3. /\ pc[r] = "write" /\ pc'[r] = "mail" /\ \A q \in Runs \ {r} : pc'[q] = pc[q]
        /\ failed' = failed /\ prev' = prev /\ told' = told
    BY <1>0, <1>8 DEF WriteLast, Goto, own
  <2>4. \A q \in Runs : pc[q] \in Ending => q = r
    BY <2>1, <2>3 DEF Tells, Ending
  <2>5. \A q \in Runs : pc'[q] \in Ending => q = r
    BY <2>3, <2>4
  <2>6. LastIs(prev[r]) /\ (told <=> LastFailed)
    BY <2>1, <2>3, <2>4 DEF Tells, Ending
  <2>7. told <=> prev[r] # None /\ prev[r]
    BY <1>0, <2>6 DEF LastIs, LastFailed
  <2>8. last' # None
    BY <2>2
  <2> QED BY <2>2, <2>3, <2>5, <2>7, <2>8 DEF Tells, Ending
<1>9. ASSUME NEW r \in Runs, Mail(r) PROVE Tells'
  <2> SUFFICES ASSUME ~excused' PROVE Tells'
    BY DEF Tells
  <2> QED BY <1>0, <1>9 DEF Mail, Leave, Changed, Tells, Ending, LastIs, LastFailed
<1>10. CASE PowerOff
  <2> SUFFICES ASSUME ~excused' PROVE Tells'
    BY DEF Tells
  <2> QED BY <1>0, <1>10 DEF PowerOff, Changed, Tells, Ending, LastIs, LastFailed
<1> QED BY <1>1, <1>2, <1>3, <1>4, <1>5, <1>6, <1>7, <1>8, <1>9, <1>10 DEF Next, RunStep

\* Every reachable state of the scheduler has its types, and the loop is inside a run
\* exactly while the run is under way.
THEOREM TypeCorrect == Spec => []TypeOK
<1> QED BY TypedInit, TypedStep, TypedIsTypeOK, PTL DEF Spec

\* There is one run at a time, whoever asks for however many.
THEOREM OneRunTheorem == Spec => []OneRun
<1>1. Init => Typed /\ Flagged
  BY TypedInit DEF Init, Flagged, OneRun, Busy
<1>2. Typed /\ Flagged /\ [Next]_vars => (Typed /\ Flagged)'
  BY TypedStep, FlaggedStep
<1>3. Typed /\ Flagged => OneRun
  BY DEF Flagged
<1> QED BY <1>1, <1>2, <1>3, PTL DEF Spec

\* A loop that waits and has nothing to be told of waits by the stored configuration.
THEOREM EditTheorem == Spec => []EditTakesEffect
<1>1. Init => Typed /\ Heard
  BY TypedInit DEF Init, Heard
<1>2. Typed /\ Heard /\ [Next]_vars => (Typed /\ Heard)'
  BY TypedStep, HeardStep
<1>3. Typed /\ Heard => EditTakesEffect
  BY DEF Heard, EditTakesEffect
<1> QED BY <1>1, <1>2, <1>3, PTL DEF Spec

\* On a box that is on, no night goes by without a run, however long runs take and whoever
\* asks for more of them, unless the schedule is being changed or a mail is being sent.
THEOREM NightTheorem == Spec => []NoNightSkipped
<1>1. Init => Typed /\ Flagged /\ Heard /\ InTime
  BY TypedInit DEF Init, Flagged, OneRun, Busy, Heard, InTime
<1>2. Typed /\ Flagged /\ Heard /\ InTime /\ [Next]_vars => (Typed /\ Flagged /\ Heard /\ InTime)'
  BY TypedStep, FlaggedStep, HeardStep, InTimeStep
<1>3. Typed /\ Flagged /\ Heard /\ InTime => NoNightSkipped
  <2> SUFFICES ASSUME Typed, InTime, Overdue, pc[Night] # "mail", ~covered PROVE FALSE
    BY DEF NoNightSkipped
  <2>1. pc[Night] # "claim"
    BY NightIsARun DEF Overdue, Settled
  <2>2. left + Since <= Jitter
    BY <2>1 DEF InTime, Overdue
  <2>3. left \in Nat /\ Since \in Nat /\ Jitter \in Nat /\ Since > Jitter
    <3>1. conf.at \in 0..(Day - 1) /\ hour \in 0..(Day - 1)
      BY DEF Typed, Configs
    <3> QED BY <3>1, Behind DEF Typed, Overdue, Since
  <2> QED BY <2>2, <2>3
<1> QED BY <1>1, <1>2, <1>3, PTL DEF Spec

\* What the operator was last told is how the last recorded run ended, unless a mail or a
\* record failed, or two runs ended at once.
THEOREM ToldTheorem == Spec => []ToldTheTruth
<1>1. Init => Typed /\ Flagged /\ Tells
  <2>1. Init => Flagged /\ Tells
    BY DEF Init, Flagged, OneRun, Busy, Tells, Ending, LastFailed
  <2> QED BY <2>1, TypedInit
<1>2. Typed /\ Flagged /\ Tells /\ [Next]_vars => (Typed /\ Flagged /\ Tells)'
  BY TypedStep, FlaggedStep, TellsStep
<1>3. Typed /\ Flagged /\ Tells => ToldTheTruth
  <2> SUFFICES ASSUME Typed, Tells, ~excused, \A r \in Runs : pc[r] \notin Ending
               PROVE  told = (last # None /\ last.failed)
    BY DEF ToldTheTruth
  <2>1. told <=> LastFailed
    BY DEF Tells, Ending
  <2>2. told \in BOOLEAN /\ (last # None => last.failed \in BOOLEAN)
    BY DEF Typed, Records
  <2> QED BY <2>1, <2>2 DEF LastFailed
<1> QED BY <1>1, <1>2, <1>3, PTL DEF Spec

-----------------------------------------------------------------------------
(***************************************************************************)
(* The engines, one app.                                                    *)
(***************************************************************************)

HIDE SchedulerAssumption


BackupStages == {"idle", "local", "first", "second", "commit", "abort", "prune", "remove"}
Backups == [pc : BackupStages, stamp : Nat, nightly : BOOLEAN, todo : SUBSET Stamps]

USE DEF Stamps, Backups, NoBackup, NoDelete, NoRestore, store, repository

(* The inductive invariant, in parts. *)

EngineTypes ==
  /\ local \in [Stamps -> {"no", "whole", "cut"}]
  /\ snaps \subseteq [at : Nat \ {0}, stamp : Stamps, pass : {1, 2}] /\ made \in Nat
  /\ taken \in 0..MaxStamp /\ policy \in BOOLEAN
  /\ bak \in Backups
  /\ del \in [stamp : Nat, alone : BOOLEAN]
  /\ res \in [stamp : Nat, fetched : BOOLEAN]
  /\ newest \in Nat

\* Nothing is about a stamp that was not taken, nor made later than the last snapshot.
Taken ==
  /\ \A e \in snaps : e.stamp <= taken /\ e.at <= made
  /\ \A s \in Stamps : local[s] # "no" => s <= taken
  /\ bak.stamp <= taken /\ (\A s \in bak.todo : s <= taken)
  /\ del.stamp <= taken /\ res.stamp <= taken /\ newest <= taken

\* What is under way has a stamp.
Stamped ==
  /\ bak = NoBackup \/ (bak.pc # "idle" /\ bak.stamp # 0)
  /\ res = NoRestore \/ res.stamp # 0

\* A backup that has not begun to write has nothing in the repository, and none counts
\* as the newest before its last pass, nor once it is to be aborted.
NotYet ==
  /\ bak.pc \in {"first", "local"} => \A e \in snaps : e.stamp # bak.stamp
  /\ bak.pc \in {"first", "second", "local"} => newest # bak.stamp
  /\ LetOff /\ bak.pc = "abort" => newest # bak.stamp

\* The newest backup is the whole snapshot made last, or an archive that pruning spares.
Remote == \E e \in snaps : LastWhole(e) /\ e.stamp = newest
OnDisk ==
  /\ local[newest] = "whole" /\ ~Held(newest)
  /\ KeepLocal > 0 /\ bak.pc \in {"prune", "remove"} => newest \notin bak.todo
  /\ KeepLocal = 0 /\ bak.pc = "remove" => ~NextToPrune(newest)
Spared == LetOff /\ newest # 0 => Remote \/ OnDisk

\* What is being deleted is off the disk, and nothing puts it back there.
OffDisk ==
  del.stamp # 0 /\ del.alone
    => local[del.stamp] = "no" /\ del.stamp # res.stamp /\ del.stamp # bak.stamp

EnginesInv == EngineTypes /\ Taken /\ Stamped /\ NotYet /\ Spared /\ OffDisk

-----------------------------------------------------------------------------
(* Retention *)

Latecomer(s, k) == [at |-> made + 1, stamp |-> s, pass |-> k]

\* Whatever retention is set, the snapshot just made and the one made last before it stay
\* (EnsureRetention's floor of two), and nothing else comes in.
LEMMA LastTwoStay ==
  ASSUME EnginesAssumption, EngineTypes, Taken,
         NEW s \in Stamps, NEW k \in {1, 2}, Snapshot(s, k)
  PROVE  /\ Latecomer(s, k) \in snaps'
         /\ snaps' \subseteq snaps \cup {Latecomer(s, k)}
         /\ \A e \in snaps : (\A f \in snaps : f.at <= e.at) => e \in snaps'
<1> DEFINE new == Latecomer(s, k)
           all == snaps \cup {new}
           Later(e) == {f \in all : f.at > e.at}
<1>1. Latest \in Nat /\ Latest >= 2
  BY DEF EnginesAssumption, Latest
<1>2. snaps' = IF policy THEN {e \in all : Cardinality(Later(e)) < Latest} ELSE all
  BY DEF Snapshot, Latecomer
<1>3. new.at = made + 1 /\ \A e \in snaps : e.at \in Nat /\ e.at <= made
  BY DEF Latecomer, EngineTypes, Taken
<1>4. Later(new) = {}
  <2>1. \A f \in all : ~(f.at > new.at)
    BY <1>3 DEF EngineTypes
  <2>2. QED
    BY <2>1
<1>5. Cardinality(Later(new)) < Latest
  BY <1>1, <1>4, FS_EmptySet
<1>6. ASSUME NEW e \in snaps, \A f \in snaps : f.at <= e.at
      PROVE  Cardinality(Later(e)) < Latest
  <2>1. new.at > e.at /\ \A f \in snaps : ~(f.at > e.at)
    BY <1>3, <1>6 DEF EngineTypes
  <2>2. Later(e) = {new}
    BY <2>1
  <2>3. Cardinality({new}) = 1
    BY FS_Singleton
  <2>4. QED
    BY <1>1, <2>2, <2>3
<1> HIDE DEF Later, new
<1>7. CASE policy
  BY <1>2, <1>5, <1>6, <1>7 DEF new
<1>8. CASE ~policy
  BY <1>2, <1>8 DEF new
<1>9. QED
  BY <1>7, <1>8

-----------------------------------------------------------------------------
(* One lemma per action *)

LEMMA EnginesInitInv ==
  ASSUME EnginesAssumption, EnginesInit
  PROVE  EnginesInv
<1>1. EngineTypes
  <2>1. bak \in Backups
    BY DEF EnginesInit, BackupStages
  <2>2. local \in [Stamps -> {"no", "whole", "cut"}]
    BY DEF EnginesInit
  <2>3. del \in [stamp : Nat, alone : BOOLEAN] /\ res \in [stamp : Nat, fetched : BOOLEAN]
    BY DEF EnginesInit
  <2>4. snaps \subseteq [at : Nat \ {0}, stamp : Stamps, pass : {1, 2}]
    BY DEF EnginesInit
  <2>5. made \in Nat /\ taken \in 0..MaxStamp /\ newest \in Nat
    BY DEF EnginesInit, EnginesAssumption
  <2>6. policy \in BOOLEAN
    BY DEF EnginesInit
  <2>7. QED
    BY <2>1, <2>2, <2>3, <2>4, <2>5, <2>6 DEF EngineTypes
<1>2. Taken /\ Stamped /\ NotYet /\ Spared /\ OffDisk
  BY DEF EnginesInit, Taken, Stamped, NotYet, Spared, OffDisk
<1>3. QED
  BY <1>1, <1>2 DEF EnginesInv

\* What a backup that is made leaves the scheduler to do.
LEMMA MadeIs ==
  ASSUME EngineTypes, NEW archives \in SUBSET Stamps, Made(archives)
  PROVE  /\ bak' \in Backups
         /\ \/ bak' = NoBackup
            \/ /\ bak'.pc = "prune" /\ bak'.stamp = bak.stamp
               /\ bak.nightly /\ bak'.todo = Surplus(archives)
         /\ Surplus(archives) \subseteq archives
<1>1. Surplus(archives) \subseteq archives
  BY DEF Surplus
<1>2. CASE bak.nightly
  <2>1. bak' = [bak EXCEPT !.pc = "prune", !.todo = Surplus(archives)]
    BY <1>2 DEF Made
  <2>2. bak' \in Backups
    BY <1>1, <2>1 DEF EngineTypes, BackupStages
  <2>3. bak'.pc = "prune" /\ bak'.stamp = bak.stamp /\ bak'.todo = Surplus(archives)
    BY <2>1 DEF EngineTypes
  <2>4. QED
    BY <1>1, <1>2, <2>2, <2>3
<1>3. CASE ~bak.nightly
  <2>1. bak' = NoBackup
    BY <1>3 DEF Made
  <2>2. QED
    BY <1>1, <2>1 DEF BackupStages
<1>4. QED
  BY <1>2, <1>3

\* The backup of a stage has a stamp, which was taken.
LEMMA StampTaken ==
  ASSUME EnginesAssumption, EngineTypes, Taken, Stamped, bak.pc # "idle"
  PROVE  bak.stamp \in Stamps /\ bak.stamp <= taken /\ taken \in Nat
BY DEF EngineTypes, Taken, Stamped

LEMMA StutterKeeps ==
  ASSUME EnginesAssumption, EnginesInv, UNCHANGED enginesVars
  PROVE  EnginesInv'
<1>1. EngineTypes'
  BY DEF EnginesInv, EngineTypes, enginesVars
<1>2. Taken'
  BY DEF EnginesInv, Taken, enginesVars
<1>3. Stamped'
  BY DEF EnginesInv, Stamped, enginesVars
<1>4. NotYet'
  BY DEF EnginesInv, NotYet, enginesVars
<1>5. Spared'
  BY DEF EnginesInv, Spared, Remote, OnDisk, Held, LastWhole, NextToPrune, enginesVars
<1>6. OffDisk'
  BY DEF EnginesInv, OffDisk, enginesVars
<1>7. QED
  BY <1>1, <1>2, <1>3, <1>4, <1>5, <1>6 DEF EnginesInv

LEMMA BeginKeeps ==
  ASSUME EnginesAssumption, EnginesInv, Begin
  PROVE  EnginesInv'
<1>1. EngineTypes'
  BY DEF EnginesInv, EngineTypes, Begin, BackupStages
<1>2. Taken'
  BY DEF EnginesInv, EngineTypes, Taken, Begin
<1>3. Stamped'
  BY DEF EnginesInv, EngineTypes, Stamped, Begin
<1>4. NotYet'
  BY DEF EnginesInv, EngineTypes, Taken, NotYet, Begin
<1>5. Spared'
  BY DEF EnginesInv, Spared, Remote, OnDisk, Held, LastWhole, Begin
<1>6. OffDisk'
  BY DEF EnginesInv, EngineTypes, Taken, OffDisk, Begin
<1>7. QED
  BY <1>1, <1>2, <1>3, <1>4, <1>5, <1>6 DEF EnginesInv

LEMMA LocalBackupDone ==
  ASSUME EnginesAssumption, EnginesInv, bak.pc = "local", Made(Archives \cup {bak.stamp}),
         local' = [local EXCEPT ![bak.stamp] = "whole"],
         newest' = IF Overtaken THEN 0 ELSE bak.stamp,
         UNCHANGED <<repository, policy, taken, del, res>>
  PROVE EnginesInv'
<1>1. bak.stamp \in Stamps /\ bak.stamp <= taken /\ taken \in Nat
  BY StampTaken DEF EnginesInv
<1>2. /\ Archives \cup {bak.stamp} \in SUBSET Stamps
      /\ \A s \in Archives \cup {bak.stamp} : s <= taken
  BY <1>1 DEF Archives, EnginesInv, Taken
<1>3. /\ bak' \in Backups
      /\ \/ bak' = NoBackup
         \/ /\ bak'.pc = "prune" /\ bak'.stamp = bak.stamp
            /\ bak.nightly /\ bak'.todo = Surplus(Archives \cup {bak.stamp})
      /\ \A s \in bak'.todo : s <= taken
  BY <1>2, MadeIs DEF EnginesInv
<1>4. KeepLocal > 0 /\ newest' # 0 /\ bak'.pc = "prune" /\ LetOff => newest' \notin bak'.todo
  BY <1>3 DEF Overtaken
<1>5. newest' \in {0, bak.stamp} /\ ~Held(bak.stamp)
  BY DEF Held, EnginesInv, NotYet
<1>6. EngineTypes'
  BY <1>3 DEF EnginesInv, EngineTypes
<1>7. Taken'
  BY <1>1, <1>3 DEF EnginesInv, Taken
<1>8. Stamped'
  BY <1>3 DEF EnginesInv, Stamped
<1>9. NotYet'
  BY <1>3 DEF EnginesInv, NotYet
<1>10. Spared'
  BY <1>1, <1>3, <1>4, <1>5 DEF EnginesInv, EngineTypes, Spared, OnDisk, Held
<1>11. OffDisk'
  BY <1>3 DEF EnginesInv, OffDisk
<1>12. QED
  BY <1>6, <1>7, <1>8, <1>9, <1>10, <1>11 DEF EnginesInv

LEMMA LocalBackupKeeps ==
  ASSUME EnginesAssumption, EnginesInv, LocalBackup
  PROVE  EnginesInv'
<1>1. CASE bak' = NoBackup /\ UNCHANGED <<local, newest>>
  <2>1. EngineTypes'
    BY <1>1 DEF EnginesInv, LocalBackup, EngineTypes, BackupStages
  <2>2. Taken'
    BY <1>1 DEF EnginesInv, LocalBackup, EngineTypes, Taken
  <2>3. Stamped'
    BY <1>1 DEF EnginesInv, LocalBackup, Stamped
  <2>4. NotYet'
    BY <1>1 DEF EnginesInv, NotYet
  <2>5. Spared'
    BY <1>1 DEF EnginesInv, LocalBackup, Spared, Remote, OnDisk, Held, LastWhole
  <2>6. OffDisk'
    BY <1>1 DEF EnginesInv, LocalBackup, OffDisk
  <2>7. QED
    BY <2>1, <2>2, <2>3, <2>4, <2>5, <2>6 DEF EnginesInv
<1>2. QED
  BY <1>1, LocalBackupDone DEF LocalBackup

LEMMA CommitDone ==
  ASSUME EnginesAssumption, EnginesInv, bak.pc = "commit", Held(bak.stamp), Made(Archives),
         snaps' \subseteq snaps, \A e \in snaps : e.pass = 2 => e \in snaps',
         NEW stays \in snaps, LastWhole(stays), newest' = stays.stamp,
         UNCHANGED <<local, made, policy, taken, del, res>>
  PROVE EnginesInv'
<1>1. /\ bak' \in Backups
      /\ \/ bak' = NoBackup
         \/ /\ bak'.pc = "prune" /\ bak'.stamp = bak.stamp /\ bak'.todo \subseteq Archives
  BY MadeIs DEF Archives, EnginesInv
<1>2. \A s \in bak'.todo : s <= taken
  BY <1>1 DEF Archives, EnginesInv, Taken
<1>3. bak.stamp # 0 /\ stays \in snaps' /\ stays.stamp \in Stamps /\ stays.stamp <= taken
  BY DEF LastWhole, EnginesInv, EngineTypes, Taken, Stamped
<1>4. EngineTypes'
  BY <1>1 DEF EnginesInv, EngineTypes
<1>5. Taken'
  BY <1>1, <1>2 DEF EnginesInv, EngineTypes, Taken
<1>6. Stamped'
  BY <1>1 DEF EnginesInv, Stamped
<1>7. NotYet'
  BY <1>1 DEF EnginesInv, NotYet
<1>8. Spared'
  <2>1. LastWhole(stays)'
    BY DEF LastWhole
  <2>2. QED
    BY <1>3, <2>1 DEF Spared, Remote
<1>9. OffDisk'
  BY <1>1 DEF EnginesInv, OffDisk
<1>10. QED
  BY <1>4, <1>5, <1>6, <1>7, <1>8, <1>9 DEF EnginesInv

LEMMA CommitKeeps ==
  ASSUME EnginesAssumption, EnginesInv, CommitKopia
  PROVE  EnginesInv'
<1>1. ASSUME bak.pc = "commit", bak' = [bak EXCEPT !.pc = "abort"],
             newest' = (IF LetOff THEN 0 ELSE newest),
             UNCHANGED <<snaps, local, made, policy, taken, del, res>>
      PROVE  EnginesInv'
  <2>1. /\ bak' \in Backups
        /\ bak'.pc = "abort" /\ bak'.stamp = bak.stamp /\ bak'.todo = bak.todo /\ bak.stamp # 0
    BY <1>1 DEF EnginesInv, EngineTypes, BackupStages, Stamped
  <2>2. EngineTypes'
    BY <1>1, <2>1 DEF EnginesInv, EngineTypes
  <2>3. Taken'
    BY <1>1 DEF EnginesInv, EngineTypes, Taken
  <2>4. Stamped'
    BY <1>1 DEF EnginesInv, Stamped
  <2>5. NotYet'
    BY <1>1, <2>1 DEF EnginesInv, NotYet
  <2>6. Spared'
    BY <1>1 DEF EnginesInv, Spared
  <2>7. OffDisk'
    BY <1>1 DEF EnginesInv, OffDisk
  <2>8. QED
    BY <2>2, <2>3, <2>4, <2>5, <2>6, <2>7 DEF EnginesInv
<1>2. ASSUME snaps' = {e \in snaps : e.stamp = bak.stamp => e.pass = 2} \/ UNCHANGED snaps
      PROVE  snaps' \subseteq snaps /\ \A e \in snaps : e.pass = 2 => e \in snaps'
  BY <1>2
<1>3. QED
  BY <1>1, <1>2, CommitDone DEF CommitKopia

LEMMA PruneKeeps ==
  ASSUME EnginesAssumption, EnginesInv, Prune
  PROVE  EnginesInv'
<1>1. bak.pc = "prune" /\ UNCHANGED <<local, snaps, made, policy, taken, del, res, newest>>
  BY DEF Prune
<1>2. ASSUME bak' = NoBackup PROVE EnginesInv'
  <2>1. EngineTypes'
    BY <1>1, <1>2 DEF EnginesInv, EngineTypes, BackupStages
  <2>2. Taken'
    BY <1>1, <1>2 DEF EnginesInv, EngineTypes, Taken
  <2>3. Stamped'
    BY <1>1, <1>2 DEF EnginesInv, Stamped
  <2>4. NotYet'
    BY <1>2 DEF EnginesInv, NotYet
  <2>5. Spared'
    BY <1>1, <1>2 DEF EnginesInv, Spared, Remote, OnDisk, Held, LastWhole
  <2>6. OffDisk'
    BY <1>1, <1>2 DEF EnginesInv, OffDisk
  <2>7. QED
    BY <2>1, <2>2, <2>3, <2>4, <2>5, <2>6 DEF EnginesInv
<1>3. ASSUME NEW s \in bak.todo, NextToPrune(s), bak' = [bak EXCEPT !.pc = "remove"],
             KeepLocal = 0 => Held(s)
      PROVE  EnginesInv'
  <2>1. /\ bak' \in Backups
        /\ bak'.pc = "remove" /\ bak'.stamp = bak.stamp /\ bak'.todo = bak.todo /\ bak.stamp # 0
    BY <1>3 DEF EnginesInv, EngineTypes, BackupStages, Stamped
  <2>2. EngineTypes'
    BY <1>1, <2>1 DEF EnginesInv, EngineTypes
  <2>3. Taken'
    BY <1>1, <2>1 DEF EnginesInv, Taken
  <2>4. Stamped'
    BY <1>1, <2>1 DEF EnginesInv, Stamped
  <2>5. NotYet'
    BY <2>1 DEF EnginesInv, NotYet
  <2>6. Spared'
    BY <1>1, <1>3, <2>1
       DEF EnginesInv, Spared, Remote, OnDisk, Held, LastWhole, NextToPrune
  <2>7. OffDisk'
    BY <1>1, <2>1 DEF EnginesInv, OffDisk
  <2>8. QED
    BY <2>2, <2>3, <2>4, <2>5, <2>6, <2>7 DEF EnginesInv
<1>4. ASSUME NEW s \in bak.todo, bak' = [bak EXCEPT !.todo = @ \ {s}]
      PROVE  EnginesInv'
  <2>1. /\ bak' \in Backups
        /\ bak'.pc = "prune" /\ bak'.stamp = bak.stamp /\ bak'.todo = bak.todo \ {s} /\ bak.stamp # 0
    <3>1. bak.todo \ {s} \in SUBSET Stamps /\ bak \in Backups /\ bak.stamp # 0
      BY <1>1 DEF EnginesInv, EngineTypes, Stamped
    <3>2. bak' = [bak EXCEPT !.todo = bak.todo \ {s}]
      BY <1>4
    <3>3. QED
      BY <1>1, <3>1, <3>2
  <2>2. EngineTypes'
    BY <1>1, <2>1 DEF EnginesInv, EngineTypes
  <2>3. Taken'
    BY <1>1, <2>1 DEF EnginesInv, Taken
  <2>4. Stamped'
    BY <1>1, <2>1 DEF EnginesInv, Stamped
  <2>5. NotYet'
    BY <2>1 DEF EnginesInv, NotYet
  <2>6. Spared'
    BY <1>1, <2>1 DEF EnginesInv, Spared, Remote, OnDisk, Held, LastWhole
  <2>7. OffDisk'
    BY <1>1, <2>1 DEF EnginesInv, OffDisk
  <2>8. QED
    BY <2>2, <2>3, <2>4, <2>5, <2>6, <2>7 DEF EnginesInv
<1>5. QED
  <2>1. CASE bak.todo = {} /\ bak' = NoBackup
    BY <1>2, <2>1
  <2>2. ASSUME NEW s \in bak.todo, NEW may \in MayPrune(s), NextToPrune(s),
               bak' = (IF may THEN [bak EXCEPT !.pc = "remove"]
                              ELSE [bak EXCEPT !.todo = @ \ {s}])
        PROVE  EnginesInv'
    <3>1. CASE may
      <4>1. KeepLocal = 0 => Held(s)
        <5>1. KeepLocal = 0 => ~(KeepLocal > 0)
          OBVIOUS
        <5>2. QED
          BY <3>1, <5>1 DEF MayPrune
      <4>2. bak' = [bak EXCEPT !.pc = "remove"]
        BY <2>2, <3>1
      <4>3. QED
        BY <1>3, <2>2, <4>1, <4>2
    <3>2. CASE ~may
      <4>1. bak' = [bak EXCEPT !.todo = @ \ {s}]
        BY <2>2, <3>2
      <4>2. QED
        BY <1>4, <4>1
    <3>3. QED
      BY <3>1, <3>2
  <2>3. QED
    BY <2>1, <2>2 DEF Prune

LEMMA RemoveKeeps ==
  ASSUME EnginesAssumption, EnginesInv, Remove
  PROVE  EnginesInv'
<1>1. PICK s \in bak.todo : /\ NextToPrune(s)
                            /\ local' = [local EXCEPT ![s] = "no"]
                            /\ bak' = [bak EXCEPT !.pc = "prune", !.todo = @ \ {s}]
  BY DEF Remove
<1>2. /\ bak' \in Backups
      /\ bak'.pc = "prune" /\ bak'.stamp = bak.stamp /\ bak'.todo = bak.todo \ {s} /\ bak.stamp # 0
  <2>1. bak.todo \ {s} \in SUBSET Stamps /\ bak \in Backups /\ bak.stamp # 0
    BY DEF EnginesInv, EngineTypes, Stamped
  <2>2. bak' = [bak EXCEPT !.pc = "prune", !.todo = bak.todo \ {s}]
    BY <1>1
  <2>3. QED
    BY <2>1, <2>2 DEF BackupStages
<1>3. local' \in [Stamps -> {"no", "whole", "cut"}] /\ s \in Stamps
  BY <1>1 DEF EnginesInv, EngineTypes
<1>4. EngineTypes'
  BY <1>2 DEF EnginesInv, EngineTypes, Remove
<1>5. Taken'
  BY DEF EnginesInv, Taken, Remove
<1>6. Stamped'
  BY DEF EnginesInv, Stamped, Remove
<1>7. NotYet'
  BY <1>2 DEF EnginesInv, NotYet
<1>8. Spared'
  BY DEF EnginesInv, Spared, Remote, OnDisk, Held, LastWhole, Remove
<1>9. OffDisk'
  BY DEF EnginesInv, OffDisk, Remove
<1>10. QED
  BY <1>4, <1>5, <1>6, <1>7, <1>8, <1>9 DEF EnginesInv

LEMMA AbortKeeps ==
  ASSUME EnginesAssumption, EnginesInv, Abort
  PROVE  EnginesInv'
<1>1. EngineTypes'
  BY DEF EnginesInv, EngineTypes, Abort, Drop, BackupStages
<1>2. Taken'
  BY DEF EnginesInv, EngineTypes, Taken, Abort, Drop
<1>3. Stamped'
  BY DEF EnginesInv, Stamped, Abort
<1>4. NotYet'
  BY DEF EnginesInv, NotYet, Abort
<1>5. Spared'
  BY DEF EnginesInv, NotYet, Spared, Remote, OnDisk, Held, LastWhole, Abort, Drop
<1>6. OffDisk'
  BY DEF EnginesInv, OffDisk, Abort
<1>7. QED
  BY <1>1, <1>2, <1>3, <1>4, <1>5, <1>6 DEF EnginesInv

LEMMA DeleteLocalKeeps ==
  ASSUME EnginesAssumption, EnginesInv, DeleteLocal
  PROVE  EnginesInv'
<1>1. PICK s \in 1..taken : /\ local' = [local EXCEPT ![s] = "no"]
                              /\ del' = [stamp |-> s, alone |-> s \notin {res.stamp, bak.stamp}]
                              /\ IF local[s] # "no" THEN Undone(s) ELSE UNCHANGED newest
  BY DEF DeleteLocal
<1>2. s \in Stamps /\ s <= taken /\ taken \in Nat
  BY DEF EnginesInv, EngineTypes, EnginesAssumption
<1>3. del' \in [stamp : Nat, alone : BOOLEAN] /\ del'.stamp = s
  BY <1>1, <1>2
<1>4. del'.alone => s # res.stamp /\ s # bak.stamp
  <2>1. del'.alone = (s \notin {res.stamp, bak.stamp})
    BY <1>1
  <2>2. QED
    BY <2>1
<1>5. newest' \in {0, newest} /\ (newest' # 0 /\ local[s] # "no" => newest' # s)
  BY <1>1 DEF Undone
<1>6. EngineTypes'
  BY <1>5 DEF EnginesInv, EngineTypes, DeleteLocal
<1>7. Taken'
  BY <1>5 DEF EnginesInv, Taken, DeleteLocal
<1>8. Stamped'
  BY DEF EnginesInv, Stamped, DeleteLocal
<1>9. NotYet'
  BY <1>5 DEF EnginesInv, Stamped, NotYet, DeleteLocal
<1>10. Spared'
  BY <1>3, <1>5
     DEF EnginesInv, Spared, Remote, OnDisk, Held, LastWhole, NextToPrune, DeleteLocal
<1>11. OffDisk'
  BY <1>3, <1>4 DEF EnginesInv, EngineTypes, OffDisk, DeleteLocal
<1>12. QED
  BY <1>6, <1>7, <1>8, <1>9, <1>10, <1>11 DEF EnginesInv

LEMMA DeleteKopiaKeeps ==
  ASSUME EnginesAssumption, EnginesInv, NEW answers \in BOOLEAN, DeleteKopia(answers)
  PROVE  EnginesInv'
<1>1. EngineTypes'
  BY DEF EnginesInv, EngineTypes, DeleteKopia, Undone, Drop
<1>2. Taken'
  BY DEF EnginesInv, EngineTypes, Taken, DeleteKopia, Undone, Drop
<1>3. Stamped'
  BY DEF EnginesInv, Stamped, DeleteKopia
<1>4. NotYet'
  BY DEF EnginesInv, Stamped, NotYet, DeleteKopia, Undone, Drop
<1>5. Spared'
  BY DEF EnginesInv, Spared, Remote, OnDisk, Held, LastWhole, NextToPrune,
         DeleteKopia, Undone, Drop
<1>6. OffDisk'
  BY DEF EnginesInv, OffDisk, DeleteKopia
<1>7. QED
  BY <1>1, <1>2, <1>3, <1>4, <1>5, <1>6 DEF EnginesInv

LEMMA LocateKeeps ==
  ASSUME EnginesAssumption, EnginesInv, Locate
  PROVE  EnginesInv'
<1>1. local' \in [Stamps -> {"no", "whole", "cut"}]
  BY DEF Locate, EnginesInv, EngineTypes
<1>2. PICK s \in 1..taken : /\ res' \in {[stamp |-> s, fetched |-> f] : f \in BOOLEAN}
                              /\ del' = IF del.stamp = s THEN [del EXCEPT !.alone = FALSE] ELSE del
  BY DEF Locate
<1>3. res' \in [stamp : Nat, fetched : BOOLEAN] /\ del \in [stamp : Nat, alone : BOOLEAN]
  <2>1. s \in Nat /\ del \in [stamp : Nat, alone : BOOLEAN]
    BY DEF EnginesInv, EngineTypes
  <2>2. CASE res' = [stamp |-> s, fetched |-> TRUE]
    BY <2>1, <2>2
  <2>3. CASE res' = [stamp |-> s, fetched |-> FALSE]
    BY <2>1, <2>3
  <2>4. QED
    BY <1>2, <2>2, <2>3
<1>4. del' \in [stamp : Nat, alone : BOOLEAN]
  BY <1>2, <1>3
<1>5. EngineTypes'
  BY <1>3 DEF EnginesInv, EngineTypes, Locate
<1>6. Taken'
  BY <1>1 DEF EnginesInv, Taken, Locate
<1>7. Stamped'
  BY DEF EnginesInv, Stamped, Locate
<1>8. NotYet'
  BY DEF EnginesInv, NotYet, Locate
<1>9. Spared'
  BY DEF EnginesInv, EngineTypes, Taken, Spared, Remote, OnDisk, Held, LastWhole,
         NextToPrune, Locate
<1>10. OffDisk'
  BY DEF EnginesInv, EngineTypes, Taken, OffDisk, Locate
<1>11. QED
  BY <1>5, <1>6, <1>7, <1>8, <1>9, <1>10 DEF EnginesInv

LEMMA FetchKeeps ==
  ASSUME EnginesAssumption, EnginesInv, Fetch
  PROVE  EnginesInv'
<1>1. local' \in [Stamps -> {"no", "whole", "cut"}]
  BY DEF Fetch, EnginesInv, EngineTypes
<1>2. res \in [stamp : Nat, fetched : BOOLEAN]
  BY DEF EnginesInv, EngineTypes
<1>3. res' = [res EXCEPT !.fetched = TRUE] \/ res' = NoRestore
  BY DEF Fetch
<1>4. res' \in [stamp : Nat, fetched : BOOLEAN]
  <2>1. CASE res' = [res EXCEPT !.fetched = TRUE]
    BY <1>2, <2>1
  <2>2. CASE res' = NoRestore
    BY <2>2
  <2>3. QED
    BY <1>3, <2>1, <2>2
<1>5. EngineTypes'
  BY <1>1, <1>4 DEF EnginesInv, EngineTypes, Fetch
<1>6. Taken'
  BY DEF EnginesInv, EngineTypes, Taken, Fetch
<1>7. Stamped'
  BY <1>4 DEF EnginesInv, Stamped, Fetch
<1>8. NotYet'
  BY DEF EnginesInv, NotYet, Fetch
<1>9. Spared'
  BY DEF EnginesInv, EngineTypes, Taken, Spared, Remote, OnDisk, Held, LastWhole,
         NextToPrune, Fetch
<1>10. OffDisk'
  BY DEF EnginesInv, EngineTypes, Taken, OffDisk, Fetch
<1>11. QED
  BY <1>5, <1>6, <1>7, <1>8, <1>9, <1>10 DEF EnginesInv

LEMMA SwapKeeps ==
  ASSUME EnginesAssumption, EnginesInv, Swap
  PROVE  EnginesInv'
<1>1. EngineTypes'
  BY DEF EnginesInv, EngineTypes, Taken, Stamped, Swap, Undone
<1>2. Taken'
  BY DEF EnginesInv, EngineTypes, Taken, Swap, Undone
<1>3. Stamped'
  BY DEF EnginesInv, Stamped, Swap
<1>4. NotYet'
  BY DEF EnginesInv, Stamped, NotYet, Swap, Undone
<1>5. Spared'
  BY DEF EnginesInv, Spared, Remote, OnDisk, Held, LastWhole, NextToPrune, Swap,
         Undone
<1>6. OffDisk'
  BY DEF EnginesInv, OffDisk, Swap
<1>7. QED
  BY <1>1, <1>2, <1>3, <1>4, <1>5, <1>6 DEF EnginesInv

LEMMA RestartKeeps ==
  ASSUME EnginesAssumption, EnginesInv, Restart
  PROVE  EnginesInv'
<1>1. EngineTypes'
  BY DEF EnginesInv, EngineTypes, Restart, BackupStages
<1>2. Taken'
  BY DEF EnginesInv, EngineTypes, Taken, Restart
<1>3. Stamped'
  BY DEF EnginesInv, Stamped, Restart
<1>4. NotYet'
  BY DEF EnginesInv, NotYet, Restart
<1>5. Spared'
  BY DEF EnginesInv, Spared, Remote, OnDisk, Held, LastWhole, Restart
<1>6. OffDisk'
  BY DEF EnginesInv, OffDisk, Restart
<1>7. QED
  BY <1>1, <1>2, <1>3, <1>4, <1>5, <1>6 DEF EnginesInv

\* A first pass: the whole snapshot made last stays, unless a leftover takes its place.
LEMMA FirstPassKeeps ==
  ASSUME EnginesAssumption, EnginesInv, Pass(1, "first", "second") PROVE EnginesInv'
<1>0. bak.pc = "first" /\ UNCHANGED <<local, policy, taken, del, res>>
  BY DEF Pass
<1>1. bak.stamp \in Stamps /\ bak.stamp <= taken /\ taken \in Nat /\ bak \in Backups
  BY <1>0, StampTaken DEF EnginesInv, EngineTypes
<1>2. ASSUME bak' = [bak EXCEPT !.pc = "abort"], UNCHANGED <<snaps, made, newest>>
      PROVE  EnginesInv'
  <2>1. /\ bak' \in Backups
        /\ bak'.pc = "abort" /\ bak'.stamp = bak.stamp /\ bak'.todo = bak.todo /\ bak.stamp # 0
    BY <1>1, <1>2 DEF BackupStages
  <2>2. EngineTypes'
    BY <1>0, <1>2, <2>1 DEF EnginesInv, EngineTypes
  <2>3. Taken'
    BY <1>0, <1>2 DEF EnginesInv, Taken
  <2>4. Stamped'
    BY <1>0, <2>1 DEF EnginesInv, Stamped
  <2>5. NotYet'
    BY <1>0, <1>2 DEF EnginesInv, NotYet
  <2>6. Spared'
    BY <1>0, <1>2 DEF EnginesInv, Spared, Remote, OnDisk, Held, LastWhole
  <2>7. OffDisk'
    BY <1>0, <2>1 DEF EnginesInv, OffDisk
  <2>8. QED
    BY <2>2, <2>3, <2>4, <2>5, <2>6, <2>7 DEF EnginesInv
<1>3. ASSUME Snapshot(bak.stamp, 1), bak' = [bak EXCEPT !.pc = "second"],
             newest' = IF Leftover THEN 0 ELSE newest
      PROVE  EnginesInv'
  <2>0. PICK new : new = Latecomer(bak.stamp, 1)
    OBVIOUS
  <2>1. /\ bak' \in Backups
        /\ bak'.pc = "second" /\ bak'.stamp = bak.stamp /\ bak'.todo = bak.todo /\ bak.stamp # 0
    BY <1>1, <1>3 DEF BackupStages
  <2>2. /\ snaps' \subseteq snaps \cup {new} /\ made' = made + 1
        /\ \A e \in snaps : (\A f \in snaps : f.at <= e.at) => e \in snaps'
    BY <1>1, <1>3, <2>0, LastTwoStay DEF EnginesInv, Snapshot
  <2>3. /\ new \in [at : Nat \ {0}, stamp : Stamps, pass : {1, 2}]
        /\ new.at = made + 1 /\ new.stamp = bak.stamp /\ new.pass = 1
    BY <1>1, <2>0 DEF Latecomer, EnginesInv, EngineTypes
  <2>4. EngineTypes'
    BY <1>0, <1>3, <2>1, <2>2, <2>3 DEF EnginesInv, EngineTypes
  <2>5. Taken'
    BY <1>0, <1>3, <2>2, <2>3 DEF EnginesInv, EngineTypes, Taken
  <2>6. Stamped'
    BY <1>0, <2>1 DEF EnginesInv, Stamped
  <2>7. NotYet'
    BY <1>0, <1>3, <2>3 DEF EnginesInv, NotYet
  <2>8. Spared'
    <3> SUFFICES ASSUME LetOff, newest' # 0 PROVE Remote' \/ OnDisk'
      BY DEF Spared
    <3>1. newest' = newest /\ ~Leftover /\ newest # 0
      BY <1>3
    <3>2. \A e \in snaps : e.pass = 2
      BY <1>0, <3>1 DEF Leftover, EnginesInv, EngineTypes, NotYet
    <3>3. CASE Remote
      <4>1. PICK e \in snaps : LastWhole(e) /\ e.stamp = newest
        BY <3>3 DEF Remote
      <4>2. e \in snaps'
        BY <2>2, <3>2, <4>1 DEF LastWhole
      <4>3. LastWhole(e)'
        BY <2>2, <2>3, <4>1 DEF LastWhole
      <4>4. QED
        BY <3>1, <4>1, <4>2, <4>3 DEF Remote
    <3>4. CASE OnDisk
      BY <1>0, <2>1, <2>2, <2>3, <3>1, <3>4 DEF OnDisk, Held
    <3>5. QED
      BY <3>1, <3>3, <3>4 DEF EnginesInv, Spared
  <2>9. OffDisk'
    BY <1>0, <2>1 DEF EnginesInv, OffDisk
  <2>10. QED
    BY <2>4, <2>5, <2>6, <2>7, <2>8, <2>9 DEF EnginesInv
<1>4. QED
  BY <1>2, <1>3 DEF Pass, repository

\* The last pass: it is the whole snapshot made last.
LEMMA LastPassKeeps ==
  ASSUME EnginesAssumption, EnginesInv, Pass(2, "second", "commit") PROVE EnginesInv'
<1>0. bak.pc = "second" /\ UNCHANGED <<local, policy, taken, del, res>>
  BY DEF Pass
<1>1. bak.stamp \in Stamps /\ bak.stamp <= taken /\ taken \in Nat /\ bak \in Backups
  BY <1>0, StampTaken DEF EnginesInv, EngineTypes
<1>2. ASSUME bak' = [bak EXCEPT !.pc = "abort"], UNCHANGED <<snaps, made, newest>>
      PROVE  EnginesInv'
  <2>1. /\ bak' \in Backups
        /\ bak'.pc = "abort" /\ bak'.stamp = bak.stamp /\ bak'.todo = bak.todo /\ bak.stamp # 0
    BY <1>1, <1>2 DEF BackupStages
  <2>2. EngineTypes'
    BY <1>0, <1>2, <2>1 DEF EnginesInv, EngineTypes
  <2>3. Taken'
    BY <1>0, <1>2 DEF EnginesInv, Taken
  <2>4. Stamped'
    BY <1>0, <2>1 DEF EnginesInv, Stamped
  <2>5. NotYet'
    BY <1>0, <1>2 DEF EnginesInv, NotYet
  <2>6. Spared'
    BY <1>0, <1>2 DEF EnginesInv, Spared, Remote, OnDisk, Held, LastWhole
  <2>7. OffDisk'
    BY <1>0, <2>1 DEF EnginesInv, OffDisk
  <2>8. QED
    BY <2>2, <2>3, <2>4, <2>5, <2>6, <2>7 DEF EnginesInv
<1>3. ASSUME Snapshot(bak.stamp, 2), bak' = [bak EXCEPT !.pc = "commit"],
             newest' \in {0, bak.stamp}
      PROVE  EnginesInv'
  <2>0. PICK new : new = Latecomer(bak.stamp, 2)
    OBVIOUS
  <2>1. /\ bak' \in Backups
        /\ bak'.pc = "commit" /\ bak'.stamp = bak.stamp /\ bak'.todo = bak.todo /\ bak.stamp # 0
    BY <1>1, <1>3 DEF BackupStages
  <2>2. snaps' \subseteq snaps \cup {new} /\ new \in snaps' /\ made' = made + 1
    BY <1>1, <1>3, <2>0, LastTwoStay DEF EnginesInv, Snapshot
  <2>3. /\ new \in [at : Nat \ {0}, stamp : Stamps, pass : {1, 2}]
        /\ new.at = made + 1 /\ new.stamp = bak.stamp /\ new.pass = 2
    BY <1>1, <2>0 DEF Latecomer, EnginesInv, EngineTypes
  <2>4. EngineTypes'
    <3>1. newest' \in Nat
      BY <1>1, <1>3
    <3>2. snaps' \subseteq [at : Nat \ {0}, stamp : Stamps, pass : {1, 2}] /\ made' \in Nat
      BY <2>2, <2>3 DEF EnginesInv, EngineTypes
    <3>3. QED
      BY <1>0, <2>1, <3>1, <3>2 DEF EnginesInv, EngineTypes
  <2>5. Taken'
    BY <1>0, <1>3, <2>2, <2>3 DEF EnginesInv, EngineTypes, Taken
  <2>6. Stamped'
    BY <1>0, <2>1 DEF EnginesInv, Stamped
  <2>7. NotYet'
    BY <2>1 DEF EnginesInv, NotYet
  <2>8. Spared'
    <3>1. LastWhole(new)'
      BY <2>2, <2>3 DEF LastWhole, EnginesInv, EngineTypes, Taken
    <3>2. QED
      BY <1>3, <2>2, <2>3, <3>1 DEF Spared, Remote
  <2>9. OffDisk'
    BY <1>0, <2>1 DEF EnginesInv, OffDisk
  <2>10. QED
    BY <2>4, <2>5, <2>6, <2>7, <2>8, <2>9 DEF EnginesInv
<1>4. QED
  <2>1. ASSUME newest' = IF Leftover THEN 0 ELSE IF 2 = 2 /\ newest # 0 THEN bak.stamp ELSE newest
        PROVE  newest' \in {0, bak.stamp}
    BY <2>1
  <2>2. QED
    BY <1>2, <1>3 DEF Pass

\* An undo snapshot is the whole snapshot made last, too.
LEMMA InPlaceKeeps ==
  ASSUME EnginesAssumption, EnginesInv, InPlace
  PROVE  EnginesInv'
<1>0. PICK new : new = Latecomer(taken + 1, 2)
  OBVIOUS
<1>1. taken + 1 \in Stamps /\ taken' = taken + 1 /\ newest' \in {0, taken + 1} /\ taken \in Nat
      /\ UNCHANGED <<local, policy, bak, del, res>>
  BY DEF InPlace, EnginesInv, EngineTypes
<1>2. snaps' \subseteq snaps \cup {new} /\ new \in snaps' /\ made' = made + 1
  BY <1>0, <1>1, LastTwoStay DEF EnginesInv, Snapshot, InPlace
<1>3. /\ new \in [at : Nat \ {0}, stamp : Stamps, pass : {1, 2}]
      /\ new.at = made + 1 /\ new.stamp = taken + 1 /\ new.pass = 2
  BY <1>0, <1>1 DEF Latecomer, EnginesInv, EngineTypes
<1>4. EnginesInv'
  <2>1. EngineTypes'
    BY <1>1, <1>2, <1>3 DEF EnginesInv, EngineTypes
  <2>2. Taken'
    BY <1>1, <1>2, <1>3 DEF EnginesInv, EngineTypes, Taken
  <2>3. Stamped'
    BY <1>1 DEF EnginesInv, Stamped
  <2>4. NotYet'
    BY <1>1, <1>2, <1>3 DEF EnginesInv, Taken, Stamped, NotYet
  <2>5. Spared'
    <3>1. LastWhole(new)'
      BY <1>2, <1>3 DEF LastWhole, EnginesInv, EngineTypes, Taken
    <3>2. QED
      BY <1>1, <1>2, <1>3, <3>1 DEF Spared, Remote
  <2>6. OffDisk'
    BY <1>1 DEF EnginesInv, OffDisk
  <2>7. QED
    BY <2>1, <2>2, <2>3, <2>4, <2>5, <2>6 DEF EnginesInv
<1>5. QED
  BY <1>4

-----------------------------------------------------------------------------
(* The theorems *)

LEMMA EnginesStep ==
  ASSUME EnginesAssumption, EnginesInv, [EnginesNext]_enginesVars
  PROVE  EnginesInv'
<1>1. CASE BackupStep
  BY <1>1, BeginKeeps, LocalBackupKeeps, FirstPassKeeps, LastPassKeeps, CommitKeeps,
     AbortKeeps,
     PruneKeeps, RemoveKeeps DEF BackupStep
<1>2. CASE DeleteLocal
  BY <1>2, DeleteLocalKeeps
<1>3. CASE DeleteKopia(TRUE) \/ DeleteKopia(FALSE)
  BY <1>3, DeleteKopiaKeeps
<1>4. CASE RestoreStep
  BY <1>4, LocateKeeps, FetchKeeps, SwapKeeps, InPlaceKeeps DEF RestoreStep
<1>5. CASE Restart
  BY <1>5, RestartKeeps
<1>6. CASE UNCHANGED enginesVars
  BY <1>6, StutterKeeps
<1>7. QED
  BY <1>1, <1>2, <1>3, <1>4, <1>5, <1>6 DEF EnginesNext

\* The inductive invariant of the two engines.
THEOREM EnginesInvariance == EnginesSpec => []EnginesInv
<1>1. EnginesInit => EnginesInv
  BY EnginesInitInv, EnginesAssumption
<1>2. EnginesInv /\ [EnginesNext]_enginesVars => EnginesInv'
  BY EnginesStep, EnginesAssumption
<1>3. QED
  BY <1>1, <1>2, PTL DEF EnginesSpec

\* The types, and that whatever is under way is about a stamp that was taken.
THEOREM EnginesTypeTheorem == EnginesSpec => []EnginesTypeOK
<1>1. EnginesInv => EnginesTypeOK
  <2> SUFFICES ASSUME EnginesInv PROVE EnginesTypeOK
    OBVIOUS
  <2>1. snaps \subseteq [at : 1..made, stamp : 1..taken, pass : {1, 2}]
    <3> SUFFICES ASSUME NEW e \in snaps
                 PROVE  e \in [at : 1..made, stamp : 1..taken, pass : {1, 2}]
      OBVIOUS
    <3>1. e \in [at : Nat \ {0}, stamp : Stamps, pass : {1, 2}] /\ e.stamp <= taken /\ e.at <= made
      BY DEF EnginesInv, EngineTypes, Taken
    <3>2. e.at \in 1..made /\ e.stamp \in 1..taken
      BY <3>1, EnginesAssumption DEF EnginesAssumption, EnginesInv, EngineTypes
    <3>3. QED
      BY <3>1, <3>2
  <2>2. bak.stamp \in 0..taken /\ bak.todo \subseteq 1..taken
    BY EnginesAssumption DEF EnginesAssumption, EnginesInv, EngineTypes, Taken
  <2>3. del.stamp \in 0..taken /\ res.stamp \in 0..taken /\ newest \in 0..taken
    BY EnginesAssumption DEF EnginesAssumption, EnginesInv, EngineTypes, Taken
  <2>4. QED
    BY <2>1, <2>2, <2>3 DEF EnginesInv, EngineTypes, EnginesTypeOK
<1>2. QED
  BY <1>1, EnginesInvariance, PTL

\* The backup last reported as made stays on the disk or in the repository, whatever
\* retention is set, however many archives are kept, whatever fails, is pruned, aborted,
\* restored or killed, and for any number of backups; the losses LetOff names excepted.
THEOREM NewestTheorem ==
  ASSUME LetOff
  PROVE  EnginesSpec => []NewestKept
<1>1. EnginesInv => NewestKept
  BY DEF EnginesInv, Spared, Remote, OnDisk, LastWhole, Held, NewestKept
<1>2. QED
  BY <1>1, EnginesInvariance, PTL

\* What a user has deleted, while both engines answered and nothing was writing or
\* fetching it, is held by neither of them.
THEOREM DeletedTheorem == EnginesSpec => DeletedIsGone
<1>1. EnginesInv /\ [EnginesNext]_enginesVars =>
        [\A s \in Stamps : DeleteKopia(TRUE) /\ del = [stamp |-> s, alone |-> TRUE]
           => local'[s] = "no" /\ ~Held(s)']_enginesVars
  <2> SUFFICES ASSUME EnginesInv, NEW s \in Stamps, DeleteKopia(TRUE),
                      del = [stamp |-> s, alone |-> TRUE]
               PROVE  local'[s] = "no" /\ ~Held(s)'
    OBVIOUS
  <2>1. local[s] = "no" /\ local' = local /\ del.stamp = s
    BY DEF EnginesInv, OffDisk, DeleteKopia
  <2>2. snaps' = {e \in snaps : e.stamp # s} \/ (~Held(s) /\ snaps' = snaps)
    BY <2>1 DEF DeleteKopia, Drop
  <2>3. QED
    BY <2>1, <2>2 DEF Held
<1>2. QED
  BY <1>1, EnginesInvariance, PTL DEF EnginesSpec, DeletedIsGone
=============================================================================
