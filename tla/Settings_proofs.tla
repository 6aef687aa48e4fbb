--------------------------- MODULE Settings_proofs ----------------------------
(***************************************************************************)
(* Proofs about what pages save and show.  The settings: an app's backups go *)
(* to the engine that was chosen (WriterTheorem), and what is in effect is   *)
(* what is on disk (SettingsTheorem), for any sources and any number of      *)
(* requests.  The hub: pages come to show the last state           *)
(* (ToldShowsTheorem), for any workers, timers, pages and queues.            *)
(***************************************************************************)
EXTENDS Settings, EngineChoice, Live, TLAPS

-----------------------------------------------------------------------------
(* The engine *)

\* While a choice is stored and not applied, it is the last one and the only one.
Chosen ==
  /\ conf \in Choice /\ asked \in [Changes -> Choice \cup {"nothing"}]
  /\ ~crossed =>
       /\ \A r \in Changes : asked[r] # "nothing" =>
            /\ asked[r] = conf
            /\ \A s \in Changes : asked[s] # "nothing" => s = r
       /\ WritesWhereChosen

LEMMA ChosenInit == EngineInit => Chosen
  BY DEF EngineInit, Chosen, WritesWhereChosen, Built

LEMMA ChosenStep == Chosen /\ [EngineNext]_engineVars => Chosen'
<1> SUFFICES ASSUME Chosen, [EngineNext]_engineVars PROVE Chosen'
  OBVIOUS
<1>0. "nothing" \notin Choice
  BY DEF Choice, Engine
<1>1. ASSUME NEW r \in Changes, PutConfig(r) PROVE Chosen'
  <2>1. /\ conf' \in Choice /\ asked' = [asked EXCEPT ![r] = conf']
        /\ ~crossed' => Applied
    BY <1>1 DEF PutConfig
  <2>2. asked'[r] = conf' /\ \A s \in Changes \ {r} : asked'[s] = asked[s]
    BY <2>1 DEF Chosen
  <2>3. asked' \in [Changes -> Choice \cup {"nothing"}]
    BY <2>1 DEF Chosen
  <2>4. ~Applied'
    BY <1>0, <2>1, <2>2 DEF Applied
  <2>5. ~crossed' => \A s \in Changes : asked'[s] # "nothing" => s = r
    BY <2>1, <2>2 DEF Applied
  <2> QED BY <2>1, <2>2, <2>3, <2>4, <2>5 DEF Chosen, WritesWhereChosen
<1>2. ASSUME NEW r \in Changes, ApplyConfig(r) PROVE Chosen'
  <2>1. /\ asked[r] # "nothing" /\ asked' = [asked EXCEPT ![r] = "nothing"]
        /\ conf' = conf /\ crossed' = crossed
    BY <1>2 DEF ApplyConfig
  <2>2. asked' \in [Changes -> Choice \cup {"nothing"}]
    BY <2>1 DEF Chosen
  <2>3. ~crossed => asked[r] = conf /\ \A s \in Changes : asked'[s] = "nothing"
    BY <2>1 DEF Chosen
  <2>4. ~crossed /\ conf # "none" => writer' = conf /\ (oneSet' => nightly' = conf)
    BY <1>2, <2>3 DEF ApplyConfig, SetWriter
  <2> QED BY <2>1, <2>2, <2>3, <2>4 DEF Chosen, WritesWhereChosen
<1>3. CASE Reboot
  BY <1>3 DEF Reboot, Chosen, WritesWhereChosen, Built
<1>4. CASE UNCHANGED engineVars
  BY <1>4 DEF engineVars, Chosen, WritesWhereChosen, Applied
<1> QED BY <1>1, <1>2, <1>3, <1>4 DEF EngineNext

\* An app's backups go to the engine that the stored configuration chooses, whatever
\* requests overlap and whenever Maison is killed, unless two choices were stored before
\* either was applied; and those the scheduler makes itself go there too as long as no
\* choice has been cleared since the start (handlePutBackupConfig).
THEOREM WriterTheorem == EngineSpec => []WritesWhereChosen
<1>1. Chosen => WritesWhereChosen
  BY DEF Chosen, WritesWhereChosen
<1> QED BY <1>1, ChosenInit, ChosenStep, PTL DEF EngineSpec

-----------------------------------------------------------------------------
(* Types *)

Pcs ==
  {"idle", "sources", "set", "setdomains", "write", "writedomains", "republish", "routes"}
Requests == [pc : Pcs, new : Preferences]

\* The types of the settings, and of what requests hold.
Typed ==
  /\ file \in Preferences /\ cur \in Preferences /\ page \subseteq Preferences
  /\ urls \subseteq Sources /\ published \in BOOLEAN
  /\ req \in [Reqs -> Requests]

\* The settings and the requests, as they are changed.
LEMMA FactoryIs == Factory \in Preferences
  BY DEF Factory, Preferences

LEMMA Changed ==
  ASSUME NEW p \in Preferences
  PROVE  /\ p.sources \subseteq Sources /\ p.domain \in BOOLEAN
         /\ \A list \in SUBSET Sources : [p EXCEPT !.sources = list] \in Preferences
         /\ \A d \in BOOLEAN : [p EXCEPT !.domain = d] \in Preferences
  BY DEF Preferences

LEMMA IdleIs == Idle \in Requests
  BY FactoryIs DEF Idle, Requests, Pcs

LEMMA Asking ==
  ASSUME NEW pc \in Pcs, NEW p \in Preferences
  PROVE  [pc |-> pc, new |-> p] \in Requests
  BY DEF Requests

LEMMA GoneOn ==
  ASSUME NEW q \in Requests
  PROVE  /\ q.new \in Preferences
         /\ \A pc \in Pcs : [q EXCEPT !.pc = pc] \in Requests
         /\ \A pc \in Pcs, d \in BOOLEAN :
              [q EXCEPT !.pc = pc, !.new.domain = d] \in Requests
<1>1. q.new \in Preferences /\ \A pc \in Pcs : [q EXCEPT !.pc = pc] \in Requests
  BY DEF Requests
<1>2. ASSUME NEW pc \in Pcs, NEW d \in BOOLEAN
      PROVE  [q EXCEPT !.pc = pc, !.new.domain = d] \in Requests
  <2>1. [q.new EXCEPT !.domain = d] \in Preferences
    BY <1>1, Changed
  <2> QED BY <2>1 DEF Requests
<1> QED BY <1>1, <1>2

LEMMA TypedInit == Init => Typed
  BY SettingsAssumption, FactoryIs, IdleIs DEF Init, Typed

LEMMA TypedStep == Typed /\ [Next]_vars => Typed'
<1> SUFFICES ASSUME Typed, [Next]_vars PROVE Typed'
  OBVIOUS
<1> USE DEF Typed
<1>1. ASSUME NEW r \in Reqs, ChangeSources(r) PROVE Typed'
  <2>1. PICK list \in SUBSET Sources : Begin(r, "sources", [Factory EXCEPT !.sources = list])
    BY <1>1, SettingsAssumption DEF ChangeSources
  <2>2. req' \in [Reqs -> Requests]
    BY <2>1, FactoryIs, Changed, Asking DEF Begin, Pcs
  <2> QED BY <1>1, <2>2 DEF ChangeSources, prefs, app
<1>2. ASSUME NEW r \in Reqs, ApplySources(r) PROVE Typed'
  <2>1. req' \in [Reqs -> Requests] /\ urls' \subseteq Sources
    BY <1>2, GoneOn, Changed DEF ApplySources, Pcs
  <2> QED BY <1>2, <2>1 DEF ApplySources, app
<1>3. ASSUME NEW r \in Reqs, PutDomains(r) PROVE Typed'
  <2>1. req' \in [Reqs -> Requests]
    BY <1>3, Changed, Asking DEF PutDomains, Begin, Pcs
  <2> QED BY <1>3, <2>1 DEF PutDomains, prefs, app
<1>4. ASSUME NEW r \in Reqs, PutSettings(r) PROVE Typed'
  <2>1. req' \in [Reqs -> Requests]
    BY <1>4, Asking DEF PutSettings, Begin, Pcs
  <2> QED BY <1>4, <2>1 DEF PutSettings, prefs, app
<1>5. ASSUME NEW r \in Reqs, SetMemory(r) PROVE Typed'
  <2>0. PICK pc \in Pcs : req' = [req EXCEPT ![r].pc = pc]
    BY <1>5 DEF SetMemory, Step, Pcs
  <2>1. req' \in [Reqs -> Requests] /\ cur' \in Preferences
    BY <1>5, <2>0, GoneOn DEF SetMemory
  <2> QED BY <1>5, <2>1 DEF SetMemory, app
<1>6. ASSUME NEW r \in Reqs, WriteFile(r) PROVE Typed'
  <2>1. page' \subseteq Preferences
    BY <1>6, Changed DEF WriteFile
  <2>0. req' = [req EXCEPT ![r] = Idle] \/ \E pc \in Pcs : req' = [req EXCEPT ![r].pc = pc]
    BY <1>6 DEF WriteFile, End, Step, Pcs
  <2>2. req' \in [Reqs -> Requests] /\ file' \in Preferences
    <3>1. req' \in [Reqs -> Requests]
      <4>1. CASE req' = [req EXCEPT ![r] = Idle]
        BY <4>1, IdleIs
      <4>2. ASSUME NEW pc \in Pcs, req' = [req EXCEPT ![r].pc = pc]
            PROVE  req' \in [Reqs -> Requests]
        BY <4>2, GoneOn
      <4> QED BY <2>0, <4>1, <4>2
    <3>2. file' \in Preferences
      BY <1>6, GoneOn DEF WriteFile
    <3> QED BY <3>1, <3>2
  <2> QED BY <1>6, <2>1, <2>2 DEF WriteFile, app
<1>7. ASSUME NEW r \in Reqs, FailWrite(r) PROVE Typed'
  <2>1. req' \in [Reqs -> Requests] /\ file' \in Preferences
    BY <1>7, IdleIs, FactoryIs DEF FailWrite, End
  <2> QED BY <1>7, <2>1 DEF FailWrite, app
<1>8. ASSUME NEW r \in Reqs, Republish(r) PROVE Typed'
  <2>1. req' \in [Reqs -> Requests]
    BY <1>8, GoneOn, Changed DEF Republish, Pcs
  <2> QED BY <1>8, <2>1 DEF Republish, prefs, app
<1>9. ASSUME NEW r \in Reqs, WriteRoutes(r) PROVE Typed'
  <2>1. req' \in [Reqs -> Requests] /\ published' \in BOOLEAN
    BY <1>9, IdleIs, GoneOn, Changed DEF WriteRoutes, Up, UpFails, End
  <2> QED BY <1>9, <2>1 DEF WriteRoutes, app
<1>10. CASE StartApp
  BY <1>10, Changed DEF StartApp, Up, UpFails
<1>11. CASE OpenPage
  BY <1>11 DEF OpenPage, app
<1>12. CASE Restart
  <2>1. file' \in Preferences
    BY <1>12, FactoryIs DEF Restart
  <2>2. urls' \subseteq Sources
    BY <1>12, <2>1, Changed, SettingsAssumption DEF Restart, Offered
  <2>4. req' \in [Reqs -> Requests]
    BY <1>12, IdleIs DEF Restart
  <2> QED BY <1>12, <2>1, <2>2, <2>4 DEF Restart, app
<1>13. CASE UNCHANGED vars
  BY <1>13 DEF vars
<1> QED BY <1>1, <1>2, <1>3, <1>4, <1>5, <1>6, <1>7, <1>8, <1>9, <1>10, <1>11, <1>12,
           <1>13 DEF Next

-----------------------------------------------------------------------------
(* The preferences *)

\* The catalogue's sources are those of preferences p.
From(p) == urls # {} => urls = Offered(p.sources)

\* The app is published on the domain there is, or a republishing missed it.
Published == published = cur.domain \/ missed

\* Nothing is half changed.
Settled == file = cur /\ From(cur) /\ Published

\* What request r, the only one in flight, has changed so far.
Halfway(r) ==
  LET pc  == req[r].pc
      new == req[r].new
  IN /\ pc = "sources" => Settled
     /\ pc = "set" =>
          file = cur /\ From(new) /\ Published /\ new.domain = cur.domain
     /\ pc = "setdomains" => file = cur /\ From(cur) /\ new.sources = cur.sources
     /\ pc = "write" => cur = new /\ From(cur) /\ Published
     /\ pc = "writedomains" => cur = new /\ From(cur)
     /\ pc = "republish" => file = cur /\ From(cur)
     /\ pc = "routes" => file = cur /\ From(cur) /\ new.domain = cur.domain

\* Requests one at a time, and how far each has come.
Sharp ==
  ~blurred =>
    /\ Quiet => Settled
    /\ \A r \in Reqs : req[r].pc # "idle" =>
         Halfway(r) /\ \A s \in Reqs : req[s].pc # "idle" => s = r

LEMMA SharpInit == Init => Sharp
<1> SUFFICES ASSUME Init PROVE Sharp
  OBVIOUS
<1>1. \A r \in Reqs : req[r].pc = "idle"
  BY DEF Init, Idle
<1>2. Factory.sources = {} /\ Factory.domain = FALSE
  BY DEF Factory
<1>3. Settled
  BY <1>2 DEF Init, Settled, From, Offered, Published, app
<1> QED BY <1>1, <1>3 DEF Sharp

\* A step of the one request there is.
LEMMA SharpKept ==
  ASSUME NEW r \in Reqs,
         \A s \in Reqs \ {r} : req'[s] = req[s],
         ~blurred' => \A s \in Reqs \ {r} : req[s].pc = "idle",
         ~blurred' => IF req'[r].pc = "idle" THEN Settled' ELSE Halfway(r)'
  PROVE  Sharp'
  BY DEF Sharp, Quiet

\* A request has begun: nothing else was under way.
LEMMA Beginning ==
  ASSUME Typed, Sharp, NEW r \in Reqs, NEW pc, NEW new, Begin(r, pc, new),
         blurred' = (blurred \/ ~Quiet) \/ blurred' = (blurred \/ ~Quiet \/ page # {cur})
  PROVE  /\ req'[r] = [pc |-> pc, new |-> new]
         /\ \A s \in Reqs \ {r} : req'[s] = req[s]
         /\ ~blurred' => Settled /\ \A s \in Reqs \ {r} : req[s].pc = "idle"
  BY DEF Begin, Sharp, Quiet, Typed

\* A request goes on: what it has done so far is all that is half changed.
LEMMA Continuing ==
  ASSUME Typed, Sharp, NEW r \in Reqs, req[r].pc # "idle", ~blurred
  PROVE  Halfway(r) /\ \A s \in Reqs \ {r} : req[s].pc = "idle"
  BY DEF Sharp

LEMMA SharpStep == Typed /\ Sharp /\ [Next]_vars => Sharp'
<1> SUFFICES ASSUME Typed, Sharp, [Next]_vars PROVE Sharp'
  OBVIOUS
<1>a. /\ \A r \in Reqs : req[r] \in Requests /\ req[r].new \in Preferences
      /\ DOMAIN req = Reqs
  BY DEF Typed, Requests
<1>1. ASSUME NEW r \in Reqs, ChangeSources(r) PROVE Sharp'
  <2>1. PICK new : Begin(r, "sources", new)
    BY <1>1 DEF ChangeSources
  <2>2. UNCHANGED prefs /\ blurred' = (blurred \/ ~Quiet)
    BY <1>1 DEF ChangeSources
  <2>3. /\ req'[r] = [pc |-> "sources", new |-> new]
        /\ \A s \in Reqs \ {r} : req'[s] = req[s]
        /\ ~blurred' => Settled /\ \A s \in Reqs \ {r} : req[s].pc = "idle"
    BY <2>1, <2>2, Beginning
  <2>4. ~blurred' => Halfway(r)'
    BY <2>2, <2>3 DEF Halfway, Settled, From, Published, prefs, app
  <2> QED BY <2>3, <2>4, SharpKept
<1>2. ASSUME NEW r \in Reqs, ApplySources(r) PROVE Sharp'
  <2>1. /\ req[r].pc = "sources" /\ req'[r].pc = "set" /\ urls' = req[r].new.sources
        /\ req'[r].new.sources = req[r].new.sources /\ req'[r].new.domain = cur.domain
        /\ \A s \in Reqs \ {r} : req'[s] = req[s]
        /\ UNCHANGED <<file, cur, app, blurred>>
    <3>1. req[r].new = [sources |-> req[r].new.sources, domain |-> req[r].new.domain]
      BY <1>a DEF Preferences
    <3> QED BY <1>2, <1>a, <3>1 DEF ApplySources, Requests
  <2>2. ~blurred => Settled /\ \A s \in Reqs \ {r} : req[s].pc = "idle"
    BY <2>1, Continuing DEF Halfway
  <2>3. ~blurred' => Halfway(r)'
    BY <2>1, <2>2 DEF Halfway, Settled, From, Offered, Published, app
  <2> QED BY <2>1, <2>2, <2>3, SharpKept
<1>3. ASSUME NEW r \in Reqs, PutDomains(r) PROVE Sharp'
  <2>1. PICK d \in BOOLEAN : Begin(r, "setdomains", [cur EXCEPT !.domain = d])
    BY <1>3 DEF PutDomains
  <2>2. UNCHANGED prefs /\ blurred' = (blurred \/ ~Quiet)
    BY <1>3 DEF PutDomains
  <2>3. /\ req'[r] = [pc |-> "setdomains", new |-> [cur EXCEPT !.domain = d]]
        /\ \A s \in Reqs \ {r} : req'[s] = req[s]
        /\ ~blurred' => Settled /\ \A s \in Reqs \ {r} : req[s].pc = "idle"
    BY <2>1, <2>2, Beginning
  <2>4. req'[r].new.sources = cur.sources
    BY <2>3 DEF Typed, Preferences
  <2>5. ~blurred' => Halfway(r)'
    BY <2>2, <2>3, <2>4 DEF Halfway, Settled, From, Published, prefs, app
  <2> QED BY <2>3, <2>5, SharpKept
<1>4. ASSUME NEW r \in Reqs, PutSettings(r) PROVE Sharp'
  <2>1. PICK copy \in page : Begin(r, "set", copy)
    BY <1>4 DEF PutSettings
  <2>2. UNCHANGED prefs /\ blurred' = (blurred \/ ~Quiet \/ page # {cur})
    BY <1>4 DEF PutSettings
  <2>3. /\ req'[r] = [pc |-> "set", new |-> copy]
        /\ \A s \in Reqs \ {r} : req'[s] = req[s]
        /\ ~blurred' => Settled /\ \A s \in Reqs \ {r} : req[s].pc = "idle"
    BY <2>1, <2>2, Beginning
  <2>4. ~blurred' => copy = cur
    BY <2>2
  <2>5. ~blurred' => Halfway(r)'
    BY <2>2, <2>3, <2>4 DEF Halfway, Settled, From, Published, prefs, app
  <2> QED BY <2>3, <2>5, SharpKept
<1>5. ASSUME NEW r \in Reqs, SetMemory(r) PROVE Sharp'
  <2>1. /\ \/ req[r].pc = "set" /\ req'[r].pc = "write"
           \/ req[r].pc = "setdomains" /\ req'[r].pc = "writedomains"
        /\ req'[r].new = req[r].new /\ cur' = req[r].new
        /\ \A s \in Reqs \ {r} : req'[s] = req[s]
        /\ UNCHANGED <<file, urls, app, blurred>>
    BY <1>5, <1>a DEF SetMemory, Step, Requests
  <2>2. ~blurred => Halfway(r) /\ \A s \in Reqs \ {r} : req[s].pc = "idle"
    BY <2>1, Continuing
  <2>3. ~blurred' => Halfway(r)'
    BY <2>1, <2>2 DEF Halfway, From, Published, app
  <2> QED BY <2>1, <2>2, <2>3, SharpKept
<1>6. ASSUME NEW r \in Reqs, WriteFile(r) PROVE Sharp'
  <2>1. /\ \/ req[r].pc = "write" /\ req'[r].pc = "idle"
           \/ req[r].pc = "writedomains" /\ req'[r].pc = "republish"
        /\ file' = req[r].new
        /\ \A s \in Reqs \ {r} : req'[s] = req[s]
        /\ UNCHANGED <<cur, urls, app, blurred>>
    BY <1>6, <1>a DEF WriteFile, Step, End, Requests, Idle
  <2>2. ~blurred => Halfway(r) /\ \A s \in Reqs \ {r} : req[s].pc = "idle"
    BY <2>1, Continuing
  <2>3. ~blurred' => IF req'[r].pc = "idle" THEN Settled' ELSE Halfway(r)'
    BY <2>1, <2>2 DEF Halfway, Settled, From, Published, app
  <2> QED BY <2>1, <2>2, <2>3, SharpKept
<1>7. ASSUME NEW r \in Reqs, FailWrite(r) PROVE Sharp'
  BY <1>7 DEF FailWrite, Sharp
<1>8. ASSUME NEW r \in Reqs, Republish(r) PROVE Sharp'
  <2>1. /\ req[r].pc = "republish" /\ req'[r].pc = "routes" /\ req'[r].new.domain = cur.domain
        /\ \A s \in Reqs \ {r} : req'[s] = req[s]
        /\ UNCHANGED <<file, cur, urls, app, blurred>>
    <3>1. req[r].new = [sources |-> req[r].new.sources, domain |-> req[r].new.domain]
      BY <1>a DEF Preferences
    <3> QED BY <1>8, <1>a, <3>1 DEF Republish, Requests, prefs
  <2>2. ~blurred => Halfway(r) /\ \A s \in Reqs \ {r} : req[s].pc = "idle"
    BY <2>1, Continuing
  <2>3. ~blurred' => Halfway(r)'
    BY <2>1, <2>2 DEF Halfway, From, Published, app
  <2> QED BY <2>1, <2>2, <2>3, SharpKept
<1>9. ASSUME NEW r \in Reqs, WriteRoutes(r) PROVE Sharp'
  <2>1. /\ req[r].pc = "routes" /\ req'[r].pc = "idle" /\ (published' = req[r].new.domain \/ missed')
        /\ \A s \in Reqs \ {r} : req'[s] = req[s]
        /\ UNCHANGED <<file, cur, urls, blurred>>
    BY <1>9, <1>a DEF WriteRoutes, Up, UpFails, End, Idle
  <2>2. ~blurred => Halfway(r) /\ \A s \in Reqs \ {r} : req[s].pc = "idle"
    BY <2>1, Continuing
  <2>3. ~blurred' => Settled'
    BY <2>1, <2>2 DEF Halfway, Settled, From, Published, app
  <2> QED BY <2>1, <2>2, <2>3, SharpKept
<1>10. CASE StartApp
  <2>1. /\ UNCHANGED <<file, cur, urls, req, blurred>>
        /\ published' = cur.domain \/ (published' = published /\ missed' = missed)
    BY <1>10 DEF StartApp, Up, UpFails
  <2>2. Quiet' <=> Quiet
    BY <2>1 DEF Quiet
  <2>3. Settled => Settled'
    BY <2>1 DEF Settled, From, Published
  <2>4. \A r \in Reqs : Halfway(r) => Halfway(r)'
    BY <2>1, <2>3 DEF Halfway, From, Published, app
  <2> QED BY <2>1, <2>2, <2>3, <2>4 DEF Sharp
<1>11. CASE OpenPage
  <2>1. UNCHANGED <<file, cur, urls, app, req, blurred>>
    BY <1>11 DEF OpenPage
  <2> QED BY <2>1 DEF Sharp, Quiet, Settled, From, Published, Halfway, app
<1>12. CASE Restart
  <2>1. /\ \A r \in Reqs : req'[r].pc = "idle"
        /\ blurred' = (blurred \/ ~Quiet) /\ app' = app
        /\ cur' = file' /\ urls' = Offered(file'.sources)
    BY <1>12 DEF Restart, Idle
  <2>2. Quiet => file' = file
    BY <1>12 DEF Restart, Quiet
  <2>3. ~blurred' => Settled
    BY <2>1 DEF Sharp
  <2>4. ~blurred' => UNCHANGED <<file, cur, published, missed>>
    BY <2>1, <2>2, <2>3 DEF Settled, app
  <2>5. ~blurred' => Settled'
    BY <2>1, <2>3, <2>4 DEF Settled, From, Published
  <2> QED BY <2>1, <2>5 DEF Sharp
<1>13. CASE UNCHANGED vars
  BY <1>13 DEF vars, Sharp, Quiet, Settled, From, Published, Halfway
<1> QED BY <1>1, <1>2, <1>3, <1>4, <1>5, <1>6, <1>7, <1>8, <1>9, <1>10, <1>11, <1>12,
           <1>13 DEF Next

\* Every reachable state of the settings has its types.
THEOREM TypeCorrect == Spec => []Typed
<1> QED BY TypedInit, TypedStep, PTL DEF Spec

\* Whatever is set while nothing else is being set is on disk and in effect when the
\* request is over, and after any number of restarts in between; and the app is published
\* on it, or the republishing missed the app.
THEOREM SettingsTheorem == Spec => []WhatIsSetHolds
<1>1. Init => Typed /\ Sharp
  BY TypedInit, SharpInit
<1>2. Typed /\ Sharp /\ [Next]_vars => (Typed /\ Sharp)'
  BY TypedStep, SharpStep
<1>3. Typed /\ Sharp => WhatIsSetHolds
  BY DEF Sharp, Settled, From, Published, WhatIsSetHolds
<1> QED BY <1>1, <1>2, <1>3, PTL DEF Spec

-----------------------------------------------------------------------------
(***************************************************************************)
(* The hub: somebody is always left to tell the pages of the last state.    *)
(***************************************************************************)

Tasks == [pc : {"off", "check", "send"}, val : Nat]

LiveTypes ==
  /\ now \in 0..MaxChange /\ breaks \in 0..MaxBreak
  /\ work \in [Workers -> {"idle", "call", "direct", "lead"}]
  /\ cast \in [Casts -> Tasks] /\ \A k \in Casts : cast[k].val <= now
  /\ snap \in [Clients -> Tasks] /\ \A c \in Clients : snap[c].val <= now
  /\ sub \in [Clients -> BOOLEAN] /\ lost \in [Clients -> BOOLEAN]
  /\ seen \in [Clients -> Nat] /\ \A c \in Clients : seen[c] <= now
  /\ top \in [Clients -> Nat] /\ \A c \in Clients : top[c] <= now
  /\ queue \in [Clients -> Seq(Nat)]
  /\ \A c \in Clients :
       Len(queue[c]) <= Cap /\ \A i \in 1..Len(queue[c]) : queue[c][i] <= now

\* The mutex is held by the worker that leads, and a worker's broadcast is its own.
Led ==
  \A w \in Workers :
    /\ work[w] = "lead" <=> mu = w
    /\ cast[w].pc # "off" => work[w] \in {"lead", "direct"}

\* Somebody is to tell the last state, or has just read it.
Pending ==
  \/ timer \/ trig \/ \E w \in Workers : work[w] = "call"
  \/ \E k \in Casts : cast[k].pc = "check" \/ (cast[k].pc = "send" /\ cast[k].val = now)

\* What a page will show once it has read its queue.
Latest(c) == IF queue[c] = <<>> THEN seen[c] ELSE queue[c][Len(queue[c])]

\* The last state was offered to a client, which holds it last or is let off.
Caught(c) == top[c] = now /\ (lost[c] \/ Latest(c) = now)

Fresh(c) ==
  \/ Pending
  \/ snap[c].pc = "check" \/ (snap[c].pc = "send" /\ snap[c].val = now)
  \/ Caught(c)

Told == events => \A c \in Clients : sub[c] => Fresh(c)

LiveInv == LiveTypes /\ Led /\ Told

USE LiveAssumption

-----------------------------------------------------------------------------

LEMMA CastsApart ==
  /\ \A w \in Workers : w \in Casts /\ w # "free" /\ w # "docker" /\ w \notin Timers
  /\ "docker" \in Casts /\ \A t \in Timers : t \in Casts
  BY DEF Casts

LEMMA Appended ==
  ASSUME NEW q \in Seq(Nat), NEW v \in Nat, NEW a, a = Append(q, v)
  PROVE  /\ a \in Seq(Nat) /\ Len(a) = Len(q) + 1 /\ a # <<>>
         /\ a[Len(a)] = v
         /\ \A i \in 1..Len(a) : a[i] = v \/ (i \in 1..Len(q) /\ a[i] = q[i])
  OBVIOUS

LEMMA LastOfTail ==
  ASSUME NEW q \in Seq(Nat), q # <<>>
  PROVE  IF Tail(q) = <<>> THEN Head(q) = q[Len(q)] ELSE Tail(q)[Len(Tail(q))] = q[Len(q)]
<1>1. Len(q) \in Nat \ {0} /\ Len(Tail(q)) = Len(q) - 1 /\ Tail(q) \in Seq(Nat)
  OBVIOUS
<1>2. CASE Len(q) = 1
  <2>1. Head(q) = q[Len(q)]
    BY <1>1, <1>2
  <2>2. Tail(q) = <<>>
    <3> DEFINE s == Tail(q)
    <3>1. s \in Seq(Nat) /\ Len(s) = 0
      BY <1>1, <1>2
    <3> HIDE DEF s
    <3>2. s = <<>>
      BY <3>1
    <3> QED BY <3>2 DEF s
  <2>3. QED
    BY <2>1, <2>2
<1>3. CASE Len(q) > 1
  <2>1. Tail(q)[Len(q) - 1] = q[Len(q)]
    BY <1>1, <1>3
  <2>2. QED
    BY <1>1, <1>3, <2>1
<1>4. QED
  BY <1>1, <1>2, <1>3

\* An offer keeps the types.
LEMMA OfferTypes ==
  ASSUME LiveTypes, NEW to \in SUBSET Clients, NEW val \in 0..now, Offer(to, val)
  PROVE  /\ queue' \in [Clients -> Seq(Nat)] /\ top' \in [Clients -> Nat]
         /\ lost' \in [Clients -> BOOLEAN]
         /\ \A c \in Clients : /\ top'[c] <= now /\ Len(queue'[c]) <= Cap
                               /\ \A i \in 1..Len(queue'[c]) : queue'[c][i] <= now
<1>0. lost' \in [Clients -> BOOLEAN]
  <2>1. lost' = [c \in Clients |->
          IF c \in to THEN Len(queue[c]) = Cap \/ val < top[c] ELSE lost[c]]
        /\ \A c \in Clients : lost[c] \in BOOLEAN
    BY DEF LiveTypes, Offer
  <2>2. QED
    BY <2>1, Zenon
<1>1. top' \in [Clients -> Nat] /\ \A c \in Clients : top'[c] <= now
  BY DEF LiveTypes, Offer
<1>2. ASSUME NEW c \in Clients
      PROVE  /\ queue'[c] \in Seq(Nat) /\ Len(queue'[c]) <= Cap
             /\ \A i \in 1..Len(queue'[c]) : queue'[c][i] <= now
  <2>1. queue[c] \in Seq(Nat) /\ Len(queue[c]) <= Cap /\ val \in Nat
        /\ \A i \in 1..Len(queue[c]) : queue[c][i] <= now
    BY DEF LiveTypes
  <2>2. CASE c \in to /\ Len(queue[c]) < Cap
    <3>1. queue'[c] = Append(queue[c], val)
      BY <2>2 DEF Offer
    <3>2. QED
      BY <2>1, <2>2, <3>1, Appended DEF LiveTypes
  <2>3. CASE ~(c \in to /\ Len(queue[c]) < Cap)
    <3>1. queue'[c] = queue[c]
      BY <2>3 DEF Offer
    <3>2. QED
      BY <2>1, <3>1
  <2>4. QED
    BY <2>2, <2>3
<1>3. queue' \in [Clients -> Seq(Nat)]
  <2>1. DOMAIN queue' = Clients /\ queue' = [c \in Clients |-> queue'[c]]
    BY DEF Offer
  <2>2. QED
    BY <1>2, <2>1
<1>4. QED
  BY <1>0, <1>1, <1>2, <1>3

\* What is offered last is what a client comes to show, unless it is dropped.  An older
\* one offered later overtakes it, and the client is let off.
LEMMA OfferIs ==
  ASSUME LiveTypes, NEW to \in SUBSET Clients, NEW val \in 0..now, Offer(to, val),
         UNCHANGED <<now, seen>>, NEW c \in Clients
  PROVE  /\ c \in to /\ val = now => Caught(c)'
         /\ Caught(c) => Caught(c)'
<1>1. /\ queue[c] \in Seq(Nat) /\ Len(queue[c]) <= Cap /\ Cap > 0 /\ Cap \in Nat
      /\ top[c] \in Nat /\ top[c] <= now /\ now \in Nat /\ val \in Nat /\ val <= now
  BY DEF LiveTypes
<1>2. CASE c \notin to
  <2>1. queue'[c] = queue[c] /\ lost'[c] = lost[c] /\ top'[c] = top[c]
    BY <1>2 DEF Offer
  <2>2. QED
    BY <1>2, <2>1 DEF Caught, Latest
<1>3. CASE c \in to /\ Len(queue[c]) = Cap
  <2>1. lost'[c] /\ top'[c] = IF val > top[c] THEN val ELSE top[c]
    BY <1>3 DEF Offer
  <2>2. QED
    BY <1>1, <2>1 DEF Caught
<1>4. CASE c \in to /\ Len(queue[c]) < Cap
  <2>1. /\ queue'[c] = Append(queue[c], val)
        /\ top'[c] = IF val > top[c] THEN val ELSE top[c]
        /\ val < top[c] => lost'[c]
    BY <1>4 DEF Offer
  <2>2. queue'[c] # <<>> /\ queue'[c][Len(queue'[c])] = val
    <3> DEFINE q == queue[c]
               a == queue'[c]
    <3>1. q \in Seq(Nat) /\ val \in Nat /\ a = Append(q, val)
      BY <1>1, <2>1
    <3> HIDE DEF q, a
    <3>2. a # <<>> /\ a[Len(a)] = val
      BY <3>1, Appended
    <3> QED BY <3>2 DEF a
  <2>3. QED
    BY <1>1, <2>1, <2>2 DEF Caught, Latest
<1>5. QED
  BY <1>1, <1>2, <1>3, <1>4

-----------------------------------------------------------------------------
(* Types *)

LEMMA LiveTypesInit == LiveInit => LiveTypes
  BY DEF LiveInit, LiveTypes, Tasks, Off

LEMMA CastIs ==
  ASSUME LiveTypes, NEW k \in Casts, NEW x \in Tasks, cast' = [cast EXCEPT ![k] = x],
         x.val <= now', now <= now', now' \in Nat
  PROVE  cast' \in [Casts -> Tasks] /\ \A j \in Casts : cast'[j].val <= now'
<1>1. cast \in [Casts -> Tasks] /\ now \in Nat
  BY DEF LiveTypes
<1>2. cast' \in [Casts -> Tasks]
  BY <1>1
<1>3. ASSUME NEW j \in Casts PROVE cast'[j].val <= now'
  <2>1. cast'[j] = IF j = k THEN x ELSE cast[j]
    BY <1>1
  <2>2. cast[j].val \in Nat /\ cast[j].val <= now
    BY <1>1 DEF LiveTypes, Tasks
  <2>3. QED
    BY <1>1, <2>1, <2>2
<1>4. QED
  BY <1>2, <1>3

LEMMA TasksAre ==
  Off \in Tasks /\ Start \in Tasks /\ \A v \in Nat : [pc |-> "send", val |-> v] \in Tasks
  BY DEF Off, Start, Tasks

\* Whoever tells of a change leaves the clients alone.
LEMMA TellersTypes ==
  ASSUME LiveTypes,
         \/ \E w \in Workers : Change(w) \/ Lead(w) \/ Trail(w)
         \/ Event \/ EventsBreak \/ Watch \/ Cool \/ \E t \in Timers : Fire(t)
  PROVE  LiveTypes'
<1>1. now' \in 0..MaxChange /\ now <= now' /\ now \in Nat /\ UNCHANGED client
  BY DEF LiveTypes, Change, Lead, Trail, Event, EventsBreak, Watch, Cool, Fire
<1>2. work' \in [Workers -> {"idle", "call", "direct", "lead"}]
  BY DEF LiveTypes, Change, Lead, Trail, Event, EventsBreak, Watch, Cool, Fire, throttled
<1>3. cast' = cast \/ \E k \in Casts : cast' = [cast EXCEPT ![k] = Start]
  BY CastsApart DEF Change, Lead, Trail, Event, EventsBreak, Watch, Cool, Fire
<1>4. cast' \in [Casts -> Tasks] /\ \A k \in Casts : cast'[k].val <= now'
  <2>1. CASE cast' = cast
    BY <1>1, <2>1 DEF LiveTypes, Tasks
  <2>2. ASSUME NEW k \in Casts, cast' = [cast EXCEPT ![k] = Start]
        PROVE  cast' \in [Casts -> Tasks] /\ \A j \in Casts : cast'[j].val <= now'
    <3>1. Start \in Tasks /\ Start.val <= now' /\ now' \in Nat
      BY <1>1, TasksAre DEF Start
    <3>2. QED
      BY <1>1, <2>2, <3>1, CastIs
  <2>3. QED
    BY <1>3, <2>1, <2>2
<1>5. \A c \in Clients :
        /\ snap'[c].val <= now' /\ seen'[c] <= now' /\ top'[c] <= now'
        /\ \A i \in 1..Len(queue'[c]) : queue'[c][i] <= now'
  BY <1>1 DEF LiveTypes, Tasks, client
<1>6. QED
  BY <1>1, <1>2, <1>4, <1>5 DEF LiveTypes, client

LEMMA CastTypes ==
  ASSUME LiveTypes, NEW k \in Casts, Make(k) \/ Send(k)
  PROVE  LiveTypes'
<1>1. now' = now /\ breaks' = breaks /\ snap' = snap /\ sub' = sub /\ seen' = seen
      /\ now \in 0..MaxChange /\ now \in Nat
  BY DEF LiveTypes, Make, Send, client
<1>2. work' \in [Workers -> {"idle", "call", "direct", "lead"}]
  BY DEF LiveTypes, Make, Send, Ended, throttled
<1>3. \/ cast' = [cast EXCEPT ![k] = [pc |-> "send", val |-> now]]
      \/ cast' = [cast EXCEPT ![k] = Off]
  BY DEF Make, Send, Ended
<1>4. cast' \in [Casts -> Tasks] /\ \A j \in Casts : cast'[j].val <= now'
  BY <1>1, <1>3, CastIs, TasksAre DEF Off
<1>5. CASE Make(k)
  BY <1>1, <1>2, <1>4, <1>5 DEF LiveTypes, Make, client
<1>6. CASE Send(k)
  <2>1. cast[k].val \in 0..now /\ {c \in Clients : sub[c]} \in SUBSET Clients
        /\ Offer({c \in Clients : sub[c]}, cast[k].val)
    BY <1>1, <1>6 DEF LiveTypes, Tasks, Send
  <2>2. QED
    BY <1>1, <1>2, <1>4, <2>1, OfferTypes DEF LiveTypes
<1>7. QED
  BY <1>5, <1>6

LEMMA ClientTypes ==
  ASSUME LiveTypes, NEW c \in Clients,
         \/ Look(c) \/ Break(c) \/ Subscribe(c) \/ Snapshot(c) \/ Answer(c)
         \/ Unsubscribe(c) \/ Write(c)
  PROVE  LiveTypes'
<1>1. /\ now' = now /\ work' = work /\ cast' = cast /\ now \in 0..MaxChange /\ now \in Nat
      /\ breaks' \in 0..MaxBreak
  BY DEF LiveTypes, throttled, Look, Break, Subscribe, Snapshot, Answer, Unsubscribe, Write
<1>2. /\ snap' \in [Clients -> Tasks] /\ \A d \in Clients : snap'[d].val <= now
      /\ sub' \in [Clients -> BOOLEAN]
  <2>1. \/ snap' = snap
        \/ \E x \in {Off, Start, [pc |-> "send", val |-> now]} : snap' = [snap EXCEPT ![c] = x]
    BY DEF Look, Break, Subscribe, Snapshot, Answer, Unsubscribe, Write
  <2>2. snap' \in [Clients -> Tasks] /\ \A d \in Clients : snap'[d].val <= now
    <3>1. CASE snap' = snap
      BY <3>1 DEF LiveTypes
    <3>2. ASSUME NEW x \in {Off, Start, [pc |-> "send", val |-> now]},
                 snap' = [snap EXCEPT ![c] = x]
          PROVE  snap' \in [Clients -> Tasks] /\ \A d \in Clients : snap'[d].val <= now
      <4>1. x \in Tasks /\ x.val <= now
        BY <1>1, TasksAre DEF Off, Start
      <4>2. QED
        BY <3>2, <4>1 DEF LiveTypes
    <3>3. QED
      BY <2>1, <3>1, <3>2
  <2>3. sub' \in [Clients -> BOOLEAN]
    BY DEF LiveTypes, Look, Break, Subscribe, Snapshot, Answer, Unsubscribe, Write
  <2>4. QED
    BY <2>2, <2>3
<1>3. CASE Answer(c)
  <2>1. snap[c].val \in 0..now /\ {c} \in SUBSET Clients /\ Offer({c}, snap[c].val)
    BY <1>1, <1>3 DEF LiveTypes, Tasks, Answer
  <2>2. seen' = seen
    BY <1>3 DEF Answer
  <2>3. QED
    BY <1>1, <1>2, <2>1, <2>2, OfferTypes DEF LiveTypes
<1>4. CASE Write(c)
  <2>1. queue[c] \in Seq(Nat) /\ queue[c] # <<>> /\ Len(queue[c]) <= Cap
        /\ \A i \in 1..Len(queue[c]) : queue[c][i] <= now
    BY <1>4 DEF LiveTypes, Write
  <2>2. /\ Head(queue[c]) \in Nat /\ Head(queue[c]) <= now
        /\ Tail(queue[c]) \in Seq(Nat) /\ Len(Tail(queue[c])) <= Cap
        /\ \A i \in 1..Len(Tail(queue[c])) : Tail(queue[c])[i] <= now
    BY <2>1
  <2>3. /\ seen' = [seen EXCEPT ![c] = Head(queue[c])]
        /\ queue' = [queue EXCEPT ![c] = Tail(queue[c])]
        /\ top' = top /\ lost' = lost
    BY <1>4 DEF Write
  <2>4. seen' \in [Clients -> Nat] /\ \A d \in Clients : seen'[d] <= now
    BY <2>2, <2>3 DEF LiveTypes
  <2>5. queue' \in [Clients -> Seq(Nat)]
    BY <2>2, <2>3 DEF LiveTypes
  <2>6. ASSUME NEW d \in Clients
        PROVE  Len(queue'[d]) <= Cap /\ \A i \in 1..Len(queue'[d]) : queue'[d][i] <= now
    <3>1. CASE d = c
      BY <2>2, <2>3, <3>1 DEF LiveTypes
    <3>2. CASE d # c
      <4>1. queue'[d] = queue[d]
        BY <2>3, <3>2 DEF LiveTypes
      <4>2. QED
        BY <4>1 DEF LiveTypes
    <3>3. QED
      BY <3>1, <3>2
  <2>7. QED
    BY <1>1, <1>2, <2>3, <2>4, <2>5, <2>6 DEF LiveTypes
<1>5. CASE Break(c)
  <2>1. queue' = [queue EXCEPT ![c] = <<>>] /\ UNCHANGED <<seen, top, lost>>
    BY <1>5 DEF Break
  <2>2. queue' \in [Clients -> Seq(Nat)]
    BY <2>1 DEF LiveTypes
  <2>3. ASSUME NEW d \in Clients
        PROVE  Len(queue'[d]) <= Cap /\ \A i \in 1..Len(queue'[d]) : queue'[d][i] <= now
    <3>1. CASE d = c
      BY <2>1, <3>1 DEF LiveTypes
    <3>2. CASE d # c
      <4>1. queue'[d] = queue[d]
        BY <2>1, <3>2 DEF LiveTypes
      <4>2. QED
        BY <4>1 DEF LiveTypes
    <3>3. QED
      BY <3>1, <3>2
  <2>4. QED
    BY <1>1, <1>2, <2>1, <2>2, <2>3 DEF LiveTypes
<1>6. CASE Look(c) \/ Subscribe(c) \/ Snapshot(c) \/ Unsubscribe(c)
  <2>1. queue' = queue /\ seen' = seen
    BY <1>6 DEF Look, Subscribe, Snapshot, Unsubscribe
  <2>2. /\ top' \in [Clients -> Nat] /\ \A d \in Clients : top'[d] <= now
        /\ lost' \in [Clients -> BOOLEAN]
    <3>1. CASE UNCHANGED <<top, lost>>
      BY <3>1 DEF LiveTypes
    <3>2. CASE Subscribe(c)
      BY <1>1, <3>2 DEF LiveTypes, Subscribe
    <3>3. QED
      BY <1>6, <3>1, <3>2 DEF Look, Snapshot, Unsubscribe
  <2>3. QED
    BY <1>1, <1>2, <2>1, <2>2 DEF LiveTypes
<1>7. QED
  BY <1>3, <1>4, <1>5, <1>6

-----------------------------------------------------------------------------
(* The mutex *)

LEMMA LedStep ==
  ASSUME LiveTypes, Led, [LiveNext]_liveVars
  PROVE  Led'
<1>1. CASE \E w \in Workers : Change(w)
  BY <1>1, CastsApart DEF LiveTypes, Led, Change
<1>2. CASE \E w \in Workers : Lead(w)
  BY <1>2, CastsApart DEF LiveTypes, Led, Lead, Called, Start
<1>3. CASE \E w \in Workers : Trail(w)
  BY <1>3, CastsApart DEF LiveTypes, Led, Trail, Called
<1>4. CASE Watch
  BY <1>4, CastsApart DEF LiveTypes, Led, Watch, throttled
<1>5. CASE \E t \in Timers : Fire(t)
  BY <1>5, CastsApart DEF LiveTypes, Led, Fire
<1>6. ASSUME NEW k \in Casts, Make(k) \/ Send(k) PROVE Led'
  <2>1. CASE Ended(k)
    BY <2>1, CastsApart DEF LiveTypes, Led, Ended, throttled, Off
  <2>2. CASE /\ UNCHANGED throttled /\ Make(k)
             /\ cast' = [cast EXCEPT ![k] = [pc |-> "send", val |-> now]]
    BY <2>2, CastsApart DEF LiveTypes, Led, Make, throttled
  <2>3. QED
    BY <1>6, <2>1, <2>2 DEF Make, Send
<1>7. CASE \/ Event \/ EventsBreak \/ Cool \/ UNCHANGED liveVars
           \/ \E c \in Clients : \/ Look(c) \/ Break(c) \/ Subscribe(c) \/ Snapshot(c)
                                 \/ Answer(c) \/ Unsubscribe(c) \/ Write(c)
  <2>1. UNCHANGED <<work, mu, cast>>
    BY <1>7 DEF Event, EventsBreak, Cool, liveVars, throttled, Look, Break, Subscribe,
                Snapshot, Answer, Unsubscribe, Write
  <2>2. QED
    BY <2>1 DEF Led
<1>8. QED
  BY <1>1, <1>2, <1>3, <1>4, <1>5, <1>6, <1>7 DEF LiveNext, HubStep

-----------------------------------------------------------------------------
(* Somebody is left to tell *)

LEMMA PendingIsTold == Pending => Told
  BY DEF Told, Fresh

\* Whoever tells of a change passes it on.
LEMMA TellersTold ==
  ASSUME LiveTypes, Told,
         \/ \E w \in Workers : Change(w) \/ Lead(w) \/ Trail(w)
         \/ Event \/ EventsBreak \/ Watch \/ \E t \in Timers : Fire(t)
  PROVE  Told'
<1>1. CASE EventsBreak
  BY <1>1 DEF EventsBreak, Told
<1>2. CASE \E w \in Workers : Change(w) \/ Lead(w)
  <2>1. PICK w \in Workers : Change(w) \/ Lead(w)
    BY <1>2
  <2>2. work'[w] = "call" \/ cast'[w].pc = "check"
    BY <2>1, CastsApart DEF LiveTypes, Change, Lead, Start
  <2>3. Pending'
    BY <2>2, CastsApart DEF Pending
  <2>4. QED
    BY <2>3 DEF Told, Fresh
<1>3. CASE Event
  BY <1>3 DEF Event, Told, Fresh, Pending
<1>4. CASE Watch \/ \E t \in Timers : Fire(t)
  <2>1. \E k \in Casts : cast'[k].pc = "check"
    BY <1>4, CastsApart DEF LiveTypes, Watch, Fire, Start
  <2>2. Pending'
    BY <2>1 DEF Pending
  <2>3. QED
    BY <2>2 DEF Told, Fresh
<1>5. CASE \E w \in Workers : Trail(w)
  BY <1>5 DEF Trail, Told, Fresh, Pending
<1>6. QED
  BY <1>1, <1>2, <1>3, <1>4, <1>5

LEMMA MakeTold ==
  ASSUME LiveTypes, NEW k \in Casts, Make(k)
  PROVE  Told'
<1>1. CASE cast' = [cast EXCEPT ![k] = [pc |-> "send", val |-> now]]
  <2>1. cast'[k].pc = "send" /\ cast'[k].val = now'
    BY <1>1 DEF LiveTypes, Make
  <2>2. Pending'
    BY <2>1 DEF Pending
  <2>3. QED
    BY <2>2 DEF Told, Fresh
<1>2. CASE \A c \in Clients : ~sub[c]
  BY <1>2 DEF Make, client, Told
<1>3. QED
  BY <1>1, <1>2 DEF Make

\* A broadcast of the last state is offered to all; one of an older state leaves whoever
\* is to tell the last one where it is.
LEMMA SendTold ==
  ASSUME LiveTypes, Led, Told, NEW k \in Casts, Send(k)
  PROVE  Told'
<1> DEFINE all == {c \in Clients : sub[c]}
<1>1. /\ cast[k].val \in 0..now /\ all \in SUBSET Clients /\ Offer(all, cast[k].val)
      /\ UNCHANGED <<now, seen, sub, snap, events, trig>>
  BY DEF LiveTypes, Tasks, Send, docker
<1>2. SUFFICES ASSUME events, NEW c \in Clients, sub[c] PROVE Fresh(c)'
  BY <1>1 DEF Told
<1>3. /\ c \in all /\ cast[k].val = now => Caught(c)'
      /\ Caught(c) => Caught(c)'
  <2> HIDE DEF all
  <2> QED BY <1>1, OfferIs
<1>4. CASE cast[k].val = now
  BY <1>2, <1>3, <1>4 DEF Fresh
<1>5. CASE cast[k].val # now /\ Pending
  <2>1. cast[k].pc = "send" /\ Ended(k)
    BY DEF Send
  <2>2. timer' = timer
    BY <2>1 DEF Ended, throttled
  <2>3. ASSUME NEW w \in Workers, work[w] = "call" PROVE work'[w] = "call"
    <3>1. w # k
      BY <2>1, <2>3 DEF Led
    <3>2. QED
      BY <2>1, <2>3, <3>1 DEF LiveTypes, Ended, throttled
  <2>4. ASSUME NEW j \in Casts, j # k PROVE cast'[j] = cast[j]
    BY <2>1, <2>4 DEF LiveTypes, Ended
  <2>5. Pending'
    BY <1>1, <1>5, <2>1, <2>2, <2>3, <2>4 DEF Pending
  <2>6. QED
    BY <2>5 DEF Fresh
<1>6. QED
  BY <1>1, <1>2, <1>3, <1>4, <1>5 DEF Told, Fresh

LEMMA ClientTold ==
  ASSUME LiveTypes, Told, NEW c \in Clients,
         \/ Look(c) \/ Break(c) \/ Subscribe(c) \/ Snapshot(c) \/ Answer(c)
         \/ Unsubscribe(c) \/ Write(c)
  PROVE  Told'
<1>1. Pending' = Pending /\ UNCHANGED <<now, events>>
  BY DEF Pending, throttled, docker, Look, Break, Subscribe, Snapshot, Answer,
         Unsubscribe, Write
<1>2. SUFFICES ASSUME events, NEW d \in Clients, sub'[d], ~Pending
               PROVE  \/ snap'[d].pc = "check" \/ (snap'[d].pc = "send" /\ snap'[d].val = now)
                      \/ Caught(d)'
  BY <1>1 DEF Told, Fresh
<1>3. sub[d] => \/ snap[d].pc = "check" \/ (snap[d].pc = "send" /\ snap[d].val = now)
                \/ Caught(d)
  BY <1>2 DEF Told, Fresh
<1>4. CASE Answer(c)
  <2>1. /\ snap[c].val \in 0..now /\ {c} \in SUBSET Clients /\ Offer({c}, snap[c].val)
        /\ UNCHANGED <<seen, sub>> /\ snap' = [snap EXCEPT ![c] = Off] /\ snap[c].pc = "send"
    BY <1>4 DEF LiveTypes, Tasks, Answer
  <2>2. d \in {c} /\ snap[c].val = now => Caught(d)'
    BY <1>1, <2>1, OfferIs
  <2>3. Caught(d) => Caught(d)'
    BY <1>1, <2>1, OfferIs
  <2>4. d # c => snap'[d] = snap[d]
    BY <2>1 DEF LiveTypes
  <2>5. QED
    BY <1>2, <1>3, <2>1, <2>2, <2>3, <2>4
<1>5. CASE Write(c)
  <2>1. UNCHANGED <<sub, snap, top, lost>> /\ queue[c] \in Seq(Nat) /\ queue[c] # <<>>
        /\ seen' = [seen EXCEPT ![c] = Head(queue[c])]
        /\ queue' = [queue EXCEPT ![c] = Tail(queue[c])]
    BY <1>5 DEF LiveTypes, Write
  <2>2. Latest(d)' = Latest(d)
    <3>1. CASE d # c
      <4>1. queue'[d] = queue[d] /\ seen'[d] = seen[d]
        BY <2>1, <3>1 DEF LiveTypes
      <4>2. QED
        BY <4>1 DEF Latest
    <3>2. CASE d = c
      <4>1. queue'[c] = Tail(queue[c]) /\ seen'[c] = Head(queue[c])
        BY <2>1 DEF LiveTypes
      <4>2. IF Tail(queue[c]) = <<>> THEN Head(queue[c]) = queue[c][Len(queue[c])]
            ELSE Tail(queue[c])[Len(Tail(queue[c]))] = queue[c][Len(queue[c])]
        BY <2>1, LastOfTail
      <4>3. QED
        BY <2>1, <3>2, <4>1, <4>2 DEF Latest
    <3>3. QED
      BY <3>1, <3>2
  <2>3. Caught(d)' = Caught(d)
    BY <1>1, <2>1, <2>2 DEF Caught
  <2>4. QED
    BY <1>2, <1>3, <2>1, <2>3
<1>6. CASE d = c /\ (Subscribe(c) \/ Snapshot(c))
  BY <1>1, <1>6 DEF LiveTypes, Subscribe, Snapshot, Start
<1>7. CASE d = c /\ (Unsubscribe(c) \/ Break(c))
  BY <1>2, <1>7 DEF LiveTypes, Unsubscribe, Break
<1>8. CASE Look(c) \/ (d # c /\ ~Answer(c) /\ ~Write(c))
  <2>1. /\ sub'[d] = sub[d] /\ snap'[d] = snap[d] /\ queue'[d] = queue[d]
        /\ seen'[d] = seen[d] /\ top'[d] = top[d] /\ lost'[d] = lost[d]
    BY <1>8 DEF LiveTypes, Look, Break, Subscribe, Snapshot, Unsubscribe
  <2>2. QED
    BY <1>1, <1>2, <1>3, <2>1 DEF Caught, Latest
<1>9. QED
  BY <1>4, <1>5, <1>6, <1>7, <1>8

-----------------------------------------------------------------------------
(* The theorems *)

LEMMA LiveStep ==
  ASSUME LiveInv, [LiveNext]_liveVars
  PROVE  LiveInv'
<1>1. LiveTypes /\ Led /\ Told
  BY DEF LiveInv
<1>2. Led'
  BY <1>1, LedStep
<1>3. CASE \/ \E w \in Workers : Change(w) \/ Lead(w) \/ Trail(w)
           \/ Event \/ EventsBreak \/ Watch \/ \E t \in Timers : Fire(t)
  BY <1>1, <1>2, <1>3, TellersTypes, TellersTold DEF LiveInv
<1>4. CASE Cool \/ UNCHANGED liveVars
  <2>1. UNCHANGED <<now, work, timer, events, trig, cast, sub, snap, queue, seen, top, lost,
                    breaks>>
    BY <1>4 DEF Cool, docker, client, liveVars
  <2>2. LiveTypes'
    BY <1>1, <2>1 DEF LiveTypes
  <2>3. Told'
    BY <1>1, <2>1 DEF Told, Fresh, Pending, Caught, Latest
  <2>4. QED
    BY <1>2, <2>2, <2>3 DEF LiveInv
<1>5. ASSUME NEW k \in Casts, Make(k) \/ Send(k) PROVE LiveInv'
  BY <1>1, <1>2, <1>5, CastTypes, MakeTold, SendTold DEF LiveInv
<1>6. ASSUME NEW c \in Clients,
             \/ Look(c) \/ Break(c) \/ Subscribe(c) \/ Snapshot(c) \/ Answer(c)
             \/ Unsubscribe(c) \/ Write(c)
      PROVE  LiveInv'
  BY <1>1, <1>2, <1>6, ClientTypes, ClientTold DEF LiveInv
<1>7. QED
  BY <1>3, <1>4, <1>5, <1>6 DEF LiveNext, HubStep

LEMMA LiveStart == LiveInit => LiveInv
<1>1. LiveInit => Led /\ Told
  BY CastsApart DEF LiveInit, Led, Told, Off
<1>2. QED
  BY <1>1, LiveTypesInit DEF LiveInv

\* The types, the capacity of the queues, and that one worker holds the mutex.
THEOREM LiveTypeTheorem == LiveSpec => []LiveTypeOK
<1>1. LiveInv => LiveTypeOK
  BY DEF LiveInv, LiveTypes, Led, LiveTypeOK, Tasks
<1>2. QED
  BY <1>1, LiveStart, LiveStep, PTL DEF LiveSpec

\* Once nothing is left to be told, every page that has read its queue shows the last
\* state, for any workers, timers, pages and queues: a change is always with a caller, a
\* timer, a trigger, a broadcast, a snapshot or a queue until the page has it.
THEOREM ToldShowsTheorem == LiveSpec => []ToldShowsLast
<1>1. LiveInv => ToldShowsLast
  <2> SUFFICES ASSUME LiveInv, AllTold, NEW c \in Clients, events,
                      sub[c], snap[c].pc = "off", queue[c] = <<>>, ~lost[c]
               PROVE  seen[c] = now
    BY DEF ToldShowsLast
  <2>1. ~Pending
    BY DEF AllTold, Pending
  <2>2. Caught(c)
    BY <2>1 DEF LiveInv, Told, Fresh
  <2>3. QED
    BY <2>2 DEF Caught, Latest
<1>2. QED
  BY <1>1, LiveStart, LiveStep, PTL DEF LiveSpec
=============================================================================
