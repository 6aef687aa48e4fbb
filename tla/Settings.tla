------------------------------ MODULE Settings -------------------------------
(***************************************************************************)
(* The settings of a box and the requests that change them: the operator's  *)
(* preferences (internal/usersettings), which carry the store sources and    *)
(* the additional domains (internal/server/settings.go, store.go).  The      *)
(* dashboard keeps a copy of the preferences and saves it whole              *)
(* (web/src/lib/stores/settings.ts).  The backup configuration has a module  *)
(* of its own, EngineChoice.                                                 *)
(*                                                                          *)
(* Sources are a set: their order matters to module Catalogue alone.  Of the *)
(* preferences nothing else is kept, of the domains whether there is one, and *)
(* of the apps one that runs, with the domains its routes were made for.     *)
(***************************************************************************)
EXTENDS Integers

CONSTANTS
  Reqs,    \* requests in flight
  Sources, \* store sources
  Default, \* the deployment's own, cfg.StoreURLs
  Edited   \* those the operator adds and removes

ASSUME SettingsAssumption ==
  Default \subseteq Sources /\ Default # {} /\ Edited \subseteq Sources

Preferences == [sources : SUBSET Sources, domain : BOOLEAN]
Factory == [sources |-> {}, domain |-> FALSE]

VARIABLES
  file,      \* settings.json; one that cannot be parsed counts as Factory
  cur,       \* usersettings.Store.cur
  urls,      \* appstore.Manager.urls
  page,      \* the dashboard's copy, if one is open
  published, \* the domain the app's routes were generated for
  missed,    \* a republishing left the app out, or could not bring it up
  req,       \* req[r]: the request, and what it has read
  blurred    \* requests have overlapped or failed, or a page was out of date

vars == <<file, cur, urls, page, published, missed, req, blurred>>
app == <<published, missed>>
prefs == <<file, cur, urls, page, app>>

Idle == [pc |-> "idle", new |-> Factory]
Quiet == \A r \in Reqs : req[r].pc = "idle"

\* server.New: the persisted sources, if any, take precedence.
Offered(s) == IF s = {} THEN Default ELSE s

Init ==
  /\ file = Factory /\ cur = Factory /\ urls = Default /\ page = {}
  /\ published = FALSE /\ missed = FALSE
  /\ req = [r \in Reqs |-> Idle]
  /\ blurred = FALSE

-----------------------------------------------------------------------------
(* Requests *)

\* A request starts, with what it has read by its first step.
Begin(r, pc, new) ==
  /\ req[r].pc = "idle"
  /\ req' = [req EXCEPT ![r] = [pc |-> pc, new |-> new]]

Step(r, from, to) == req[r].pc = from /\ req' = [req EXCEPT ![r].pc = to]
End(r, from) == req[r].pc = from /\ req' = [req EXCEPT ![r] = Idle]

\* handleAddStoreSource and handleRemoveStoreSource: the list is read ...
ChangeSources(r) ==
  /\ \E s \in Edited :
       \E list \in {urls \cup {s}, urls \ {s}} :
         Begin(r, "sources", [Factory EXCEPT !.sources = list])
  /\ blurred' = (blurred \/ ~Quiet)
  /\ UNCHANGED prefs

\* ... and applied: the manager's list is replaced, the settings are read ...
ApplySources(r) ==
  /\ req[r].pc = "sources"
  /\ urls' = req[r].new.sources
  /\ req' = [req EXCEPT ![r].pc = "set", ![r].new.domain = cur.domain]
  /\ UNCHANGED <<file, cur, page, app, blurred>>

\* handlePutDomains: the settings are read, with the domains replaced.
PutDomains(r) ==
  /\ \E d \in BOOLEAN : Begin(r, "setdomains", [cur EXCEPT !.domain = d])
  /\ blurred' = (blurred \/ ~Quiet)
  /\ UNCHANGED prefs

\* The dashboard saves all it has, on any change of look (settings.subscribe).
PutSettings(r) ==
  /\ \E copy \in page : Begin(r, "set", copy)
  /\ blurred' = (blurred \/ ~Quiet \/ page # {cur})
  /\ UNCHANGED prefs

\* usersettings.Set: what is in memory is replaced ...
SetMemory(r) ==
  /\ Step(r, "set", "write") \/ Step(r, "setdomains", "writedomains")
  /\ cur' = req[r].new
  /\ UNCHANGED <<file, urls, page, app, blurred>>

\* ... then the file, outside the mutex.  The dashboard that saved domains takes over
\* those it is answered.
WriteFile(r) ==
  /\ \/ End(r, "write") /\ UNCHANGED page
     \/ /\ Step(r, "writedomains", "republish")
        /\ page' \in {page, {[copy EXCEPT !.domain = cur.domain] : copy \in page}}
  /\ file' = req[r].new
  /\ UNCHANGED <<cur, urls, app, blurred>>

\* The disk is full: the file is as it was, or was truncated.  The sources' handler
\* takes no notice, the domains' one does not republish.
FailWrite(r) ==
  /\ End(r, "write") \/ End(r, "writedomains")
  /\ file' \in {file, Factory}
  /\ blurred' = TRUE
  /\ UNCHANGED <<cur, urls, page, app>>

\* Republish, in the background: the app's routes are made for the domains of now,
Republish(r) ==
  /\ req[r].pc = "republish"
  /\ req' = [req EXCEPT ![r].pc = "routes", ![r].new.domain = cur.domain]
  /\ UNCHANGED <<prefs, blurred>>

\* An up with the routes for domain d; and one that fails, before the containers have
\* them or after.
Up(d) == published' = d /\ missed' = FALSE
UpFails(d) == published' \in {published, d}

\* and written to its override as it is brought up.  What fails is logged: the list of
\* apps, the up, a start that a restore's marker refuses; an app that is stopped by now
\* is left out.
WriteRoutes(r) ==
  /\ \/ Up(req[r].new.domain)
     \/ UpFails(req[r].new.domain) /\ missed' = TRUE
  /\ End(r, "routes")
  /\ UNCHANGED <<file, cur, urls, page, blurred>>

\* The app is started for another reason (in one step), or cannot be.
StartApp ==
  /\ \/ Up(cur.domain)
     \/ UpFails(cur.domain) /\ UNCHANGED missed
  /\ UNCHANGED <<file, cur, urls, page, req, blurred>>

\* A dashboard is opened.
OpenPage ==
  /\ page' = {cur}
  /\ UNCHANGED <<file, cur, urls, app, req, blurred>>

-----------------------------------------------------------------------------
(* Kills *)

\* Mutant of Restart: the deployment's sources, whatever was persisted.
RestartDefault ==
  /\ cur' = file /\ urls' = Default
  /\ req' = [r \in Reqs |-> Idle]
  /\ blurred' = (blurred \/ ~Quiet)
  /\ UNCHANGED <<file, page, app>>

\* Maison is killed and starts again.  A settings file that was being written may be
\* left without its content, and is then as good as none.
Restart ==
  /\ file' \in {file} \cup {Factory : r \in {x \in Reqs : req[x].pc \in {"write", "writedomains"}}}
  /\ cur' = file' /\ urls' = Offered(file'.sources)
  /\ req' = [r \in Reqs |-> Idle]
  /\ blurred' = (blurred \/ ~Quiet)
  /\ UNCHANGED <<page, app>>

Next ==
  \/ \E r \in Reqs :
       \/ ChangeSources(r) \/ ApplySources(r) \/ PutDomains(r) \/ PutSettings(r)
       \/ SetMemory(r) \/ WriteFile(r) \/ FailWrite(r) \/ Republish(r) \/ WriteRoutes(r)
  \/ StartApp \/ OpenPage \/ Restart

Spec == Init /\ [][Next]_vars

-----------------------------------------------------------------------------
(* Properties *)

\* Types.
TypeOK ==
  /\ {file, cur} \subseteq Preferences /\ page \subseteq Preferences
  /\ urls \subseteq Sources
  /\ {published, missed, blurred} \subseteq BOOLEAN

\* Requests that came one at a time, from pages that were up to date, with kills only
\* between them and a disk that takes what is written, leave on disk what is in effect:
\* the preferences in memory, the sources the store is read from (unless all have been
\* removed), and the domain the app is published on, unless the last republishing missed
\* the app and it has not been started since.
WhatIsSetHolds ==
  Quiet /\ ~blurred =>
    /\ file = cur
    /\ urls # {} => urls = Offered(file.sources)
    /\ published = file.domain \/ missed

\* "the source list was changed and persisted whatever the network did" (applySources).
SourcesPersist == Quiet /\ urls # {} => urls = Offered(file.sources)
=============================================================================
