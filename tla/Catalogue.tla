------------------------------ MODULE Catalogue ------------------------------
(***************************************************************************)
(* The app store: copies of the sources' archives on disk, kept fresh by     *)
(* conditional requests, and the catalogue merged from them                  *)
(* (internal/appstore/appstore.go).  Jobs are what may run at once: the       *)
(* refresh at boot and every night, a change of the sources, a reload of one  *)
(* source, the check for an update or the page of an app that needs a source. *)
(*                                                                          *)
(* The content of a source is a version, which its origin only advances; its *)
(* validators are the version they were sent with.  The two branches tried   *)
(* for a bare repository count as one request.  Which apps a source offers    *)
(* does not change.                                                          *)
(***************************************************************************)
EXTENDS Integers, Sequences

CONSTANTS
  Jobs,       \* jobs that may run at once
  Stores,     \* the origins
  Apps,       \* the ids of apps
  Offers,     \* Offers[u]: the apps of store u
  Lists,      \* the lists of sources an operator configures
  MaxVersion, \* MaxVersion[u]: bound on the versions of u's origin
  Hollow,     \* Hollow[u]: the versions of u whose archive has no Apps directory
  Hangs       \* TRUE if an origin may accept a request and never answer it

NoStore == "no store"

ASSUME CatalogueAssumption ==
  /\ Offers \in [Stores -> SUBSET Apps] /\ Lists \subseteq Seq(Stores)
  /\ MaxVersion \in [Stores -> Nat \ {0}] /\ Hangs \in BOOLEAN
  /\ Hollow \in [Stores -> SUBSET Nat]
  /\ NoStore \notin Stores /\ "none" \notin Jobs

VARIABLES
  origin,  \* origin[u]: the version served
  urls,    \* Manager.urls
  catalog, \* Manager.catalog: the store an app is taken from, or NoStore
  at,      \* at[u]: the version extracted in u's workdir, 0 for none
  tag,     \* tag[u]: the version in u's validators file, 0 for none
  moving,  \* filesMu is held, for the two renames
  holder,  \* the job that holds syncMu, or "none"
  sync,    \* its work: stores left to sync, catalogue built, version got and put aside
  job,     \* job[j]
  kept     \* kept[u]: a copy was extracted, and since then neither a kill between two
           \* renames nor a put-back that fails as well has left nothing

vars == <<origin, urls, catalog, at, tag, moving, holder, sync, job, kept>>

Versions(u) == 0..MaxVersion[u]
Catalogues == [Apps -> Stores \cup {NoStore}]
Empty == [a \in Apps |-> NoStore]

\* findAppsRoot finds the apps in a copy of version v.
HasApps(u, v) == v # 0 /\ v \notin Hollow[u]

Usable(u) == HasApps(u, at[u])

\* A job waits for syncMu, asks, moves the old copy away and the new one in, writes the
\* validators, and reads what it came for.
Idle == [pc |-> "idle", kind |-> "refresh", store |-> NoStore, since |-> 0, ok |-> TRUE]
NoSync == [left |-> <<>>, build |-> Empty, got |-> 0, old |-> 0]

Init ==
  /\ origin = [u \in Stores |-> 1]
  /\ urls \in Lists
  /\ catalog = Empty
  /\ at = [u \in Stores |-> 0] /\ tag = [u \in Stores |-> 0]
  /\ moving = FALSE /\ holder = "none" /\ sync = NoSync
  /\ job = [j \in Jobs |-> Idle]
  /\ kept = [u \in Stores |-> FALSE]

-----------------------------------------------------------------------------
(* The jobs start *)

Begin(j, kind, u, since) ==
  /\ job[j].pc = "idle"
  /\ job' = [job EXCEPT ![j] = [pc |-> "wait", kind |-> kind, store |-> u,
                                since |-> since, ok |-> TRUE]]
  /\ UNCHANGED <<origin, catalog, at, moving, holder, sync, kept>>

\* StartDailyRefresh: at boot and at 03:00, on a context that never ends.
Nightly(j) == Begin(j, "nightly", NoStore, 0) /\ UNCHANGED <<urls, tag>>

\* applySources: SetURLs, then Refresh.
Edit(j) ==
  /\ urls' \in Lists
  /\ Begin(j, "refresh", NoStore, 0)
  /\ UNCHANGED tag

\* RefreshStore drops the validators before it has the lock.
Reload(j) ==
  /\ \E u \in Stores : Begin(j, "reload", u, 0) /\ tag' = [tag EXCEPT ![u] = 0]
  /\ UNCHANGED urls

\* AppComposeFrom, which is to answer with what the origin has from now on; and GetFrom,
\* which only needs a copy with apps and has not found one.
Fetch(j) ==
  /\ \E u \in Stores :
       \/ Begin(j, "fetch", u, origin[u])
       \/ ~Usable(u) /\ Begin(j, "fetch", u, 0)
  /\ UNCHANGED <<urls, tag>>

-----------------------------------------------------------------------------
(* Under syncMu *)

Whole(j) == job[j].kind \in {"nightly", "refresh"}

\* Mutant of Lock: the sources as they were when the job came, before it had to wait.
LockOther(j) ==
  /\ job[j].pc = "wait" /\ holder = "none"
  /\ holder' = j
  /\ \E list \in IF Whole(j) THEN Lists ELSE {<<job[j].store>>} :
       sync' = [NoSync EXCEPT !.left = list]
  /\ job' = [job EXCEPT ![j].pc = "ask"]
  /\ UNCHANGED <<origin, urls, catalog, at, tag, moving, kept>>

\* Refresh reads the sources once it has the lock.
Lock(j) ==
  /\ job[j].pc = "wait" /\ holder = "none"
  /\ holder' = j
  /\ sync' = [NoSync EXCEPT !.left = IF Whole(j) THEN urls ELSE <<job[j].store>>]
  /\ job' = [job EXCEPT ![j].pc = "ask"]
  /\ UNCHANGED <<origin, urls, catalog, at, tag, moving, kept>>

Current == Head(sync.left)

\* The first store wins.
Merged(build, u) ==
  [a \in Apps |-> IF build[a] = NoStore /\ a \in Offers[u] THEN u ELSE build[a]]

\* The store asked is done with: the apps on disk are merged, synced or not.
Leave(j, ok, apps) ==
  /\ sync' = [NoSync EXCEPT !.left = Tail(sync.left),
                            !.build = IF apps THEN Merged(sync.build, Current)
                                      ELSE sync.build]
  /\ job' = [job EXCEPT ![j].pc = "ask", ![j].ok = ok]

\* What the request is made conditional on: nothing, unless there is a copy to fall
\* back on.
Condition(u) == IF Usable(u) THEN tag[u] ELSE 0

\* fetch: no answer, one that cannot be extracted or an old copy that cannot be renamed;
\* not modified; or a new copy, whatever is in it.
Ask(j) ==
  /\ holder = j /\ job[j].pc = "ask" /\ sync.left # <<>>
  /\ \/ Leave(j, FALSE, Usable(Current))
     \/ Condition(Current) = origin[Current] /\ Leave(j, TRUE, Usable(Current))
     \/ /\ Condition(Current) # origin[Current]
        /\ sync' = [sync EXCEPT !.got = origin[Current]]
        /\ job' = [job EXCEPT ![j].pc = "aside"]
  /\ UNCHANGED <<origin, urls, catalog, at, tag, moving, holder, kept>>

\* Mutant of Aside: the validators are written first.
AsideTagged(j) ==
  /\ holder = j /\ job[j].pc = "aside"
  /\ moving' = TRUE
  /\ sync' = [sync EXCEPT !.old = at[Current]]
  /\ at' = [at EXCEPT ![Current] = 0] /\ tag' = [tag EXCEPT ![Current] = sync.got]
  /\ job' = [job EXCEPT ![j].pc = "in"]
  /\ UNCHANGED <<origin, urls, catalog, holder, kept>>

\* swapIn: under filesMu, the old copy is renamed away ...
Aside(j) ==
  /\ holder = j /\ job[j].pc = "aside"
  /\ moving' = TRUE
  /\ sync' = [sync EXCEPT !.old = at[Current]]
  /\ at' = [at EXCEPT ![Current] = 0]
  /\ job' = [job EXCEPT ![j].pc = "in"]
  /\ UNCHANGED <<origin, urls, catalog, tag, holder, kept>>

\* Mutant of SwapIn: an old copy is not put back.
SwapInOrNone(j) ==
  /\ holder = j /\ job[j].pc = "in"
  /\ moving' = FALSE
  /\ \/ /\ at' = [at EXCEPT ![Current] = sync.got]
        /\ job' = [job EXCEPT ![j].pc = "tag"]
        /\ kept' = [kept EXCEPT ![Current] = TRUE]
        /\ UNCHANGED sync
     \/ Leave(j, FALSE, FALSE) /\ UNCHANGED <<at, kept>>
  /\ UNCHANGED <<origin, urls, catalog, tag, holder>>

\* Mutant of SwapIn: a source whose copy cannot be renamed in is asked again.
SwapInAgain(j) ==
  /\ holder = j /\ job[j].pc = "in"
  /\ moving' = FALSE
  /\ \/ /\ at' = [at EXCEPT ![Current] = sync.got]
        /\ job' = [job EXCEPT ![j].pc = "tag"]
        /\ kept' = [kept EXCEPT ![Current] = TRUE]
     \/ /\ at' = [at EXCEPT ![Current] = sync.old]
        /\ job' = [job EXCEPT ![j].pc = "ask"]
        /\ UNCHANGED kept
  /\ UNCHANGED <<origin, urls, catalog, tag, holder, sync>>

\* ... and the new one renamed in, or else the old one put back, which nobody looks at
\* whether it succeeds.
SwapIn(j) ==
  /\ holder = j /\ job[j].pc = "in"
  /\ moving' = FALSE
  /\ \/ /\ at' = [at EXCEPT ![Current] = sync.got]
        /\ job' = [job EXCEPT ![j].pc = "tag"]
        /\ kept' = [kept EXCEPT ![Current] = TRUE]
        /\ UNCHANGED sync
     \/ /\ at' = [at EXCEPT ![Current] = sync.old]
        /\ Leave(j, FALSE, HasApps(Current, sync.old))
        /\ UNCHANGED kept
     \/ /\ Leave(j, FALSE, FALSE)
        /\ kept' = [kept EXCEPT ![Current] = FALSE]
        /\ UNCHANGED at
  /\ UNCHANGED <<origin, urls, catalog, tag, holder>>

\* writeValidators: written, dropped as the origin sent none, or left as they were; and
\* only now are the apps looked for in the copy that has replaced the old one.
Tag(j) ==
  /\ holder = j /\ job[j].pc = "tag"
  /\ \E t \in {sync.got, 0, tag[Current]} : tag' = [tag EXCEPT ![Current] = t]
  /\ Leave(j, Usable(Current), Usable(Current))
  /\ UNCHANGED <<origin, urls, catalog, at, moving, holder, kept>>

\* Mutant of Done: the lock is not released when nothing can be read.
DoneHeld(j) ==
  /\ holder = j /\ job[j].pc = "ask" /\ sync.left = <<>>
  /\ holder' = IF job[j].ok THEN "none" ELSE j
  /\ sync' = NoSync
  /\ catalog' = IF Whole(j) THEN sync.build ELSE catalog
  /\ job' = [job EXCEPT ![j] = IF job[j].kind = "fetch" /\ job[j].ok
                                 THEN [job[j] EXCEPT !.pc = "read"] ELSE Idle]
  /\ UNCHANGED <<origin, urls, at, tag, moving, kept>>

\* Mutant of Done: after a source was reloaded it is reloaded with the rest.
DoneReloads(j) ==
  /\ holder = j /\ job[j].pc = "ask" /\ sync.left = <<>>
  /\ holder' = "none" /\ sync' = NoSync
  /\ catalog' = IF Whole(j) THEN sync.build ELSE catalog
  /\ job' = [job EXCEPT ![j] = IF job[j].kind = "reload" THEN [job[j] EXCEPT !.pc = "wait"]
                                 ELSE IF job[j].kind = "fetch" /\ job[j].ok
                                 THEN [job[j] EXCEPT !.pc = "read"] ELSE Idle]
  /\ UNCHANGED <<origin, urls, at, tag, moving, kept>>

\* All stores are done with: Refresh puts its catalogue in place, RefreshStore goes on
\* to refresh the rest, AppComposeFrom gives up unless it has reached the origin.
Done(j) ==
  /\ holder = j /\ job[j].pc = "ask" /\ sync.left = <<>>
  /\ holder' = "none" /\ sync' = NoSync
  /\ catalog' = IF Whole(j) THEN sync.build ELSE catalog
  /\ \/ Whole(j) /\ job' = [job EXCEPT ![j] = Idle]
     \/ /\ job[j].kind = "reload"
        /\ job' = [job EXCEPT ![j] = [Idle EXCEPT !.pc = "wait"]]
     \/ /\ job[j].kind = "fetch"
        /\ job' = [job EXCEPT ![j] = IF job[j].ok \/ job[j].since = 0
                                       THEN [job[j] EXCEPT !.pc = "read"] ELSE Idle]
  /\ UNCHANGED <<origin, urls, at, tag, moving, kept>>

\* appIn, under filesMu.
Read(j) ==
  /\ job[j].pc = "read" /\ ~moving
  /\ job' = [job EXCEPT ![j] = Idle]
  /\ UNCHANGED <<origin, urls, catalog, at, tag, moving, holder, sync, kept>>

-----------------------------------------------------------------------------
(* What happens around *)

\* The origin publishes.
Advance ==
  /\ \E u \in Stores :
       origin[u] < MaxVersion[u] /\ origin' = [origin EXCEPT ![u] = @ + 1]
  /\ UNCHANGED <<urls, catalog, at, tag, moving, holder, sync, job, kept>>

\* Maison is killed; what was put aside is never looked at again.
Kill ==
  /\ catalog' = Empty
  /\ moving' = FALSE /\ holder' = "none" /\ sync' = NoSync
  /\ job' = [j \in Jobs |-> Idle]
  /\ kept' = [u \in Stores |-> kept[u] /\ ~(moving /\ u = Current)]
  /\ UNCHANGED <<origin, urls, at, tag>>

Step(j) ==
  \/ Lock(j) \/ Ask(j) \/ Aside(j) \/ SwapIn(j) \/ Tag(j) \/ Done(j) \/ Read(j)

\* What a job that has the lock gets done; the nightly refresh's requests may hang.
Work(j) ==
  \/ Ask(j) /\ ~(Hangs /\ job[j].kind = "nightly")
  \/ Aside(j) \/ SwapIn(j) \/ Tag(j) \/ Done(j)

Next ==
  \/ \E j \in Jobs : Nightly(j) \/ Edit(j) \/ Reload(j) \/ Fetch(j) \/ Step(j)
  \/ Advance \/ Kill

\* Go's mutexes let nobody starve, disks answer, and so do origins: those that do not
\* are given up on when the request's context ends, the nightly refresh's never.
Fair(j) == SF_vars(Lock(j) \/ Read(j)) /\ WF_vars(Work(j))

Fairness == \A j \in Jobs : Fair(j)

Spec == Init /\ [][Next]_vars /\ Fairness

-----------------------------------------------------------------------------
(* Properties *)

\* Types, and that the locks are held by who is at work.
TypeOK ==
  /\ urls \in Lists /\ {catalog, sync.build} \subseteq Catalogues
  /\ \A u \in Stores :
       origin[u] \in Versions(u) \ {0} /\ {at[u], tag[u]} \subseteq Versions(u)
  /\ \A j \in Jobs : job[j].pc \in {"ask", "aside", "in", "tag"} <=> holder = j
  /\ moving <=> \E j \in Jobs : job[j].pc = "in"

\* Once a copy was extracted there is one for whoever may look, through failed downloads,
\* a failed rename and kills ("put the previous copy back rather than leaving none", "no
\* reader observes the gap"); let off, a kill between the two renames and a put-back that
\* fails as well.  Whether the copy has apps is CopyStaysUsable.
KeepsCopy == \A u \in Stores : kept[u] /\ ~moving => at[u] # 0

\* What takes the place of a copy with apps has apps ("a box with no connectivity keeps
\* a usable catalog").  Not so: the archive is swapped in before it is looked into.
CopyStaysUsable == \A j \in Jobs :
  job[j].pc = "tag" /\ HasApps(Current, sync.old) => Usable(Current)

\* A check for updates answers with nothing older than what the origin had when it was
\* asked for ("a stale extracted copy would report up to date when it isn't"); where no
\* copy is left it answers with an error.
CheckedIsCurrent == \A j \in Jobs :
  job[j].pc = "read" /\ ~moving /\ at[job[j].store] # 0
    => at[job[j].store] >= job[j].since

\* With no job under way, an app is offered from a configured source only, though lists
\* are replaced while refreshes run.
CatalogueFollowsSources ==
  (\A j \in Jobs : job[j].pc = "idle") =>
    \A a \in Apps : catalog[a] # NoStore => \E i \in DOMAIN urls : urls[i] = catalog[a]

\* Nothing but a lock that is held blocks a job: the one that has syncMu can always work,
\* one that waits for it can take it when it is free, and a reader can read when filesMu is.
JobsGoOn ==
  \A j \in Jobs :
    /\ holder = j => ENABLED <<Work(j)>>_vars
    /\ \/ job[j].pc = "wait" /\ holder = "none"
       \/ job[j].pc = "read" /\ ~moving
       => ENABLED <<Lock(j) \/ Read(j)>>_vars

\* Who has syncMu lets go of it, whatever fails on the way through its sources.
LetsGo(j) == holder = j ~> holder # j

HoldersLetGo == \A j \in Jobs : LetsGo(j)

\* A job that has come ends ("The timeout still applies, so nothing runs unbounded").
Ends(j) == job[j].pc # "idle" ~> job[j].pc = "idle"

NothingRunsUnbounded == \A j \in Jobs : Ends(j)

\* A reload that succeeds has downloaded: the validators are dropped "so the conditional
\* GET in syncStore can't come back 304".
ReloadDownloads ==
  [][\A j \in Jobs : Ask(j) /\ job[j].kind = "reload" /\ job'[j].ok => job'[j].pc = "aside"]_vars
=============================================================================
