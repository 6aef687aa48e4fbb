-------------------------------- MODULE Live ---------------------------------
(***************************************************************************)
(* How the dashboard follows the apps: operations and Docker's events lead   *)
(* to broadcasts (throttle, broadcastApps and watchDocker in                 *)
(* internal/server/server.go), the hub sends them to the clients that have   *)
(* subscribed (internal/live/hub.go), and a page whose connection breaks     *)
(* connects again (web/src/lib/live/ws.ts).                                  *)
(*                                                                          *)
(* The list of apps is a version, advanced by every change.  The "system"    *)
(* channel, which is sampled every two seconds, is left out.                 *)
(***************************************************************************)
EXTENDS Integers, Sequences, FiniteSets

CONSTANTS
  Workers,   \* operations that report progress
  Timers,    \* bound on the trailing calls that run at once
  Clients,   \* pages
  Cap,       \* the capacity of a client's queue, 32 in the code
  MaxChange, \* bound on the changes
  MaxBreak   \* bound on the broken connections

ASSUME LiveAssumption ==
  /\ Cap \in Nat \ {0} /\ MaxChange \in Nat /\ MaxBreak \in Nat
  /\ Workers \cap (Timers \cup {"docker", "free"}) = {}

VARIABLES
  now,    \* the version of the list of apps
  work,   \* work[w]: "idle", about to "call" the throttle, or in its own broadcast
  mu,     \* the throttle's mutex: the worker that leads a broadcast, or "free"
  timer,  \* a trailing call is scheduled
  hot,    \* the last broadcast of the throttle is less than its interval away
  events, \* Docker's events are watched
  trig,   \* the watcher's channel holds a trigger
  cast,   \* cast[k]: a run of broadcastApps, with the version it has read
  want,   \* want[c]: the page shows the apps
  sub,    \* sub[c]: it is connected and has subscribed
  snap,   \* snap[c]: the snapshot its subscription is answered with
  queue,  \* queue[c]: what is to be written to it
  seen,   \* seen[c]: the version it shows
  top,    \* top[c]: the newest version offered since it subscribed
  lost,   \* lost[c]: the last offer was dropped, or older than one before
  breaks  \* connections broken

liveVars == <<now, work, mu, timer, hot, events, trig, cast, want, sub, snap, queue, seen,
          top, lost, breaks>>
throttled == <<work, mu, timer, hot>>
docker == <<events, trig>>
client == <<want, sub, snap, queue, seen, top, lost, breaks>>

Casts == Workers \cup Timers \cup {"docker"}
Off == [pc |-> "off", val |-> 0]
Start == [pc |-> "check", val |-> 0]

LiveInit ==
  /\ now = 0
  /\ work = [w \in Workers |-> "idle"] /\ mu = "free" /\ timer = FALSE /\ hot = FALSE
  /\ events = TRUE /\ trig = FALSE
  /\ cast = [k \in Casts |-> Off]
  /\ want = [c \in Clients |-> FALSE] /\ sub = [c \in Clients |-> FALSE]
  /\ snap = [c \in Clients |-> Off] /\ queue = [c \in Clients |-> <<>>]
  /\ seen = [c \in Clients |-> 0] /\ top = [c \in Clients |-> 0]
  /\ lost = [c \in Clients |-> FALSE] /\ breaks = 0

-----------------------------------------------------------------------------
(* Changes, and who is told of them *)

\* An operation advances: its progress goes through the throttle, entering and leaving
\* the busy set is broadcast at once.
Change(w) ==
  /\ now < MaxChange /\ work[w] = "idle"
  /\ now' = now + 1
  /\ \/ work' = [work EXCEPT ![w] = "call"] /\ UNCHANGED cast
     \/ work' = [work EXCEPT ![w] = "direct"] /\ cast' = [cast EXCEPT ![w] = Start]
  /\ UNCHANGED <<mu, timer, hot, docker, client>>

\* A container changes: an event, if they are watched; the channel holds one trigger.
Event ==
  /\ now < MaxChange
  /\ now' = now + 1
  /\ trig' = (trig \/ events)
  /\ UNCHANGED <<throttled, events, cast, client>>

\* The stream of events breaks, and nobody watches it again.
EventsBreak ==
  /\ events
  /\ events' = FALSE
  /\ UNCHANGED <<now, throttled, trig, cast, client>>

\* watchDocker takes the trigger, sleeps and broadcasts.
Watch ==
  /\ trig /\ cast["docker"].pc = "off"
  /\ trig' = FALSE
  /\ cast' = [cast EXCEPT !["docker"] = Start]
  /\ UNCHANGED <<now, throttled, events, client>>

-----------------------------------------------------------------------------
(* The throttle *)

Called(w) == work[w] = "call" /\ mu = "free"

\* Nothing lately: the caller broadcasts, and keeps the mutex.
Lead(w) ==
  /\ Called(w) /\ ~timer /\ ~hot
  /\ work' = [work EXCEPT ![w] = "lead"] /\ mu' = w /\ hot' = TRUE
  /\ cast' = [cast EXCEPT ![w] = Start]
  /\ UNCHANGED <<now, timer, docker, client>>

\* Mutant of Trail: a call within the interval is ignored.
TrailNone(w) ==
  /\ Called(w) /\ (timer \/ hot)
  /\ work' = [work EXCEPT ![w] = "idle"]
  /\ UNCHANGED <<now, mu, timer, hot, docker, cast, client>>

\* A trailing call is scheduled, if none is.
Trail(w) ==
  /\ Called(w) /\ (timer \/ hot)
  /\ work' = [work EXCEPT ![w] = "idle"] /\ timer' = TRUE
  /\ UNCHANGED <<now, mu, hot, docker, cast, client>>

\* The trailing call, once the interval is over: it does not keep the mutex.
Fire(t) ==
  /\ timer /\ ~hot /\ mu = "free" /\ cast[t].pc = "off"
  /\ timer' = FALSE /\ hot' = TRUE
  /\ cast' = [cast EXCEPT ![t] = Start]
  /\ UNCHANGED <<now, work, mu, docker, client>>

\* The interval is over.
Cool ==
  /\ hot /\ hot' = FALSE
  /\ UNCHANGED <<now, work, mu, timer, docker, cast, client>>

-----------------------------------------------------------------------------
(* broadcastApps, BroadcastLazy and Broadcast *)

\* The call of k is over; the throttle's caller lets go of the mutex.
Ended(k) ==
  /\ cast' = [cast EXCEPT ![k] = Off]
  /\ IF k \in Workers
       THEN /\ work' = [work EXCEPT ![k] = "idle"]
            /\ mu' = IF mu = k THEN "free" ELSE mu
            /\ UNCHANGED <<timer, hot>>
       ELSE UNCHANGED throttled

\* Mutant of Make: a list that is being built already is taken for the last one.
MakeOnce(k) ==
  /\ cast[k].pc = "check"
  /\ LET idle == (\A c \in Clients : ~sub[c]) \/ (\E j \in Casts : cast[j].pc = "send")
     IN \/ ~idle /\ cast' = [cast EXCEPT ![k] = [pc |-> "send", val |-> now]]
           /\ UNCHANGED throttled
        \/ idle /\ Ended(k)
  /\ UNCHANGED <<now, docker, client>>

\* With no subscriber there is nothing to do; otherwise the list is built, at length.
Make(k) ==
  /\ cast[k].pc = "check"
  /\ \/ (\E c \in Clients : sub[c]) /\ cast' = [cast EXCEPT ![k] = [pc |-> "send", val |-> now]]
        /\ UNCHANGED throttled
     \/ (\A c \in Clients : ~sub[c]) /\ Ended(k)
  /\ UNCHANGED <<now, docker, client>>

\* trySend: a full queue drops the message.
Offer(to, val) ==
  /\ queue' = [c \in Clients |->
       IF c \in to /\ Len(queue[c]) < Cap THEN Append(queue[c], val) ELSE queue[c]]
  /\ lost' = [c \in Clients |->
       IF c \in to THEN Len(queue[c]) = Cap \/ val < top[c] ELSE lost[c]]
  /\ top' = [c \in Clients |-> IF c \in to /\ val > top[c] THEN val ELSE top[c]]

Send(k) ==
  /\ cast[k].pc = "send"
  /\ Offer({c \in Clients : sub[c]}, cast[k].val)
  /\ Ended(k)
  /\ UNCHANGED <<now, docker, want, sub, snap, seen, breaks>>

-----------------------------------------------------------------------------
(* Clients *)

\* The page is opened on the apps, or left.
Look(c) ==
  /\ want' = [want EXCEPT ![c] = ~@]
  /\ UNCHANGED <<now, throttled, docker, cast, sub, snap, queue, seen, top, lost, breaks>>

\* readPump: subscribed first, then the snapshot is built.
Subscribe(c) ==
  /\ want[c] /\ ~sub[c]
  /\ sub' = [sub EXCEPT ![c] = TRUE] /\ snap' = [snap EXCEPT ![c] = Start]
  /\ top' = [top EXCEPT ![c] = 0] /\ lost' = [lost EXCEPT ![c] = FALSE]
  /\ UNCHANGED <<now, throttled, docker, cast, want, queue, seen, breaks>>

Snapshot(c) ==
  /\ snap[c].pc = "check"
  /\ snap' = [snap EXCEPT ![c] = [pc |-> "send", val |-> now]]
  /\ UNCHANGED <<now, throttled, docker, cast, want, sub, queue, seen, top, lost, breaks>>

Answer(c) ==
  /\ snap[c].pc = "send"
  /\ Offer({c}, snap[c].val)
  /\ snap' = [snap EXCEPT ![c] = Off]
  /\ UNCHANGED <<now, throttled, docker, cast, want, sub, seen, breaks>>

Unsubscribe(c) ==
  /\ ~want[c] /\ sub[c] /\ snap[c].pc = "off"
  /\ sub' = [sub EXCEPT ![c] = FALSE]
  /\ UNCHANGED <<now, throttled, docker, cast, want, snap, queue, seen, top, lost, breaks>>

\* writePump.
Write(c) ==
  /\ queue[c] # <<>>
  /\ seen' = [seen EXCEPT ![c] = Head(queue[c])]
  /\ queue' = [queue EXCEPT ![c] = Tail(@)]
  /\ UNCHANGED <<now, throttled, docker, cast, want, sub, snap, top, lost, breaks>>

\* The connection breaks, or a write takes longer than five seconds: the client is
\* removed, and the page will connect again.
Break(c) ==
  /\ breaks < MaxBreak
  /\ breaks' = breaks + 1
  /\ sub' = [sub EXCEPT ![c] = FALSE] /\ snap' = [snap EXCEPT ![c] = Off]
  /\ queue' = [queue EXCEPT ![c] = <<>>]
  /\ UNCHANGED <<now, throttled, docker, cast, want, seen, top, lost>>

-----------------------------------------------------------------------------

HubStep ==
  \/ \E w \in Workers : Lead(w) \/ Trail(w)
  \/ \E t \in Timers : Fire(t)
  \/ \E k \in Casts : Make(k) \/ Send(k)
  \/ Cool \/ Watch
  \/ \E c \in Clients : Snapshot(c) \/ Answer(c) \/ Write(c) \/ Subscribe(c) \/ Unsubscribe(c)

LiveNext ==
  \/ HubStep
  \/ \E w \in Workers : Change(w)
  \/ \E c \in Clients : Look(c) \/ Break(c)
  \/ Event \/ EventsBreak

\* Goroutines and timers run, the mutex goes to whoever waits for it, and pages that are
\* open read what they are sent and connect again.
LiveSpec ==
  /\ LiveInit /\ [][LiveNext]_liveVars
  /\ \A w \in Workers : WF_liveVars(Lead(w) \/ Trail(w))
  /\ \A k \in Casts : WF_liveVars(Make(k) \/ Send(k))
  /\ WF_liveVars(\E t \in Timers : Fire(t)) /\ WF_liveVars(Cool) /\ WF_liveVars(Watch)
  /\ \A c \in Clients :
       /\ WF_liveVars(Snapshot(c) \/ Answer(c)) /\ WF_liveVars(Write(c)) /\ WF_liveVars(Subscribe(c))

-----------------------------------------------------------------------------
(* Properties *)

\* Types, the queues' capacity, and that the mutex is held by the one that leads.
LiveTypeOK ==
  /\ now \in 0..MaxChange /\ breaks \in 0..MaxBreak
  /\ \A w \in Workers : work[w] = "lead" <=> mu = w
  /\ \A c \in Clients : seen[c] \in 0..now /\ top[c] \in 0..now /\ Len(queue[c]) <= Cap
  /\ \A k \in Casts : cast[k].val \in 0..now

\* Nothing is left to be told: no call of the throttle, no timer, no trigger, no broadcast.
AllTold ==
  /\ ~timer /\ ~trig
  /\ (\A w \in Workers : work[w] # "call") /\ (\A k \in Casts : cast[k].pc = "off")

\* Once nothing is left to be told, a page that has been answered and has read its queue
\* shows the last state of the apps: whatever is swallowed, coalesced or built out of
\* order, somebody was left to tell it.  Let off as in FinalStateArrives.
ToldShowsLast ==
  AllTold =>
    \A c \in Clients :
      sub[c] /\ snap[c].pc = "off" /\ queue[c] = <<>> => seen[c] = now \/ lost[c] \/ ~events

\* A page that stays on the apps comes to show the last state of them, whatever the
\* throttle swallows, however subscriptions, broadcasts and broken connections interleave
\* ("always running a trailing call so the final state is not dropped").  Let off: a
\* client whose last message found its queue full or had been overtaken by a newer one,
\* and everything once the stream of Docker's events has broken.
FinalStateArrives ==
  \A c \in Clients : []<>(~want[c] \/ seen[c] = now \/ lost[c] \/ ~events)

\* The same, of what was dropped or overtaken, and of what happens unwatched.
FinalStateShown == \A c \in Clients : []<>(~want[c] \/ seen[c] = now \/ ~events)
SeenUnwatched == \A c \in Clients : []<>(~want[c] \/ seen[c] = now \/ lost[c])
=============================================================================
