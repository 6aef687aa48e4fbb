------------------------------ MODULE AppFiles -------------------------------
(***************************************************************************)
(* The files of one app's folder and what rewrites them: the settings form, *)
(* the YAML editor and the fields of x-compose-app write the override       *)
(* (SetOverrideForm, SetConfig, SetTips and SetWebUI of internal/apps), an   *)
(* update the store's compose, SetEnv the .env; and every up of the app      *)
(* (internal/stackup) regenerates the routes, normalizes the compose and the *)
(* .env, and hands the files to Compose.  Nothing keeps these apart: each    *)
(* reads a file, and writes it in a later step.                              *)
(*                                                                          *)
(* A file may be unreadable, and a write refused or cut short.  What is left *)
(* of an override or a compose that was cut short is empty or malformed, of  *)
(* a .env some of its lines.  No override is one that says nothing.           *)
(***************************************************************************)
EXTENDS Routes, OverrideForm, EnvFile, Transform

CONSTANTS
  Ops,         \* requests in flight
  Svcs, Main,  \* the services, and the main one
  Store,       \* Store[v]: the store's compose, in its version v
  Overrides,   \* overrides an app may have to begin with
  EnvFiles,    \* .env files it may have to begin with
  Lists,       \* lists of additional domains
  Owned,       \* the variables of .env.app, in order
  Deployments, \* their values; a variable left empty has the value 0
  Typed(_),    \* Typed(o): what o may become in the YAML editor
  Filled(_),   \* Filled(f): what the fields f of a service may become in the form
  MaxNews      \* bound on the changes asked for, and the reads and writes that fail

VARIABLES
  base,  \* docker-compose.yml
  over,  \* docker-compose.override.yml
  env,   \* .env
  torn,  \* which of base and over a write that was cut short has left malformed
  doms,  \* the additional domains
  dep,   \* the values of .env.app
  op,    \* op[p]: a request, and what it holds
  meant, \* the fields as the form last meant them, where nothing else has changed them
  hand,  \* the labels the operator has had, typed, changed, or struck from the manifest
  news   \* changes asked for and failures, so far

files == <<base, over, env, torn>>
settings == <<doms, dep>>
marks == <<meant, hand>>
vars == <<files, settings, op, marks, news>>

NoOverride ==
  [labels |-> [s \in Svcs |-> NoLabels], manifest |-> [s \in Svcs |-> {}],
   fields |-> [s \in Svcs |-> NoFields], tips |-> FALSE]

Files == {"base", "over", "env", "settings"}

\* over, base and vars: what a request is to write.  stale: the files that it has not read
\* or written, that it could not, or that others have changed since.
Idle == [pc |-> "idle", over |-> NoOverride, base |-> <<>>, vars |-> <<>>, what |-> <<>>,
         stale |-> Files]
Reads(pc, read) == [Idle EXCEPT !.pc = pc, !.stale = Files \ read]
ToUp == Reads("sync", {})

\* The labels that are not known for generated.
Own(o, s) == DOMAIN o.labels[s] \ o.manifest[s]
OwnLabels(o) ==
  {l \in Svcs \X UNION {DOMAIN o.labels[s] : s \in Svcs} : l[2] \in Own(o, l[1])}

\* cfg.AppNet() and appenv.Load: what is left empty is not there.
AppNet(d) == d["APP_NET"] # 0
Loaded(d) == Restrict(d, {k \in DOMAIN d : d[k] # 0})

\* A store's compose, as it is written (storeCompose); net: the deployment has a network.
Written(c, net) ==
  LET t == Transformed(c.nets, c.binds, Main, net)
  IN [c EXCEPT !.nets = t.nets, !.binds = t.binds]

\* An older version may have installed the app, on a network and a path of its own.
Init ==
  /\ doms \in Lists /\ dep \in Deployments
  /\ base \in {Written(Store[1], AppNet(dep)),
               [Store[1] EXCEPT !.nets.declared = Declare(@, "pcs", "key"),
                                !.nets.lists[Main] = @ \cup {"pcs"}]}
  /\ over \in Overrides /\ env \in EnvFiles /\ torn = {}
  /\ op = [p \in Ops |-> Idle]
  /\ meant = {} /\ hand = OwnLabels(over) /\ news = 0

-----------------------------------------------------------------------------

\* A request goes on; whatever it has changed is news to the others.
Changed ==
  {f \in Files : \/ f = "base" /\ base' # base
                 \/ f = "over" /\ over' # over
                 \/ f = "env" /\ env' # env
                 \/ f = "settings" /\ settings' # settings
                 \/ (f \in torn) # (f \in torn')}

Goto(p, new) ==
  op' = [q \in Ops |-> IF q = p THEN new ELSE [op[q] EXCEPT !.stale = @ \cup Changed]]

News == news < MaxNews /\ news' = news + 1
Asked(p) == op[p].pc = "idle" /\ News
FaultUnless(ok) == IF ok THEN UNCHANGED news ELSE News

\* Start, and republishing after a change of the domains; not counted when nothing else is
\* in flight.
Start(p) ==
  /\ Asked(p) \/ ((\A q \in Ops : op[q].pc = "idle") /\ UNCHANGED news)
  /\ UNCHANGED <<files, settings, marks>>
  /\ Goto(p, ToUp)

\* The domains change in Settings, .env.app changes in its editor.
Settings ==
  /\ News
  /\ \/ doms' \in Lists \ {doms} /\ UNCHANGED dep
     \/ dep' \in Deployments \ {dep} /\ UNCHANGED doms
  /\ UNCHANGED <<files, marks>>
  /\ op' = [q \in Ops |-> [op[q] EXCEPT !.stale = @ \cup Changed]]

\* SetOverrideForm: a filled-in form is applied to what is read of the override.  One that
\* cannot be read is taken for none, a malformed one is an error.
FillIn(p, read) ==
  \E s \in Svcs :
    LET b == base.fields[s]
        o == read.fields[s]
    IN \E form \in Filled(Build(b, o)) :
         Goto(p, [Reads("form", {"base"}) EXCEPT !.what = <<s, Meant(b, o, form)>>,
                    !.over = [read EXCEPT !.fields[s] = Apply(b, o, form)]])

FillForm(p) ==
  /\ Asked(p) /\ "base" \notin torn
  /\ UNCHANGED <<files, settings, marks>>
  /\ \/ "over" \notin torn /\ FillIn(p, over)
     \/ FillIn(p, NoOverride)

\* SetConfig, from the YAML editor: the text that was opened, with a change.
OpenEditor(p) ==
  /\ Asked(p)
  /\ UNCHANGED <<files, settings, marks>>
  /\ \E o \in Typed(over) :
       Goto(p, [Reads("typed", {}) EXCEPT !.over = o,
                  !.what = {l \in OwnLabels(o) :
                              l \notin OwnLabels(over)
                                \/ o.labels[l[1]][l[2]] # over.labels[l[1]][l[2]]}])

\* What has been validated is written, or else rejected.
SaveOverride(p) ==
  /\ op[p].pc \in {"form", "typed"}
  /\ UNCHANGED <<base, env, settings, news>>
  /\ \/ /\ over' = op[p].over /\ torn' = torn \ {"over"}
        /\ IF op[p].pc = "form"
           THEN /\ meant' = IF "base" \in op[p].stale THEN {} ELSE {op[p].what}
                /\ UNCHANGED hand
           ELSE /\ meant' = {}
                /\ hand' = hand \cup op[p].what
        /\ Goto(p, ToUp)
     \/ UNCHANGED <<over, torn, marks>> /\ Goto(p, Idle)

\* SetTips and SetWebUI decode the override into maps.  The error of one that does not
\* decode is dropped, with what comes after the place: all of it, or all but the manifest.
Decoded(o) ==
  {[o EXCEPT !.fields = [s \in Svcs |-> Reencoded(@[s])]]}
    \cup IF \E s \in Svcs : HasReset(o.fields[s])
         THEN {NoOverride, [NoOverride EXCEPT !.manifest = o.manifest]} ELSE {}

ReadFields(p) ==
  /\ Asked(p)
  /\ UNCHANGED <<files, settings, marks>>
  /\ \/ \E o \in Decoded(over) :
          Goto(p, [Reads("fields", {"over"}) EXCEPT !.over = [o EXCEPT !.tips = TRUE]])
     \/ Goto(p, [Reads("fields", {}) EXCEPT !.over = [NoOverride EXCEPT !.tips = TRUE]])

\* ... and write what they have decoded; SetWebUI brings the app up.
WriteFields(p) ==
  /\ op[p].pc = "fields"
  /\ over' = op[p].over /\ torn' = torn \ {"over"}
  /\ meant' = IF over'.fields = over.fields THEN meant ELSE {}
  /\ UNCHANGED <<base, env, settings, hand, news>>
  /\ Goto(p, Idle) \/ Goto(p, ToUp)

\* ApplyUpdate: another version of the store's compose is written.
Update(p) ==
  /\ Asked(p)
  /\ \E v \in DOMAIN Store : /\ Written(Store[v], AppNet(dep)) # base
                             /\ base' = Written(Store[v], AppNet(dep))
  /\ torn' = torn \ {"base"} /\ meant' = {}
  /\ UNCHANGED <<over, env, settings, hand>>
  /\ Goto(p, ToUp)

\* The page of the .env is opened, with a change of the operator's own variable; SetEnv
\* patches the file with it and rejects what it cannot write.
OpenEnv(p) ==
  /\ Asked(p)
  /\ UNCHANGED <<files, settings, marks>>
  /\ LET page == Parse(env)
     IN Goto(p, [Reads("page", {}) EXCEPT !.vars =
                   [i \in DOMAIN page |-> IF page[i].key = "MINE" THEN Line("MINE", 2)
                                          ELSE page[i]]])

SetEnv(p) ==
  /\ op[p].pc = "page"
  /\ UNCHANGED <<files, settings, marks, news>>
  /\ Goto(p, IF ValidVars(op[p].vars)
             THEN [op[p] EXCEPT !.pc = "patched", !.vars = Patch(env, @)] ELSE Idle)

SaveEnv(p) ==
  /\ op[p].pc = "patched"
  /\ env' = op[p].vars
  /\ UNCHANGED <<base, over, torn, settings, marks, news>>
  /\ Goto(p, ToUp)

-----------------------------------------------------------------------------
(* stackup.Up.  What fails in SyncRoutes and in Normalize is logged, and the up goes on
   with what is on disk. *)

\* A request p goes on at pc, having held what it has written; bad: what it has failed at.
Onward(p, pc, bad) ==
  [Idle EXCEPT !.pc = pc, !.stale = op[p].stale \cup bad]

\* SyncRoutes, of an override that was read so.
Regenerate(p, read, good) ==
  LET out == Sync(base.labels, read, doms)
  IN Goto(p, IF out = over THEN Reads("normalize", good)
             ELSE [Reads("routes", good) EXCEPT !.over = out])

\* An override that cannot be read is taken for none; nothing is done to a malformed one.
ReadRoutes(p) ==
  /\ op[p].pc = "sync"
  /\ UNCHANGED <<files, settings, marks>>
  /\ \/ torn = {} /\ UNCHANGED news /\ Regenerate(p, over, {"base", "over", "settings"})
     \/ "base" \notin torn /\ News /\ Regenerate(p, NoOverride, {"base", "settings"})
     \/ /\ FaultUnless(torn # {})
        /\ Goto(p, Reads("normalize", {}))

WriteRoutes(p) ==
  /\ op[p].pc = "routes"
  /\ over' = op[p].over /\ torn' = torn \ {"over"}
  /\ meant' = IF "over" \in op[p].stale THEN {} ELSE meant
  /\ UNCHANGED <<base, env, settings, hand, news>>
  /\ Goto(p, Onward(p, "normalize", {}))

\* No write of the override is sure to succeed, nor to end.
OverrideFails(p) ==
  /\ op[p].pc \in {"form", "typed", "fields", "routes"} /\ News
  /\ \/ UNCHANGED <<over, torn, meant>>
     \/ /\ over' = NoOverride /\ meant' = {}
        /\ torn' \in {torn \ {"over"}, torn \cup {"over"}}
  /\ UNCHANGED <<base, env, settings, hand>>
  /\ Goto(p, IF op[p].pc = "routes" THEN Onward(p, "normalize", {"over"}) ELSE Idle)

\* Normalize: the compose; a .env.app that cannot be read is taken for an empty one ...
ReadCompose(p) ==
  /\ op[p].pc = "normalize"
  /\ UNCHANGED <<files, settings, marks>>
  /\ \/ /\ "base" \notin torn
        /\ \E net \in {AppNet(dep), FALSE} :
             LET bad == IF net = AppNet(dep) THEN {} ELSE {"settings"}
             IN /\ FaultUnless(bad = {})
                /\ Goto(p, IF Written(base, net) = base THEN Onward(p, "env", bad)
                           ELSE [Onward(p, "compose", bad) EXCEPT !.base = Written(base, net)])
     \/ /\ FaultUnless("base" \in torn)
        /\ Goto(p, Onward(p, "env", {"base"}))

WriteCompose(p) ==
  /\ op[p].pc = "compose"
  /\ base' = op[p].base /\ torn' = torn \ {"base"}
  /\ meant' = IF "base" \in op[p].stale THEN {} ELSE meant
  /\ UNCHANGED <<over, env, settings, hand, news>>
  /\ Goto(p, Onward(p, "env", {}))

ComposeFails(p) ==
  /\ op[p].pc = "compose" /\ News
  /\ \/ UNCHANGED <<torn, meant>>
     \/ torn' = torn \cup {"base"} /\ meant' = {}
  /\ UNCHANGED <<base, over, env, settings, hand>>
  /\ Goto(p, Onward(p, "env", {"base"}))

\* ... then the .env.
ReadVars(p) ==
  /\ op[p].pc = "env"
  /\ UNCHANGED <<files, settings, marks>>
  /\ \/ \E known \in {Loaded(dep), Restrict(dep, {})} :
          LET bad == IF known = Loaded(dep) THEN {} ELSE {"settings"}
              new == EnsureVars(env, Owned, known)
              read == [Onward(p, "up", bad) EXCEPT !.stale = @ \ {"env"}]
          IN /\ FaultUnless(bad = {})
             /\ Goto(p, IF new = env THEN read ELSE [read EXCEPT !.pc = "vars", !.vars = new])
     \/ News /\ Goto(p, Onward(p, "up", {"env"}))

WriteVars(p) ==
  /\ op[p].pc = "vars"
  /\ env' = op[p].vars
  /\ UNCHANGED <<base, over, torn, settings, marks, news>>
  /\ Goto(p, Onward(p, "up", {}))

EnvFails(p) ==
  /\ op[p].pc \in {"patched", "vars"} /\ News
  /\ \/ UNCHANGED env
     \/ \E n \in 0..Len(op[p].vars) - 1 : env' = SubSeq(op[p].vars, 1, n)
  /\ UNCHANGED <<base, over, torn, settings, marks>>
  /\ Goto(p, IF op[p].pc = "vars" THEN Onward(p, "up", {"env"}) ELSE Idle)

\* Compose is given the files as they are by now, whatever it makes of them.
Undisturbed(p) == op[p].pc = "up" /\ op[p].stale = {}

ComposeUp(p) ==
  /\ op[p].pc = "up"
  /\ UNCHANGED <<files, settings, marks, news>>
  /\ Goto(p, Idle)

Next ==
  \/ Settings
  \/ \E p \in Ops :
       \/ Start(p) \/ FillForm(p) \/ OpenEditor(p) \/ SaveOverride(p)
       \/ ReadFields(p) \/ WriteFields(p) \/ OverrideFails(p)
       \/ Update(p) \/ OpenEnv(p) \/ SetEnv(p) \/ SaveEnv(p) \/ EnvFails(p)
       \/ ReadRoutes(p) \/ WriteRoutes(p)
       \/ ReadCompose(p) \/ WriteCompose(p) \/ ComposeFails(p)
       \/ ReadVars(p) \/ WriteVars(p) \/ ComposeUp(p)

Spec == Init /\ [][Next]_vars

-----------------------------------------------------------------------------

Pcs == {"idle", "form", "typed", "fields", "page", "patched",
        "sync", "routes", "normalize", "compose", "env", "vars", "up"}

\* Types.
TypeOK ==
  /\ news \in 0..MaxNews
  /\ doms \in Lists /\ dep \in Deployments /\ torn \subseteq {"base", "over"}
  /\ DOMAIN over.labels = Svcs
  /\ \A s \in Svcs : \A k \in DOMAIN over.labels[s] \cup over.manifest[s] : k.n \in Int
  /\ \A p \in Ops : op[p].pc \in Pcs /\ op[p].stale \subseteq Files

\* Whatever the operator, the store, the settings and the ups did to the override, an up
\* that reads and writes its files, and that nothing interrupts, generates no label over one
\* of the store's, publishes each route of the store's compose exactly once on each
\* configured domain, with that domain's directives, unless the operator has taken over a
\* route of the store's on it, and is on no other but where the operator typed it or struck
\* it from the manifest: such an up heals the routes (SyncRoutes).
RoutesHealed ==
  \A p \in Ops : Undisturbed(p) =>
    \A s \in Svcs :
      LET b == base.labels[s]
          o == over.labels[s]
      IN /\ DOMAIN b \cap over.manifest[s] = {}
         /\ \A d \in ToSet(doms) : TakenOver(b, o, d) \/ PublishedOn(b, o, d)
         /\ NowhereElse(b, Restrict(o, {k \in DOMAIN o : <<s, k>> \notin hand}), doms)

\* What a form meant is what the app runs with from then on, under Compose's merge, as long
\* as no other edit of the override is saved, no update applied, no tag of the form's lost
\* to a change of the fields of x-compose-app, no write cut short, and nobody writes back an
\* override or a compose that they had read before: routes generated from what is there, and
\* a compose normalized, do not take it back (SetOverrideForm).
FormMeansWhatItSays ==
  \A m \in meant : Effective(base.fields[m[1]], over.fields[m[1]]) = m[2]

\* An up that reads and writes its files, and that nothing interrupts, hands Compose a
\* folder that follows the deployment as it is now: the networks by reference, if it has
\* one, the binds too, and every variable of .env.app that is not empty current, if the
\* .env can be patched (Normalize).
FollowsNow ==
  \A p \in Ops : Undisturbed(p) =>
    /\ \E v \in DOMAIN Store :
         /\ Store[v].labels = base.labels
         /\ AppNet(dep) => FollowsDeployment(base.nets, Store[v].nets, Main)
    /\ \A s \in Svcs : base.binds[s] \cap {"/DATA", "host"} = {}
    /\ ValidVars(Parse(env)) =>
         \A k \in DOMAIN Loaded(dep) : k \in KeysIn(env) /\ Value(env, k) = dep[k]

\* What an up writes into a file that it has read, and that nobody has changed since, leaves
\* the operator's own labels, on a host that is not the deployment's, and the variables that
\* are not the deployment's as they are (the package comment of caddyroutes, EnsureVars).
OwnRoutes(o, s) ==
  {k \in Own(o, s) :
     \A h \in DOMAIN o.labels[s] : h = Key(k.n, Host) => o.labels[s][h].on = "elsewhere"}

OwnVars == KeysIn(env) \ ToSet(Owned)

OperatorKept ==
  [][\A p \in Ops :
       /\ WriteRoutes(p) /\ "over" \notin op[p].stale =>
            \A s \in Svcs : \A k \in OwnRoutes(over, s) :
              k \in DOMAIN over'.labels[s] /\ over'.labels[s][k] = over.labels[s][k]
       /\ WriteVars(p) /\ "env" \notin op[p].stale =>
            \A k \in OwnVars : k \in KeysIn(env') /\ Value(env', k) = Value(env, k)]_vars

\* Generating the routes does not undo what a form has meant: "Nothing else in the file is
\* read or touched" (the package comment of caddyroutes).
FormsUntouched ==
  [][\A p \in Ops : WriteRoutes(p) =>
       \A m \in meant : Effective(base.fields[m[1]], over'.fields[m[1]]) = m[2]]_vars

\* A change of the fields of x-compose-app, in an override that could be read and that nobody
\* has changed since, leaves the service fields as they are: "the rest of the override
\* (service tweaks, etc.) is preserved" (SetWebUI).
TweaksPreserved ==
  [][\A p \in Ops : WriteFields(p) /\ "over" \notin op[p].stale =>
       \A s \in Svcs : Effective(base.fields[s], over.fields[s])'
                         = Effective(base.fields[s], over.fields[s])]_vars
==============================================================================
