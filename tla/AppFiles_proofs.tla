---------------------------- MODULE AppFiles_proofs ----------------------------
(***************************************************************************)
(* Proofs about the files of an app.  The settings form, saved, comes to     *)
(* what it said under Compose's merge of the two files, for any compose, any *)
(* override and any form (RoundTrip), and stays so whatever the ups of the   *)
(* app and changes of other settings write (FormTheorem).  What an up that   *)
(* nothing interrupts hands to Compose publishes the routes of the store's   *)
(* on the domains configured (RoutesTheorem) and follows the deployment      *)
(* (FollowsTheorem), and what it writes leaves the operator's alone          *)
(* (KeptTheorem).                                                            *)
(***************************************************************************)
EXTENDS AppFiles, SequenceTheorems, FiniteSetTheorems, WellFoundedInduction,
        NaturalsInduction, TLAPS

-----------------------------------------------------------------------------
(* One service *)

\* A map.
IsMap(m) == m = [k \in DOMAIN m |-> m[k]]

\* A service of a store's compose: lists, and variables that all have a value.
PlainFields(f) ==
  /\ f.ports.val \in Seq(STRING)
  /\ IsMap(f.environment.val)
  /\ \A k \in DOMAIN f.environment.val : f.environment.val[k] # Inherit

\* A service of an override: lists and maps.
Fields(f) ==
  /\ {"image", "ports", "environment"} \subseteq DOMAIN f
  /\ f.ports.val \in Seq(STRING) /\ IsMap(f.environment.val)

\* A form that was filled in from fields: what it could not edit is still marked so.
Filling(fields, form) ==
  /\ form.image.complex = fields.image.complex
  /\ form.ports.complex = fields.ports.complex
  /\ form.environment.complex = fields.environment.complex
  /\ form.ports.value \in Seq(STRING)
  /\ IsMap(form.environment.value)

\* What a service runs with of a scalar.
Overridden(b, o) == IF o = "" THEN b ELSE o

LEMMA ScalarSaved ==
  ASSUME NEW b, NEW o, NEW want
  PROVE  /\ ScalarField(b, o).complex =>
              Overridden(b, ApplyScalar(b, o, want)) = Overridden(b, o)
         /\ ~ScalarField(b, o).complex =>
              Overridden(b, ApplyScalar(b, o, want)) = Overridden(b, want)
  BY DEF ApplyScalar, Overridden

LEMMA ListSaved ==
  ASSUME NEW b, NEW o, NEW want \in Seq(STRING), b.val \in Seq(STRING)
  PROVE  Composed(b.val, ApplyList(b, o, want), Extended, <<>>)
           = IF ListField(b, o).complex THEN Composed(b.val, o, Extended, <<>>) ELSE want
<1>1. CASE ListField(b, o).complex
  BY <1>1 DEF ApplyList
<1>2. CASE ~ListField(b, o).complex /\ want = b.val
  <2>1. ApplyList(b, o, want) = NoList
    BY <1>2 DEF ApplyList
  <2>2. Composed(b.val, NoList, Extended, <<>>) = b.val \o <<>>
    BY DEF Composed, NoList, Node, Extended, Absent
  <2> QED BY <1>2, <2>1, <2>2
<1>3. CASE ~ListField(b, o).complex /\ want # b.val /\ IsPrefix(b.val, want)
  <2> DEFINE more == SubSeq(want, Len(b.val) + 1, Len(want))
  <2>1. ApplyList(b, o, want) = Node("plain", more)
    BY <1>3 DEF ApplyList
  <2>2. Composed(b.val, Node("plain", more), Extended, <<>>) = b.val \o more
    BY DEF Composed, Node, Extended
  <2>3. b.val \o more = want
    <3> DEFINE n == Len(b.val)
    <3>1. n \in Nat /\ n <= Len(want) /\ b.val = SubSeq(want, 1, n)
      <4>1. b.val = SubSeq(b.val, 1, n)
        BY SubSeqFull
      <4> QED BY <1>3, <4>1 DEF IsPrefix
    <3>2. 1 \in 1..(Len(want) + 1) /\ n \in (1 - 1)..Len(want) /\ Len(want) \in n..Len(want)
      BY <3>1
    <3>3. SubSeq(want, 1, n) \o SubSeq(want, n + 1, Len(want)) = SubSeq(want, 1, Len(want))
      BY <3>2, ConcatAdjacentSubSeq
    <3>4. SubSeq(want, 1, Len(want)) = want
      BY SubSeqFull
    <3> QED BY <3>1, <3>3, <3>4
  <2> QED BY <1>3, <2>1, <2>2, <2>3
<1>4. CASE ~ListField(b, o).complex /\ want # b.val /\ ~IsPrefix(b.val, want)
  BY <1>4 DEF ApplyList, Composed, Node
<1> QED BY <1>1, <1>2, <1>3, <1>4

LEMMA EnvSaved ==
  ASSUME NEW b, NEW o, NEW want, IsMap(want), IsMap(b.val),
         \A k \in DOMAIN b.val : b.val[k] # Inherit
  PROVE  Composed(b.val, ApplyEnv(b, o, want), OverlaidWith, NoEnv)
           = IF EnvField(b, o).complex THEN Composed(b.val, o, OverlaidWith, NoEnv) ELSE want
<1> DEFINE delta == {k \in DOMAIN want : ~(k \in DOMAIN b.val /\ b.val[k] = want[k])}
<1>0. ReadValues(b.val) = b.val
  BY DEF ReadValues, IsMap
<1>1. CASE EnvField(b, o).complex
  BY <1>1 DEF ApplyEnv
<1>2. CASE ~EnvField(b, o).complex /\ ~(DOMAIN b.val \subseteq DOMAIN want)
  BY <1>0, <1>2 DEF ApplyEnv, Composed, Node
<1>3. CASE ~EnvField(b, o).complex /\ DOMAIN b.val \subseteq DOMAIN want /\ delta = {}
  <2>1. ApplyEnv(b, o, want) = NoMap
    BY <1>0, <1>3 DEF ApplyEnv
  <2>2. Composed(b.val, NoMap, OverlaidWith, NoEnv) = OverlaidWith(b.val, NoEnv)
    BY DEF Composed, NoMap, Node, Absent
  <2>3. OverlaidWith(b.val, NoEnv) = want
    BY <1>3 DEF OverlaidWith, NoEnv, IsMap
  <2> QED BY <1>3, <2>1, <2>2, <2>3
<1>4. CASE ~EnvField(b, o).complex /\ DOMAIN b.val \subseteq DOMAIN want /\ delta # {}
  <2>1. ApplyEnv(b, o, want) = Node("plain", Restrict(want, delta))
    BY <1>0, <1>4 DEF ApplyEnv
  <2>2. Composed(b.val, Node("plain", Restrict(want, delta)), OverlaidWith, NoEnv)
          = OverlaidWith(b.val, Restrict(want, delta))
    BY DEF Composed, Node
  <2>3. OverlaidWith(b.val, Restrict(want, delta)) = want
    BY <1>4 DEF OverlaidWith, Restrict, IsMap
  <2> QED BY <1>4, <2>1, <2>2, <2>3
<1> QED BY <1>1, <1>2, <1>3, <1>4

\* What is saved is an override again.
LEMMA SavedFields ==
  ASSUME NEW b, NEW o, NEW form, PlainFields(b), Fields(o), Filling(Build(b, o), form)
  PROVE  Fields(Apply(b, o, form))
<1> DEFINE ports == ApplyList(b.ports, o.ports, form.ports.value)
           environment == ApplyEnv(b.environment, o.environment, form.environment.value)
<1>1. ports.val \in Seq(STRING)
  <2> DEFINE want == form.ports.value
             more == SubSeq(want, Len(b.ports.val) + 1, Len(want))
  <2>1. \/ ports = o.ports \/ ports = NoList
        \/ ports = Node("plain", more) \/ ports = Node("override", want)
    BY DEF ApplyList
  <2>2. want \in Seq(STRING) /\ Len(b.ports.val) \in Nat
    BY DEF Filling, PlainFields
  <2>3. more \in Seq(STRING)
    BY <2>2
  <2> HIDE DEF ports, more, want
  <2>4. NoList.val \in Seq(STRING) /\ Node("plain", more).val = more /\ Node("override", want).val = want
    BY DEF NoList, Node
  <2> QED BY <2>1, <2>2, <2>3, <2>4 DEF Fields
<1>2. IsMap(environment.val)
  <2> DEFINE want == form.environment.value
  <2>1. \/ environment = o.environment \/ environment = NoMap
        \/ environment = Node("override", want)
        \/ \E delta : environment = Node("plain", Restrict(want, delta))
    BY DEF ApplyEnv
  <2>2. IsMap(want) /\ IsMap(NoEnv) /\ \A delta : IsMap(Restrict(want, delta))
    BY DEF Filling, IsMap, NoEnv, Restrict
  <2> HIDE DEF environment, want
  <2> QED BY <2>1, <2>2 DEF Fields, NoMap, Node
<1> QED BY <1>1, <1>2 DEF Fields, Apply

\* So is what is decoded and encoded again.
LEMMA ReencodedFields ==
  ASSUME NEW o, Fields(o)
  PROVE  Fields(Reencoded(o))
<1>1. Untagged(o.ports).val = o.ports.val /\ Untagged(o.environment).val = o.environment.val
  BY DEF Untagged, Node
<1> QED BY <1>1 DEF Fields, Reencoded

\* A form that is saved comes to what it meant, for every compose and override.
THEOREM RoundTrip ==
  ASSUME NEW b, NEW o, NEW form, PlainFields(b), Filling(Build(b, o), form)
  PROVE  Effective(b, Apply(b, o, form)) = Meant(b, o, form)
<1> DEFINE image == ApplyScalar(b.image, o.image, form.image.value)
           ports == ApplyList(b.ports, o.ports, form.ports.value)
           environment == ApplyEnv(b.environment, o.environment, form.environment.value)
<1>1. /\ form.image.complex = ScalarField(b.image, o.image).complex
      /\ form.ports.complex = ListField(b.ports, o.ports).complex
      /\ form.environment.complex = EnvField(b.environment, o.environment).complex
  BY DEF Filling, Build
<1>2. Overridden(b.image, image) = Meant(b, o, form).image
  <2>1. Meant(b, o, form).image
          = IF form.image.complex THEN Overridden(b.image, o.image)
            ELSE Overridden(b.image, form.image.value)
    BY DEF Meant, Effective, Overridden
  <2> QED BY <1>1, <2>1, ScalarSaved
<1>3. Composed(b.ports.val, ports, Extended, <<>>) = Meant(b, o, form).ports
  BY <1>1, ListSaved DEF Meant, Effective, Filling, PlainFields
<1>4. Composed(b.environment.val, environment, OverlaidWith, NoEnv) = Meant(b, o, form).environment
  BY <1>1, EnvSaved DEF Meant, Effective, Filling, PlainFields
<1> QED BY <1>2, <1>3, <1>4 DEF Effective, Apply, Meant, Overridden
-----------------------------------------------------------------------------
(* The requests *)

\* What a request is made of.
Request(r) == {"pc", "over", "base", "vars", "what", "stale"} \subseteq DOMAIN r
Requests == DOMAIN op = Ops /\ \A q \in Ops : Request(op[q])

\* A request that another one's step leaves as it is, and tells what it has changed.
Told(q) ==
  /\ op'[q].pc = op[q].pc /\ op'[q].over = op[q].over /\ op'[q].base = op[q].base
  /\ op'[q].vars = op[q].vars /\ op'[q].what = op[q].what
  /\ op[q].stale \subseteq op'[q].stale /\ op'[q].stale \subseteq op[q].stale \cup Files
  /\ "base" \notin op'[q].stale => base' = base
  /\ "over" \notin op'[q].stale => over' = over
  /\ "env" \notin op'[q].stale => env' = env
  /\ "settings" \notin op'[q].stale => doms' = doms /\ dep' = dep

LEMMA ToldIs ==
  ASSUME NEW q \in Ops, Request(op[q]), op'[q] = [op[q] EXCEPT !.stale = @ \cup Changed]
  PROVE  Request(op'[q]) /\ Told(q)
<1>1. /\ DOMAIN op'[q] = DOMAIN op[q] /\ op'[q].stale = op[q].stale \cup Changed
      /\ op'[q].pc = op[q].pc /\ op'[q].over = op[q].over /\ op'[q].base = op[q].base
      /\ op'[q].vars = op[q].vars /\ op'[q].what = op[q].what
  BY DEF Request
<1>2. Changed \subseteq Files
  BY DEF Changed
<1>3. /\ "base" \notin Changed => base' = base
      /\ "over" \notin Changed => over' = over
      /\ "env" \notin Changed => env' = env
      /\ "settings" \notin Changed => doms' = doms /\ dep' = dep
  BY DEF Changed, Files, settings
<1> QED BY <1>1, <1>2, <1>3 DEF Request, Told

LEMMA GotoIs ==
  ASSUME Requests, NEW p \in Ops, NEW new, Request(new), Goto(p, new)
  PROVE  Requests' /\ op'[p] = new /\ \A q \in Ops \ {p} : Told(q)
<1>1. DOMAIN op' = Ops /\ op'[p] = new
  BY DEF Goto
<1>2. ASSUME NEW q \in Ops \ {p} PROVE Request(op'[q]) /\ Told(q)
  <2>1. op'[q] = [op[q] EXCEPT !.stale = @ \cup Changed]
    BY DEF Goto
  <2> QED BY <2>1, ToldIs DEF Requests
<1> QED BY <1>1, <1>2 DEF Requests

LEMMA SettingsTell ==
  ASSUME Requests, Settings
  PROVE  Requests' /\ \A q \in Ops : Told(q)
<1>1. DOMAIN op' = Ops /\ \A q \in Ops : op'[q] = [op[q] EXCEPT !.stale = @ \cup Changed]
  BY DEF Settings
<1>2. ASSUME NEW q \in Ops PROVE Request(op'[q]) /\ Told(q)
  BY <1>1, ToldIs DEF Requests
<1> QED BY <1>1, <1>2 DEF Requests

LEMMA IdleIs == Request(Idle) /\ Idle.pc = "idle" /\ Idle.stale = Files
  BY DEF Request, Idle

LEMMA ReadsIs ==
  ASSUME NEW pc, NEW read
  PROVE  /\ Request(Reads(pc, read)) /\ Reads(pc, read).pc = pc
         /\ Reads(pc, read).stale = Files \ read
  BY DEF Request, Idle, Reads

LEMMA OnwardIs ==
  ASSUME NEW p, NEW pc, NEW bad
  PROVE  /\ Request(Onward(p, pc, bad)) /\ Onward(p, pc, bad).pc = pc
         /\ Onward(p, pc, bad).stale = op[p].stale \cup bad
  BY DEF Request, Idle, Onward

-----------------------------------------------------------------------------
(* The fields of the form *)

\* What the store, the first override and the YAML editor give is of the right shape.
Shaped(o) ==
  /\ {"labels", "manifest", "fields", "tips"} \subseteq DOMAIN o /\ DOMAIN o.fields = Svcs
  /\ \A s \in Svcs : Fields(o.fields[s])
Sound(c) ==
  /\ {"labels", "fields", "nets", "binds"} \subseteq DOMAIN c
  /\ \A s \in Svcs : PlainFields(c.fields[s])

\* What a request is to write, of files that are still as it has read them, comes to what
\* the form meant, or has the fields that are there.
Bearing(r, b, o) ==
  /\ r.pc \in {"form", "typed", "fields", "routes"} => Shaped(r.over)
  /\ r.pc = "form" /\ "base" \notin r.stale =>
       Effective(b.fields[r.what[1]], r.over.fields[r.what[1]]) = r.what[2]
  /\ r.pc = "routes" /\ "over" \notin r.stale => r.over.fields = o.fields
  /\ r.pc = "compose" =>
       Sound(r.base) /\ ("base" \notin r.stale => r.base.fields = b.fields)

Form ==
  /\ Sound(base) /\ Shaped(over) /\ Requests
  /\ \A p \in Ops : Bearing(op[p], base, over)
  /\ FormMeansWhatItSays

\* The bounds of what comes from outside: the store, the files there were, the operator.
Inputs ==
  /\ 1 \in DOMAIN Store /\ \A v \in DOMAIN Store : Sound(Store[v])
  /\ \A o \in Overrides : Shaped(o)
  /\ \A o : Shaped(o) => \A t \in Typed(o) : Shaped(t)
  /\ \A b, o : PlainFields(b) /\ Fields(o) =>
                 \A form \in Filled(Build(b, o)) : Filling(Build(b, o), form)

\* A request that is told bears what it did, and so does one that is to write nothing of these.
LEMMA BearingTold ==
  ASSUME NEW q \in Ops, Told(q), Bearing(op[q], base, over)
  PROVE  Bearing(op'[q], base', over')
  BY DEF Told, Bearing

LEMMA BearsNothing ==
  ASSUME NEW r, NEW b, NEW o, r.pc \notin {"form", "typed", "fields", "routes", "compose"}
  PROVE  Bearing(r, b, o)
  BY DEF Bearing

\* A request goes on, the form last saved still coming to what it meant.
LEMMA FormGoes ==
  ASSUME Form, NEW p \in Ops, NEW new, Request(new), Goto(p, new),
         Sound(base'), Shaped(over'), Bearing(new, base', over'), FormMeansWhatItSays'
  PROVE  Form'
<1>1. Requests' /\ op'[p] = new /\ \A q \in Ops \ {p} : Told(q)
  BY GotoIs DEF Form
<1>2. ASSUME NEW q \in Ops PROVE Bearing(op'[q], base', over')
  BY <1>1, BearingTold DEF Form
<1> QED BY <1>1, <1>2 DEF Form

LEMMA MeantStays ==
  ASSUME FormMeansWhatItSays, meant' \subseteq meant,
         meant' = {} \/ (base'.fields = base.fields /\ over'.fields = over.fields)
  PROVE  FormMeansWhatItSays'
  BY DEF FormMeansWhatItSays

LEMMA NothingShaped == Shaped(NoOverride)
<1>1. Fields(NoFields)
  BY DEF Fields, NoFields, NoList, NoMap, NoEnv, Node, IsMap
<1> QED BY <1>1 DEF Shaped, NoOverride

LEMMA WrittenSame ==
  ASSUME NEW c, NEW net, Sound(c)
  PROVE  Sound(Written(c, net)) /\ Written(c, net).fields = c.fields
  BY DEF Sound, Written

LEMMA SyncSame ==
  ASSUME NEW labels, NEW o, NEW list, Shaped(o)
  PROVE  Shaped(Sync(labels, o, list)) /\ Sync(labels, o, list).fields = o.fields
  BY DEF Shaped, Sync

LEMMA DecodedShaped ==
  ASSUME NEW o, Shaped(o), NEW d \in Decoded(o)
  PROVE  Shaped(d) /\ Shaped([d EXCEPT !.tips = TRUE])
<1> DEFINE again == [s \in Svcs |-> Reencoded(o.fields[s])]
           encoded == [o EXCEPT !.fields = again]
<1>1. Shaped(encoded)
  <2>1. DOMAIN encoded = DOMAIN o /\ encoded.fields = again
    <3> HIDE DEF again
    <3> QED BY DEF Shaped
  <2>2. \A s \in Svcs : Fields(again[s])
    BY ReencodedFields DEF Shaped
  <2>3. DOMAIN again = Svcs
    OBVIOUS
  <2> HIDE DEF again, encoded
  <2> QED BY <2>1, <2>2, <2>3 DEF Shaped
<1>2. encoded = [o EXCEPT !.fields = [s \in Svcs |-> Reencoded(@[s])]]
  OBVIOUS
<1>3. d = encoded \/ d = NoOverride \/ d = [NoOverride EXCEPT !.manifest = o.manifest]
  BY <1>2 DEF Decoded
<1>4. Shaped([NoOverride EXCEPT !.manifest = o.manifest])
  BY NothingShaped DEF Shaped, NoOverride
<1>5. Shaped(d)
  <2> HIDE DEF encoded, again
  <2> QED BY <1>1, <1>3, <1>4, NothingShaped
<1> QED BY <1>5 DEF Shaped

LEMMA FormInit == Inputs /\ Init => Form
<1> SUFFICES ASSUME Inputs, Init PROVE Form
  OBVIOUS
<1>1. Sound(base)
  <2>1. Sound(Store[1])
    BY DEF Inputs
  <2>2. CASE base = Written(Store[1], AppNet(dep))
    BY <2>1, <2>2, WrittenSame
  <2>3. CASE base # Written(Store[1], AppNet(dep))
    BY <2>1, <2>3 DEF Init, Sound
  <2> QED BY <2>2, <2>3
<1>2. Shaped(over)
  BY DEF Init, Inputs
<1>3. DOMAIN op = Ops /\ \A p \in Ops : op[p] = Idle
  BY DEF Init
<1>4. meant = {}
  BY DEF Init
<1> QED BY <1>1, <1>2, <1>3, <1>4, IdleIs, ReadsIs, OnwardIs, BearsNothing DEF Form, Requests, FormMeansWhatItSays

\* A step that hands over a request which is to write nothing of these.
LEMMA FormPlain ==
  ASSUME Form, NEW p \in Ops, NEW new, Request(new), Goto(p, new),
         new.pc \notin {"form", "typed", "fields", "routes", "compose"},
         Sound(base'), Shaped(over'), FormMeansWhatItSays'
  PROVE  Form'
  BY FormGoes, BearsNothing

\* A form is applied to what was read of the override.
LEMMA FormFilled ==
  ASSUME Inputs, Form, NEW p \in Ops, NEW read, Shaped(read), FillIn(p, read),
         UNCHANGED <<base, over, meant>>
  PROVE  Form'
<1>0. Sound(base) /\ Shaped(over) /\ FormMeansWhatItSays
  BY DEF Form
<1>1. PICK s \in Svcs : \E form \in Filled(Build(base.fields[s], read.fields[s])) :
        Goto(p, [Reads("form", {"base"}) EXCEPT
                   !.what = <<s, Meant(base.fields[s], read.fields[s], form)>>,
                   !.over = [read EXCEPT !.fields[s] =
                               Apply(base.fields[s], read.fields[s], form)]])
  BY DEF FillIn
<1> DEFINE b == base.fields[s]
           o == read.fields[s]
<1>2. PICK form \in Filled(Build(b, o)) :
        Goto(p, [Reads("form", {"base"}) EXCEPT !.what = <<s, Meant(b, o, form)>>,
                   !.over = [read EXCEPT !.fields[s] = Apply(b, o, form)]])
  BY <1>1
<1> DEFINE applied == [read EXCEPT !.fields[s] = Apply(b, o, form)]
           new == [Reads("form", {"base"}) EXCEPT !.what = <<s, Meant(b, o, form)>>,
                                                  !.over = applied]
<1>3. PlainFields(b) /\ Fields(o) /\ Filling(Build(b, o), form)
  BY <1>0 DEF Inputs, Sound, Shaped
<1>4. Effective(b, Apply(b, o, form)) = Meant(b, o, form) /\ Fields(Apply(b, o, form))
  BY <1>3, RoundTrip, SavedFields
<1>5. Shaped(applied) /\ applied.fields[s] = Apply(b, o, form)
  BY <1>4 DEF Shaped
<1>6. Request(new) /\ new.pc = "form" /\ new.what = <<s, Meant(b, o, form)>> /\ new.over = applied
  BY DEF Request, Reads, Idle
<1>7. Bearing(new, base', over')
  <2> HIDE DEF new, applied
  <2> QED BY <1>4, <1>5, <1>6 DEF Bearing
<1>8. FormMeansWhatItSays'
  BY <1>0, MeantStays
<1> HIDE DEF new
<1> QED BY <1>0, <1>2, <1>6, <1>7, <1>8, FormGoes DEF new

LEMMA FormStep == Inputs /\ Form /\ [Next]_vars => Form'
<1> SUFFICES ASSUME Inputs, Form, [Next]_vars PROVE Form'
  OBVIOUS
<1>0. Sound(base) /\ Shaped(over) /\ Requests /\ FormMeansWhatItSays
  BY DEF Form
<1>a. ASSUME UNCHANGED <<base, over, meant>> PROVE Sound(base') /\ Shaped(over') /\ FormMeansWhatItSays'
  BY <1>0, <1>a, MeantStays
<1>b. ASSUME UNCHANGED base, Shaped(over'), meant' = {} PROVE Sound(base') /\ FormMeansWhatItSays'
  BY <1>0, <1>b, MeantStays
<1>1. ASSUME NEW p \in Ops, Start(p) PROVE Form'
  BY <1>a, <1>1, IdleIs, ReadsIs, OnwardIs, FormPlain DEF Start, ToUp, files, marks
<1>2. CASE Settings
  <2>1. UNCHANGED <<base, over, meant>>
    BY <1>2 DEF Settings, files, marks
  <2>2. Requests' /\ \A q \in Ops : Told(q)
    BY <1>0, <1>2, SettingsTell
  <2>3. \A q \in Ops : Bearing(op'[q], base', over')
    BY <2>2, BearingTold DEF Form
  <2> QED BY <1>a, <2>1, <2>2, <2>3 DEF Form
<1>3. ASSUME NEW p \in Ops, FillForm(p) PROVE Form'
  BY <1>0, <1>3, NothingShaped, FormFilled DEF FillForm, files, marks
<1>4. ASSUME NEW p \in Ops, OpenEditor(p) PROVE Form'
  <2>1. PICK o \in Typed(over) :
          \E what : Goto(p, [Reads("typed", {}) EXCEPT !.over = o, !.what = what])
    BY <1>4 DEF OpenEditor
  <2>2. PICK what : Goto(p, [Reads("typed", {}) EXCEPT !.over = o, !.what = what])
    BY <2>1
  <2> DEFINE new == [Reads("typed", {}) EXCEPT !.over = o, !.what = what]
  <2>3. Request(new) /\ new.over = o /\ new.pc = "typed"
    BY DEF Request, Reads, Idle
  <2>4. Shaped(o)
    BY <1>0 DEF Inputs
  <2>5. Bearing(new, base', over')
    <3> HIDE DEF new
    <3> QED BY <2>3, <2>4 DEF Bearing
  <2>6. UNCHANGED <<base, over, meant>>
    BY <1>4 DEF OpenEditor, files, marks
  <2> HIDE DEF new
  <2> QED BY <1>a, <2>2, <2>3, <2>5, <2>6, FormGoes DEF new
<1>5. ASSUME NEW p \in Ops, SaveOverride(p) PROVE Form'
  <2>0. UNCHANGED base /\ Bearing(op[p], base, over)
    BY <1>5 DEF SaveOverride, Form
  <2>1. CASE UNCHANGED <<over, meant>> /\ Goto(p, Idle)
    BY <1>a, <2>0, <2>1, IdleIs, ReadsIs, OnwardIs, FormPlain
  <2>2. CASE /\ over' = op[p].over /\ Goto(p, ToUp)
             /\ meant' = {} \/ (op[p].pc = "form" /\ "base" \notin op[p].stale
                                  /\ meant' = {op[p].what})
    <3>1. Shaped(over')
      BY <1>5, <2>0, <2>2 DEF SaveOverride, Bearing
    <3>2. FormMeansWhatItSays'
      BY <2>0, <2>2 DEF FormMeansWhatItSays, Bearing
    <3> QED BY <1>0, <2>0, <2>2, <3>1, <3>2, IdleIs, ReadsIs, OnwardIs, FormPlain DEF ToUp
  <2> QED BY <1>5, <2>1, <2>2 DEF SaveOverride, marks
<1>6. ASSUME NEW p \in Ops, ReadFields(p) PROVE Form'
  <2>0. UNCHANGED <<base, over, meant>>
    BY <1>6 DEF ReadFields, files, marks
  <2>1. PICK o, read : Shaped(o) /\ Goto(p, [Reads("fields", read) EXCEPT !.over = o])
    <3>1. CASE \E d \in Decoded(over) :
                 Goto(p, [Reads("fields", {"over"}) EXCEPT !.over = [d EXCEPT !.tips = TRUE]])
      BY <1>0, <3>1, DecodedShaped
    <3>2. CASE Goto(p, [Reads("fields", {}) EXCEPT !.over = [NoOverride EXCEPT !.tips = TRUE]])
      <4>1. Shaped([NoOverride EXCEPT !.tips = TRUE])
        BY NothingShaped DEF Shaped
      <4> QED BY <3>2, <4>1
    <3> QED BY <1>6, <3>1, <3>2 DEF ReadFields
  <2> DEFINE new == [Reads("fields", read) EXCEPT !.over = o]
  <2>2. Request(new) /\ new.over = o /\ new.pc = "fields"
    BY DEF Request, Reads, Idle
  <2>3. Bearing(new, base', over')
    <3> HIDE DEF new
    <3> QED BY <2>1, <2>2 DEF Bearing
  <2> HIDE DEF new
  <2> QED BY <1>a, <2>0, <2>1, <2>2, <2>3, FormGoes DEF new
<1>7. ASSUME NEW p \in Ops, WriteFields(p) PROVE Form'
  <2>1. /\ UNCHANGED base /\ over' = op[p].over
        /\ meant' = (IF over'.fields = over.fields THEN meant ELSE {})
        /\ Goto(p, Idle) \/ Goto(p, ToUp)
    BY <1>7 DEF WriteFields
  <2>2. Shaped(over')
    BY <1>7, <2>1 DEF WriteFields, Form, Bearing
  <2>3. FormMeansWhatItSays'
    BY <1>0, <2>1, MeantStays
  <2> QED BY <1>0, <2>1, <2>2, <2>3, IdleIs, ReadsIs, OnwardIs, FormPlain DEF ToUp
<1>8. ASSUME NEW p \in Ops, OverrideFails(p) PROVE Form'
  <2> DEFINE new == IF op[p].pc = "routes" THEN Onward(p, "normalize", {"over"}) ELSE Idle
  <2>1. /\ UNCHANGED base /\ Goto(p, new)
        /\ UNCHANGED <<over, meant>> \/ (over' = NoOverride /\ meant' = {})
    BY <1>8 DEF OverrideFails
  <2>2. Request(new) /\ new.pc \in {"idle", "normalize"}
    BY IdleIs, ReadsIs, OnwardIs
  <2>3. Shaped(over') /\ FormMeansWhatItSays'
    BY <1>a, <1>b, <2>1, NothingShaped
  <2> HIDE DEF new
  <2> QED BY <1>0, <2>1, <2>2, <2>3, FormPlain
<1>9. ASSUME NEW p \in Ops, Update(p) PROVE Form'
  <2>1. Sound(base') /\ over' = over /\ meant' = {} /\ Goto(p, ToUp)
    BY <1>9, WrittenSame DEF Update, Inputs
  <2>2. FormMeansWhatItSays'
    BY <2>1 DEF FormMeansWhatItSays
  <2> QED BY <1>0, <2>1, <2>2, IdleIs, ReadsIs, OnwardIs, FormPlain DEF ToUp
<1>10. ASSUME NEW p \in Ops, OpenEnv(p) PROVE Form'
  <2>1. /\ UNCHANGED <<base, over, meant>>
        /\ \E list : Goto(p, [Reads("page", {}) EXCEPT !.vars = list])
    BY <1>10 DEF OpenEnv, files, marks
  <2>2. PICK list : Goto(p, [Reads("page", {}) EXCEPT !.vars = list])
    BY <2>1
  <2> DEFINE new == [Reads("page", {}) EXCEPT !.vars = list]
  <2>3. Request(new) /\ new.pc = "page"
    BY DEF Request, Reads, Idle
  <2> HIDE DEF new
  <2> QED BY <1>a, <2>1, <2>2, <2>3, FormPlain DEF new
<1>11. ASSUME NEW p \in Ops, SetEnv(p) PROVE Form'
  <2> DEFINE new == IF ValidVars(op[p].vars)
                    THEN [op[p] EXCEPT !.pc = "patched", !.vars = Patch(env, @)] ELSE Idle
  <2>1. UNCHANGED <<base, over, meant>> /\ Goto(p, new)
    BY <1>11 DEF SetEnv, files, marks
  <2>2. Request(new) /\ new.pc \in {"idle", "patched"}
    BY <1>0, IdleIs, ReadsIs, OnwardIs DEF Request, Requests
  <2> HIDE DEF new
  <2> QED BY <1>a, <2>1, <2>2, FormPlain
<1>12. ASSUME NEW p \in Ops, SaveEnv(p) PROVE Form'
  BY <1>a, <1>12, IdleIs, ReadsIs, OnwardIs, FormPlain DEF SaveEnv, ToUp, marks
<1>13. ASSUME NEW p \in Ops, EnvFails(p) PROVE Form'
  <2> DEFINE new == IF op[p].pc = "vars" THEN Onward(p, "up", {"env"}) ELSE Idle
  <2>1. UNCHANGED <<base, over, meant>> /\ Goto(p, new)
    BY <1>13 DEF EnvFails, marks
  <2>2. Request(new) /\ new.pc \in {"idle", "up"}
    BY IdleIs, ReadsIs, OnwardIs
  <2> HIDE DEF new
  <2> QED BY <1>a, <2>1, <2>2, FormPlain
<1>14. ASSUME NEW p \in Ops, ReadRoutes(p) PROVE Form'
  <2>0. UNCHANGED <<base, over, meant>>
    BY <1>14 DEF ReadRoutes, files, marks
  <2>1. ASSUME NEW read, NEW good, Regenerate(p, read, good),
               Shaped(read), read = over \/ "over" \notin good
        PROVE  Form'
    <3> DEFINE out == Sync(base.labels, read, doms)
               new == [Reads("routes", good) EXCEPT !.over = out]
    <3>1. Shaped(out) /\ out.fields = read.fields
      BY <2>1, SyncSame
    <3> HIDE DEF out
    <3>2. Request(new) /\ new.pc = "routes" /\ new.over = out /\ new.stale = Files \ good
      BY DEF Request, Reads, Idle
    <3>3. Bearing(new, base', over')
      <4> HIDE DEF new
      <4> QED BY <2>0, <2>1, <3>1, <3>2 DEF Bearing, Files
    <3>4. CASE Goto(p, Reads("normalize", good))
      BY <1>a, <2>0, <3>4, IdleIs, ReadsIs, OnwardIs, FormPlain
    <3>5. CASE Goto(p, new)
      <4> HIDE DEF new
      <4> QED BY <1>a, <2>0, <3>2, <3>3, <3>5, FormGoes
    <3> QED BY <2>1, <3>4, <3>5 DEF Regenerate, out
  <2>2. CASE Goto(p, Reads("normalize", {}))
    BY <1>a, <2>0, <2>2, IdleIs, ReadsIs, OnwardIs, FormPlain
  <2> QED BY <1>0, <1>14, <2>1, <2>2, NothingShaped DEF ReadRoutes
<1>15. ASSUME NEW p \in Ops, WriteRoutes(p) PROVE Form'
  <2>1. /\ UNCHANGED base /\ over' = op[p].over
        /\ meant' = (IF "over" \in op[p].stale THEN {} ELSE meant)
        /\ Goto(p, Onward(p, "normalize", {}))
    BY <1>15 DEF WriteRoutes
  <2>2. Shaped(over') /\ ("over" \notin op[p].stale => over'.fields = over.fields)
    BY <1>15, <2>1 DEF WriteRoutes, Form, Bearing
  <2>3. FormMeansWhatItSays'
    BY <1>0, <2>1, <2>2, MeantStays
  <2> QED BY <1>0, <2>1, <2>2, <2>3, IdleIs, ReadsIs, OnwardIs, FormPlain
<1>16. ASSUME NEW p \in Ops, ReadCompose(p) PROVE Form'
  <2>0. UNCHANGED <<base, over, meant>>
    BY <1>16 DEF ReadCompose, files, marks
  <2>1. PICK bad, net :
          \/ Goto(p, Onward(p, "env", bad))
          \/ Goto(p, [Onward(p, "compose", bad) EXCEPT !.base = Written(base, net)])
    BY <1>16, Zenon DEF ReadCompose
  <2> DEFINE new == [Onward(p, "compose", bad) EXCEPT !.base = Written(base, net)]
  <2>2. CASE Goto(p, Onward(p, "env", bad))
    BY <1>a, <2>0, <2>2, IdleIs, ReadsIs, OnwardIs, FormPlain
  <2>3. CASE Goto(p, new)
    <3>1. Request(new) /\ new.pc = "compose" /\ new.base = Written(base, net)
      BY DEF Request, Onward, Idle
    <3>2. Sound(Written(base, net)) /\ Written(base, net).fields = base.fields
      BY <1>0, WrittenSame
    <3>3. Bearing(new, base', over')
      <4> HIDE DEF new
      <4> QED BY <2>0, <3>1, <3>2 DEF Bearing
    <3> HIDE DEF new
    <3> QED BY <1>a, <2>0, <2>3, <3>1, <3>3, FormGoes
  <2> QED BY <2>1, <2>2, <2>3
<1>17. ASSUME NEW p \in Ops, WriteCompose(p) PROVE Form'
  <2>1. /\ UNCHANGED over /\ base' = op[p].base
        /\ meant' = (IF "base" \in op[p].stale THEN {} ELSE meant)
        /\ Goto(p, Onward(p, "env", {}))
    BY <1>17 DEF WriteCompose
  <2>2. Sound(base') /\ ("base" \notin op[p].stale => base'.fields = base.fields)
    BY <1>17, <2>1 DEF WriteCompose, Form, Bearing
  <2>3. FormMeansWhatItSays'
    BY <1>0, <2>1, <2>2, MeantStays
  <2> QED BY <1>0, <2>1, <2>2, <2>3, IdleIs, ReadsIs, OnwardIs, FormPlain
<1>18. ASSUME NEW p \in Ops, ComposeFails(p) PROVE Form'
  <2>1. /\ UNCHANGED <<base, over>> /\ Goto(p, Onward(p, "env", {"base"}))
        /\ meant' = meant \/ meant' = {}
    BY <1>18 DEF ComposeFails
  <2>2. FormMeansWhatItSays'
    BY <1>0, <2>1, MeantStays
  <2> QED BY <1>0, <2>1, <2>2, IdleIs, ReadsIs, OnwardIs, FormPlain
<1>19. ASSUME NEW p \in Ops, ReadVars(p) PROVE Form'
  <2>1. PICK new : Goto(p, new) /\ Request(new) /\ new.pc \in {"up", "vars"}
    <3>1. ASSUME NEW bad, NEW new PROVE
            LET read == [Onward(p, "up", bad) EXCEPT !.stale = @ \ {"env"}]
                more == [read EXCEPT !.pc = "vars", !.vars = new]
            IN Request(read) /\ read.pc = "up" /\ Request(more) /\ more.pc = "vars"
      BY DEF Request, Onward, Idle
    <3>2. CASE Goto(p, Onward(p, "up", {"env"}))
      BY <3>2, IdleIs, ReadsIs, OnwardIs
    <3>3. CASE ~Goto(p, Onward(p, "up", {"env"}))
      <4>1. PICK known : 
              LET bad == IF known = Loaded(dep) THEN {} ELSE {"settings"}
                  new == EnsureVars(env, Owned, known)
                  read == [Onward(p, "up", bad) EXCEPT !.stale = @ \ {"env"}]
              IN Goto(p, IF new = env THEN read ELSE [read EXCEPT !.pc = "vars", !.vars = new])
        BY <1>19, <3>3 DEF ReadVars
      <4> QED BY <3>1, <4>1
    <3> QED BY <3>2, <3>3
  <2>2. UNCHANGED <<base, over, meant>>
    BY <1>19 DEF ReadVars, files, marks
  <2> QED BY <1>a, <2>1, <2>2, FormPlain
<1>20. ASSUME NEW p \in Ops, WriteVars(p) PROVE Form'
  BY <1>a, <1>20, IdleIs, ReadsIs, OnwardIs, FormPlain DEF WriteVars, marks
<1>21. ASSUME NEW p \in Ops, ComposeUp(p) PROVE Form'
  BY <1>a, <1>21, IdleIs, ReadsIs, OnwardIs, FormPlain DEF ComposeUp, files, marks
<1>22. CASE UNCHANGED vars
  <2>1. UNCHANGED <<base, over, meant, op>>
    BY <1>22 DEF vars, files, marks
  <2> QED BY <1>a, <2>1 DEF Form, Requests
<1> QED BY <1>1, <1>2, <1>3, <1>4, <1>5, <1>6, <1>7, <1>8, <1>9, <1>10, <1>11, <1>12, <1>13,
           <1>14, <1>15, <1>16, <1>17, <1>18, <1>19, <1>20, <1>21, <1>22 DEF Next

\* What a form meant is what the app runs with, whatever is generated and normalized from
\* what is there, until the fields are edited by another way, the store's compose is updated,
\* a write is cut short or a request writes back a file that it had read before.
THEOREM FormTheorem ==
  ASSUME Inputs
  PROVE  Spec => []FormMeansWhatItSays
<1>1. Init => Form
  BY FormInit
<1>2. Form /\ [Next]_vars => Form'
  BY FormStep
<1>3. Form => FormMeansWhatItSays
  BY DEF Form
<1> QED BY <1>1, <1>2, <1>3, PTL DEF Spec

-----------------------------------------------------------------------------
(* The lines of .env.app *)

\* A sequence of anything.
IsSeq(s) == \E n \in Nat : s = [i \in 1..n |-> s[i]]

LEMMA SeqIs ==
  ASSUME NEW s, IsSeq(s)
  PROVE  Len(s) \in Nat /\ DOMAIN s = 1..Len(s) /\ s = [i \in 1..Len(s) |-> s[i]]
<1>1. PICK n \in Nat : s = [i \in 1..n |-> s[i]]
  BY DEF IsSeq
<1> DEFINE E == {s[i] : i \in 1..n}
<1>2. \A i \in 1..n : s[i] \in E
  OBVIOUS
<1> HIDE DEF E
<1>3. s \in [1..n -> E]
  BY <1>1, <1>2
<1>4. s \in Seq(E) /\ DOMAIN s = 1..n
  BY <1>3
<1>5. Len(s) = n
  BY <1>4
<1> QED BY <1>1, <1>5

LEMMA ConcatIs ==
  ASSUME NEW s, NEW t, IsSeq(s), IsSeq(t)
  PROVE  /\ IsSeq(s \o t) /\ Len(s \o t) = Len(s) + Len(t)
         /\ \A i \in DOMAIN s : i \in DOMAIN (s \o t) /\ (s \o t)[i] = s[i]
         /\ \A i \in DOMAIN t : Len(s) + i \in DOMAIN (s \o t) /\ (s \o t)[Len(s) + i] = t[i]
         /\ \A i \in DOMAIN (s \o t) :
              \/ i \in DOMAIN s
              \/ i > Len(s) /\ i - Len(s) \in DOMAIN t /\ i = Len(s) + (i - Len(s))
<1> DEFINE m == Len(s)
           n == Len(t)
           E == {s[i] : i \in 1..m} \cup {t[i] : i \in 1..n}
<1>1. /\ m \in Nat /\ DOMAIN s = 1..m /\ s = [i \in 1..m |-> s[i]]
      /\ n \in Nat /\ DOMAIN t = 1..n /\ t = [i \in 1..n |-> t[i]]
  BY SeqIs
<1>2. (\A i \in 1..m : s[i] \in E) /\ (\A i \in 1..n : t[i] \in E)
  OBVIOUS
<1> HIDE DEF E
<1>3. s \in Seq(E) /\ t \in Seq(E)
  <2>1. s \in [1..m -> E] /\ t \in [1..n -> E]
    BY <1>1, <1>2
  <2> HIDE DEF m, n
  <2> QED BY <1>1, <2>1
<1>4. /\ s \o t \in Seq(E) /\ Len(s \o t) = m + n
      /\ \A i \in 1..(m + n) : (s \o t)[i] = IF i <= m THEN s[i] ELSE t[i - m]
  BY <1>3, ConcatProperties
<1> DEFINE c == s \o t
<1> HIDE DEF c, m, n
<1>5. /\ c \in Seq(E) /\ Len(c) = m + n
      /\ \A i \in 1..(m + n) : c[i] = IF i <= m THEN s[i] ELSE t[i - m]
  BY <1>4 DEF c, m, n
<1>6. DOMAIN c = 1..(m + n) /\ c = [i \in 1..(m + n) |-> c[i]] /\ m + n \in Nat
  BY <1>1, <1>5 DEF m, n
<1>7. IsSeq(c)
  BY <1>6 DEF IsSeq
<1>8. \A i \in DOMAIN s : i \in DOMAIN c /\ c[i] = s[i]
  BY <1>1, <1>5, <1>6 DEF m, n
<1>9. ASSUME NEW i \in DOMAIN t PROVE m + i \in DOMAIN c /\ c[m + i] = t[i]
  <2>1. i \in 1..n /\ m + i \in 1..(m + n) /\ ~(m + i <= m) /\ (m + i) - m = i
    BY <1>1 DEF m, n
  <2> QED BY <1>5, <1>6, <2>1
<1>10. \A i \in DOMAIN c : \/ i \in DOMAIN s
                           \/ i > m /\ i - m \in DOMAIN t /\ i = m + (i - m)
  BY <1>1, <1>6 DEF m, n
<1> QED BY <1>5, <1>7, <1>8, <1>9, <1>10 DEF c, m, n

\* InOrder goes through the positions, each one once.
LEMMA InOrderIs ==
  ASSUME NEW n \in Nat, NEW I \in SUBSET (1..n)
  PROVE  /\ Cardinality(I) \in Nat
         /\ \A r \in 1..Cardinality(I) : InOrder(I)[r] \in I
         /\ \A r, q \in 1..Cardinality(I) : InOrder(I)[r] = InOrder(I)[q] => r = q
         /\ \A i \in I : \E r \in 1..Cardinality(I) : InOrder(I)[r] = i
<1> DEFINE c == Cardinality(I)
           upto(i) == {j \in I : j <= i}
           T == {Rank(I, i) : i \in I}
<1>0. I \subseteq Int
  OBVIOUS
<1>1. IsFiniteSet(I) /\ c \in Nat
  <2>1. IsFiniteSet(1..n)
    BY FS_Interval
  <2>2. IsFiniteSet(I)
    BY <2>1, FS_Subset
  <2> QED BY <2>2, FS_CardinalityType
<1>2. ASSUME NEW i \in I PROVE Rank(I, i) \in 1..c /\ IsFiniteSet(upto(i))
  <2>1. upto(i) \in SUBSET I /\ i \in upto(i)
    OBVIOUS
  <2>2. Rank(I, i) = Cardinality(upto(i))
    BY DEF Rank
  <2> HIDE DEF upto
  <2>3. IsFiniteSet(upto(i)) /\ Cardinality(upto(i)) \in Nat /\ Cardinality(upto(i)) <= c
    BY <1>1, <2>1, FS_Subset, FS_CardinalityType
  <2>4. Cardinality(upto(i)) # 0
    BY <2>1, <2>3, FS_EmptySet
  <2> QED BY <1>1, <2>2, <2>3, <2>4
<1>3. ASSUME NEW i \in I, NEW k \in I, i < k PROVE Rank(I, i) # Rank(I, k)
  <2>1. upto(i) \in SUBSET upto(k) /\ k \in upto(k) /\ k \notin upto(i)
    <3>1. i \in Int /\ k \in Int /\ \A j \in I : j \in Int
      BY <1>0
    <3>2. upto(i) \in SUBSET upto(k)
      <4>1. \A j \in I : j <= i => j <= k
        BY <1>3, <3>1
      <4> QED BY <4>1
    <3>3. k \in upto(k) /\ k \notin upto(i)
      BY <1>3, <3>1
    <3> QED BY <3>2, <3>3
  <2>2. Rank(I, i) = Cardinality(upto(i)) /\ Rank(I, k) = Cardinality(upto(k))
    BY DEF Rank
  <2> HIDE DEF upto
  <2> QED BY <1>2, <2>1, <2>2, FS_Subset
<1>4. \A i, k \in I : Rank(I, i) = Rank(I, k) => i = k
  <2>1. \A i, k \in I : i = k \/ i < k \/ k < i
    OBVIOUS
  <2> QED BY <1>3, <2>1
<1>5. T = 1..c
  <2> DEFINE f == [i \in I |-> Rank(I, i)]
  <2>1. f \in Bijection(I, T)
    <3>1. f \in [I -> T] /\ \A i, k \in I : f[i] = f[k] => i = k
      BY <1>4
    <3>2. \A t \in T : \E i \in I : f[i] = t
      OBVIOUS
    <3> QED BY <3>1, <3>2 DEF Bijection, Injection, Surjection, IsInjective
  <2>2. Cardinality(T) = c /\ T \in SUBSET (1..c)
    <3>1. ExistsBijection(I, T)
      BY <2>1 DEF ExistsBijection
    <3>2. T \in SUBSET (1..c)
      BY <1>2
    <3> HIDE DEF T
    <3>3. Cardinality(T) = c
      BY <1>1, <3>1, FS_Bijection
    <3> QED BY <3>2, <3>3
  <2>3. IsFiniteSet(1..c) /\ Cardinality(1..c) = c
    <3> HIDE DEF c
    <3> QED BY <1>1, FS_Interval
  <2> HIDE DEF T, c
  <2> QED BY <2>2, <2>3, FS_Subset
<1>6. ASSUME NEW r \in 1..c PROVE InOrder(I)[r] \in I /\ Rank(I, InOrder(I)[r]) = r
  <2>1. InOrder(I)[r] = CHOOSE i \in I : Rank(I, i) = r
    BY DEF InOrder
  <2>2. \E i \in I : Rank(I, i) = r
    BY <1>5
  <2> QED BY <2>1, <2>2
<1>7. \A i \in I : \E r \in 1..c : InOrder(I)[r] = i
  BY <1>2, <1>4, <1>6
<1> QED BY <1>1, <1>6, <1>7

ArePositions(I) == \E n \in Nat : I \subseteq 1..n

LEMMA PickedIs ==
  ASSUME NEW I, ArePositions(I), NEW s
  PROVE  /\ IsSeq(Picked(s, I))
         /\ \A r \in DOMAIN Picked(s, I) :
              InOrder(I)[r] \in I /\ Picked(s, I)[r] = s[InOrder(I)[r]]
         /\ \A r, q \in DOMAIN Picked(s, I) : InOrder(I)[r] = InOrder(I)[q] => r = q
         /\ \A i \in I : \E r \in DOMAIN Picked(s, I) : Picked(s, I)[r] = s[i]
<1> DEFINE c == Cardinality(I)
           p == Picked(s, I)
<1>1. /\ c \in Nat /\ \A r \in 1..c : InOrder(I)[r] \in I
      /\ \A r, q \in 1..c : InOrder(I)[r] = InOrder(I)[q] => r = q
      /\ \A i \in I : \E r \in 1..c : InOrder(I)[r] = i
  <2>1. PICK n \in Nat : I \in SUBSET (1..n)
    BY DEF ArePositions
  <2> QED BY <2>1, InOrderIs
<1>2. DOMAIN p = 1..c /\ p = [r \in 1..c |-> p[r]] /\ \A r \in 1..c : p[r] = s[InOrder(I)[r]]
  BY DEF Picked
<1> HIDE DEF c, p
<1>3. IsSeq(p)
  BY <1>1, <1>2 DEF IsSeq
<1> QED BY <1>1, <1>2, <1>3 DEF p

LEMMA MaxIs ==
  ASSUME NEW S \in SUBSET Int, S # {}, NEW top \in Int, \A x \in S : x <= top
  PROVE  Max(S) \in S /\ \A x \in S : x <= Max(S)
<1> DEFINE gaps == {top - x : x \in S}
<1>1. gaps \subseteq Nat /\ gaps # {}
  <2>1. \A x \in S : top - x \in Nat
    OBVIOUS
  <2> QED BY <2>1
<1>2. PICK gap \in gaps : \A y \in gaps : ~(<<y, gap>> \in OpToRel(<, Nat))
  BY <1>1, NatLessThanWellFounded, WFMin
<1>3. PICK x \in S : gap = top - x
  OBVIOUS
<1>4. ASSUME NEW y \in S PROVE x >= y
  <2>1. top - y \in gaps /\ top - y \in Nat /\ gap \in Nat
    BY <1>1
  <2>2. ~(top - y < gap)
    BY <1>2, <2>1 DEF OpToRel
  <2> QED BY <1>3, <2>1, <2>2
<1>5. \E z \in S : \A y \in S : z >= y
  BY <1>4
<1>6. Max(S) \in S /\ \A y \in S : Max(S) >= y
  BY <1>5 DEF Max
<1> QED BY <1>6

LEMMA MinIs ==
  ASSUME NEW S \in SUBSET Nat, S # {}
  PROVE  Min(S) \in S
<1>1. PICK x \in S : \A y \in S : ~(<<y, x>> \in OpToRel(<, Nat))
  BY NatLessThanWellFounded, WFMin
<1>2. ASSUME NEW y \in S PROVE x <= y
  <2>1. x \in Nat /\ y \in Nat
    OBVIOUS
  <2>2. ~(y < x)
    BY <1>1, <2>1 DEF OpToRel
  <2> QED BY <2>1, <2>2
<1>3. \E z \in S : \A y \in S : z =< y
  BY <1>2
<1> QED BY <1>3 DEF Min

\* A variable that is has a first line and a last.
LEMMA LinesOf ==
  ASSUME NEW lines, IsSeq(lines), NEW k \in KeysIn(lines)
  PROVE  /\ k # Note
         /\ Max(At(lines, k)) \in DOMAIN lines /\ lines[Max(At(lines, k))].key = k
         /\ Min(At(lines, k)) \in DOMAIN lines /\ lines[Min(At(lines, k))].key = k
         /\ FirstOf(lines, Min(At(lines, k)))
<1>1. Len(lines) \in Nat /\ DOMAIN lines = 1..Len(lines)
  BY SeqIs
<1>2. At(lines, k) \subseteq 1..Len(lines) /\ At(lines, k) # {} /\ k # Note
  BY <1>1 DEF At, KeysIn
<1>3. Max(At(lines, k)) \in At(lines, k)
  <2> DEFINE S == At(lines, k)
  <2> HIDE DEF S
  <2>1. S \in SUBSET Int /\ S # {} /\ Len(lines) \in Int /\ \A x \in S : x <= Len(lines)
    BY <1>1, <1>2 DEF S
  <2>2. Max(S) \in S
    BY <2>1, MaxIs
  <2> QED BY <2>2 DEF S
<1>4. Min(At(lines, k)) \in At(lines, k)
  BY <1>1, <1>2, MinIs
<1> QED BY <1>2, <1>3, <1>4 DEF At, FirstOf

LEMMA ValueIs ==
  ASSUME NEW lines, IsSeq(lines), NEW k \in KeysIn(lines), NEW v,
         \A i \in DOMAIN lines : lines[i].key = k => lines[i].value = v
  PROVE  Value(lines, k) = v
  BY LinesOf DEF Value

\* What is parsed has the variables of the file, and their values.
LEMMA ParseIs ==
  ASSUME NEW lines, IsSeq(lines)
  PROVE  /\ IsSeq(Parse(lines))
         /\ \A r \in DOMAIN Parse(lines) :
              /\ Parse(lines)[r].key \in KeysIn(lines)
              /\ Parse(lines)[r] = Line(Parse(lines)[r].key, Value(lines, Parse(lines)[r].key))
         /\ KeysIn(Parse(lines)) = KeysIn(lines)
<1> DEFINE I == {i \in DOMAIN lines : FirstOf(lines, i)}
           first == Picked(lines, I)
           page == Parse(lines)
<1>1. Len(lines) \in Nat /\ DOMAIN lines = 1..Len(lines)
  BY SeqIs
<1>2. /\ IsSeq(first)
      /\ \A r \in DOMAIN first : \E i \in I : first[r] = lines[i]
      /\ \A i \in I : \E r \in DOMAIN first : first[r] = lines[i]
  <2>1. ArePositions(I)
    BY <1>1 DEF ArePositions
  <2> HIDE DEF I
  <2>2. /\ IsSeq(Picked(lines, I))
        /\ \A r \in DOMAIN Picked(lines, I) :
             InOrder(I)[r] \in I /\ Picked(lines, I)[r] = lines[InOrder(I)[r]]
        /\ \A r, q \in DOMAIN Picked(lines, I) : InOrder(I)[r] = InOrder(I)[q] => r = q
        /\ \A i \in I : \E r \in DOMAIN Picked(lines, I) : Picked(lines, I)[r] = lines[i]
    BY <2>1, PickedIs
  <2> QED BY <2>2
<1>3. /\ DOMAIN page = DOMAIN first
      /\ \A r \in DOMAIN first : page[r] = Line(first[r].key, Value(lines, first[r].key))
      /\ page = [r \in DOMAIN first |-> page[r]]
  BY DEF Parse
<1>4. \A i \in I : i \in DOMAIN lines /\ lines[i].key \in KeysIn(lines)
  BY DEF FirstOf, KeysIn
<1>5. \A k \in KeysIn(lines) : \E i \in I : lines[i].key = k
  BY LinesOf
<1> HIDE DEF I, first, page
<1>6. \A r \in DOMAIN page : /\ page[r].key = first[r].key /\ page[r].key \in KeysIn(lines)
                             /\ page[r] = Line(page[r].key, Value(lines, page[r].key))
  BY <1>2, <1>3, <1>4 DEF Line
<1>7. \A k \in KeysIn(lines) : \E r \in DOMAIN page : page[r].key = k
  BY <1>2, <1>3, <1>5, <1>6
<1>8. KeysIn(page) = KeysIn(lines)
  <2>1. \A k \in KeysIn(lines) : k # Note
    BY DEF KeysIn
  <2> QED BY <1>6, <1>7, <2>1 DEF KeysIn
<1>9. IsSeq(page)
  BY <1>2, <1>3, SeqIs DEF IsSeq
<1> QED BY <1>6, <1>8, <1>9 DEF page

\* What is patched has the variables that were asked for, with their values.
LEMMA PatchIs ==
  ASSUME NEW lines, NEW want, IsSeq(lines), IsSeq(want), ValidVars(want)
  PROVE  /\ IsSeq(Patch(lines, want))
         /\ \A k \in KeysIn(want) :
              k \in KeysIn(Patch(lines, want)) /\ Value(Patch(lines, want), k) = Value(want, k)
<1> DEFINE I == {i \in DOMAIN lines :
                   lines[i].key = Note \/ (FirstOf(lines, i) /\ lines[i].key \in KeysIn(want))}
           J == {i \in DOMAIN want : want[i].key \notin KeysIn(lines)}
           kept == Picked(lines, I)
           head == [r \in DOMAIN kept |-> IF kept[r].key = Note THEN kept[r]
                                          ELSE Line(kept[r].key, Value(want, kept[r].key))]
           added == Picked(want, J)
           new == Patch(lines, want)
<1>1. new = head \o added
  BY DEF Patch
<1>2. /\ Len(lines) \in Nat /\ DOMAIN lines = 1..Len(lines)
      /\ Len(want) \in Nat /\ DOMAIN want = 1..Len(want)
  BY SeqIs
<1>3. /\ IsSeq(kept)
      /\ \A i \in I : \E r \in DOMAIN kept : kept[r] = lines[i]
  <2>1. ArePositions(I)
    BY <1>2 DEF ArePositions
  <2> HIDE DEF I
  <2>2. /\ IsSeq(Picked(lines, I))
        /\ \A r \in DOMAIN Picked(lines, I) :
             InOrder(I)[r] \in I /\ Picked(lines, I)[r] = lines[InOrder(I)[r]]
        /\ \A r, q \in DOMAIN Picked(lines, I) : InOrder(I)[r] = InOrder(I)[q] => r = q
        /\ \A i \in I : \E r \in DOMAIN Picked(lines, I) : Picked(lines, I)[r] = lines[i]
    BY <2>1, PickedIs
  <2> QED BY <2>2
<1>4. /\ IsSeq(added)
      /\ \A r \in DOMAIN added : \E i \in J : added[r] = want[i]
      /\ \A i \in J : \E r \in DOMAIN added : added[r] = want[i]
  <2>1. ArePositions(J)
    BY <1>2 DEF ArePositions
  <2> HIDE DEF J
  <2>2. /\ IsSeq(Picked(want, J))
        /\ \A r \in DOMAIN Picked(want, J) :
             InOrder(J)[r] \in J /\ Picked(want, J)[r] = want[InOrder(J)[r]]
        /\ \A r, q \in DOMAIN Picked(want, J) : InOrder(J)[r] = InOrder(J)[q] => r = q
        /\ \A i \in J : \E r \in DOMAIN Picked(want, J) : Picked(want, J)[r] = want[i]
    BY <2>1, PickedIs
  <2> QED BY <2>2
<1>5. IsSeq(head) /\ DOMAIN head = DOMAIN kept
  <2>1. DOMAIN head = DOMAIN kept /\ head = [r \in DOMAIN kept |-> head[r]]
    OBVIOUS
  <2> HIDE DEF head, kept
  <2> QED BY <1>3, <2>1, SeqIs DEF IsSeq
<1>6. \A r \in DOMAIN head :
        /\ head[r].key = kept[r].key
        /\ head[r].key # Note => head[r].value = Value(want, head[r].key)
  BY DEF Line
<1> HIDE DEF head, kept, added, new
<1>7. /\ IsSeq(new)
      /\ \A r \in DOMAIN head : r \in DOMAIN new /\ new[r] = head[r]
      /\ \A r \in DOMAIN added : \E i \in DOMAIN new : new[i] = added[r]
      /\ \A i \in DOMAIN new : \/ i \in DOMAIN head
                               \/ \E r \in DOMAIN added : new[i] = added[r]
  <2>1. /\ IsSeq(new)
        /\ \A r \in DOMAIN head : r \in DOMAIN new /\ new[r] = head[r]
    BY <1>1, <1>4, <1>5, ConcatIs
  <2>2. \A r \in DOMAIN added :
          Len(head) + r \in DOMAIN new /\ new[Len(head) + r] = added[r]
    BY <1>1, <1>4, <1>5, ConcatIs
  <2>3. \A i \in DOMAIN new :
          \/ i \in DOMAIN head
          \/ i > Len(head) /\ i - Len(head) \in DOMAIN added /\ i = Len(head) + (i - Len(head))
    BY <1>1, <1>4, <1>5, ConcatIs
  <2> QED BY <2>1, <2>2, <2>3
<1>8. ASSUME NEW i \in DOMAIN want, want[i].key # Note
      PROVE  Value(want, want[i].key) = want[i].value
  <2>1. want[i].key \in KeysIn(want)
    BY <1>8 DEF KeysIn
  <2>2. \A j \in DOMAIN want : want[j].key = want[i].key => j = i
    BY DEF ValidVars
  <2> QED BY <2>1, <2>2, ValueIs
<1>9. ASSUME NEW k \in KeysIn(want) PROVE k \in KeysIn(new) /\ Value(new, k) = Value(want, k)
  <2>0. k # Note
    BY DEF KeysIn
  <2>1. \E i \in DOMAIN new : new[i].key = k
    <3>1. CASE k \in KeysIn(lines)
      <4>1. Min(At(lines, k)) \in I /\ lines[Min(At(lines, k))].key = k
        BY <3>1, LinesOf
      <4>2. PICK r \in DOMAIN kept : kept[r].key = k
        BY <1>3, <4>1
      <4> QED BY <1>5, <1>6, <1>7, <4>2
    <3>2. CASE k \notin KeysIn(lines)
      <4>1. PICK i \in DOMAIN want : want[i].key = k
        BY DEF KeysIn
      <4>2. i \in J
        BY <3>2, <4>1
      <4> QED BY <1>4, <1>7, <4>1, <4>2
    <3> QED BY <3>1, <3>2
  <2>2. ASSUME NEW i \in DOMAIN new, new[i].key = k PROVE new[i].value = Value(want, k)
    <3>1. CASE i \in DOMAIN head
      BY <1>6, <1>7, <2>0, <2>2, <3>1
    <3>2. CASE \E r \in DOMAIN added : new[i] = added[r]
      <4>1. PICK j \in DOMAIN want : new[i] = want[j]
        BY <1>4, <3>2
      <4> QED BY <1>8, <2>0, <2>2, <4>1
    <3> QED BY <1>7, <3>1, <3>2
  <2>3. k \in KeysIn(new)
    BY <2>0, <2>1 DEF KeysIn
  <2> QED BY <1>7, <2>2, <2>3, ValueIs
<1> QED BY <1>7, <1>9 DEF new

\* The deployment's variables, in order.
IsOrder(order) ==
  /\ IsSeq(order)
  /\ \A i \in DOMAIN order : /\ order[i] \notin {Note, Bad}
                             /\ \A j \in DOMAIN order : order[i] = order[j] => i = j

\* EnsureVars leaves a file that can be patched with the variables given, and the others
\* as they were.
LEMMA EnsureIs ==
  ASSUME NEW lines, NEW order, NEW given, IsSeq(lines), IsOrder(order),
         DOMAIN given \subseteq ToSet(order)
  PROVE  LET new == EnsureVars(lines, order, given)
         IN /\ IsSeq(new)
            /\ ValidVars(Parse(new)) =>
                 \A k \in DOMAIN given : k \in KeysIn(new) /\ Value(new, k) = given[k]
            /\ \A k \in KeysIn(lines) \ DOMAIN given :
                 k \in KeysIn(new) /\ Value(new, k) = Value(lines, k)
<1> DEFINE old == Parse(lines)
           ours == {k \in ToSet(order) : k \in DOMAIN given}
           I == {i \in DOMAIN order : order[i] \in ours \ KeysIn(lines)}
           fresh == [i \in DOMAIN old |-> IF old[i].key \in ours
                                            THEN Line(old[i].key, given[old[i].key])
                                          ELSE old[i]]
           names == Picked(order, I)
           missing == [i \in DOMAIN names |-> Line(names[i], given[names[i]])]
           all == fresh \o missing
           new == EnsureVars(lines, order, given)
<1>1. new = IF ValidVars(all) THEN Patch(lines, all) ELSE lines
  BY DEF EnsureVars
<1>2. ours = DOMAIN given /\ \A k \in ours : k \in ToSet(order)
  OBVIOUS
<1>3. /\ IsSeq(old) /\ KeysIn(old) = KeysIn(lines)
      /\ \A r \in DOMAIN old : /\ old[r].key \in KeysIn(lines)
                               /\ old[r].value = Value(lines, old[r].key)
  BY ParseIs DEF Line
<1>4. /\ IsSeq(names)
      /\ \A r \in DOMAIN names : InOrder(I)[r] \in I /\ names[r] = order[InOrder(I)[r]]
      /\ \A r, q \in DOMAIN names : InOrder(I)[r] = InOrder(I)[q] => r = q
      /\ \A i \in I : \E r \in DOMAIN names : names[r] = order[i]
  <2>1. ArePositions(I)
    BY SeqIs DEF IsOrder, ArePositions
  <2> HIDE DEF I
  <2>2. /\ IsSeq(Picked(order, I))
        /\ \A r \in DOMAIN Picked(order, I) :
             InOrder(I)[r] \in I /\ Picked(order, I)[r] = order[InOrder(I)[r]]
        /\ \A r, q \in DOMAIN Picked(order, I) : InOrder(I)[r] = InOrder(I)[q] => r = q
        /\ \A i \in I : \E r \in DOMAIN Picked(order, I) : Picked(order, I)[r] = order[i]
    BY <2>1, PickedIs
  <2> QED BY <2>2
<1>5. IsSeq(fresh) /\ DOMAIN fresh = DOMAIN old
  <2>1. DOMAIN fresh = DOMAIN old /\ fresh = [r \in DOMAIN old |-> fresh[r]]
    OBVIOUS
  <2> HIDE DEF fresh, old
  <2> QED BY <1>3, <2>1, SeqIs DEF IsSeq
<1>6. IsSeq(missing) /\ DOMAIN missing = DOMAIN names
  <2>1. DOMAIN missing = DOMAIN names /\ missing = [r \in DOMAIN names |-> missing[r]]
    OBVIOUS
  <2> HIDE DEF missing, names
  <2> QED BY <1>4, <2>1, SeqIs DEF IsSeq
<1>7. /\ \A r \in DOMAIN fresh :
           /\ fresh[r].key = old[r].key
           /\ fresh[r].value = IF old[r].key \in ours THEN given[old[r].key] ELSE old[r].value
      /\ \A r \in DOMAIN missing :
           missing[r].key = names[r] /\ missing[r].value = given[names[r]]
  BY DEF Line
<1>8. \A r \in DOMAIN names : names[r] \in ours \ KeysIn(lines) /\ names[r] # Bad
  BY <1>4 DEF IsOrder
<1>9. \A r, q \in DOMAIN names : names[r] = names[q] => r = q
  BY <1>4 DEF IsOrder
<1>10. ASSUME NEW k \in ours \ KeysIn(lines) PROVE \E r \in DOMAIN names : names[r] = k
  <2>1. PICK i \in DOMAIN order : order[i] = k
    BY DEF ToSet
  <2>2. i \in I
    BY <2>1
  <2> HIDE DEF I, names, ours
  <2> QED BY <1>4, <2>1, <2>2
<1> HIDE DEF old, ours, I, fresh, names, missing, new
<1>11. /\ IsSeq(all) /\ Len(all) = Len(fresh) + Len(missing)
       /\ \A i \in DOMAIN fresh : i \in DOMAIN all /\ all[i] = fresh[i]
       /\ \A i \in DOMAIN missing :
             Len(fresh) + i \in DOMAIN all /\ all[Len(fresh) + i] = missing[i]
       /\ \A i \in DOMAIN all :
            \/ i \in DOMAIN fresh
            \/ /\ i > Len(fresh) /\ i - Len(fresh) \in DOMAIN missing
               /\ i = Len(fresh) + (i - Len(fresh))
  BY <1>5, <1>6, ConcatIs
<1> HIDE DEF all
<1>12. ASSUME ValidVars(all), NEW k, NEW v,
              \/ k \in DOMAIN given /\ v = given[k]
              \/ k \in KeysIn(lines) \ DOMAIN given /\ v = Value(lines, k)
       PROVE  k \in KeysIn(new) /\ Value(new, k) = v
  <2>1. k # Note
    BY <1>2, <1>12 DEF KeysIn, IsOrder, ToSet
  <2>2. \E i \in DOMAIN all : all[i].key = k /\ all[i].value = v
    <3>1. CASE k \in KeysIn(lines)
      <4>1. PICK r \in DOMAIN old : old[r].key = k
        BY <1>3, <3>1 DEF KeysIn
      <4> QED BY <1>2, <1>3, <1>5, <1>7, <1>11, <1>12, <3>1, <4>1
    <3>2. CASE k \notin KeysIn(lines)
      <4>1. k \in ours /\ v = given[k]
        BY <1>2, <1>12, <3>2
      <4>2. PICK r \in DOMAIN names : names[r] = k
        BY <1>10, <3>2, <4>1
      <4> QED BY <1>6, <1>7, <1>11, <4>1, <4>2
    <3> QED BY <3>1, <3>2
  <2>3. PICK i \in DOMAIN all : all[i].key = k /\ all[i].value = v
    BY <2>2
  <2>4. k \in KeysIn(all) /\ \A j \in DOMAIN all : all[j].key = k => j = i
    BY <1>12, <2>1, <2>3 DEF KeysIn, ValidVars
  <2>5. Value(all, k) = v
    <3>1. IsSeq(all) /\ \A j \in DOMAIN all : all[j].key = k => all[j].value = v
      BY <1>11, <2>3, <2>4
    <3>2. k \in KeysIn(all)
      BY <2>4
    <3> QED BY <3>1, <3>2, ValueIs
  <2>6. new = Patch(lines, all)
    BY <1>1, <1>12
  <2> QED BY <1>11, <1>12, <2>4, <2>5, <2>6, PatchIs
<1>13. ASSUME ValidVars(old) PROVE ValidVars(all)
  <2>1. \A r \in DOMAIN old : /\ old[r].key # Bad /\ old[r].key \in KeysIn(lines)
                              /\ \A q \in DOMAIN old : old[r].key = old[q].key => r = q
    BY <1>3, <1>13 DEF ValidVars
  <2> SUFFICES ASSUME NEW i \in DOMAIN all, NEW j \in DOMAIN all
               PROVE  all[i].key # Bad /\ (all[i].key = all[j].key => i = j)
    BY DEF ValidVars
  <2>2. CASE i \in DOMAIN fresh /\ j \in DOMAIN fresh
    <3>1. /\ i \in DOMAIN old /\ all[i].key = old[i].key
          /\ j \in DOMAIN old /\ all[j].key = old[j].key
      BY <1>5, <1>7, <1>11, <2>2
    <3> QED BY <2>1, <3>1
  <2>3. CASE i \in DOMAIN fresh /\ j \notin DOMAIN fresh
    <3>1. i \in DOMAIN old /\ all[i].key = old[i].key
      BY <1>5, <1>7, <1>11, <2>3
    <3>2. j - Len(fresh) \in DOMAIN names /\ all[j].key = names[j - Len(fresh)]
      BY <1>6, <1>7, <1>11, <2>3
    <3> QED BY <1>8, <2>1, <3>1, <3>2
  <2>4. CASE i \notin DOMAIN fresh /\ j \in DOMAIN fresh
    <3>1. j \in DOMAIN old /\ all[j].key = old[j].key
      BY <1>5, <1>7, <1>11, <2>4
    <3>2. i - Len(fresh) \in DOMAIN names /\ all[i].key = names[i - Len(fresh)]
      BY <1>6, <1>7, <1>11, <2>4
    <3> QED BY <1>8, <2>1, <3>1, <3>2
  <2>5. CASE i \notin DOMAIN fresh /\ j \notin DOMAIN fresh
    <3>1. /\ all[i].key = names[i - Len(fresh)] /\ i - Len(fresh) \in DOMAIN names
          /\ all[j].key = names[j - Len(fresh)] /\ j - Len(fresh) \in DOMAIN names
          /\ i = Len(fresh) + (i - Len(fresh)) /\ j = Len(fresh) + (j - Len(fresh))
      BY <1>6, <1>7, <1>11, <2>5
    <3> QED BY <1>8, <1>9, <3>1
  <2> QED BY <2>2, <2>3, <2>4, <2>5
<1>14. CASE ValidVars(all)
  <2>1. IsSeq(new)
    BY <1>1, <1>11, <1>14, PatchIs
  <2> QED BY <1>12, <1>14, <2>1 DEF new
<1>15. CASE ~ValidVars(all)
  <2>1. new = lines /\ ~ValidVars(old)
    BY <1>1, <1>13, <1>15
  <2>2. ~ValidVars(Parse(new))
    BY <2>1 DEF old
  <2> QED BY <2>1, <2>2 DEF new
<1> QED BY <1>14, <1>15

-----------------------------------------------------------------------------
(* The routes of one service *)

\* The labels of a file: it has finitely many, of indexes from Bare on.
IsLabels(l) ==
  /\ \A k \in DOMAIN l : k.n \in Int /\ k = Key(k.n, k.sub)
  /\ \E top \in Nat : \A k \in DOMAIN l : k.n \in Bare..top

\* Each route of a store's compose has a host of its own.
IsRouted(l) ==
  \A k \in DOMAIN l : k.sub = Host =>
    /\ \E app, on : l[k] = [app |-> app, on |-> on]
    /\ \A m \in DOMAIN l : m.sub = Host /\ l[m] = l[k] => m = k

\* A list of additional domains, each one in it once.
IsList(list) ==
  /\ \E n \in Nat : DOMAIN list = 1..n
  /\ \A i, j \in DOMAIN list : list[i].suffix = list[j].suffix => i = j

\* What is generated has indexes above all those of the two files.
LEMMA NextIs ==
  ASSUME NEW main, NEW ours, IsLabels(main), IsLabels(ours)
  PROVE  /\ NextIndex(main, ours) \in Nat
         /\ \A k \in DOMAIN main \cup DOMAIN ours : k.n < NextIndex(main, ours)
<1> DEFINE S == {-1} \cup {k.n : k \in DOMAIN main \cup DOMAIN ours}
<1>1. PICK a \in Nat : \A k \in DOMAIN main : k.n \in Bare..a
  BY DEF IsLabels
<1>2. PICK b \in Nat : \A k \in DOMAIN ours : k.n \in Bare..b
  BY DEF IsLabels
<1>3. S \in SUBSET Int /\ S # {} /\ \A x \in S : x >= -1
  BY <1>1, <1>2 DEF Bare
<1>4. \E top \in Nat : \A x \in S : x <= top
  <2> DEFINE top == a + b
  <2>1. top \in Nat /\ \A x \in S : x <= top
    BY <1>1, <1>2 DEF Bare
  <2> QED BY <2>1
<1>5. PICK top \in Nat : \A x \in S : x <= top
  BY <1>4
<1>6. Max(S) \in S /\ \A x \in S : x <= Max(S)
  <2> HIDE DEF S
  <2>1. top \in Int
    OBVIOUS
  <2> QED BY <1>3, <1>5, <2>1, MaxIs
<1>7. NextIndex(main, ours) = Max(S) + 1
  BY DEF NextIndex
<1>8. \A k \in DOMAIN main \cup DOMAIN ours : k.n \in S
  OBVIOUS
<1> HIDE DEF S
<1>9. Max(S) \in Int /\ Max(S) >= -1
  BY <1>3, <1>6
<1>10. \A k \in DOMAIN main \cup DOMAIN ours : k.n \in Int /\ k.n <= Max(S)
  BY <1>3, <1>6, <1>8
<1> QED BY <1>7, <1>9, <1>10

LEMMA SlotsAre ==
  ASSUME NEW main, NEW list, IsLabels(main), IsList(list)
  PROVE  /\ IsFiniteSet(Slots(main, list))
         /\ \A p \in Slots(main, list) :
              p = <<p[1], p[2]>> /\ p[1] \in Int /\ p[2] \in Nat /\ p[2] \in DOMAIN list
<1>1. PICK top \in Nat : \A k \in DOMAIN main : k.n \in Bare..top
  BY DEF IsLabels
<1>2. PICK n \in Nat : DOMAIN list = 1..n
  BY DEF IsList
<1>3. PrimaryGroups(main) \subseteq Bare..top
  BY <1>1 DEF PrimaryGroups, RouteGroups
<1>4. IsFiniteSet(Bare..top) /\ IsFiniteSet(1..n)
  BY FS_Interval DEF Bare
<1>5. IsFiniteSet(PrimaryGroups(main))
  BY <1>3, <1>4, FS_Subset
<1>6. IsFiniteSet(Slots(main, list))
  BY <1>2, <1>4, <1>5, FS_Product DEF Slots
<1>7. ASSUME NEW p \in PrimaryGroups(main) \X DOMAIN list
      PROVE  p = <<p[1], p[2]>> /\ p[1] \in Int /\ p[2] \in Nat /\ p[2] \in DOMAIN list
  BY <1>2, <1>3, <1>7 DEF Bare
<1> QED BY <1>6, <1>7 DEF Slots

\* No two slots have the same host.
LEMMA HostAtIs ==
  ASSUME NEW main, NEW list, IsLabels(main), IsRouted(main), IsList(list),
         NEW p \in Slots(main, list), NEW q \in Slots(main, list)
  PROVE  /\ HostAt(main, list, p).on = list[p[2]].suffix
         /\ HostAt(main, list, p) = HostAt(main, list, q) => p = q
<1>1. /\ p = <<p[1], p[2]>> /\ p[2] \in DOMAIN list
      /\ q = <<q[1], q[2]>> /\ q[2] \in DOMAIN list
  BY SlotsAre
<1>2. p[1] \in PrimaryGroups(main) /\ q[1] \in PrimaryGroups(main)
  BY DEF Slots
<1>3. /\ Key(p[1], Host) \in DOMAIN main /\ HostOf(main, p[1]).on = Primary
      /\ Key(q[1], Host) \in DOMAIN main /\ HostOf(main, q[1]).on = Primary
  BY <1>2 DEF PrimaryGroups, RouteGroups, Key, IsLabels
<1>4. PICK a : HostOf(main, p[1]) = [app |-> a, on |-> Primary]
  <2>1. PICK a, on : HostOf(main, p[1]) = [app |-> a, on |-> on]
    BY <1>3 DEF IsRouted, HostOf, Key
  <2> QED BY <1>3, <2>1
<1>5. PICK b : HostOf(main, q[1]) = [app |-> b, on |-> Primary]
  <2>1. PICK b, on : HostOf(main, q[1]) = [app |-> b, on |-> on]
    BY <1>3 DEF IsRouted, HostOf, Key
  <2> QED BY <1>3, <2>1
<1>6. /\ HostAt(main, list, p) = [app |-> a, on |-> list[p[2]].suffix]
      /\ HostAt(main, list, q) = [app |-> b, on |-> list[q[2]].suffix]
  BY <1>4, <1>5 DEF HostAt
<1>7. ASSUME HostAt(main, list, p) = HostAt(main, list, q) PROVE p = q
  <2>1. a = b /\ list[p[2]].suffix = list[q[2]].suffix
    BY <1>6, <1>7
  <2>2. p[2] = q[2]
    BY <1>1, <2>1 DEF IsList
  <2>3. Key(p[1], Host) = Key(q[1], Host)
    BY <1>3, <1>4, <1>5, <2>1 DEF IsRouted, HostOf, Key
  <2> QED BY <1>1, <2>2, <2>3 DEF Key
<1> QED BY <1>6, <1>7

\* The indexes of what is made differ.
LEMMA IndexIs ==
  ASSUME NEW main, NEW list, IsLabels(main), IsList(list),
         NEW new \in SUBSET Slots(main, list), NEW next \in Nat, NEW p \in new, NEW q \in new
  PROVE  /\ IndexOf(new, next, p) \in next..(next + Cardinality(new))
         /\ IndexOf(new, next, p) = IndexOf(new, next, q) => p = q
<1> DEFINE before(r) == {s \in new : Earlier(s, r)}
<1>1. IsFiniteSet(new)
  BY SlotsAre, FS_Subset
<1>2. ASSUME NEW r \in new
      PROVE  /\ IsFiniteSet(before(r)) /\ Cardinality(before(r)) \in Nat
             /\ Cardinality(new) \in Nat /\ Cardinality(before(r)) <= Cardinality(new)
  <2>1. before(r) \in SUBSET new
    OBVIOUS
  <2> HIDE DEF before
  <2> QED BY <1>1, <2>1, FS_Subset, FS_CardinalityType
<1>3. ASSUME NEW r \in new, NEW t \in new, Earlier(r, t)
      PROVE  Cardinality(before(r)) < Cardinality(before(t))
  <2>1. \A s \in new : s[1] \in Int /\ s[2] \in Nat
    BY SlotsAre
  <2>2. before(r) \in SUBSET before(t)
    BY <1>3, <2>1 DEF Earlier
  <2>3. r \in before(t) /\ r \notin before(r)
    BY <1>3, <2>1 DEF Earlier
  <2> HIDE DEF before
  <2> QED BY <1>2, <2>2, <2>3, FS_Subset
<1>4. p = q \/ Earlier(p, q) \/ Earlier(q, p)
  BY SlotsAre DEF Earlier
<1>5. /\ IndexOf(new, next, p) = next + Cardinality(before(p))
      /\ IndexOf(new, next, q) = next + Cardinality(before(q))
  BY DEF IndexOf
<1> HIDE DEF before
<1> QED BY <1>2, <1>3, <1>4, <1>5

LEMMA CloneIs ==
  ASSUME NEW main, NEW g, NEW n, NEW d
  PROVE  /\ \A k \in DOMAIN Clone(main, g, n, d) : k.n = n /\ k = Key(k.n, k.sub)
         /\ Key(n, Host) \in DOMAIN Clone(main, g, n, d)
         /\ Clone(main, g, n, d)[Key(n, Host)] = [HostOf(main, g) EXCEPT !.on = d.suffix]
<1> DEFINE subs == {s \in SubsOf(main, g) : ~DomainOwned(s)}
           all == {Host} \cup subs \cup DOMAIN d.directives
           value(k) == IF k.sub = Host THEN [HostOf(main, g) EXCEPT !.on = d.suffix]
                       ELSE IF k.sub \in subs THEN main[Key(g, k.sub)]
                       ELSE d.directives[k.sub]
           keys == {Key(n, s) : s \in all}
<1>1. Clone(main, g, n, d) = [k \in keys |-> value(k)]
  BY DEF Clone
<1>2. Host \in all
  OBVIOUS
<1> HIDE DEF all
<1>3. Key(n, Host) \in keys /\ \A k \in keys : k.n = n /\ k = Key(k.n, k.sub)
  BY <1>2 DEF Key
<1>4. Key(n, Host).sub = Host
  BY DEF Key
<1> HIDE DEF keys
<1> QED BY <1>1, <1>3, <1>4

\* The clone that is made for a slot.
CloneAt(main, ours, list, p) ==
  Clone(main, p[1], IndexOf(Vacant(main, ours, list), NextIndex(main, ours), p), list[p[2]])

\* What is generated is the clone of every vacant slot, each at an index of its own.
LEMMA GenerateIs ==
  ASSUME NEW main, NEW ours, NEW list, IsLabels(main), IsLabels(ours), IsList(list)
  PROVE  /\ \A k \in DOMAIN Generate(main, ours, list) :
              \E p \in Vacant(main, ours, list) : k \in DOMAIN CloneAt(main, ours, list, p)
         /\ \A p \in Vacant(main, ours, list) : \A k \in DOMAIN CloneAt(main, ours, list, p) :
              /\ k \in DOMAIN Generate(main, ours, list)
              /\ Generate(main, ours, list)[k] = CloneAt(main, ours, list, p)[k]
              /\ k.n = IndexOf(Vacant(main, ours, list), NextIndex(main, ours), p)
              /\ k.n \in Int /\ k = Key(k.n, k.sub)
<1> DEFINE new == Vacant(main, ours, list)
           next == NextIndex(main, ours)
           clone(p) == CloneAt(main, ours, list, p)
           routes == {clone(p) : p \in new}
<1>1. new \in SUBSET Slots(main, list) /\ next \in Nat
  BY NextIs DEF Vacant
<1>2. ASSUME NEW p \in new
      PROVE  /\ IndexOf(new, next, p) \in Int /\ p[2] \in DOMAIN list
             /\ \A q \in new : IndexOf(new, next, p) = IndexOf(new, next, q) => p = q
  <2>1. Cardinality(new) \in Nat
    BY <1>1, SlotsAre, FS_Subset, FS_CardinalityType
  <2> HIDE DEF new, next
  <2> QED BY <1>1, <2>1, IndexIs, SlotsAre
<1>3. ASSUME NEW p \in new, NEW k \in DOMAIN clone(p)
      PROVE  k.n = IndexOf(new, next, p) /\ k = Key(k.n, k.sub)
  <2> DEFINE n == IndexOf(new, next, p)
             d == list[p[2]]
             g == p[1]
  <2>1. k \in DOMAIN Clone(main, g, n, d)
    BY <1>3 DEF CloneAt
  <2> HIDE DEF n, d, g
  <2>2. k.n = n /\ k = Key(k.n, k.sub)
    BY <2>1, CloneIs
  <2> QED BY <2>2 DEF n
<1>4. Generate(main, ours, list)
        = [k \in UNION {DOMAIN r : r \in routes} |-> (CHOOSE r \in routes : k \in DOMAIN r)[k]]
  BY DEF Generate, Made, CloneAt
<1> HIDE DEF new, next, clone
<1>5. UNION {DOMAIN r : r \in routes} = UNION {DOMAIN clone(p) : p \in new}
  OBVIOUS
<1>6. ASSUME NEW p \in new, NEW k \in DOMAIN clone(p)
      PROVE  /\ (CHOOSE r \in routes : k \in DOMAIN r) = clone(p)
             /\ k.n = IndexOf(new, next, p)
             /\ k.n \in Int /\ k = Key(k.n, k.sub)
  <2>1. k.n = IndexOf(new, next, p) /\ k = Key(k.n, k.sub)
    BY <1>3
  <2>2. \A q \in new : k \in DOMAIN clone(q) => q = p
    BY <1>2, <1>3, <2>1
  <2>3. clone(p) \in routes /\ \A r \in routes : k \in DOMAIN r => r = clone(p)
    BY <2>2
  <2> HIDE DEF routes
  <2>4. (CHOOSE r \in routes : k \in DOMAIN r) = clone(p)
    BY <1>6, <2>3
  <2> QED BY <1>2, <2>1, <2>4
<1>7. \A p \in new : \A k \in DOMAIN clone(p) : k \in UNION {DOMAIN clone(q) : q \in new}
  OBVIOUS
<1>8. /\ DOMAIN Generate(main, ours, list) = UNION {DOMAIN clone(p) : p \in new}
      /\ \A p \in new : \A k \in DOMAIN clone(p) : Generate(main, ours, list)[k] = clone(p)[k]
  BY <1>4, <1>5, <1>6, <1>7
<1> QED BY <1>6, <1>8 DEF new, next, clone

\* A host that is generated is that of a vacant slot.
LEMMA MadeHost ==
  ASSUME NEW main, NEW ours, NEW list, IsLabels(main), IsLabels(ours), IsList(list),
         NEW k \in DOMAIN Generate(main, ours, list), k.sub = Host
  PROVE  \E q \in Vacant(main, ours, list) :
           Generate(main, ours, list)[k] = HostAt(main, list, q)
<1> DEFINE made == Generate(main, ours, list)
<1>1. PICK q \in Vacant(main, ours, list) : k \in DOMAIN CloneAt(main, ours, list, q)
  BY GenerateIs
<1> DEFINE n == IndexOf(Vacant(main, ours, list), NextIndex(main, ours), q)
           g == q[1]
           d == list[q[2]]
<1>2. made[k] = CloneAt(main, ours, list, q)[k] /\ k.n = n /\ k = Key(k.n, k.sub)
  BY <1>1, GenerateIs
<1>3. /\ CloneAt(main, ours, list, q) = Clone(main, g, n, d)
      /\ HostAt(main, list, q) = [HostOf(main, g) EXCEPT !.on = d.suffix]
  BY DEF CloneAt, HostAt
<1> HIDE DEF n, g, d, made
<1>4. Clone(main, g, n, d)[Key(n, Host)] = HostAt(main, list, q)
  BY <1>3, CloneIs
<1>5. made[k] = HostAt(main, list, q)
  BY <1>2, <1>3, <1>4
<1> QED BY <1>5 DEF made

\* Its keys are free in both files, and its hosts on the domains of the list.
LEMMA GeneratedIs ==
  ASSUME NEW main, NEW ours, NEW list, IsLabels(main), IsLabels(ours), IsRouted(main),
         IsList(list)
  PROVE  LET made == Generate(main, ours, list)
         IN /\ IsLabels(made)
            /\ DOMAIN made \cap (DOMAIN main \cup DOMAIN ours) = {}
            /\ \A k \in DOMAIN made : k.sub = Host => made[k].on \in SuffixesOf(list)
<1> DEFINE made == Generate(main, ours, list)
           new == Vacant(main, ours, list)
           next == NextIndex(main, ours)
           clone(p) == CloneAt(main, ours, list, p)
<1>1. new \in SUBSET Slots(main, list) /\ next \in Nat
  BY NextIs DEF Vacant
<1>2. Cardinality(new) \in Nat
  BY <1>1, SlotsAre, FS_Subset, FS_CardinalityType
<1>3. ASSUME NEW k \in DOMAIN made
      PROVE  \E p \in new : k \in DOMAIN clone(p)
  BY GenerateIs
<1>4. ASSUME NEW p \in new, NEW k \in DOMAIN clone(p)
      PROVE  /\ made[k] = clone(p)[k] /\ k.n \in Int
             /\ k.n = IndexOf(new, next, p) /\ k = Key(k.n, k.sub)
  BY <1>4, GenerateIs
<1>5. ASSUME NEW p \in new PROVE IndexOf(new, next, p) \in next..(next + Cardinality(new))
  <2> HIDE DEF new, next
  <2> QED BY <1>1, IndexIs
<1>6. IsLabels(made)
  <2> DEFINE top == next + Cardinality(new)
  <2> HIDE DEF new, next, made, clone
  <2>1. top \in Nat /\ \A k \in DOMAIN made : k.n \in next..top
    BY <1>1, <1>2, <1>3, <1>4, <1>5
  <2>2. \A k \in DOMAIN made : k.n \in Bare..top
    BY <1>1, <2>1 DEF Bare
  <2>3. \A k \in DOMAIN made : k.n \in Int /\ k = Key(k.n, k.sub)
    BY <1>3, <1>4
  <2> HIDE DEF top
  <2> QED BY <2>1, <2>2, <2>3 DEF IsLabels
<1>7. DOMAIN made \cap (DOMAIN main \cup DOMAIN ours) = {}
  <2>1. \A k \in DOMAIN main \cup DOMAIN ours : k.n \in Int /\ k.n < next
    BY NextIs DEF IsLabels
  <2> HIDE DEF new, next, made, clone
  <2>2. \A k \in DOMAIN made : k.n \in Int /\ next <= k.n
    BY <1>1, <1>2, <1>3, <1>4, <1>5
  <2> QED BY <1>1, <2>1, <2>2
<1>8. ASSUME NEW k \in DOMAIN made, k.sub = Host PROVE made[k].on \in SuffixesOf(list)
  <2>1. PICK p \in new : made[k] = HostAt(main, list, p)
    BY <1>8, MadeHost
  <2>2. p \in Slots(main, list) /\ p[2] \in DOMAIN list
    BY <1>1, SlotsAre
  <2>3. HostAt(main, list, p).on = list[p[2]].suffix
    BY <2>2, HostAtIs
  <2> QED BY <2>1, <2>2, <2>3 DEF SuffixesOf, ToSet
<1> QED BY <1>6, <1>7, <1>8

\* What is left of the override is on none of the domains, and nothing in it has changed.
LEMMA DropIs ==
  ASSUME NEW labels, NEW manifest, NEW list, IsLabels(labels)
  PROVE  LET rest == DropGenerated(labels, manifest, list)
         IN /\ IsLabels(rest)
            /\ DOMAIN rest \subseteq DOMAIN labels \ manifest
            /\ \A k \in DOMAIN rest : rest[k] = labels[k]
            /\ \A k \in DOMAIN rest : k.sub = Host => ~OnAnyDomain(rest[k], list)
<1> DEFINE left == Restrict(labels, DOMAIN labels \ manifest)
           onto == {g \in RouteGroups(left) : OnAnyDomain(HostOf(left, g), list)}
           keys == DOMAIN left \ KeysOf(left, onto)
           rest == DropGenerated(labels, manifest, list)
<1>1. rest = [k \in keys |-> left[k]]
  BY DEF DropGenerated, Restrict
<1>2. left = [k \in DOMAIN labels \ manifest |-> labels[k]]
  BY DEF Restrict
<1>3. /\ DOMAIN rest \subseteq DOMAIN labels \ manifest
      /\ \A k \in DOMAIN rest : rest[k] = labels[k]
  <2> HIDE DEF left, onto, rest
  <2> QED BY <1>1, <1>2
<1>4. ASSUME NEW k \in DOMAIN rest, k.sub = Host PROVE ~OnAnyDomain(rest[k], list)
  <2> HIDE DEF left, rest
  <2>1. k \in DOMAIN left /\ rest[k] = left[k] /\ k.n \notin onto
    BY <1>1, <1>4 DEF KeysOf
  <2>2. k = Key(k.n, Host) /\ k.n \in RouteGroups(left)
    <3>1. k = Key(k.n, k.sub)
      BY <1>2, <2>1 DEF IsLabels
    <3> QED BY <1>4, <2>1, <3>1 DEF RouteGroups
  <2>3. HostOf(left, k.n) = left[k]
    BY <2>2 DEF HostOf
  <2> QED BY <2>1, <2>2, <2>3
<1>5. IsLabels(rest)
  <2> HIDE DEF rest
  <2> QED BY <1>3 DEF IsLabels
<1> QED BY <1>3, <1>4, <1>5

\* A slot whose host neither file routes is vacant, and its clone the route of that host.
LEMMA SlotIs ==
  ASSUME NEW main, NEW ours, NEW list, IsLabels(main), IsLabels(ours), IsRouted(main),
         IsList(list), NEW p \in Slots(main, list),
         HostAt(main, list, p) \notin HostsOf(main), HostAt(main, list, p) \notin HostsOf(ours)
  PROVE  LET made == Generate(main, ours, list)
             n == IndexOf(Vacant(main, ours, list), NextIndex(main, ours), p)
         IN /\ n \in Nat /\ NextIndex(main, ours) <= n
            /\ Key(n, Host) \in DOMAIN made /\ made[Key(n, Host)] = HostAt(main, list, p)
            /\ \A k \in DOMAIN made :
                 k.sub = Host /\ made[k] = HostAt(main, list, p) => k.n = n
            /\ \A k \in DOMAIN made :
                 k.n = n <=> k \in DOMAIN Clone(main, p[1], n, list[p[2]])
            /\ \A k \in DOMAIN Clone(main, p[1], n, list[p[2]]) :
                 k \in DOMAIN made /\ made[k] = Clone(main, p[1], n, list[p[2]])[k]
<1> DEFINE new == Vacant(main, ours, list)
           next == NextIndex(main, ours)
           made == Generate(main, ours, list)
           index(q) == IndexOf(new, next, q)
           clone(q) == CloneAt(main, ours, list, q)
<1>1. new \in SUBSET Slots(main, list) /\ next \in Nat
  BY NextIs DEF Vacant
<1>2. p \in new
  <2>1. \A q \in Slots(main, list) :
          Earlier(q, p) => HostAt(main, list, q) # HostAt(main, list, p)
    <3>1. ~Earlier(p, p)
      BY SlotsAre DEF Earlier
    <3> QED BY <3>1, HostAtIs
  <2> QED BY <2>1 DEF Vacant
<1>3. ASSUME NEW q \in new
      PROVE  /\ Key(index(q), Host) \in DOMAIN clone(q)
             /\ clone(q)[Key(index(q), Host)] = HostAt(main, list, q)
  <2> DEFINE n == index(q)
             g == q[1]
             d == list[q[2]]
  <2>1. /\ clone(q) = Clone(main, g, n, d)
        /\ HostAt(main, list, q) = [HostOf(main, g) EXCEPT !.on = d.suffix]
    BY DEF CloneAt, HostAt
  <2> HIDE DEF n, g, d, clone
  <2>2. Key(n, Host) \in DOMAIN clone(q) /\ clone(q)[Key(n, Host)] = HostAt(main, list, q)
    BY <2>1, CloneIs
  <2> QED BY <2>2 DEF n
<1>4. \A k \in DOMAIN made : \E q \in new : k \in DOMAIN clone(q)
  BY GenerateIs
<1>5. ASSUME NEW q \in new, NEW k \in DOMAIN clone(q)
      PROVE  /\ k \in DOMAIN made /\ made[k] = clone(q)[k]
             /\ k.n = index(q) /\ k = Key(k.n, k.sub)
  BY <1>5, GenerateIs
<1>6. \A q \in new : HostAt(main, list, q) = HostAt(main, list, p) => q = p
  BY <1>1, <1>2, HostAtIs
<1>7. \A q \in new : index(q) = index(p) => q = p
  BY <1>1, <1>2, IndexIs
<1>8. clone(p) = Clone(main, p[1], index(p), list[p[2]])
  BY DEF CloneAt
<1>0. index(p) \in Nat /\ next <= index(p)
  <2>1. Cardinality(new) \in Nat
    BY <1>1, SlotsAre, FS_Subset, FS_CardinalityType
  <2> HIDE DEF new, next
  <2>2. index(p) \in next..(next + Cardinality(new))
    BY <1>1, <1>2, IndexIs
  <2> HIDE DEF index
  <2> QED BY <1>1, <2>1, <2>2
<1> HIDE DEF new, next, made, index, clone
<1>9. ASSUME NEW k \in DOMAIN made, k.sub = Host, made[k] = HostAt(main, list, p)
      PROVE  k.n = index(p)
  <2>1. PICK q \in new : k \in DOMAIN clone(q)
    BY <1>4
  <2>2. made[k] = HostAt(main, list, q) /\ k.n = index(q)
    BY <1>3, <1>5, <1>9, <2>1
  <2> QED BY <1>6, <1>9, <2>2
<1>10. \A k \in DOMAIN made : k.n = index(p) <=> k \in DOMAIN clone(p)
  BY <1>2, <1>4, <1>5, <1>7
<1>11. Key(index(p), Host) \in DOMAIN made /\ made[Key(index(p), Host)] = HostAt(main, list, p)
  BY <1>2, <1>3, <1>5
<1>12. \A k \in DOMAIN clone(p) : k \in DOMAIN made /\ made[k] = clone(p)[k]
  BY <1>2, <1>5
<1> QED BY <1>0, <1>8, <1>9, <1>10, <1>11, <1>12 DEF new, next, made, index

\* With what is generated beside what is left, each route of the store's is published on
\* each domain, unless what is left has taken over a route of the store's there.
LEMMA PublishedIs ==
  ASSUME NEW main, NEW rest, NEW list, IsLabels(main), IsRouted(main), IsLabels(rest),
         IsList(list), \A k \in DOMAIN rest : k.sub = Host => ~OnAnyDomain(rest[k], list),
         NEW d \in ToSet(list)
  PROVE  LET o == Merged(rest, Generate(main, rest, list))
         IN TakenOver(main, o, d) \/ PublishedOn(main, o, d)
<1> DEFINE made == Generate(main, rest, list)
           o == Merged(rest, made)
           labels == Merged(main, o)
<1> SUFFICES ASSUME ~TakenOver(main, o, d), NEW g \in PrimaryGroups(main)
             PROVE  LET host == [HostOf(main, g) EXCEPT !.on = d.suffix]
                        there == {n \in RouteGroups(labels) : HostOf(labels, n) = host}
                    IN \E n \in there :
                         /\ there = {n}
                         /\ \/ host \in HostsOf(main)
                            \/ Restrict(labels, KeysOf(labels, {n})) = Clone(main, g, n, d)
  BY DEF PublishedOn
<1> DEFINE host == [HostOf(main, g) EXCEPT !.on = d.suffix]
           there == {n \in RouteGroups(labels) : HostOf(labels, n) = host}
<1>1. PICK j \in DOMAIN list : d = list[j]
  BY DEF ToSet
<1> DEFINE p == <<g, j>>
<1>2. p \in Slots(main, list) /\ p[1] = g /\ p[2] = j
  BY DEF Slots
<1>3. host = HostAt(main, list, p) /\ host.on = d.suffix
  <2>1. host = HostAt(main, list, p)
    BY <1>1, <1>2 DEF HostAt
  <2>2. HostAt(main, list, p).on = list[p[2]].suffix
    BY <1>2, HostAtIs
  <2> QED BY <1>1, <1>2, <2>1, <2>2
<1>4. \A k \in DOMAIN rest : k.sub = Host => rest[k] # host
  <2>1. \A k \in DOMAIN rest : k.sub = Host => rest[k].on \notin SuffixesOf(list)
    BY DEF OnAnyDomain
  <2>2. host.on \in SuffixesOf(list)
    BY <1>3 DEF SuffixesOf
  <2> QED BY <2>1, <2>2
<1>5. /\ IsLabels(made) /\ DOMAIN made \cap (DOMAIN main \cup DOMAIN rest) = {}
  BY GeneratedIs
<1>6. /\ DOMAIN labels = DOMAIN main \cup DOMAIN rest \cup DOMAIN made
      /\ \A k \in DOMAIN made : labels[k] = made[k]
      /\ \A k \in DOMAIN rest : labels[k] = rest[k]
      /\ \A k \in DOMAIN main \ DOMAIN rest : labels[k] = main[k]
      /\ \A k \in DOMAIN main : k.sub = Host /\ main[k].on = d.suffix => labels[k] = main[k]
  <2>1. DOMAIN o = DOMAIN rest \cup DOMAIN made /\ \A k \in DOMAIN made : o[k] = made[k]
    BY DEF Merged
  <2>2. \A k \in DOMAIN rest : o[k] = rest[k]
    BY <1>5 DEF Merged
  <2>3. \A k \in DOMAIN main : k.sub = Host /\ main[k].on = d.suffix => k \notin DOMAIN o
    BY DEF TakenOver
  <2> HIDE DEF o, made
  <2> QED BY <1>5, <2>1, <2>2, <2>3 DEF Merged
<1> HIDE DEF labels, o
<1>7. \A k \in DOMAIN labels : k = Key(k.n, k.sub)
  BY <1>5, <1>6 DEF IsLabels
<1>8. ASSUME NEW n
      PROVE  n \in there <=> Key(n, Host) \in DOMAIN labels /\ labels[Key(n, Host)] = host
  <2>1. n \in RouteGroups(labels) <=> Key(n, Host) \in DOMAIN labels
    <3>1. Key(n, Host).n = n /\ Key(n, Host).sub = Host
      BY DEF Key
    <3> QED BY <1>7, <3>1 DEF RouteGroups
  <2> QED BY <2>1 DEF HostOf
<1>9. \A n : Key(n, Host).n = n /\ Key(n, Host).sub = Host
  BY DEF Key
<1> HIDE DEF there, host, made
<1>10. CASE host \in HostsOf(main)
  <2>1. PICK m \in DOMAIN main : m.sub = Host /\ main[m] = host /\ m = Key(m.n, Host)
    <3>1. PICK n \in RouteGroups(main) : main[Key(n, Host)] = host
      BY <1>10 DEF HostsOf, HostOf
    <3>2. PICK m \in DOMAIN main : m.sub = Host /\ m.n = n
      BY DEF RouteGroups
    <3>3. m = Key(n, Host)
      BY <3>2 DEF IsLabels
    <3> QED BY <3>1, <3>2, <3>3
  <2>2. m.n \in there
    BY <1>3, <1>6, <1>8, <2>1
  <2>3. ASSUME NEW n \in there PROVE n = m.n
    <3> DEFINE k == Key(n, Host)
    <3>1. k \in DOMAIN labels /\ labels[k] = host /\ k.sub = Host
      BY <1>8, <1>9
    <3>2. CASE k \in DOMAIN made
      <4>1. made[k] = host
        BY <1>6, <3>1, <3>2
      <4>2. \E q \in Vacant(main, rest, list) : made[k] = HostAt(main, list, q)
        BY <3>1, <3>2, MadeHost DEF made
      <4>3. \A q \in Vacant(main, rest, list) : HostAt(main, list, q) \notin HostsOf(main)
        BY DEF Vacant
      <4> QED BY <1>10, <4>1, <4>2, <4>3
    <3>3. CASE k \in DOMAIN rest
      BY <1>4, <1>6, <3>1, <3>3
    <3>4. CASE k \in DOMAIN main \ DOMAIN rest
      <4>1. k = m
        BY <1>6, <2>1, <3>1, <3>4 DEF IsRouted
      <4> QED BY <1>9, <4>1
    <3> QED BY <1>6, <3>1, <3>2, <3>3, <3>4
  <2> QED BY <1>10, <2>2, <2>3 DEF host, there
<1>11. CASE host \notin HostsOf(main)
  <2> DEFINE n == IndexOf(Vacant(main, rest, list), NextIndex(main, rest), p)
             c == Clone(main, g, n, d)
  <2>1. host \notin HostsOf(rest)
    <3>1. ASSUME NEW i \in RouteGroups(rest) PROVE rest[Key(i, Host)] # host
      <4>1. PICK k \in DOMAIN rest : k.sub = Host /\ k.n = i
        BY DEF RouteGroups
      <4>2. k = Key(i, Host)
        BY <4>1 DEF IsLabels
      <4> QED BY <1>4, <4>1, <4>2
    <3> QED BY <3>1 DEF HostsOf, HostOf
  <2>2. /\ n \in Nat /\ NextIndex(main, rest) <= n
        /\ Key(n, Host) \in DOMAIN made /\ made[Key(n, Host)] = host
        /\ \A k \in DOMAIN made : k.sub = Host /\ made[k] = host => k.n = n
        /\ \A k \in DOMAIN made : k.n = n <=> k \in DOMAIN c
        /\ \A k \in DOMAIN c : k \in DOMAIN made /\ made[k] = c[k]
    BY <1>1, <1>2, <1>3, <1>11, <2>1, SlotIs DEF made
  <2> HIDE DEF n
  <2>3. n \in there
    BY <1>6, <1>8, <2>2
  <2>4. ASSUME NEW i \in there PROVE i = n
    <3> DEFINE k == Key(i, Host)
    <3>1. k \in DOMAIN labels /\ labels[k] = host /\ k.sub = Host /\ k.n = i
      BY <1>8, <1>9
    <3>2. CASE k \in DOMAIN made
      BY <1>6, <2>2, <3>1, <3>2
    <3>3. CASE k \in DOMAIN rest
      BY <1>4, <1>6, <3>1, <3>3
    <3>4. CASE k \in DOMAIN main \ DOMAIN rest
      <4>1. main[k] = host /\ k.n \in RouteGroups(main)
        BY <1>6, <3>1, <3>4 DEF RouteGroups
      <4>2. host \in HostsOf(main)
        BY <3>1, <4>1 DEF HostsOf, HostOf
      <4> QED BY <1>11, <4>2
    <3> QED BY <1>6, <3>1, <3>2, <3>3, <3>4
  <2>5. Restrict(labels, KeysOf(labels, {n})) = c
    <3>1. \A k \in DOMAIN main \cup DOMAIN rest : k.n # n
      <4>1. n \in Nat /\ NextIndex(main, rest) <= n
        BY <2>2
      <4>2. NextIndex(main, rest) \in Nat
        BY NextIs
      <4>3. \A k \in DOMAIN main \cup DOMAIN rest : k.n \in Int /\ k.n < NextIndex(main, rest)
        BY NextIs DEF IsLabels
      <4> QED BY <4>1, <4>2, <4>3
    <3>2. KeysOf(labels, {n}) = DOMAIN c
      BY <1>6, <2>2, <3>1 DEF KeysOf
    <3>3. \A k \in DOMAIN c : labels[k] = c[k]
      BY <1>6, <2>2
    <3>4. c = [k \in DOMAIN c |-> c[k]]
      BY DEF Clone
    <3> HIDE DEF c
    <3> QED BY <3>2, <3>3, <3>4 DEF Restrict
  <2> QED BY <2>3, <2>4, <2>5 DEF host, there
<1> QED BY <1>10, <1>11

-----------------------------------------------------------------------------
(* The routes of an app *)

\* A store's compose, and an override: labels for each service.
LabelledCompose(c) ==
  /\ {"labels", "nets", "binds"} \subseteq DOMAIN c
  /\ \A s \in Svcs : IsLabels(c.labels[s]) /\ IsRouted(c.labels[s])
  /\ DOMAIN c.labels = Svcs
Labelled(o) ==
  /\ {"labels", "manifest", "fields", "tips"} \subseteq DOMAIN o
  /\ DOMAIN o.labels = Svcs /\ DOMAIN o.manifest = Svcs
  /\ \A s \in Svcs : IsLabels(o.labels[s]) /\ \A k \in o.manifest[s] : k.n \in Int

\* What is asked of the store, of the files there were, of the editor and the settings.
RouteInputs ==
  /\ 1 \in DOMAIN Store /\ \A v \in DOMAIN Store : LabelledCompose(Store[v])
  /\ \A o \in Overrides : Labelled(o)
  /\ \A o : Labelled(o) => \A t \in Typed(o) : Labelled(t)
  /\ \A list \in Lists : IsList(list)
\* The labels that are not known for generated are the operator's.
ByHand(o, own) ==
  \A s \in Svcs : \A k \in DOMAIN o.labels[s] \ o.manifest[s] : <<s, k>> \in own

\* What Sync leaves.
Healed(b, o, m, list) ==
  \A s \in Svcs :
    /\ DOMAIN b[s] \cap m[s] = {}
    /\ \A d \in ToSet(list) : TakenOver(b[s], o[s], d) \/ PublishedOn(b[s], o[s], d)
    /\ \A k \in DOMAIN o[s] \cap m[s] : k.sub = Host => OnAnyDomain(o[s][k], list)
    /\ \A k \in DOMAIN o[s] : k = Key(k.n, k.sub)

\* What a request holds is of the shape of the files, and its own labels are the operator's.
\* Where nobody has changed what the routes are made of, an up has healed them.
Unmoved(r) == {"base", "over", "settings"} \cap r.stale = {}

\* What is written leaves the operator's routes, provided no domain is that elsewhere.
Elsewhere == \A list \in Lists : "elsewhere" \notin SuffixesOf(list)
Keeps(o, new) ==
  \A s \in Svcs : \A k \in OwnRoutes(o, s) :
    k \in DOMAIN new.labels[s] /\ new.labels[s][k] = o.labels[s][k]

Holds(r, b, o, list, own) ==
  /\ r.pc \in {"form", "fields", "routes"} => Labelled(r.over) /\ ByHand(r.over, own)
  /\ r.pc = "typed" => Labelled(r.over) /\ ByHand(r.over, own \cup r.what)
  /\ r.pc = "compose" =>
       LabelledCompose(r.base) /\ ("base" \notin r.stale => r.base.labels = b.labels)
  /\ r.pc = "routes" /\ "over" \notin r.stale /\ Elsewhere => Keeps(o, r.over)
  /\ r.pc = "routes" /\ Unmoved(r) => Healed(b.labels, r.over.labels, r.over.manifest, list)
  /\ r.pc \in {"normalize", "compose", "env", "vars", "up"} /\ Unmoved(r) =>
       Healed(b.labels, o.labels, o.manifest, list)

RoutesInv ==
  /\ LabelledCompose(base) /\ doms \in Lists /\ IsList(doms)
  /\ Labelled(over) /\ ByHand(over, hand)
  /\ Requests /\ \A p \in Ops : Holds(op[p], base, over, doms, hand)

\* Sync heals the routes, and what it leaves of the operator's is the operator's still.
LEMMA SyncHeals ==
  ASSUME NEW labels, NEW o, NEW list, Labelled(o), IsList(list), DOMAIN labels = Svcs,
         \A s \in Svcs : IsLabels(labels[s]) /\ IsRouted(labels[s])
  PROVE  LET new == Sync(labels, o, list)
         IN /\ Labelled(new) /\ Healed(labels, new.labels, new.manifest, list)
            /\ \A s \in Svcs : DOMAIN new.labels[s] \ new.manifest[s]
                                 \subseteq DOMAIN o.labels[s] \ o.manifest[s]
<1> DEFINE rest(s) == DropGenerated(o.labels[s], o.manifest[s], list)
           made(s) == Generate(labels[s], rest(s), list)
           new == Sync(labels, o, list)
<1>1. /\ {"labels", "manifest", "fields", "tips"} \subseteq DOMAIN new
      /\ new.labels = [s \in Svcs |-> Merged(rest(s), made(s))]
      /\ new.manifest = [s \in Svcs |-> DOMAIN made(s)]
  <2> DEFINE rests == [s \in Svcs |-> rest(s)]
             mades == [s \in Svcs |-> Generate(labels[s], rests[s], list)]
  <2>1. new = [o EXCEPT !.labels = [s \in Svcs |-> Merged(rests[s], mades[s])],
                        !.manifest = [s \in Svcs |-> DOMAIN mades[s]]]
    BY DEF Sync
  <2>2. \A s \in Svcs : rests[s] = rest(s) /\ mades[s] = made(s)
    OBVIOUS
  <2> HIDE DEF rests, mades, rest, made, new
  <2>3. [s \in Svcs |-> Merged(rests[s], mades[s])] = [s \in Svcs |-> Merged(rest(s), made(s))]
    BY <2>2
  <2>4. [s \in Svcs |-> DOMAIN mades[s]] = [s \in Svcs |-> DOMAIN made(s)]
    BY <2>2
  <2> QED BY <2>1, <2>3, <2>4 DEF Labelled
<1>2. ASSUME NEW s \in Svcs
      PROVE  /\ IsLabels(rest(s))
             /\ DOMAIN rest(s) \subseteq DOMAIN o.labels[s] \ o.manifest[s]
             /\ \A k \in DOMAIN rest(s) : k.sub = Host => ~OnAnyDomain(rest(s)[k], list)
  BY DropIs DEF Labelled
<1>3. ASSUME NEW s \in Svcs
      PROVE  /\ IsLabels(made(s))
             /\ DOMAIN made(s) \cap (DOMAIN labels[s] \cup DOMAIN rest(s)) = {}
             /\ \A k \in DOMAIN made(s) : k.sub = Host => made(s)[k].on \in SuffixesOf(list)
  <2> DEFINE r == rest(s)
             b == labels[s]
  <2>1. IsLabels(r) /\ IsLabels(b) /\ IsRouted(b)
    BY <1>2
  <2> HIDE DEF r, b
  <2> QED BY <2>1, GeneratedIs DEF r, b
<1>4. ASSUME NEW s \in Svcs, NEW d \in ToSet(list)
      PROVE  LET all == Merged(rest(s), made(s))
             IN TakenOver(labels[s], all, d) \/ PublishedOn(labels[s], all, d)
  <2> DEFINE r == rest(s)
             b == labels[s]
  <2>1. /\ IsLabels(r) /\ IsLabels(b) /\ IsRouted(b)
        /\ \A k \in DOMAIN r : k.sub = Host => ~OnAnyDomain(r[k], list)
    BY <1>2
  <2> HIDE DEF r, b
  <2> QED BY <2>1, PublishedIs DEF r, b
<1>5. ASSUME NEW s \in Svcs
      PROVE  LET all == Merged(rest(s), made(s))
             IN /\ DOMAIN all = DOMAIN rest(s) \cup DOMAIN made(s)
                /\ \A k \in DOMAIN made(s) : all[k] = made(s)[k]
                /\ IsLabels(all)
  <2> DEFINE r == rest(s)
             m == made(s)
             all == Merged(r, m)
  <2>1. IsLabels(r) /\ IsLabels(m)
    BY <1>2, <1>3
  <2> HIDE DEF r, m
  <2>2. DOMAIN all = DOMAIN r \cup DOMAIN m /\ \A k \in DOMAIN m : all[k] = m[k]
    BY DEF Merged
  <2>3. PICK i \in Nat : \A k \in DOMAIN r : k.n \in Bare..i
    BY <2>1 DEF IsLabels
  <2>4. PICK j \in Nat : \A k \in DOMAIN m : k.n \in Bare..j
    BY <2>1 DEF IsLabels
  <2> HIDE DEF all
  <2>5. i + j \in Nat /\ \A k \in DOMAIN all : k.n \in Bare..(i + j)
    BY <2>2, <2>3, <2>4 DEF Bare
  <2>6. IsLabels(all)
    BY <2>1, <2>2, <2>5 DEF IsLabels
  <2> QED BY <2>2, <2>6 DEF r, m, all
<1> HIDE DEF rest, made, new
<1>6. Labelled(new)
  BY <1>1, <1>3, <1>5 DEF Labelled, IsLabels
<1>7. Healed(labels, new.labels, new.manifest, list)
  <2> SUFFICES ASSUME NEW s \in Svcs
               PROVE  /\ DOMAIN labels[s] \cap new.manifest[s] = {}
                      /\ \A d \in ToSet(list) :
                           \/ TakenOver(labels[s], new.labels[s], d)
                           \/ PublishedOn(labels[s], new.labels[s], d)
                      /\ \A k \in DOMAIN new.labels[s] \cap new.manifest[s] :
                           k.sub = Host => OnAnyDomain(new.labels[s][k], list)
                      /\ \A k \in DOMAIN new.labels[s] : k = Key(k.n, k.sub)
    BY DEF Healed
  <2>1. new.labels[s] = Merged(rest(s), made(s)) /\ new.manifest[s] = DOMAIN made(s)
    BY <1>1
  <2>2. DOMAIN labels[s] \cap new.manifest[s] = {}
    BY <1>3, <2>1
  <2>3. \A d \in ToSet(list) :
          TakenOver(labels[s], new.labels[s], d) \/ PublishedOn(labels[s], new.labels[s], d)
    BY <1>4, <2>1
  <2>4. ASSUME NEW k \in DOMAIN new.labels[s] \cap new.manifest[s], k.sub = Host
        PROVE  OnAnyDomain(new.labels[s][k], list)
    <3>1. k \in DOMAIN made(s) /\ new.labels[s][k] = made(s)[k]
      BY <1>5, <2>1
    <3> QED BY <1>3, <2>4, <3>1 DEF OnAnyDomain
  <2>5. \A k \in DOMAIN new.labels[s] : k = Key(k.n, k.sub)
    BY <1>6 DEF Labelled, IsLabels
  <2> QED BY <2>2, <2>3, <2>4, <2>5
<1>8. ASSUME NEW s \in Svcs
      PROVE  DOMAIN new.labels[s] \ new.manifest[s]
               \subseteq DOMAIN o.labels[s] \ o.manifest[s]
  <2>1. new.labels[s] = Merged(rest(s), made(s)) /\ new.manifest[s] = DOMAIN made(s)
    BY <1>1
  <2> QED BY <1>2, <1>5, <2>1
<1> QED BY <1>6, <1>7, <1>8 DEF new

\* What the operator has on a host elsewhere is not dropped.
LEMMA OwnKept ==
  ASSUME NEW o, NEW labels, NEW list, Labelled(o), IsList(list), DOMAIN labels = Svcs,
         \A s \in Svcs : IsLabels(labels[s]) /\ IsRouted(labels[s]),
         "elsewhere" \notin SuffixesOf(list), NEW s \in Svcs, NEW k \in OwnRoutes(o, s)
  PROVE  LET new == Sync(labels, o, list)
         IN k \in DOMAIN new.labels[s] /\ new.labels[s][k] = o.labels[s][k]
<1> DEFINE l == o.labels[s]
           left == Restrict(l, DOMAIN l \ o.manifest[s])
           onto == {g \in RouteGroups(left) : OnAnyDomain(HostOf(left, g), list)}
           rest == DropGenerated(l, o.manifest[s], list)
           made == Generate(labels[s], rest, list)
<1>1. k \in DOMAIN left /\ left[k] = l[k]
  BY DEF OwnRoutes, Own, Restrict
<1>2. k.n \notin onto
  <2> SUFFICES ASSUME k.n \in onto PROVE FALSE
    OBVIOUS
  <2>1. PICK h \in DOMAIN left : h.sub = Host /\ h.n = k.n
    BY DEF RouteGroups
  <2>2. h \in DOMAIN l /\ left[h] = l[h] /\ h = Key(k.n, Host)
    BY <2>1 DEF Restrict, Labelled, IsLabels
  <2>3. l[h].on = "elsewhere"
    BY <2>2 DEF OwnRoutes
  <2> QED BY <2>2, <2>3 DEF HostOf, OnAnyDomain
<1>3. k \in DOMAIN rest /\ rest[k] = l[k]
  <2>1. rest = [i \in DOMAIN left \ KeysOf(left, onto) |-> left[i]]
    BY DEF DropGenerated, Restrict
  <2>2. k \notin KeysOf(left, onto)
    BY <1>2 DEF KeysOf
  <2> HIDE DEF rest, left, onto
  <2> QED BY <1>1, <2>1, <2>2
<1>4. IsLabels(rest)
  BY DropIs DEF Labelled
<1>5. k \notin DOMAIN made
  <2> DEFINE b == labels[s]
  <2>1. IsLabels(b) /\ IsRouted(b)
    OBVIOUS
  <2> HIDE DEF rest, b
  <2>2. DOMAIN Generate(b, rest, list) \cap (DOMAIN b \cup DOMAIN rest) = {}
    BY <1>4, <2>1, GeneratedIs
  <2> QED BY <1>3, <2>2 DEF b
<1>6. Sync(labels, o, list).labels[s] = Merged(rest, made)
  BY DEF Sync, Labelled
<1> HIDE DEF rest, made, l
<1>7. k \in DOMAIN Merged(rest, made) /\ Merged(rest, made)[k] = rest[k]
  BY <1>3, <1>5 DEF Merged
<1> QED BY <1>3, <1>6, <1>7 DEF l

\* It is what an up that nothing interrupts hands to Compose.
LEMMA InvHealed == RoutesInv => RoutesHealed
<1> SUFFICES ASSUME RoutesInv, NEW p \in Ops, Undisturbed(p), NEW s \in Svcs
             PROVE  LET b == base.labels[s]
                        o == over.labels[s]
                    IN /\ DOMAIN b \cap over.manifest[s] = {}
                       /\ \A d \in ToSet(doms) : TakenOver(b, o, d) \/ PublishedOn(b, o, d)
                       /\ NowhereElse(b, Restrict(o, {k \in DOMAIN o : <<s, k>> \notin hand}), doms)
  BY DEF RoutesHealed
<1> DEFINE b == base.labels[s]
           o == over.labels[s]
           made == Restrict(o, {k \in DOMAIN o : <<s, k>> \notin hand})
<1>0. Healed(base.labels, over.labels, over.manifest, doms)
  BY DEF RoutesInv, Holds, Undisturbed, Unmoved
<1>1. /\ DOMAIN b \cap over.manifest[s] = {}
      /\ \A d \in ToSet(doms) : TakenOver(b, o, d) \/ PublishedOn(b, o, d)
      /\ \A k \in DOMAIN o \cap over.manifest[s] : k.sub = Host => OnAnyDomain(o[k], doms)
      /\ \A k \in DOMAIN o : k = Key(k.n, k.sub)
      /\ \A k \in DOMAIN o \ over.manifest[s] : <<s, k>> \in hand
  BY <1>0 DEF RoutesInv, Healed, ByHand
<1>2. /\ DOMAIN made \subseteq DOMAIN o \cap over.manifest[s]
      /\ \A k \in DOMAIN made : made[k] = o[k]
  BY <1>1 DEF Restrict
<1> HIDE DEF made, o, b
<1>3. ASSUME NEW g \in RouteGroups(made) PROVE OnAnyDomain(HostOf(made, g), doms)
  <2>1. PICK k \in DOMAIN made : k.sub = Host /\ k.n = g
    BY DEF RouteGroups
  <2>2. k = Key(g, Host)
    BY <1>1, <1>2, <2>1
  <2> QED BY <1>1, <1>2, <2>1, <2>2 DEF HostOf
<1>4. NowhereElse(b, made, doms)
  BY <1>3 DEF NowhereElse, HostsOf
<1> QED BY <1>1, <1>4 DEF made, o, b

\* A request that is told holds what it did.
LEMMA HoldsTold ==
  ASSUME NEW q \in Ops, Told(q), Holds(op[q], base, over, doms, hand), hand \subseteq hand'
  PROVE  Holds(op'[q], base', over', doms', hand')
<1> DEFINE r == op[q]
           new == op'[q]
<1>1. /\ new.pc = r.pc /\ new.over = r.over /\ new.base = r.base /\ new.what = r.what
      /\ "base" \notin new.stale => base' = base /\ "base" \notin r.stale
      /\ "over" \notin new.stale => over' = over /\ "over" \notin r.stale
      /\ Unmoved(new) => Unmoved(r) /\ base' = base /\ over' = over /\ doms' = doms
  BY DEF Told, Unmoved
<1> HIDE DEF r, new
<1>2. Holds(r, base, over, doms, hand)
  BY DEF r
<1>3. Holds(new, base', over', doms', hand')
  BY <1>1, <1>2 DEF Holds, ByHand
<1> QED BY <1>3 DEF new

\* A request goes on, the others are told.
LEMMA RoutesGo ==
  ASSUME RoutesInv, NEW p \in Ops, NEW new, Request(new), Goto(p, new),
         LabelledCompose(base'), doms' \in Lists, IsList(doms'), Labelled(over'), ByHand(over', hand'),
         hand \subseteq hand', Holds(new, base', over', doms', hand')
  PROVE  RoutesInv'
<1>1. Requests' /\ op'[p] = new /\ \A q \in Ops \ {p} : Told(q)
  BY GotoIs DEF RoutesInv
<1>2. ASSUME NEW q \in Ops PROVE Holds(op'[q], base', over', doms', hand')
  BY <1>1, HoldsTold DEF RoutesInv
<1> QED BY <1>1, <1>2 DEF RoutesInv

LEMMA HoldsNothing ==
  ASSUME NEW r, NEW b, NEW o, NEW list, NEW own,
         r.pc \in {"idle", "page", "patched", "sync"}
           \/ (r.pc = "normalize" /\ ~Unmoved(r))
  PROVE  Holds(r, b, o, list, own)
  BY DEF Holds

LEMMA NothingLabelled == Labelled(NoOverride) /\ \A own : ByHand(NoOverride, own)
<1>1. \A s \in Svcs : NoOverride.labels[s] = NoLabels /\ NoOverride.manifest[s] = {}
  BY DEF NoOverride
<1>2. IsLabels(NoLabels)
  BY DEF IsLabels, NoLabels
<1>3. /\ {"labels", "manifest", "fields", "tips"} \subseteq DOMAIN NoOverride
      /\ DOMAIN NoOverride.labels = Svcs /\ DOMAIN NoOverride.manifest = Svcs
  BY DEF NoOverride
<1>4. Labelled(NoOverride)
  BY <1>1, <1>2, <1>3 DEF Labelled
<1>5. \A own : ByHand(NoOverride, own)
  BY <1>1 DEF ByHand, NoLabels
<1> QED BY <1>4, <1>5

\* What has the same labels is labelled the same.
LEMMA SameLabels ==
  ASSUME NEW o, NEW d, NEW own, Labelled(o), ByHand(o, own), DOMAIN d = DOMAIN o,
         d.labels = o.labels, d.manifest = o.manifest
  PROVE  Labelled(d) /\ ByHand(d, own)
  BY DEF Labelled, ByHand

LEMMA DecodedLabels ==
  ASSUME NEW o, NEW own, Labelled(o), ByHand(o, own), NEW d \in Decoded(o)
  PROVE  LET t == [d EXCEPT !.tips = TRUE] IN Labelled(t) /\ ByHand(t, own)
<1>1. \/ d = [o EXCEPT !.fields = [s \in Svcs |-> Reencoded(@[s])]]
      \/ d = NoOverride \/ d = [NoOverride EXCEPT !.manifest = o.manifest]
  BY DEF Decoded
<1>2. Labelled(d) /\ ByHand(d, own)
  <2>1. CASE d = [o EXCEPT !.fields = [s \in Svcs |-> Reencoded(@[s])]]
    <3>1. DOMAIN d = DOMAIN o /\ d.labels = o.labels /\ d.manifest = o.manifest
      BY <2>1 DEF Labelled
    <3> QED BY <3>1, SameLabels
  <2>2. CASE d = NoOverride
    BY <2>2, NothingLabelled
  <2>3. CASE d = [NoOverride EXCEPT !.manifest = o.manifest]
    <3>1. /\ DOMAIN d = DOMAIN NoOverride /\ d.labels = NoOverride.labels
          /\ d.manifest = o.manifest
      BY <2>3 DEF NoOverride
    <3>2. \A s \in Svcs : DOMAIN NoOverride.labels[s] = {}
      BY DEF NoOverride, NoLabels
    <3>3. Labelled(d)
      BY <3>1, NothingLabelled DEF Labelled
    <3> QED BY <3>1, <3>2, <3>3 DEF ByHand
  <2> QED BY <1>1, <2>1, <2>2, <2>3
<1>3. LET t == [d EXCEPT !.tips = TRUE]
      IN DOMAIN t = DOMAIN d /\ t.labels = d.labels /\ t.manifest = d.manifest
  BY <1>2 DEF Labelled
<1> QED BY <1>2, <1>3, SameLabels

LEMMA WrittenLabels ==
  ASSUME NEW c, NEW net, LabelledCompose(c)
  PROVE  LabelledCompose(Written(c, net)) /\ Written(c, net).labels = c.labels
  BY DEF LabelledCompose, Written

\* At first the override is the operator's, but for the labels its manifest lists.
LEMMA RoutesInit == RouteInputs /\ Init => RoutesInv
<1> SUFFICES ASSUME RouteInputs, Init PROVE RoutesInv
  OBVIOUS
<1>1. LabelledCompose(base)
  <2>1. LabelledCompose(Store[1])
    BY DEF RouteInputs
  <2>2. CASE base = Written(Store[1], AppNet(dep))
    BY <2>1, <2>2, WrittenLabels
  <2>3. CASE base # Written(Store[1], AppNet(dep))
    BY <2>1, <2>3 DEF Init, LabelledCompose
  <2> QED BY <2>2, <2>3
<1>2. Labelled(over) /\ doms \in Lists /\ IsList(doms) /\ hand = OwnLabels(over)
  BY DEF Init, RouteInputs
<1>3. ByHand(over, hand)
  <2> SUFFICES ASSUME NEW s \in Svcs, NEW k \in DOMAIN over.labels[s] \ over.manifest[s]
               PROVE  <<s, k>> \in hand
    BY DEF ByHand
  <2>1. <<s, k>> \in Svcs \X UNION {DOMAIN over.labels[t] : t \in Svcs}
    OBVIOUS
  <2> QED BY <1>2, <2>1 DEF OwnLabels, Own
<1>4. DOMAIN op = Ops /\ \A p \in Ops : op[p] = Idle
  BY DEF Init
<1> QED BY <1>1, <1>2, <1>3, <1>4, IdleIs, ReadsIs, OnwardIs, HoldsNothing DEF RoutesInv, Requests

\* The shape of the files, and whose labels they are, kept by a step.
Sane == /\ LabelledCompose(base') /\ doms' \in Lists /\ IsList(doms')
        /\ Labelled(over') /\ ByHand(over', hand')
        /\ hand \subseteq hand'

\* A step of an up, past the routes, that changes nothing of what they are made of.
LEMMA RoutesPass ==
  ASSUME RoutesInv, NEW p \in Ops, NEW new, Request(new), Goto(p, new), Sane,
         op[p].pc \in {"normalize", "compose", "env", "vars", "up"},
         new.pc \in {"normalize", "env", "vars", "up"},
         Unmoved(new) => /\ Unmoved(op[p])
                         /\ base'.labels = base.labels /\ UNCHANGED <<over, doms>>
  PROVE  RoutesInv'
<1>1. Unmoved(new) => Healed(base'.labels, over'.labels, over'.manifest, doms')
  BY DEF RoutesInv, Holds
<1>2. Holds(new, base', over', doms', hand')
  BY <1>1 DEF Holds
<1> QED BY <1>2, RoutesGo DEF Sane

LEMMA RoutesPlain ==
  ASSUME RoutesInv, NEW p \in Ops, NEW new, Request(new), Goto(p, new), Sane,
         new.pc \in {"idle", "page", "patched", "sync"} \/ (new.pc = "normalize" /\ ~Unmoved(new))
  PROVE  RoutesInv'
  BY HoldsNothing, RoutesGo DEF Sane

\* An up reads the override, and generates the routes from what it has read.
LEMMA RoutesRead ==
  ASSUME RouteInputs, RoutesInv, NEW p \in Ops, NEW read, NEW good, Regenerate(p, read, good),
         UNCHANGED <<base, over, doms, hand>>, Labelled(read), ByHand(read, hand),
         read = over \/ "over" \notin good
  PROVE  RoutesInv'
<1>0. Sane /\ \A s \in Svcs : IsLabels(base.labels[s]) /\ IsRouted(base.labels[s])
  BY DEF RoutesInv, Sane, LabelledCompose
<1> DEFINE out == Sync(base.labels, read, doms)
           new == [Reads("routes", good) EXCEPT !.over = out]
           plain == Reads("normalize", good)
<1>1. /\ Labelled(out) /\ Healed(base.labels, out.labels, out.manifest, doms)
      /\ \A s \in Svcs : DOMAIN out.labels[s] \ out.manifest[s]
                           \subseteq DOMAIN read.labels[s] \ read.manifest[s]
  <2>1. IsList(doms) /\ DOMAIN base.labels = Svcs
    BY DEF RoutesInv, LabelledCompose
  <2> QED BY <1>0, <2>1, SyncHeals
<1>2. ByHand(out, hand)
  <2> HIDE DEF out
  <2> QED BY <1>1 DEF ByHand
<1> HIDE DEF out
<1>3. CASE Goto(p, plain) /\ out = over
  <2>1. Request(plain) /\ plain.pc = "normalize" /\ plain.stale = Files \ good
    BY IdleIs, ReadsIs, OnwardIs
  <2> HIDE DEF plain
  <2>2. Holds(plain, base', over', doms', hand')
    BY <1>1, <1>3, <2>1 DEF Holds
  <2> QED BY <1>0, <1>3, <2>1, <2>2, RoutesGo DEF Sane
<1>4. CASE Goto(p, new)
  <2>1. Request(new) /\ new.pc = "routes" /\ new.over = out
    BY DEF Request, Reads, Idle
  <2>a. new.stale = Files \ good
    BY DEF Reads, Idle
  <2> HIDE DEF new
  <2>2. ASSUME "over" \notin new.stale, Elsewhere PROVE Keeps(over', out)
    <3>1. /\ read = over /\ "elsewhere" \notin SuffixesOf(doms) /\ IsList(doms)
          /\ DOMAIN base.labels = Svcs
      BY <2>2, <2>a DEF Elsewhere, RoutesInv, LabelledCompose, Files
    <3>2. ASSUME NEW s \in Svcs, NEW k \in OwnRoutes(over, s)
          PROVE  k \in DOMAIN out.labels[s] /\ out.labels[s][k] = over.labels[s][k]
      BY <1>0, <3>1, OwnKept DEF out
    <3> QED BY <3>2 DEF Keeps, OwnRoutes, Own
  <2>3. Holds(new, base', over', doms', hand')
    BY <1>1, <1>2, <2>1, <2>2 DEF Holds
  <2> QED BY <1>0, <1>4, <2>1, <2>3, RoutesGo DEF Sane
<1> QED BY <1>3, <1>4 DEF Regenerate, out

LEMMA RoutesStep == RouteInputs /\ RoutesInv /\ [Next]_vars => RoutesInv'
<1> SUFFICES ASSUME RouteInputs, RoutesInv, [Next]_vars PROVE RoutesInv'
  OBVIOUS
<1>0. /\ LabelledCompose(base) /\ doms \in Lists /\ IsList(doms) /\ Labelled(over) /\ ByHand(over, hand)
      /\ Requests /\ \A p \in Ops : Holds(op[p], base, over, doms, hand)
  BY DEF RoutesInv
<1>a. ASSUME UNCHANGED <<base, over, doms, hand>> PROVE Sane
  BY <1>0, <1>a DEF Sane
<1>b. ASSUME Labelled(over'), ByHand(over', hand'), UNCHANGED <<base, doms>>, hand \subseteq hand'
      PROVE  Sane
  BY <1>0, <1>b DEF Sane
<1>1. ASSUME NEW p \in Ops, Start(p) PROVE RoutesInv'
  BY <1>a, <1>1, IdleIs, ReadsIs, OnwardIs, RoutesPlain DEF Start, ToUp, files, settings, marks
<1>2. CASE Settings
  <2>1. UNCHANGED <<base, over, hand>> /\ doms' \in Lists /\ IsList(doms')
    BY <1>0, <1>2 DEF Settings, RouteInputs, files, marks
  <2>2. Requests' /\ \A q \in Ops : Told(q)
    BY <1>0, <1>2, SettingsTell
  <2>3. \A q \in Ops : Holds(op'[q], base', over', doms', hand')
    BY <1>0, <2>1, <2>2, HoldsTold
  <2> QED BY <1>0, <2>1, <2>2, <2>3 DEF RoutesInv
<1>3. ASSUME NEW p \in Ops, FillForm(p) PROVE RoutesInv'
  <2>0. UNCHANGED <<base, over, doms, hand>>
    BY <1>3 DEF FillForm, files, settings, marks
  <2>1. PICK read : (read = over \/ read = NoOverride) /\ FillIn(p, read)
    BY <1>3 DEF FillForm
  <2>2. PICK s, what, fields :
          Goto(p, [Reads("form", {"base"}) EXCEPT !.what = what,
                                                  !.over = [read EXCEPT !.fields[s] = fields]])
    BY <2>1 DEF FillIn
  <2> DEFINE o == [read EXCEPT !.fields[s] = fields]
             new == [Reads("form", {"base"}) EXCEPT !.what = what, !.over = o]
  <2>3. Labelled(read) /\ ByHand(read, hand)
    BY <1>0, <2>1, NothingLabelled
  <2>4. o.labels = read.labels /\ o.manifest = read.manifest /\ DOMAIN o = DOMAIN read
    BY <2>3 DEF Labelled
  <2> HIDE DEF o
  <2>5. Labelled(o) /\ ByHand(o, hand)
    BY <2>3, <2>4, SameLabels
  <2>6. Request(new) /\ new.pc = "form" /\ new.over = o
    BY DEF Request, Reads, Idle
  <2>7. Goto(p, new)
    BY <2>2 DEF o
  <2> HIDE DEF new
  <2>8. Holds(new, base', over', doms', hand')
    BY <2>0, <2>5, <2>6 DEF Holds
  <2> QED BY <1>a, <2>0, <2>6, <2>7, <2>8, RoutesGo DEF Sane
<1>4. ASSUME NEW p \in Ops, OpenEditor(p) PROVE RoutesInv'
  <2> DEFINE typed(o) == {l \in OwnLabels(o) :
                            l \notin OwnLabels(over)
                              \/ o.labels[l[1]][l[2]] # over.labels[l[1]][l[2]]}
  <2>0. UNCHANGED <<base, over, doms, hand>>
    BY <1>4 DEF OpenEditor, files, settings, marks
  <2>1. PICK o \in Typed(over) : Goto(p, [Reads("typed", {}) EXCEPT !.over = o, !.what = typed(o)])
    BY <1>4 DEF OpenEditor
  <2> DEFINE new == [Reads("typed", {}) EXCEPT !.over = o, !.what = typed(o)]
  <2>2. Labelled(o)
    BY <1>0 DEF RouteInputs
  <2>3. ByHand(o, hand \cup typed(o))
    <3> SUFFICES ASSUME NEW s \in Svcs, NEW k \in DOMAIN o.labels[s] \ o.manifest[s]
                 PROVE  <<s, k>> \in hand \cup typed(o)
      BY DEF ByHand
    <3>1. <<s, k>> \in Svcs \X UNION {DOMAIN o.labels[t] : t \in Svcs}
      OBVIOUS
    <3>2. <<s, k>> \in OwnLabels(o)
      BY <3>1 DEF OwnLabels, Own
    <3>3. CASE <<s, k>> \in OwnLabels(over)
      BY <1>0, <3>3 DEF ByHand, OwnLabels, Own
    <3>4. CASE <<s, k>> \notin OwnLabels(over)
      BY <3>2, <3>4
    <3> QED BY <3>3, <3>4
  <2> HIDE DEF typed
  <2>4. Request(new) /\ new.pc = "typed" /\ new.over = o /\ new.what = typed(o)
    BY DEF Request, Reads, Idle
  <2> HIDE DEF new
  <2>5. Holds(new, base', over', doms', hand')
    BY <2>0, <2>2, <2>3, <2>4 DEF Holds
  <2> QED BY <1>a, <2>0, <2>1, <2>4, <2>5, RoutesGo DEF Sane, new
<1>5. ASSUME NEW p \in Ops, SaveOverride(p) PROVE RoutesInv'
  <2>0. UNCHANGED <<base, doms>>
    BY <1>5 DEF SaveOverride, settings
  <2>1. CASE UNCHANGED <<over, hand>> /\ Goto(p, Idle)
    BY <1>a, <2>0, <2>1, IdleIs, ReadsIs, OnwardIs, RoutesPlain
  <2>2. CASE /\ over' = op[p].over /\ Goto(p, ToUp)
             /\ IF op[p].pc = "form" THEN UNCHANGED hand ELSE hand' = hand \cup op[p].what
    <3>1. /\ Labelled(over') /\ ByHand(over', hand') /\ hand \subseteq hand'
      BY <1>0, <1>5, <2>2 DEF SaveOverride, Holds
    <3> QED BY <1>b, <2>0, <2>2, <3>1, IdleIs, ReadsIs, OnwardIs, RoutesPlain DEF ToUp
  <2> QED BY <1>5, <2>1, <2>2 DEF SaveOverride, marks
<1>6. ASSUME NEW p \in Ops, ReadFields(p) PROVE RoutesInv'
  <2>0. UNCHANGED <<base, over, doms, hand>>
    BY <1>6 DEF ReadFields, files, settings, marks
  <2>1. PICK o, read : /\ Labelled(o) /\ ByHand(o, hand)
                       /\ Goto(p, [Reads("fields", read) EXCEPT !.over = o])
    <3>1. CASE \E d \in Decoded(over) :
                 Goto(p, [Reads("fields", {"over"}) EXCEPT !.over = [d EXCEPT !.tips = TRUE]])
      BY <1>0, <3>1, DecodedLabels
    <3>2. CASE Goto(p, [Reads("fields", {}) EXCEPT !.over = [NoOverride EXCEPT !.tips = TRUE]])
      <4> DEFINE t == [NoOverride EXCEPT !.tips = TRUE]
      <4>1. /\ DOMAIN t = DOMAIN NoOverride /\ t.labels = NoOverride.labels
            /\ t.manifest = NoOverride.manifest
        BY DEF NoOverride
      <4>2. Labelled(t) /\ ByHand(t, hand)
        <5> HIDE DEF t
        <5> QED BY <4>1, NothingLabelled, SameLabels
      <4> QED BY <3>2, <4>2
    <3> QED BY <1>6, <3>1, <3>2 DEF ReadFields
  <2> DEFINE new == [Reads("fields", read) EXCEPT !.over = o]
  <2>2. Request(new) /\ new.over = o /\ new.pc = "fields"
    BY DEF Request, Reads, Idle
  <2> HIDE DEF new
  <2>3. Holds(new, base', over', doms', hand')
    BY <2>0, <2>1, <2>2 DEF Holds
  <2> QED BY <1>a, <2>0, <2>1, <2>2, <2>3, RoutesGo DEF Sane, new
<1>7. ASSUME NEW p \in Ops, WriteFields(p) PROVE RoutesInv'
  <2>1. /\ op[p].pc = "fields" /\ UNCHANGED <<base, doms, hand>> /\ over' = op[p].over
        /\ Goto(p, Idle) \/ Goto(p, ToUp)
    BY <1>7 DEF WriteFields, settings
  <2>2. Labelled(over') /\ ByHand(over', hand')
    BY <1>0, <2>1 DEF Holds
  <2> QED BY <1>b, <2>1, <2>2, IdleIs, ReadsIs, OnwardIs, RoutesPlain DEF ToUp
<1>8. ASSUME NEW p \in Ops, OverrideFails(p) PROVE RoutesInv'
  <2> DEFINE new == IF op[p].pc = "routes" THEN Onward(p, "normalize", {"over"}) ELSE Idle
  <2>1. /\ UNCHANGED <<base, doms, hand>> /\ Goto(p, new)
        /\ over' = over \/ over' = NoOverride
    BY <1>8 DEF OverrideFails, settings
  <2>2. Request(new) /\ (new.pc = "idle" \/ (new.pc = "normalize" /\ ~Unmoved(new)))
    BY IdleIs, ReadsIs, OnwardIs DEF Unmoved
  <2>3. Labelled(over') /\ ByHand(over', hand')
    BY <1>0, <2>1, NothingLabelled
  <2> HIDE DEF new
  <2> QED BY <1>b, <2>1, <2>2, <2>3, RoutesPlain
<1>9. ASSUME NEW p \in Ops, Update(p) PROVE RoutesInv'
  <2>1. /\ LabelledCompose(base') /\ UNCHANGED <<over, doms, hand>> /\ Goto(p, ToUp)
    BY <1>9, WrittenLabels DEF Update, RouteInputs, settings
  <2>2. Sane
    BY <1>0, <2>1 DEF Sane
  <2> QED BY <2>1, <2>2, IdleIs, ReadsIs, OnwardIs, RoutesPlain DEF ToUp
<1>10. ASSUME NEW p \in Ops, OpenEnv(p) PROVE RoutesInv'
  <2>1. /\ UNCHANGED <<base, over, doms, hand>>
        /\ \E list : Goto(p, [Reads("page", {}) EXCEPT !.vars = list])
    BY <1>10 DEF OpenEnv, files, settings, marks
  <2>2. PICK list : Goto(p, [Reads("page", {}) EXCEPT !.vars = list])
    BY <2>1
  <2> DEFINE new == [Reads("page", {}) EXCEPT !.vars = list]
  <2>3. Request(new) /\ new.pc = "page"
    BY DEF Request, Reads, Idle
  <2> HIDE DEF new
  <2> QED BY <1>a, <2>1, <2>2, <2>3, RoutesPlain DEF new
<1>11. ASSUME NEW p \in Ops, SetEnv(p) PROVE RoutesInv'
  <2> DEFINE new == IF ValidVars(op[p].vars)
                    THEN [op[p] EXCEPT !.pc = "patched", !.vars = Patch(env, @)] ELSE Idle
  <2>1. UNCHANGED <<base, over, doms, hand>> /\ Goto(p, new)
    BY <1>11 DEF SetEnv, files, settings, marks
  <2>2. Request(new) /\ new.pc \in {"idle", "patched"}
    BY <1>0, IdleIs, ReadsIs, OnwardIs DEF Request, Requests
  <2> HIDE DEF new
  <2> QED BY <1>a, <2>1, <2>2, RoutesPlain
<1>12. ASSUME NEW p \in Ops, SaveEnv(p) PROVE RoutesInv'
  BY <1>a, <1>12, IdleIs, ReadsIs, OnwardIs, RoutesPlain DEF SaveEnv, ToUp, settings, marks
<1>13. ASSUME NEW p \in Ops, EnvFails(p) PROVE RoutesInv'
  <2>1. UNCHANGED <<base, over, doms, hand>>
    BY <1>13 DEF EnvFails, settings, marks
  <2>2. CASE op[p].pc = "vars"
    <3>1. Goto(p, Onward(p, "up", {"env"}))
      BY <1>13, <2>2 DEF EnvFails
    <3> DEFINE on == Onward(p, "up", {"env"})
    <3>2. Request(on) /\ on.pc = "up" /\ on.stale = op[p].stale \cup {"env"}
      BY OnwardIs
    <3> HIDE DEF on
    <3> QED BY <1>a, <2>1, <2>2, <3>1, <3>2, RoutesPass DEF Unmoved, on
  <2>3. CASE op[p].pc # "vars"
    BY <1>13, <1>a, <2>1, <2>3, IdleIs, ReadsIs, OnwardIs, RoutesPlain DEF EnvFails
  <2> QED BY <2>2, <2>3
<1>14. ASSUME NEW p \in Ops, ReadRoutes(p) PROVE RoutesInv'
  <2>0. UNCHANGED <<base, over, doms, hand>>
    BY <1>14 DEF ReadRoutes, files, settings, marks
  <2>1. CASE Regenerate(p, over, {"base", "over", "settings"})
    BY <1>0, <2>0, <2>1, RoutesRead
  <2>2. CASE Regenerate(p, NoOverride, {"base", "settings"})
    BY <2>0, <2>2, NothingLabelled, RoutesRead
  <2>3. CASE Goto(p, Reads("normalize", {}))
    <3>1. Files \ {} = Files /\ "over" \in Files
      BY DEF Files
    <3> QED BY <1>a, <2>0, <2>3, <3>1, IdleIs, ReadsIs, OnwardIs, RoutesPlain DEF Unmoved
  <2> QED BY <1>14, <2>1, <2>2, <2>3 DEF ReadRoutes
<1>15. ASSUME NEW p \in Ops, WriteRoutes(p) PROVE RoutesInv'
  <2> DEFINE new == Onward(p, "normalize", {})
  <2>1. /\ op[p].pc = "routes" /\ UNCHANGED <<base, doms, hand>> /\ over' = op[p].over
        /\ Goto(p, new)
    BY <1>15 DEF WriteRoutes, settings
  <2>2. Labelled(over') /\ ByHand(over', hand')
    BY <1>0, <2>1 DEF Holds
  <2>3. Request(new) /\ new.pc = "normalize" /\ new.stale = op[p].stale \cup {}
    BY DEF Request, Idle, Onward
  <2> HIDE DEF new
  <2>4. Holds(new, base', over', doms', hand')
    BY <1>0, <2>1, <2>3 DEF Holds, Unmoved
  <2> QED BY <1>b, <2>1, <2>2, <2>3, <2>4, RoutesGo DEF Sane
<1>16. ASSUME NEW p \in Ops, ReadCompose(p) PROVE RoutesInv'
  <2>0. UNCHANGED <<base, over, doms, hand>> /\ op[p].pc = "normalize"
    BY <1>16 DEF ReadCompose, files, settings, marks
  <2>1. PICK bad, net :
          \/ Goto(p, Onward(p, "env", bad))
          \/ Goto(p, [Onward(p, "compose", bad) EXCEPT !.base = Written(base, net)])
    BY <1>16, Zenon DEF ReadCompose
  <2> DEFINE new == [Onward(p, "compose", bad) EXCEPT !.base = Written(base, net)]
  <2>2. CASE Goto(p, Onward(p, "env", bad))
    <3> DEFINE on == Onward(p, "env", bad)
    <3>1. Request(on) /\ on.pc = "env" /\ on.stale = op[p].stale \cup bad
      BY OnwardIs
    <3> HIDE DEF on
    <3> QED BY <1>a, <2>0, <2>2, <3>1, RoutesPass DEF Unmoved, on
  <2>3. CASE Goto(p, new)
    <3>1. /\ Request(new) /\ new.pc = "compose" /\ new.base = Written(base, net)
          /\ new.stale = op[p].stale \cup bad
      BY DEF Request, Onward, Idle
    <3>2. LabelledCompose(Written(base, net)) /\ Written(base, net).labels = base.labels
      BY <1>0, WrittenLabels
    <3> HIDE DEF new
    <3>3. Holds(new, base', over', doms', hand')
      BY <1>0, <2>0, <3>1, <3>2 DEF Holds, Unmoved
    <3> QED BY <1>a, <2>0, <2>3, <3>1, <3>3, RoutesGo DEF Sane
  <2> QED BY <2>1, <2>2, <2>3
<1>17. ASSUME NEW p \in Ops, WriteCompose(p) PROVE RoutesInv'
  <2>1. /\ op[p].pc = "compose" /\ UNCHANGED <<over, doms, hand>> /\ base' = op[p].base
        /\ Goto(p, Onward(p, "env", {}))
    BY <1>17 DEF WriteCompose, settings
  <2>2. LabelledCompose(base') /\ ("base" \notin op[p].stale => base'.labels = base.labels)
    BY <1>0, <2>1 DEF Holds
  <2>3. Sane
    BY <1>0, <2>1, <2>2 DEF Sane
  <2> DEFINE on == Onward(p, "env", {})
  <2>4. Request(on) /\ on.pc = "env" /\ on.stale = op[p].stale \cup {}
    BY DEF Request, Idle, Onward
  <2> HIDE DEF on
  <2> QED BY <2>1, <2>2, <2>3, <2>4, RoutesPass DEF Unmoved, on
<1>18. ASSUME NEW p \in Ops, ComposeFails(p) PROVE RoutesInv'
  <2>1. /\ op[p].pc = "compose" /\ UNCHANGED <<base, over, doms, hand>>
        /\ Goto(p, Onward(p, "env", {"base"}))
    BY <1>18 DEF ComposeFails, settings
  <2> DEFINE on == Onward(p, "env", {"base"})
  <2>2. Request(on) /\ on.pc = "env" /\ on.stale = op[p].stale \cup {"base"}
    BY OnwardIs
  <2> HIDE DEF on
  <2> QED BY <1>a, <2>1, <2>2, RoutesPass DEF Unmoved, on
<1>19. ASSUME NEW p \in Ops, ReadVars(p) PROVE RoutesInv'
  <2>0. UNCHANGED <<base, over, doms, hand>> /\ op[p].pc = "env"
    BY <1>19 DEF ReadVars, files, settings, marks
  <2>1. PICK new : /\ Goto(p, new) /\ Request(new) /\ new.pc \in {"up", "vars"}
                   /\ op[p].stale \ {"env"} \subseteq new.stale
    <3>1. ASSUME NEW bad, NEW new PROVE
            LET read == [Onward(p, "up", bad) EXCEPT !.stale = @ \ {"env"}]
                more == [read EXCEPT !.pc = "vars", !.vars = new]
            IN /\ Request(read) /\ read.pc = "up" /\ op[p].stale \ {"env"} \subseteq read.stale
               /\ Request(more) /\ more.pc = "vars" /\ op[p].stale \ {"env"} \subseteq more.stale
      BY DEF Request, Onward, Idle
    <3>2. CASE Goto(p, Onward(p, "up", {"env"}))
      BY <3>2, IdleIs, ReadsIs, OnwardIs
    <3>3. CASE ~Goto(p, Onward(p, "up", {"env"}))
      <4>1. PICK known :
              LET bad == IF known = Loaded(dep) THEN {} ELSE {"settings"}
                  new == EnsureVars(env, Owned, known)
                  read == [Onward(p, "up", bad) EXCEPT !.stale = @ \ {"env"}]
              IN Goto(p, IF new = env THEN read ELSE [read EXCEPT !.pc = "vars", !.vars = new])
        BY <1>19, <3>3 DEF ReadVars
      <4> QED BY <3>1, <4>1
    <3> QED BY <3>2, <3>3
  <2> QED BY <1>a, <2>0, <2>1, RoutesPass DEF Unmoved
<1>20. ASSUME NEW p \in Ops, WriteVars(p) PROVE RoutesInv'
  <2>1. UNCHANGED <<base, over, doms, hand>> /\ op[p].pc = "vars" /\ Goto(p, Onward(p, "up", {}))
    BY <1>20 DEF WriteVars, settings, marks
  <2> DEFINE on == Onward(p, "up", {})
  <2>2. Request(on) /\ on.pc = "up" /\ on.stale = op[p].stale \cup {}
    BY DEF Request, Idle, Onward
  <2> HIDE DEF on
  <2> QED BY <1>a, <2>1, <2>2, RoutesPass DEF Unmoved, on
<1>21. ASSUME NEW p \in Ops, ComposeUp(p) PROVE RoutesInv'
  BY <1>a, <1>21, IdleIs, ReadsIs, OnwardIs, RoutesPlain DEF ComposeUp, files, settings, marks
<1>22. CASE UNCHANGED vars
  BY <1>0, <1>22 DEF vars, files, settings, marks, RoutesInv, Requests, Holds, ByHand
<1> QED BY <1>1, <1>2, <1>3, <1>4, <1>5, <1>6, <1>7, <1>8, <1>9, <1>10, <1>11, <1>12, <1>13,
           <1>14, <1>15, <1>16, <1>17, <1>18, <1>19, <1>20, <1>21, <1>22 DEF Next

\* An up that reads and writes its files, and that nothing interrupts, publishes each route
\* of the store's on each domain of the list, except where the operator's labels take it over,
\* over no label of the store's and on no other domain, for any labels, any override and any
\* lists of domains.
THEOREM RoutesTheorem ==
  ASSUME RouteInputs
  PROVE  Spec => []RoutesHealed
<1>1. Init => RoutesInv
  BY RoutesInit
<1>2. RoutesInv /\ [Next]_vars => RoutesInv'
  BY RoutesStep
<1> QED BY <1>1, <1>2, InvHealed, PTL DEF Spec

-----------------------------------------------------------------------------
(* The deployment, and the variables that are the operator's *)

\* A store's compose: it has none of the networks an older version attached.
StoreCompose(c) ==
  /\ {"labels", "nets", "binds"} \subseteq DOMAIN c
  /\ {"declared", "lists"} \subseteq DOMAIN c.nets
  /\ DOMAIN c.binds = Svcs /\ DOMAIN c.nets.lists = Svcs
  /\ \A s \in Svcs : c.nets.lists[s] \subseteq DOMAIN c.nets.declared
  /\ \A k \in DOMAIN c.nets.declared \ {AppNetKey} :
       c.nets.declared[k] \notin {"key", "reference"}

\* What is asked of the store, of the variables there were and of the settings.
DeployInputs ==
  /\ 1 \in DOMAIN Store /\ \A v \in DOMAIN Store : StoreCompose(Store[v])
  /\ "pcs" \notin DOMAIN Store[1].nets.declared
  /\ Main \in Svcs /\ MaxNews \in Nat
  /\ IsOrder(Owned) /\ \A d \in Deployments : DOMAIN d \subseteq ToSet(Owned)
  /\ \A e \in EnvFiles : IsSeq(e)

\* The compose is one of the store's, with other networks beside its own.
Derived(c, v) ==
  /\ {"labels", "nets", "binds"} \subseteq DOMAIN c /\ c.labels = Store[v].labels
  /\ {"declared", "lists"} \subseteq DOMAIN c.nets
  /\ DOMAIN c.binds = Svcs /\ DOMAIN c.nets.lists = Svcs
  /\ \A s \in Svcs : c.nets.lists[s] \subseteq DOMAIN c.nets.declared
  /\ DOMAIN Store[v].nets.declared \subseteq DOMAIN c.nets.declared
  /\ \A k \in DOMAIN Store[v].nets.declared \ {AppNetKey} :
       c.nets.declared[k] \notin {"key", "reference"}
FromStore(c) == \E v \in DOMAIN Store : Derived(c, v)

\* The files follow a deployment.
FollowsStore(c, d) ==
  /\ \E v \in DOMAIN Store : /\ Store[v].labels = c.labels
                             /\ AppNet(d) => FollowsDeployment(c.nets, Store[v].nets, Main)
  /\ \A s \in Svcs : c.binds[s] \cap {"/DATA", "host"} = {}
FollowsVars(e, d) ==
  ValidVars(Parse(e)) =>
    \A k \in DOMAIN Loaded(d) : k \in KeysIn(e) /\ Value(e, k) = d[k]
KeepsVars(e, new) ==
  \A k \in KeysIn(e) \ ToSet(Owned) : k \in KeysIn(new) /\ Value(new, k) = Value(e, k)

\* What a request holds of the compose and of the variables follows the deployment, and so
\* do the files that it has been through, where nobody has changed them since.
Unswayed(r, f) == {f, "settings"} \cap r.stale = {}

Page(r, b, e, d) ==
  /\ r.pc \in Pcs /\ r.stale \subseteq Files
  /\ r.pc \in {"page", "patched", "vars"} => IsSeq(r.vars)
  /\ r.pc = "compose" =>
       FromStore(r.base) /\ ("settings" \notin r.stale => FollowsStore(r.base, d))
  /\ r.pc \in {"env", "vars", "up"} /\ Unswayed(r, "base") => FollowsStore(b, d)
  /\ r.pc = "vars" /\ "settings" \notin r.stale => FollowsVars(r.vars, d)
  /\ r.pc = "vars" /\ "env" \notin r.stale => KeepsVars(e, r.vars)
  /\ r.pc = "up" /\ Unswayed(r, "env") => FollowsVars(e, d)

DeployInv ==
  /\ FromStore(base) /\ IsSeq(env)
  /\ doms \in Lists /\ dep \in Deployments /\ torn \subseteq {"base", "over"}
  /\ news \in 0..MaxNews
  /\ Requests /\ \A p \in Ops : Page(op[p], base, env, dep)

LEMMA DerivedStore ==
  ASSUME NEW v \in DOMAIN Store, StoreCompose(Store[v])
  PROVE  Derived(Store[v], v)
  BY DEF StoreCompose, Derived

\* However old the compose, what is written follows the deployment.
LEMMA WrittenFollows ==
  ASSUME NEW c, NEW d, NEW net \in BOOLEAN, FromStore(c), Main \in Svcs
  PROVE  /\ FromStore(Written(c, net))
         /\ net = AppNet(d) => FollowsStore(Written(c, net), d)
<1>0. PICK v \in DOMAIN Store : Derived(c, v)
  BY DEF FromStore
<1> DEFINE new == Written(c, net)
           stale == StaleNetworks(c.nets.declared)
           left == Restrict(c.nets.declared, DOMAIN c.nets.declared \ stale)
           attached == [declared |-> Declare(left, AppNetKey, "reference"),
                        lists |-> [s \in Svcs |->
                          (c.nets.lists[s] \ stale) \cup IF s = Main THEN {AppNetKey} ELSE {}]]
           nets == IF net THEN attached ELSE c.nets
           binds == [s \in Svcs |-> {RefDataRoot(src) : src \in c.binds[s]}]
<1>1. new = [c EXCEPT !.nets = nets, !.binds = binds]
  BY <1>0 DEF Written, Transformed, Attach, Derived
<1>2. /\ {"labels", "nets", "binds"} \subseteq DOMAIN new /\ new.labels = c.labels
      /\ new.nets = nets /\ new.binds = binds
  BY <1>0, <1>1 DEF Derived
<1>3. /\ DOMAIN attached.declared = (DOMAIN c.nets.declared \ stale) \cup {AppNetKey}
      /\ attached.declared[AppNetKey] = "reference"
      /\ \A k \in DOMAIN c.nets.declared \ (stale \cup {AppNetKey}) :
           attached.declared[k] = c.nets.declared[k]
      /\ DOMAIN attached.lists = Svcs
      /\ \A s \in Svcs : attached.lists[s]
                           = (c.nets.lists[s] \ stale)
                               \cup IF s = Main THEN {AppNetKey} ELSE {}
      /\ {"declared", "lists"} \subseteq DOMAIN attached
  BY DEF Declare, Restrict
<1>4. stale = {k \in DOMAIN c.nets.declared \ {AppNetKey} :
                 c.nets.declared[k] \in {"key", "reference"}}
  BY DEF StaleNetworks
<1>5. DOMAIN binds = Svcs /\ \A s \in Svcs : binds[s] \cap {"/DATA", "host"} = {}
  BY DEF RefDataRoot
<1>a. nets = IF net THEN attached ELSE c.nets
  OBVIOUS
<1> HIDE DEF new, stale, attached, nets, binds
<1>6. /\ \A s \in Svcs : attached.lists[s] \subseteq DOMAIN attached.declared
      /\ DOMAIN Store[v].nets.declared \subseteq DOMAIN attached.declared
      /\ \A k \in DOMAIN attached.declared \ {AppNetKey} :
           attached.declared[k] \notin {"key", "reference"}
      /\ AppNetKey \in attached.lists[Main]
  BY <1>0, <1>3, <1>4 DEF Derived
<1>7. Derived(new, v)
  <2>1. CASE net
    BY <1>0, <1>2, <1>3, <1>5, <1>6, <1>a, <2>1 DEF Derived
  <2>2. CASE ~net
    BY <1>0, <1>2, <1>5, <1>a, <2>2 DEF Derived
  <2> QED BY <2>1, <2>2
<1>8. net => FollowsDeployment(new.nets, Store[v].nets, Main)
  BY <1>2, <1>3, <1>6, <1>a DEF FollowsDeployment
<1>9. net = AppNet(d) => FollowsStore(new, d)
  BY <1>0, <1>2, <1>5, <1>7, <1>8 DEF FollowsStore, Derived
<1> QED BY <1>7, <1>9 DEF new, FromStore

\* A request that is told holds what it did.
LEMMA PageTold ==
  ASSUME NEW q \in Ops, Told(q), Page(op[q], base, env, dep)
  PROVE  Page(op'[q], base', env', dep')
<1> DEFINE r == op[q]
           new == op'[q]
<1>1. /\ new.pc = r.pc /\ new.base = r.base /\ new.vars = r.vars
      /\ r.stale \subseteq new.stale /\ new.stale \subseteq r.stale \cup Files
      /\ "base" \notin new.stale => base' = base
      /\ "env" \notin new.stale => env' = env
      /\ "settings" \notin new.stale => dep' = dep
  BY DEF Told
<1> HIDE DEF r, new
<1>2. Page(r, base, env, dep)
  BY DEF r
<1>3. new.pc \in Pcs /\ new.stale \subseteq Files
  BY <1>1, <1>2 DEF Page
<1>4. /\ "settings" \notin new.stale => "settings" \notin r.stale
      /\ "env" \notin new.stale => "env" \notin r.stale
      /\ Unswayed(new, "base") => Unswayed(r, "base") /\ base' = base /\ dep' = dep
      /\ Unswayed(new, "env") => Unswayed(r, "env") /\ env' = env /\ dep' = dep
  BY <1>1 DEF Unswayed
<1>5. Page(new, base', env', dep')
  BY <1>1, <1>2, <1>3, <1>4 DEF Page
<1> QED BY <1>5 DEF new

\* What a step leaves of the files and the settings.
Kept == /\ FromStore(base') /\ IsSeq(env') /\ doms' \in Lists /\ dep' \in Deployments
        /\ torn' \subseteq {"base", "over"} /\ news' \in 0..MaxNews

\* A request goes on, the others are told.
LEMMA DeployGoes ==
  ASSUME DeployInv, NEW p \in Ops, NEW new, Request(new), Goto(p, new), Kept,
         Page(new, base', env', dep')
  PROVE  DeployInv'
<1>1. Requests' /\ op'[p] = new /\ \A q \in Ops \ {p} : Told(q)
  BY GotoIs DEF DeployInv
<1>2. ASSUME NEW q \in Ops PROVE Page(op'[q], base', env', dep')
  BY <1>1, PageTold DEF DeployInv
<1> QED BY <1>1, <1>2 DEF DeployInv, Kept

\* A request that holds nothing of these.
LEMMA DeployPlain ==
  ASSUME DeployInv, NEW p \in Ops, NEW new, Request(new), Goto(p, new), Kept,
         new.pc \in {"idle", "form", "typed", "fields", "sync", "routes", "normalize"},
         new.stale \subseteq Files
  PROVE  DeployInv'
<1>1. Page(new, base', env', dep')
  BY DEF Page, Pcs
<1> QED BY <1>1, DeployGoes

\* The files of an app that is installed are those of the store.
LEMMA DeployInit == DeployInputs /\ Init => DeployInv
<1> SUFFICES ASSUME DeployInputs, Init PROVE DeployInv
  OBVIOUS
<1>1. FromStore(base)
  <2>1. StoreCompose(Store[1]) /\ 1 \in DOMAIN Store
    BY DEF DeployInputs
  <2>2. CASE base = Written(Store[1], AppNet(dep))
    <3>1. FromStore(Store[1]) /\ AppNet(dep) \in BOOLEAN /\ Main \in Svcs
      BY <2>1, DerivedStore DEF FromStore, AppNet, DeployInputs
    <3> QED BY <2>2, <3>1, WrittenFollows
  <2>3. CASE base = [Store[1] EXCEPT !.nets.declared = Declare(@, "pcs", "key"),
                                     !.nets.lists[Main] = @ \cup {"pcs"}]
    <3> DEFINE c == Store[1]
               declared == Declare(c.nets.declared, "pcs", "key")
               lists == [c.nets.lists EXCEPT ![Main] = @ \cup {"pcs"}]
    <3>1. /\ DOMAIN base = DOMAIN c /\ base.labels = c.labels /\ base.binds = c.binds
          /\ DOMAIN base.nets = DOMAIN c.nets
          /\ base.nets.declared = declared /\ base.nets.lists = lists
      BY <2>1, <2>3 DEF StoreCompose
    <3>2. /\ DOMAIN declared = DOMAIN c.nets.declared \cup {"pcs"}
          /\ \A k \in DOMAIN c.nets.declared : declared[k] = c.nets.declared[k]
      BY DEF Declare, DeployInputs
    <3>3. /\ DOMAIN lists = Svcs
          /\ \A s \in Svcs : lists[s] \subseteq c.nets.lists[s] \cup {"pcs"}
      BY <2>1 DEF StoreCompose
    <3> HIDE DEF declared, lists
    <3>4. Derived(base, 1)
      BY <2>1, <3>1, <3>2, <3>3 DEF StoreCompose, Derived
    <3> QED BY <2>1, <3>4 DEF FromStore
  <2> QED BY <2>2, <2>3 DEF Init
<1>2. /\ IsSeq(env) /\ doms \in Lists /\ dep \in Deployments /\ torn \subseteq {"base", "over"}
      /\ news \in 0..MaxNews
  BY DEF Init, DeployInputs
<1>3. DOMAIN op = Ops /\ \A p \in Ops : op[p] = Idle
  BY DEF Init
<1>4. Page(Idle, base, env, dep)
  BY IdleIs DEF Page, Pcs
<1> QED BY <1>1, <1>2, <1>3, <1>4, IdleIs DEF DeployInv, Requests

\* A prefix of a .env.
LEMMA CutIs ==
  ASSUME NEW s, IsSeq(s), NEW n \in 0..(Len(s) - 1)
  PROVE  IsSeq(SubSeq(s, 1, n))
<1>1. Len(s) \in Nat /\ DOMAIN s = 1..Len(s) /\ s = [i \in 1..Len(s) |-> s[i]]
  BY SeqIs
<1> DEFINE S == {s[i] : i \in 1..Len(s)}
<1>2. s \in Seq(S)
  <2>1. \A i \in 1..Len(s) : s[i] \in S
    OBVIOUS
  <2> HIDE DEF S
  <2>2. s \in [1..Len(s) -> S]
    BY <1>1, <2>1
  <2> QED BY <1>1, <2>2, SeqDef
<1> HIDE DEF S
<1>3. \A i \in 1..n : s[i] \in S
  BY <1>1, <1>2, ElementOfSeq
<1>4. SubSeq(s, 1, n) \in Seq(S) /\ Len(SubSeq(s, 1, n)) \in Nat
  <2>1. SubSeq(s, 1, n) \in Seq(S)
    BY <1>1, <1>2, <1>3, SubSeqProperties
  <2> QED BY <2>1
<1>5. SubSeq(s, 1, n) = [i \in 1..Len(SubSeq(s, 1, n)) |-> SubSeq(s, 1, n)[i]]
  BY <1>4
<1> QED BY <1>4, <1>5 DEF IsSeq

LEMMA DeployStep == DeployInputs /\ DeployInv /\ [Next]_vars => DeployInv'
<1> SUFFICES ASSUME DeployInputs, DeployInv, [Next]_vars PROVE DeployInv'
  OBVIOUS
<1>0. /\ FromStore(base) /\ IsSeq(env) /\ doms \in Lists /\ dep \in Deployments
      /\ torn \subseteq {"base", "over"} /\ news \in 0..MaxNews /\ MaxNews \in Nat
      /\ Requests /\ \A p \in Ops : Page(op[p], base, env, dep)
  BY DEF DeployInv, DeployInputs
<1>a. ASSUME News \/ UNCHANGED news PROVE news' \in 0..MaxNews
  BY <1>0, <1>a DEF News
<1>b. ASSUME UNCHANGED <<base, env, torn, settings>>, News \/ UNCHANGED news PROVE Kept
  BY <1>0, <1>a, <1>b DEF Kept, settings
<1>c. ASSUME UNCHANGED <<base, env, settings>>, torn' \subseteq torn \cup {"over"},
             News \/ UNCHANGED news
      PROVE  Kept
  BY <1>0, <1>a, <1>c DEF Kept, settings
<1>d. ASSUME UNCHANGED <<base, torn, settings>>, IsSeq(env'), News \/ UNCHANGED news PROVE Kept
  BY <1>0, <1>a, <1>d DEF Kept, settings
<1>e. \A read : Files \ read \subseteq Files
  OBVIOUS
<1>1. ASSUME NEW p \in Ops, Start(p) PROVE DeployInv'
  <2>1. UNCHANGED <<base, env, torn, settings>> /\ (News \/ UNCHANGED news) /\ Goto(p, ToUp)
    BY <1>1 DEF Start, Asked, files
  <2> QED BY <1>b, <1>e, <2>1, ReadsIs, DeployPlain DEF ToUp
<1>2. CASE Settings
  <2>1. /\ UNCHANGED <<base, env, torn>> /\ doms' \in Lists /\ dep' \in Deployments
        /\ news' \in 0..MaxNews
    BY <1>0, <1>2, <1>a DEF Settings, files, marks
  <2>2. Requests' /\ \A q \in Ops : Told(q)
    BY <1>0, <1>2, SettingsTell
  <2>3. \A q \in Ops : Page(op'[q], base', env', dep')
    BY <1>0, <2>2, PageTold
  <2> QED BY <1>0, <2>1, <2>2, <2>3 DEF DeployInv
<1>3. ASSUME NEW p \in Ops, FillForm(p) PROVE DeployInv'
  <2>1. PICK what, o : Goto(p, [Reads("form", {"base"}) EXCEPT !.what = what, !.over = o])
    BY <1>3 DEF FillForm, FillIn
  <2> DEFINE new == [Reads("form", {"base"}) EXCEPT !.what = what, !.over = o]
  <2>2. Request(new) /\ new.pc = "form" /\ new.stale \subseteq Files
    BY DEF Request, Reads, Idle
  <2>3. Kept
    BY <1>3, <1>b DEF FillForm, Asked, files
  <2> HIDE DEF new
  <2> QED BY <2>1, <2>2, <2>3, DeployPlain DEF new
<1>4. ASSUME NEW p \in Ops, OpenEditor(p) PROVE DeployInv'
  <2>1. PICK what, o : Goto(p, [Reads("typed", {}) EXCEPT !.over = o, !.what = what])
    BY <1>4 DEF OpenEditor
  <2> DEFINE new == [Reads("typed", {}) EXCEPT !.over = o, !.what = what]
  <2>2. Request(new) /\ new.pc = "typed" /\ new.stale \subseteq Files
    BY DEF Request, Reads, Idle
  <2>3. Kept
    BY <1>4, <1>b DEF OpenEditor, Asked, files
  <2> HIDE DEF new
  <2> QED BY <2>1, <2>2, <2>3, DeployPlain DEF new
<1>5. ASSUME NEW p \in Ops, SaveOverride(p) PROVE DeployInv'
  <2>1. /\ UNCHANGED <<base, env, settings, news>> /\ torn' \subseteq torn
        /\ Goto(p, ToUp) \/ Goto(p, Idle)
    BY <1>5 DEF SaveOverride
  <2> QED BY <1>c, <1>e, <2>1, IdleIs, ReadsIs, DeployPlain DEF ToUp
<1>6. ASSUME NEW p \in Ops, ReadFields(p) PROVE DeployInv'
  <2>1. PICK o, read : Goto(p, [Reads("fields", read) EXCEPT !.over = o])
    BY <1>6 DEF ReadFields
  <2> DEFINE new == [Reads("fields", read) EXCEPT !.over = o]
  <2>2. Request(new) /\ new.pc = "fields" /\ new.stale \subseteq Files
    BY DEF Request, Reads, Idle
  <2>3. Kept
    BY <1>6, <1>b DEF ReadFields, Asked, files
  <2> HIDE DEF new
  <2> QED BY <2>1, <2>2, <2>3, DeployPlain DEF new
<1>7. ASSUME NEW p \in Ops, WriteFields(p) PROVE DeployInv'
  <2>1. /\ UNCHANGED <<base, env, settings, news>> /\ torn' \subseteq torn
        /\ Goto(p, Idle) \/ Goto(p, ToUp)
    BY <1>7 DEF WriteFields
  <2> QED BY <1>c, <1>e, <2>1, IdleIs, ReadsIs, DeployPlain DEF ToUp
<1>8. ASSUME NEW p \in Ops, OverrideFails(p) PROVE DeployInv'
  <2> DEFINE new == IF op[p].pc = "routes" THEN Onward(p, "normalize", {"over"}) ELSE Idle
  <2>1. /\ UNCHANGED <<base, env, settings>> /\ News /\ torn' \subseteq torn \cup {"over"}
        /\ Goto(p, new)
    BY <1>8 DEF OverrideFails
  <2>2. op[p].stale \cup {"over"} \subseteq Files
    BY <1>0 DEF Page, Files
  <2>3. Request(new) /\ new.pc \in {"idle", "normalize"} /\ new.stale \subseteq Files
    BY <2>2, IdleIs, OnwardIs
  <2> HIDE DEF new
  <2> QED BY <1>c, <2>1, <2>3, DeployPlain
<1>9. ASSUME NEW p \in Ops, Update(p) PROVE DeployInv'
  <2>1. PICK v \in DOMAIN Store : base' = Written(Store[v], AppNet(dep))
    BY <1>9 DEF Update
  <2>2. FromStore(Store[v]) /\ AppNet(dep) \in BOOLEAN /\ Main \in Svcs
    BY DerivedStore DEF FromStore, AppNet, DeployInputs
  <2>3. FromStore(base')
    BY <2>1, <2>2, WrittenFollows
  <2>4. /\ UNCHANGED <<env, settings>> /\ torn' \subseteq torn /\ News /\ Goto(p, ToUp)
    BY <1>9 DEF Update, Asked
  <2>5. Kept
    BY <1>0, <1>a, <2>3, <2>4 DEF Kept, settings
  <2> QED BY <1>e, <2>4, <2>5, ReadsIs, DeployPlain DEF ToUp
<1>10. ASSUME NEW p \in Ops, OpenEnv(p) PROVE DeployInv'
  <2> DEFINE page == Parse(env)
             edited == [i \in DOMAIN page |-> IF page[i].key = "MINE" THEN Line("MINE", 2)
                                              ELSE page[i]]
             new == [Reads("page", {}) EXCEPT !.vars = edited]
  <2>1. Goto(p, new) /\ Kept
    BY <1>10, <1>b DEF OpenEnv, Asked, files
  <2>2. IsSeq(page)
    BY <1>0, ParseIs
  <2>3. DOMAIN edited = DOMAIN page /\ edited = [i \in DOMAIN page |-> edited[i]]
    OBVIOUS
  <2> HIDE DEF edited, page
  <2>4. IsSeq(edited)
    BY <2>2, <2>3, SeqIs DEF IsSeq
  <2>5. Request(new) /\ new.pc = "page" /\ new.vars = edited /\ new.stale \subseteq Files
    BY DEF Request, Reads, Idle
  <2> HIDE DEF new
  <2>6. Page(new, base', env', dep')
    BY <2>4, <2>5 DEF Page, Pcs
  <2> QED BY <2>1, <2>5, <2>6, DeployGoes
<1>11. ASSUME NEW p \in Ops, SetEnv(p) PROVE DeployInv'
  <2>0. op[p].pc = "page" /\ Kept
    BY <1>11, <1>b DEF SetEnv, files
  <2>1. CASE ~ValidVars(op[p].vars)
    BY <1>11, <2>0, <2>1, IdleIs, DeployPlain DEF SetEnv
  <2>2. CASE ValidVars(op[p].vars)
    <3> DEFINE new == [op[p] EXCEPT !.pc = "patched", !.vars = Patch(env, @)]
    <3>1. Goto(p, new)
      BY <1>11, <2>2 DEF SetEnv
    <3>2. IsSeq(op[p].vars) /\ op[p].stale \subseteq Files
      BY <1>0, <2>0 DEF Page
    <3>3. IsSeq(Patch(env, op[p].vars))
      BY <1>0, <2>2, <3>2, PatchIs
    <3>4. /\ Request(new) /\ new.pc = "patched" /\ new.vars = Patch(env, op[p].vars)
          /\ new.stale = op[p].stale
      BY <1>0 DEF Request, Requests
    <3> HIDE DEF new
    <3>5. Page(new, base', env', dep')
      BY <3>2, <3>3, <3>4 DEF Page, Pcs
    <3> QED BY <2>0, <3>1, <3>4, <3>5, DeployGoes
  <2> QED BY <2>1, <2>2
<1>12. ASSUME NEW p \in Ops, SaveEnv(p) PROVE DeployInv'
  <2>1. /\ UNCHANGED <<base, torn, settings, news>> /\ env' = op[p].vars /\ op[p].pc = "patched"
        /\ Goto(p, ToUp)
    BY <1>12 DEF SaveEnv
  <2>2. IsSeq(env')
    BY <1>0, <2>1 DEF Page
  <2> QED BY <1>d, <1>e, <2>1, <2>2, ReadsIs, DeployPlain DEF ToUp
<1>13. ASSUME NEW p \in Ops, EnvFails(p) PROVE DeployInv'
  <2>0. op[p].pc \in {"patched", "vars"} /\ UNCHANGED <<base, torn, settings>> /\ News
    BY <1>13 DEF EnvFails
  <2>1. IsSeq(env')
    <3>1. IsSeq(op[p].vars)
      BY <1>0, <2>0 DEF Page
    <3>2. CASE UNCHANGED env
      BY <1>0, <3>2
    <3>3. CASE \E n \in 0..Len(op[p].vars) - 1 : env' = SubSeq(op[p].vars, 1, n)
      <4>1. PICK n \in 0..Len(op[p].vars) - 1 : env' = SubSeq(op[p].vars, 1, n)
        BY <3>3
      <4> QED BY <3>1, <4>1, CutIs
    <3> QED BY <1>13, <3>2, <3>3 DEF EnvFails
  <2>2. Kept
    BY <1>d, <2>0, <2>1
  <2>3. CASE op[p].pc # "vars"
    BY <1>13, <2>2, <2>3, IdleIs, DeployPlain DEF EnvFails
  <2>4. CASE op[p].pc = "vars"
    <3> DEFINE new == Onward(p, "up", {"env"})
    <3>1. Request(new) /\ new.pc = "up" /\ new.stale = op[p].stale \cup {"env"} /\ Goto(p, new)
      BY <1>13, <2>4, OnwardIs DEF EnvFails
    <3> HIDE DEF new
    <3>2. Page(op[p], base, env, dep)
      BY <1>0
    <3>3. op[p].stale \cup {"env"} \subseteq Files
      BY <3>2 DEF Page, Files
    <3>4. Page(new, base', env', dep')
      BY <2>0, <2>4, <3>1, <3>2, <3>3 DEF Page, Pcs, Unswayed, settings
    <3> QED BY <2>2, <3>1, <3>4, DeployGoes
  <2> QED BY <2>3, <2>4
<1>14. ASSUME NEW p \in Ops, ReadRoutes(p) PROVE DeployInv'
  <2>1. UNCHANGED <<base, env, torn, settings>> /\ (News \/ UNCHANGED news)
    BY <1>14 DEF ReadRoutes, FaultUnless, files
  <2>2. PICK good, out : \/ Goto(p, Reads("normalize", good))
                         \/ Goto(p, [Reads("routes", good) EXCEPT !.over = out])
    <3>1. CASE \E read, good : Regenerate(p, read, good)
      BY <3>1, Zenon DEF Regenerate
    <3>2. CASE Goto(p, Reads("normalize", {}))
      BY <3>2
    <3> QED BY <1>14, <3>1, <3>2 DEF ReadRoutes
  <2> DEFINE new == [Reads("routes", good) EXCEPT !.over = out]
  <2>3. Request(new) /\ new.pc = "routes" /\ new.stale \subseteq Files
    BY DEF Request, Reads, Idle
  <2> HIDE DEF new
  <2> QED BY <1>b, <1>e, <2>1, <2>2, <2>3, ReadsIs, DeployPlain DEF new
<1>15. ASSUME NEW p \in Ops, WriteRoutes(p) PROVE DeployInv'
  <2> DEFINE new == Onward(p, "normalize", {})
  <2>1. /\ UNCHANGED <<base, env, settings, news>> /\ torn' \subseteq torn /\ Goto(p, new)
    BY <1>15 DEF WriteRoutes
  <2>2. Request(new) /\ new.pc = "normalize" /\ new.stale = op[p].stale \cup {}
    BY DEF Request, Idle, Onward
  <2> HIDE DEF new
  <2>3. new.stale \subseteq Files
    BY <1>0, <2>2 DEF Page
  <2> QED BY <1>c, <2>1, <2>2, <2>3, DeployPlain
<1>16. ASSUME NEW p \in Ops, ReadCompose(p) PROVE DeployInv'
  <2>0. UNCHANGED <<base, env, torn, settings>> /\ (News \/ UNCHANGED news)
    BY <1>16 DEF ReadCompose, FaultUnless, files
  <2>1. Kept
    BY <1>b, <2>0
  <2>2. ASSUME NEW bad, bad \subseteq Files, Goto(p, Onward(p, "env", bad)),
               Unswayed(Onward(p, "env", bad), "base") => FollowsStore(base, dep)
        PROVE  DeployInv'
    <3> DEFINE new == Onward(p, "env", bad)
    <3>1. Request(new) /\ new.pc = "env" /\ new.stale = op[p].stale \cup bad
      BY OnwardIs
    <3>2. op[p].stale \subseteq Files
      BY <1>0 DEF Page
    <3>3. Goto(p, new) /\ (Unswayed(new, "base") => FollowsStore(base, dep))
      BY <2>2
    <3> HIDE DEF new
    <3>4. Page(new, base', env', dep')
      BY <2>0, <2>2, <3>1, <3>2, <3>3 DEF Page, Pcs, settings
    <3> QED BY <2>1, <3>1, <3>3, <3>4, DeployGoes
  <2>3. CASE Goto(p, Onward(p, "env", {"base"}))
    <3> DEFINE new == Onward(p, "env", {"base"})
    <3>1. new.stale = op[p].stale \cup {"base"}
      BY OnwardIs
    <3> HIDE DEF new
    <3>2. ~Unswayed(new, "base")
      BY <3>1 DEF Unswayed
    <3> QED BY <2>2, <2>3, <3>2 DEF new, Files
  <2>4. CASE ~Goto(p, Onward(p, "env", {"base"}))
    <3>1. PICK net \in {AppNet(dep), FALSE} :
            LET bad == IF net = AppNet(dep) THEN {} ELSE {"settings"}
            IN Goto(p, IF Written(base, net) = base THEN Onward(p, "env", bad)
                       ELSE [Onward(p, "compose", bad) EXCEPT !.base = Written(base, net)])
      BY <1>16, <2>4 DEF ReadCompose
    <3> DEFINE bad == IF net = AppNet(dep) THEN {} ELSE {"settings"}
    <3>2. /\ FromStore(Written(base, net))
          /\ net = AppNet(dep) => FollowsStore(Written(base, net), dep)
      <4>1. net \in BOOLEAN /\ Main \in Svcs
        BY DEF AppNet, DeployInputs
      <4> QED BY <1>0, <4>1, WrittenFollows
    <3>3. bad \subseteq Files /\ ("settings" \notin bad => net = AppNet(dep))
      BY DEF Files
    <3>4. Goto(p, IF Written(base, net) = base THEN Onward(p, "env", bad)
                  ELSE [Onward(p, "compose", bad) EXCEPT !.base = Written(base, net)])
      BY <3>1
    <3> HIDE DEF bad
    <3>5. CASE Written(base, net) = base
      <4> DEFINE new == Onward(p, "env", bad)
      <4>1. new.stale = op[p].stale \cup bad
        BY OnwardIs
      <4> HIDE DEF new
      <4>2. Unswayed(new, "base") => FollowsStore(base, dep)
        BY <3>2, <3>3, <3>5, <4>1 DEF Unswayed
      <4> QED BY <2>2, <3>3, <3>4, <3>5, <4>2 DEF new
    <3>6. CASE Written(base, net) # base
      <4> DEFINE new == [Onward(p, "compose", bad) EXCEPT !.base = Written(base, net)]
      <4>1. /\ Request(new) /\ new.pc = "compose" /\ new.base = Written(base, net)
            /\ new.stale = op[p].stale \cup bad
        BY DEF Request, Onward, Idle
      <4>2. new.stale \subseteq Files
        BY <1>0, <3>3, <4>1 DEF Page
      <4>3. Goto(p, new)
        BY <3>4, <3>6
      <4> HIDE DEF new
      <4>4. Page(new, base', env', dep')
        BY <2>0, <3>2, <3>3, <4>1, <4>2 DEF Page, Pcs, settings
      <4> QED BY <2>1, <4>1, <4>3, <4>4, DeployGoes
    <3> QED BY <3>5, <3>6
  <2> QED BY <2>3, <2>4
<1>17. ASSUME NEW p \in Ops, WriteCompose(p) PROVE DeployInv'
  <2> DEFINE new == Onward(p, "env", {})
  <2>1. /\ UNCHANGED <<env, settings, news>> /\ torn' \subseteq torn /\ Goto(p, new)
        /\ base' = op[p].base /\ op[p].pc = "compose"
    BY <1>17 DEF WriteCompose
  <2>2. Page(op[p], base, env, dep)
    BY <1>0
  <2>3. Request(new) /\ new.pc = "env" /\ new.stale = op[p].stale \cup {}
    BY DEF Request, Idle, Onward
  <2> HIDE DEF new
  <2>4. Kept
    BY <1>0, <1>a, <2>1, <2>2 DEF Kept, Page, settings
  <2>5. Page(new, base', env', dep')
    BY <2>1, <2>2, <2>3 DEF Page, Pcs, Unswayed, settings
  <2> QED BY <2>1, <2>3, <2>4, <2>5, DeployGoes
<1>18. ASSUME NEW p \in Ops, ComposeFails(p) PROVE DeployInv'
  <2> DEFINE new == Onward(p, "env", {"base"})
  <2>1. /\ UNCHANGED <<base, env, settings>> /\ torn' \subseteq torn \cup {"base"} /\ News
        /\ Goto(p, new)
    BY <1>18 DEF ComposeFails
  <2>2. Request(new) /\ new.pc = "env" /\ new.stale = op[p].stale \cup {"base"}
    BY OnwardIs
  <2> HIDE DEF new
  <2>3. op[p].stale \cup {"base"} \subseteq Files
    BY <1>0 DEF Page, Files
  <2>4. Kept
    BY <1>0, <1>a, <2>1 DEF Kept, settings
  <2>5. Page(new, base', env', dep')
    BY <2>2, <2>3 DEF Page, Pcs, Unswayed
  <2> QED BY <2>1, <2>2, <2>4, <2>5, DeployGoes
<1>19. ASSUME NEW p \in Ops, ReadVars(p) PROVE DeployInv'
  <2>0. op[p].pc = "env" /\ UNCHANGED <<base, env, torn, settings>> /\ (News \/ UNCHANGED news)
    BY <1>19 DEF ReadVars, FaultUnless, files
  <2>1. Kept /\ Page(op[p], base, env, dep)
    BY <1>0, <1>b, <2>0
  <2>2. op[p].stale \subseteq Files /\ {"env", "settings", "base"} \subseteq Files
    BY <2>1 DEF Page, Files
  <2>3. CASE Goto(p, Onward(p, "up", {"env"}))
    <3> DEFINE new == Onward(p, "up", {"env"})
    <3>1. Request(new) /\ new.pc = "up" /\ new.stale = op[p].stale \cup {"env"}
      BY OnwardIs
    <3> HIDE DEF new
    <3>2. Page(new, base', env', dep')
      BY <2>0, <2>1, <2>2, <3>1 DEF Page, Pcs, Unswayed, settings
    <3> QED BY <2>1, <2>3, <3>1, <3>2, DeployGoes DEF new
  <2>4. CASE ~Goto(p, Onward(p, "up", {"env"}))
    <3>1. PICK known \in {Loaded(dep), Restrict(dep, {})} :
            LET bad == IF known = Loaded(dep) THEN {} ELSE {"settings"}
                new == EnsureVars(env, Owned, known)
                read == [Onward(p, "up", bad) EXCEPT !.stale = @ \ {"env"}]
            IN Goto(p, IF new = env THEN read ELSE [read EXCEPT !.pc = "vars", !.vars = new])
      BY <1>19, <2>4 DEF ReadVars
    <3> DEFINE bad == IF known = Loaded(dep) THEN {} ELSE {"settings"}
               e == EnsureVars(env, Owned, known)
               read == [Onward(p, "up", bad) EXCEPT !.stale = @ \ {"env"}]
               more == [read EXCEPT !.pc = "vars", !.vars = e]
    <3>2. Goto(p, IF e = env THEN read ELSE more)
      BY <3>1
    <3>3. bad \subseteq {"settings"} /\ ("settings" \notin bad => known = Loaded(dep))
      OBVIOUS
    <3>4. DOMAIN known \subseteq ToSet(Owned) /\ IsOrder(Owned)
      BY <1>0 DEF Loaded, Restrict, DeployInputs
    <3>5. \A k \in DOMAIN Loaded(dep) : Loaded(dep)[k] = dep[k]
      BY DEF Loaded, Restrict
    <3>6. /\ Request(read) /\ read.pc = "up" /\ read.stale = (op[p].stale \cup bad) \ {"env"}
          /\ Request(more) /\ more.pc = "vars" /\ more.vars = e
          /\ more.stale = (op[p].stale \cup bad) \ {"env"}
      BY DEF Request, Onward, Idle
    <3> HIDE DEF bad, e, read, more
    <3>7. /\ IsSeq(e)
          /\ ValidVars(Parse(e)) =>
               \A k \in DOMAIN known : k \in KeysIn(e) /\ Value(e, k) = known[k]
          /\ \A k \in KeysIn(env) \ DOMAIN known : k \in KeysIn(e) /\ Value(e, k) = Value(env, k)
      BY <1>0, <3>4, EnsureIs DEF e
    <3>8. "settings" \notin bad => FollowsVars(e, dep)
      BY <3>3, <3>5, <3>7 DEF FollowsVars
    <3>9. KeepsVars(env, e)
      BY <3>4, <3>7 DEF KeepsVars
    <3>10. (op[p].stale \cup bad) \ {"env"} \subseteq Files
      BY <2>2, <3>3
    <3>11. UNCHANGED <<base, env, dep>>
      BY <2>0 DEF settings
    <3>12. CASE e = env
      <4>1. Page(read, base', env', dep')
        BY <2>0, <2>1, <3>6, <3>8, <3>10, <3>11, <3>12 DEF Page, Pcs, Unswayed
      <4> QED BY <2>1, <3>2, <3>6, <3>12, <4>1, DeployGoes
    <3>13. CASE e # env
      <4>1. Page(more, base', env', dep')
        BY <2>0, <2>1, <3>6, <3>7, <3>8, <3>9, <3>10, <3>11 DEF Page, Pcs, Unswayed
      <4> QED BY <2>1, <3>2, <3>6, <3>13, <4>1, DeployGoes
    <3> QED BY <3>12, <3>13
  <2> QED BY <2>3, <2>4
<1>20. ASSUME NEW p \in Ops, WriteVars(p) PROVE DeployInv'
  <2> DEFINE new == Onward(p, "up", {})
  <2>1. /\ UNCHANGED <<base, torn, settings, news>> /\ Goto(p, new)
        /\ env' = op[p].vars /\ op[p].pc = "vars"
    BY <1>20 DEF WriteVars
  <2>2. Page(op[p], base, env, dep)
    BY <1>0
  <2>3. Request(new) /\ new.pc = "up" /\ new.stale = op[p].stale \cup {}
    BY DEF Request, Idle, Onward
  <2> HIDE DEF new
  <2>4. IsSeq(env')
    BY <2>1, <2>2 DEF Page
  <2>5. Page(new, base', env', dep')
    BY <2>1, <2>2, <2>3 DEF Page, Pcs, Unswayed, settings
  <2> QED BY <1>d, <2>1, <2>3, <2>4, <2>5, DeployGoes
<1>21. ASSUME NEW p \in Ops, ComposeUp(p) PROVE DeployInv'
  <2>1. UNCHANGED <<base, env, torn, settings, news>> /\ Goto(p, Idle)
    BY <1>21 DEF ComposeUp, files
  <2> QED BY <1>b, <2>1, IdleIs, DeployPlain
<1>22. CASE UNCHANGED vars
  BY <1>0, <1>22 DEF vars, files, settings, marks, DeployInv, Requests
<1> QED BY <1>1, <1>2, <1>3, <1>4, <1>5, <1>6, <1>7, <1>8, <1>9, <1>10, <1>11, <1>12, <1>13,
           <1>14, <1>15, <1>16, <1>17, <1>18, <1>19, <1>20, <1>21, <1>22 DEF Next

\* An up that reads and writes its files, and that nothing interrupts, starts an app that
\* follows the deployment: its network attached, if there is one, its host paths translated,
\* its variables the deployment's, for any composes the store has and any deployments.
THEOREM FollowsTheorem ==
  ASSUME DeployInputs
  PROVE  Spec => []FollowsNow
<1>1. Init => DeployInv
  BY DeployInit
<1>2. DeployInv /\ [Next]_vars => DeployInv'
  BY DeployStep
<1>3. DeployInv => FollowsNow
  <2> SUFFICES ASSUME DeployInv, NEW p \in Ops, Undisturbed(p)
               PROVE  FollowsStore(base, dep) /\ FollowsVars(env, dep)
    BY DEF FollowsNow, FollowsStore, FollowsVars
  <2>1. op[p].pc = "up" /\ Unswayed(op[p], "base") /\ Unswayed(op[p], "env")
    BY DEF Undisturbed, Unswayed
  <2> QED BY <2>1 DEF DeployInv, Page
<1> QED BY <1>1, <1>2, <1>3, PTL DEF Spec

\* The files, the settings, the requests and the labels of the override keep their types, for
\* the same inputs.
THEOREM FilesTypeTheorem ==
  ASSUME RouteInputs, DeployInputs
  PROVE  Spec => []TypeOK
<1>1. Init => RoutesInv /\ DeployInv
  BY RoutesInit, DeployInit
<1>2. RoutesInv /\ DeployInv /\ [Next]_vars => RoutesInv' /\ DeployInv'
  BY RoutesStep, DeployStep
<1>3. RoutesInv /\ DeployInv => TypeOK
  <2> SUFFICES ASSUME RoutesInv, DeployInv PROVE TypeOK
    OBVIOUS
  <2>1. /\ news \in 0..MaxNews /\ doms \in Lists /\ dep \in Deployments
        /\ torn \subseteq {"base", "over"}
    BY DEF DeployInv
  <2>2. /\ DOMAIN over.labels = Svcs
        /\ \A s \in Svcs : \A k \in DOMAIN over.labels[s] \cup over.manifest[s] : k.n \in Int
    BY DEF RoutesInv, Labelled, IsLabels
  <2>3. \A p \in Ops : op[p].pc \in Pcs /\ op[p].stale \subseteq Files
    BY DEF DeployInv, Page
  <2> QED BY <2>1, <2>2, <2>3 DEF TypeOK
<1> QED BY <1>1, <1>2, <1>3, PTL DEF Spec

\* What an up writes into a file that it has read, and that nobody has changed since, leaves
\* the operator's routes elsewhere and their variables, provided no configured domain is that
\* elsewhere.
THEOREM KeptTheorem ==
  ASSUME RouteInputs, DeployInputs, \A list \in Lists : "elsewhere" \notin SuffixesOf(list)
  PROVE  Spec => OperatorKept
<1>1. Init => RoutesInv /\ DeployInv
  BY RoutesInit, DeployInit
<1>2. RoutesInv /\ DeployInv /\ [Next]_vars => RoutesInv' /\ DeployInv'
  BY RoutesStep, DeployStep
<1> DEFINE Same(p) ==
             /\ WriteRoutes(p) /\ "over" \notin op[p].stale =>
                  \A s \in Svcs : \A k \in OwnRoutes(over, s) :
                    k \in DOMAIN over'.labels[s] /\ over'.labels[s][k] = over.labels[s][k]
             /\ WriteVars(p) /\ "env" \notin op[p].stale =>
                  \A k \in OwnVars : k \in KeysIn(env') /\ Value(env', k) = Value(env, k)
           AllSame == \A p \in Ops : Same(p)
<1>3. ASSUME RoutesInv, DeployInv PROVE AllSame
  <2> SUFFICES ASSUME NEW p \in Ops PROVE Same(p)
    OBVIOUS
  <2>1. ASSUME WriteRoutes(p), "over" \notin op[p].stale PROVE Keeps(over, over')
    <3>1. op[p].pc = "routes" /\ over' = op[p].over
      BY <2>1 DEF WriteRoutes
    <3>2. Holds(op[p], base, over, doms, hand) /\ Elsewhere
      BY <1>3 DEF RoutesInv, Elsewhere
    <3> QED BY <2>1, <3>1, <3>2 DEF Holds
  <2>2. ASSUME WriteVars(p), "env" \notin op[p].stale PROVE KeepsVars(env, env')
    <3>1. op[p].pc = "vars" /\ env' = op[p].vars
      BY <2>2 DEF WriteVars
    <3>2. Page(op[p], base, env, dep)
      BY <1>3 DEF DeployInv
    <3> QED BY <2>2, <3>1, <3>2 DEF Page
  <2> QED BY <2>1, <2>2 DEF Keeps, KeepsVars, OwnVars
<1>4. RoutesInv /\ DeployInv => [AllSame]_vars
  BY <1>3
<1>5. Spec => [](RoutesInv /\ DeployInv)
  BY <1>1, <1>2, PTL DEF Spec
<1>6. [](RoutesInv /\ DeployInv) => [][AllSame]_vars
  BY <1>4, PTL
<1>7. Spec => [][AllSame]_vars
  BY <1>5, <1>6, PTL
<1> QED BY <1>7 DEF OperatorKept
=============================================================================
