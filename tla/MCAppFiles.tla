----------------------------- MODULE MCAppFiles ------------------------------
(* AppFiles on a small instance: two versions of a store's compose with two    *)
(* services, two additional domains, and what an operator may type.            *)
EXTENDS AppFiles

D1 == [suffix |-> "d1", directives |-> ("import" :> "tls")]
D2 == [suffix |-> "d2", directives |-> [s \in {} |-> ""]]
SomeLists == {<<>>, <<D2, D1>>}

On(app, domain) == [app |-> app, on |-> domain]
Route(n, app) ==
  (Key(n, Host) :> On(app, Primary)) @@ (Key(n, "import") :> "gateway")
    @@ (Key(n, "proxy") :> "80")

Fields(image, ports, vs) ==
  [image |-> image, ports |-> Node("plain", ports), environment |-> Node("plain", vs)]

\* The second version has another route, ships one on d2, and another port.
Compose(labels, ports) ==
  [labels |-> [s \in Svcs |-> IF s = "web" THEN labels ELSE NoLabels],
   fields |-> [s \in Svcs |-> IF s = "web" THEN Fields("i1", ports, ("K" :> "k1"))
                              ELSE Fields("i1", <<Complex>>, NoEnv)],
   nets |-> [declared |-> ("lan" :> "joined"), lists |-> [s \in Svcs |-> {"lan"}]],
   binds |-> [s \in Svcs |-> {"/DATA"}]]

Versions ==
  <<Compose(Route(0, "web"), <<"p1">>),
    Compose(Route(0, "web") @@ Route(1, "api") @@ (Key(2, Host) :> On("web", "d2")),
            <<"p1", "p2">>)>>

\* The operator's own bare route, and a label on a configured domain; a label added to a
\* generated group; the manifest edited away; a list reset; all of it removed.
Labelling(o, k, v) == [o EXCEPT !.labels["web"] = (k :> v) @@ @]
SomeTyped(o) ==
  {NoOverride,
   Labelling(Labelling(o, Key(Bare, Host), On("own", "elsewhere")), Key(7, Host), On("web", "d1")),
   Labelling(o, Key(1, "encode"), "own"),
   [o EXCEPT !.manifest = [s \in Svcs |-> {}]],
   [o EXCEPT !.fields["web"].ports = Node("reset", <<>>)]}

SomeFilled(f) ==
  {[f EXCEPT !.image.value = "i2"], [f EXCEPT !.environment.value = NoEnv]}
    \cup {[f EXCEPT !.ports.value = v] : v \in {<<"p1", "p3">>, <<"p3">>}}

SomeOverrides ==
  {[NoOverride EXCEPT !.fields["web"].environment = Node("override", ("L" :> "l1"))]}

SomeEnvFiles ==
  {<<Line("MINE", 2), Line(Note, 0), Line("DOMAIN", 2), Line("MINE", 1), Line("DOMAIN", 1)>>,
   <<Line(Bad, 1), Line("MINE", 1)>>}

OwnedKeys == <<"APP_NET", "DOMAIN">>

\* A network and a domain, and another domain with the network left empty.
SomeDeployments ==
  {("APP_NET" :> 1) @@ ("DOMAIN" :> 1), ("APP_NET" :> 0) @@ ("DOMAIN" :> 2)}

Symmetric == Permutations(Ops)
==============================================================================
