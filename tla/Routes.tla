------------------------------- MODULE Routes --------------------------------
(***************************************************************************)
(* The routes generated for a deployment's additional domains               *)
(* (internal/caddyroutes): every route of the store's compose that is on    *)
(* the primary domain is cloned onto each of them, in the override, and the *)
(* keys written are recorded in the override's manifest.                    *)
(*                                                                          *)
(* The labels of a service are a function from keys to values.  A key is    *)
(* the route's index and a directive: caddy_1.import is [n |-> 1,           *)
(* sub |-> "import"], caddy_1 itself, whose value is the host, has the      *)
(* directive Host, and the bare caddy has the index Bare.  A host is the    *)
(* app's name on a domain: the primary one's placeholder, an additional     *)
(* domain's suffix, or another.  The order of labels in a file is that of   *)
(* their indexes.                                                           *)
(***************************************************************************)
EXTENDS Integers, Sequences, SequencesExt

Bare == -1
Host == ""
Primary == "primary"

Key(n, sub) == [n |-> n, sub |-> sub]
NoLabels == [k \in {} |-> ""]

-----------------------------------------------------------------------------
(* Labels *)

\* The groups: the indexes that name a host.
RouteGroups(labels) == {k.n : k \in {k \in DOMAIN labels : k.sub = Host}}
HostOf(labels, g) == labels[Key(g, Host)]
HostsOf(labels) == {HostOf(labels, g) : g \in RouteGroups(labels)}
SubsOf(labels, g) == {k.sub : k \in {k \in DOMAIN labels : k.n = g}} \ {Host}
KeysOf(labels, groups) == {k \in DOMAIN labels : k.n \in groups}

\* Labels are set by key, and Compose merges those of the two files so (external).
Merged(base, over) ==
  [k \in DOMAIN base \cup DOMAIN over |-> IF k \in DOMAIN over THEN over[k] ELSE base[k]]

\* Mutant of NextIndex: the store's labels are not looked at.
NextIndexOver(base, over) == Max({-1} \cup {k.n : k \in DOMAIN over}) + 1

\* The first index free in both files; a directive without a host takes its index too.
NextIndex(base, over) ==
  Max({-1} \cup {k.n : k \in DOMAIN base \cup DOMAIN over}) + 1

\* The groups to clone.
PrimaryGroups(labels) == {g \in RouteGroups(labels) : HostOf(labels, g).on = Primary}

\* Directives that belong to the domain.
DomainOwned(sub) == sub \in {"import", "tls"}

SuffixesOf(doms) == {d.suffix : d \in ToSet(doms)}
OnAnyDomain(host, doms) == host.on \in SuffixesOf(doms)

-----------------------------------------------------------------------------
(* What is dropped, and what is generated in its place *)

\* Mutant of DropGenerated: every numbered group is dropped.
DropNumbered(labels, manifest, doms) ==
  Restrict(labels, {k \in DOMAIN labels : k.n = Bare})

\* The keys of the manifest, then every group on a configured domain.
DropGenerated(labels, manifest, doms) ==
  LET rest == Restrict(labels, DOMAIN labels \ manifest)
      onto == {g \in RouteGroups(rest) : OnAnyDomain(HostOf(rest, g), doms)}
  IN Restrict(rest, DOMAIN rest \ KeysOf(rest, onto))

\* The clone of a group on domain d, at the index n: the domain's directives, then the
\* app's, which are written over those of the same name.
Clone(base, g, n, d) ==
  LET subs == {s \in SubsOf(base, g) : ~DomainOwned(s)}
  IN [k \in {Key(n, s) : s \in {Host} \cup subs \cup DOMAIN d.directives} |->
        IF k.sub = Host THEN [HostOf(base, g) EXCEPT !.on = d.suffix]
        ELSE IF k.sub \in subs THEN base[Key(g, k.sub)]
        ELSE d.directives[k.sub]]

\* What may be made: a route of the store's on the primary domain, on the j-th domain.
Slots(base, doms) == PrimaryGroups(base) \X DOMAIN doms
HostAt(base, doms, p) == [HostOf(base, p[1]) EXCEPT !.on = doms[p[2]].suffix]

\* Routes are made in the order of the file, and of the domains.
Earlier(p, q) == p[1] < q[1] \/ (p[1] = q[1] /\ p[2] < q[2])

\* What is made: a host that is routed already is left to whoever declared it.
Vacant(base, over, doms) ==
  LET slots == Slots(base, doms)
      routed == HostsOf(base) \cup HostsOf(over)
  IN {p \in slots :
        /\ HostAt(base, doms, p) \notin routed
        /\ \A q \in slots : Earlier(q, p) => HostAt(base, doms, q) # HostAt(base, doms, p)}

\* The indexes of what is made follow one another.
IndexOf(new, next, p) == next + Cardinality({q \in new : Earlier(q, p)})

Made(base, over, doms) ==
  LET new == Vacant(base, over, doms)
      next == NextIndex(base, over)
  IN {Clone(base, p[1], IndexOf(new, next, p), doms[p[2]]) : p \in new}

\* The labels generated for a service, from the store's and what is left of the
\* override's.
Generate(base, over, doms) ==
  LET routes == Made(base, over, doms)
  IN [k \in UNION {DOMAIN r : r \in routes} |-> (CHOOSE r \in routes : k \in DOMAIN r)[k]]

\* Mutant of Sync: a service without routes is left out of what is written.
SyncRouted(base, over, doms) ==
  LET routed == {s \in DOMAIN base : PrimaryGroups(base[s]) # {}}
      rest == [s \in routed |-> DropGenerated(over.labels[s], over.manifest[s], doms)]
      made == [s \in routed |-> Generate(base[s], rest[s], doms)]
  IN [over EXCEPT !.labels = [s \in routed |-> Merged(rest[s], made[s])],
                  !.manifest = [s \in routed |-> DOMAIN made[s]]]

\* Sync, of the labels and the manifest of every service.
Sync(base, over, doms) ==
  LET rest == [s \in DOMAIN base |->
                 DropGenerated(over.labels[s], over.manifest[s], doms)]
      made == [s \in DOMAIN base |-> Generate(base[s], rest[s], doms)]
  IN [over EXCEPT !.labels = [s \in DOMAIN base |-> Merged(rest[s], made[s])],
                  !.manifest = [s \in DOMAIN base |-> DOMAIN made[s]]]

-----------------------------------------------------------------------------
(* What the labels of the two files should come to *)

\* A service is published on a domain: every route of its own has one clone there, which
\* has the directives of the domain and of the app unless the store declared it.
PublishedOn(base, over, d) ==
  \A g \in PrimaryGroups(base) :
    LET labels == Merged(base, over)
        host == [HostOf(base, g) EXCEPT !.on = d.suffix]
        there == {n \in RouteGroups(labels) : HostOf(labels, n) = host}
    IN \E n \in there :
         /\ there = {n}
         /\ host \in HostsOf(base) \/ Restrict(labels, KeysOf(labels, {n})) = Clone(base, g, n, d)

\* The override has taken a route that the store declares on a domain.
TakenOver(base, over, d) ==
  \E k \in DOMAIN base \cap DOMAIN over : k.sub = Host /\ base[k].on = d.suffix

\* No route of the override is on a domain that is not configured, unless the store
\* declares it too.
NowhereElse(base, over, doms) ==
  \A host \in HostsOf(over) \ HostsOf(base) : OnAnyDomain(host, doms)
==============================================================================
