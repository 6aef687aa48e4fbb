-------------------------- MODULE Catalogue_proofs --------------------------
(***************************************************************************)
(* What holds of the app store for any sources, lists of them, apps and    *)
(* jobs, however often downloads and renames fail and Maison is killed.     *)
(*                                                                         *)
(* One invariant carries the safety results.  A job that has the lock works  *)
(* on a source, and what it downloads is no older than the copy it          *)
(* replaces (Working); the validators never claim more than the copy beside *)
(* them (Honest); what is put aside comes back (Safe); a job that is told   *)
(* its source is current learnt it from the origin after it had asked       *)
(* (Asked); and whenever the catalogue is out of step with the sources, a   *)
(* refresh that knows them is at work or waiting (Follows).                 *)
(*                                                                         *)
(* Jobs end if nothing but a held lock blocks them and holders let go       *)
(* (EndsTheorem), and a holder is done with each source (SourceTheorem).    *)
(***************************************************************************)
EXTENDS Catalogue, SequenceTheorems, TLAPS

Kinds == {"nightly", "refresh", "reload", "fetch"}
Places == {"idle", "wait", "ask", "aside", "in", "tag", "read"}
Works == {"ask", "aside", "in", "tag"}

AJob == [pc : Places, kind : Kinds, store : Stores \cup {NoStore}, since : Nat, ok : BOOLEAN]
ASync == [left : Seq(Stores), build : Catalogues, got : Nat, old : Nat]

\* The shapes of the state.
Types ==
  /\ origin \in [Stores -> Nat] /\ at \in [Stores -> Nat] /\ tag \in [Stores -> Nat]
  /\ kept \in [Stores -> BOOLEAN]
  /\ urls \in Lists /\ catalog \in Catalogues /\ moving \in BOOLEAN
  /\ sync \in ASync
  /\ job \in [Jobs -> AJob]

\* The versions: nothing is newer than its origin.
Past ==
  \A u \in Stores : /\ 0 < origin[u] /\ origin[u] <= MaxVersion[u]
                    /\ at[u] <= origin[u] /\ tag[u] <= origin[u]

\* The locks are held by who is at work.
Locks ==
  /\ \A j \in Jobs : job[j].pc \in Works <=> holder = j
  /\ moving <=> \E j \in Jobs : job[j].pc = "in"

\* A job that needs one source has it, and syncs no other.
OneStore ==
  \A j \in Jobs : ~Whole(j) /\ job[j].pc # "idle" =>
    /\ job[j].store \in Stores /\ job[j].since <= origin[job[j].store]
    /\ holder = j => sync.left \in {<<>>, <<job[j].store>>}

\* A download is on its way to replace something no newer.
Working ==
  \A j \in Jobs :
    /\ job[j].pc \in {"aside", "in", "tag"} =>
         /\ sync.left # <<>>
         /\ 0 < sync.got /\ sync.got <= origin[Current]
         /\ at[Current] <= sync.got /\ tag[Current] <= sync.got
    /\ job[j].pc = "in" => sync.old <= sync.got /\ at[Current] = 0
    /\ job[j].pc = "tag" => at[Current] = sync.got

\* The copies of the sources, one put aside included.
Copies == [u \in Stores |-> IF moving /\ u = Current THEN sync.old ELSE at[u]]

\* The validators never claim more than the copy.
Honest == \A u \in Stores : Copies[u] # 0 => tag[u] <= Copies[u]

\* What was extracted is there or put aside.
Safe == \A u \in Stores : kept[u] => Copies[u] # 0

Told(j) == job[j].pc = "read" \/ (job[j].pc = "ask" /\ sync.left = <<>> /\ job[j].ok)

Downloads(j) == job[j].pc \in {"aside", "in", "tag"}

\* Who has asked for a current copy, and was told that it is, has one unless there is
\* none left, and none older will take its place.
Asked ==
  \A j \in Jobs : job[j].kind = "fetch" =>
    /\ Downloads(j) => job[j].since <= sync.got
    /\ Told(j) /\ Copies[job[j].store] # 0 => job[j].since <= Copies[job[j].store]
    /\ \A i \in Jobs :
         job[j].pc = "read" /\ Downloads(i) /\ job[j].store = Current => job[j].since <= sync.got

Reads == \A j \in Jobs : job[j].pc = "read" => job[j].kind = "fetch"

Listed(u) == \E i \in DOMAIN urls : urls[i] = u
From(c) == \A a \in Apps : c[a] # NoStore => Listed(c[a])

\* The refresh at work knows the sources as they are.
Knows == From(sync.build) /\ \A i \in DOMAIN sync.left : Listed(sync.left[i])
Waits == \E k \in Jobs : job[k].pc = "wait" /\ Whole(k)

Follows ==
  /\ \A j \in Jobs : holder = j /\ Whole(j) => Knows \/ Waits
  /\ \/ From(catalog) \/ Waits
     \/ Knows /\ \E j \in Jobs : holder = j /\ Whole(j)

IInv ==
  /\ Types /\ Past /\ Locks /\ OneStore /\ Working /\ Honest /\ Safe
  /\ Asked /\ Reads /\ Follows

USE DEF AJob, ASync

-----------------------------------------------------------------------------
(* Lists of sources *)

\* What is left of a list once its first source is done with.
LEMMA LeftParts ==
  ASSUME NEW s \in Seq(Stores), s # <<>>
  PROVE  /\ Head(s) \in Stores /\ Tail(s) \in Seq(Stores)
         /\ 1 \in DOMAIN s /\ Head(s) = s[1]
         /\ \A i \in DOMAIN Tail(s) : i + 1 \in DOMAIN s /\ Tail(s)[i] = s[i + 1]
<1>1. Len(s) \in Nat /\ Len(s) # 0 /\ DOMAIN s = 1 .. Len(s)
  BY EmptySeq
<1>2. Len(Tail(s)) = Len(s) - 1 /\ DOMAIN Tail(s) = 1 .. Len(s) - 1
  BY <1>1
<1>3. QED
  BY <1>1, <1>2

\* A list of one source has nothing left behind it.
LEMMA LeftOfOne ==
  ASSUME NEW u \in Stores
  PROVE  /\ <<u>> \in Seq(Stores) /\ <<u>> # <<>>
         /\ Head(<<u>>) = u /\ Tail(<<u>>) = <<>>
OBVIOUS

\* Merging a source that is listed keeps a catalogue to listed sources.
LEMMA MergedParts ==
  ASSUME NEW build \in Catalogues, NEW u \in Stores
  PROVE  /\ Merged(build, u) \in Catalogues
         /\ From(build) /\ Listed(u) => From(Merged(build, u))
BY DEF Merged, Catalogues, From, Listed

\* A copy is a version.
LEMMA CopiesType ==
  ASSUME Types, NEW u \in Stores PROVE Copies[u] \in Nat
BY DEF Types, Copies

-----------------------------------------------------------------------------
(* The jobs start *)

\* A job that comes disturbs nobody: what the sources, the lock and the copies are
\* is left alone, and no job that was at work changes.
LEMMA BeginStep ==
  ASSUME IInv, NEW j \in Jobs, NEW kind \in Kinds, NEW u \in Stores \cup {NoStore},
         NEW since \in Nat, Begin(j, kind, u, since),
         kind \in {"reload", "fetch"} => u \in Stores /\ since <= origin[u],
         urls' \in Lists, urls' = urls \/ kind = "refresh",
         tag' = tag \/ \E w \in Stores : tag' = [tag EXCEPT ![w] = 0]
  PROVE  IInv'
<1> USE DEF IInv
<1>1. /\ job[j].pc = "idle" /\ holder # j
      /\ job'[j] = [pc |-> "wait", kind |-> kind, store |-> u, since |-> since, ok |-> TRUE]
      /\ job' \in [Jobs -> AJob]
      /\ \A k \in Jobs : k # j => job'[k] = job[k]
  BY DEF Begin, Types, Places, Locks, Works
<1>2. /\ origin' = origin /\ catalog' = catalog /\ at' = at /\ moving' = moving
      /\ holder' = holder /\ sync' = sync /\ kept' = kept /\ Current' = Current
  BY DEF Begin, Current
<1>3. tag' \in [Stores -> Nat] /\ \A w \in Stores : tag'[w] = tag[w] \/ tag'[w] = 0
  BY DEF Types
<1>4. Types'
  BY <1>1, <1>2, <1>3 DEF Types
<1>5. Past'
  BY <1>2, <1>3 DEF Past, Types
<1>6. Locks'
  BY <1>1, <1>2 DEF Locks, Works
<1>7. OneStore'
  BY <1>1, <1>2 DEF OneStore, Whole, Kinds
<1>8. Working'
  <2> SUFFICES ASSUME NEW k \in Jobs, job'[k].pc \in {"aside", "in", "tag"}
               PROVE  /\ sync.left # <<>>
                      /\ 0 < sync.got /\ sync.got <= origin[Current]
                      /\ at[Current] <= sync.got /\ tag'[Current] <= sync.got
                      /\ job[k].pc = "in" => sync.old <= sync.got /\ at[Current] = 0
                      /\ job[k].pc = "tag" => at[Current] = sync.got
                      /\ job'[k] = job[k]
    BY <1>2 DEF Working
  <2>1. k # j /\ job'[k] = job[k]
    BY <1>1
  <2>2. sync.left # <<>> /\ tag[Current] <= sync.got
    BY <2>1 DEF Working
  <2>3. Current \in Stores
    BY <2>2, LeftParts DEF Types, Current
  <2>4. tag'[Current] <= sync.got
    <3>1. tag[Current] \in Nat /\ sync.got \in Nat
      BY <2>3 DEF Types
    <3>2. QED
      BY <1>3, <2>2, <2>3, <3>1
  <2>5. QED
    BY <2>1, <2>4 DEF Working
<1>9. Copies' = Copies
  BY <1>2 DEF Copies
<1>10. Honest' /\ Safe'
  <2>1. \A w \in Stores : Copies[w] \in Nat /\ tag[w] \in Nat
    BY CopiesType DEF Types
  <2>2. QED
    BY <1>2, <1>3, <1>9, <2>1 DEF Honest, Safe
<1>11. Asked' /\ Reads'
  <2>1. \A k \in Jobs : job[k].store \in Stores \cup {NoStore}
    BY DEF Types
  <2>2. \A k \in Jobs : Downloads(k)' => k # j /\ Downloads(k)
    BY <1>1 DEF Downloads
  <2>3. \A k \in Jobs : Told(k)' => k # j /\ Told(k)
    BY <1>1, <1>2 DEF Told
  <2>4. \A k \in Jobs : job'[k].pc = "read" => k # j
    BY <1>1
  <2>5. Asked'
    <3> SUFFICES ASSUME NEW k \in Jobs, job'[k].kind = "fetch"
                 PROVE  /\ Downloads(k)' => job'[k].since <= sync.got
                        /\ Told(k)' /\ Copies[job'[k].store] # 0 =>
                             job'[k].since <= Copies[job'[k].store]
                        /\ \A i \in Jobs :
                             job'[k].pc = "read" /\ Downloads(i)' /\ job'[k].store = Current =>
                               job'[k].since <= sync.got
      BY <1>2, <1>9 DEF Asked
    <3>1. CASE k = j
      BY <3>1, <2>2, <2>3, <2>4
    <3>2. CASE k # j
      BY <3>2, <1>1, <2>2, <2>3 DEF Asked
    <3>3. QED
      BY <3>1, <3>2
  <2>6. QED
    BY <1>1, <2>5 DEF Reads
<1>12. Follows'
  <2>1. \A k \in Jobs : holder = k => k # j /\ Whole(k)' = Whole(k)
    BY <1>1 DEF Whole
  <2>2. Waits => Waits'
    BY <1>1 DEF Waits, Whole
  <2>3. CASE urls' = urls
    BY <1>2, <2>1, <2>2, <2>3 DEF Follows, Knows, From, Listed
  <2>4. CASE kind = "refresh"
    <3>1. Waits'
      BY <1>1, <2>4 DEF Waits, Whole
    <3>2. QED
      BY <3>1 DEF Follows
  <2>5. QED
    BY <2>3, <2>4
<1>13. QED
  BY <1>4, <1>5, <1>6, <1>7, <1>8, <1>10, <1>11, <1>12

\* A refresh comes, at night or after the sources were edited; a reload; a fetch.
LEMMA StartStep ==
  ASSUME IInv, NEW j \in Jobs, Nightly(j) \/ Edit(j) \/ Reload(j) \/ Fetch(j)
  PROVE  IInv'
<1>1. \A u \in Stores : origin[u] \in Nat /\ 0 <= origin[u]
  BY DEF IInv, Types
<1>2. CASE Nightly(j)
  BY <1>2, BeginStep DEF Nightly, Kinds, IInv, Types
<1>3. CASE Edit(j)
  BY <1>3, BeginStep DEF Edit, Kinds
<1>4. CASE Reload(j)
  <2>1. PICK u \in Stores : Begin(j, "reload", u, 0) /\ tag' = [tag EXCEPT ![u] = 0]
    BY <1>4 DEF Reload
  <2>2. urls' = urls /\ urls \in Lists
    BY <1>4 DEF Reload, IInv, Types
  <2>3. QED
    BY <1>1, <2>1, <2>2, BeginStep DEF Kinds
<1>5. CASE Fetch(j)
  <2>1. PICK u \in Stores : Begin(j, "fetch", u, origin[u]) \/ Begin(j, "fetch", u, 0)
    BY <1>5 DEF Fetch
  <2>2. urls' = urls /\ urls \in Lists /\ tag' = tag
    BY <1>5 DEF Fetch, IInv, Types
  <2>3. CASE Begin(j, "fetch", u, origin[u])
    BY <1>1, <2>2, <2>3, BeginStep DEF Kinds
  <2>4. CASE Begin(j, "fetch", u, 0)
    BY <1>1, <2>2, <2>4, BeginStep DEF Kinds
  <2>5. QED
    BY <2>1, <2>3, <2>4
<1>6. QED
  BY <1>2, <1>3, <1>4, <1>5

-----------------------------------------------------------------------------
(* Under syncMu *)

\* While nobody holds the lock nothing is moved.
LEMMA NobodyWorks ==
  ASSUME IInv, holder = "none"
  PROVE  moving = FALSE /\ \A k \in Jobs : job[k].pc \notin Works
BY CatalogueAssumption DEF IInv, Locks, Types, Works

\* The job that has the lock works alone.
LEMMA WorksAlone ==
  ASSUME IInv, NEW j \in Jobs, holder = j
  PROVE  /\ \A k \in Jobs : k # j => job[k].pc \notin Works
         /\ moving <=> job[j].pc = "in"
BY DEF IInv, Locks, Works

\* The job that gets the lock knows the sources as they are.
LEMMA LockStep == ASSUME IInv, NEW j \in Jobs, Lock(j) PROVE IInv'
<1> USE DEF IInv
<1>1. /\ job[j].pc = "wait" /\ holder = "none" /\ holder' = j
      /\ job'[j].pc = "ask"
      /\ \A k \in Jobs : k # j => job'[k] = job[k]
      /\ job' \in [Jobs -> AJob]
  BY DEF Lock, Types, Places
<1>2. /\ UNCHANGED <<origin, urls, catalog, at, tag, moving, kept>>
      /\ sync' = [NoSync EXCEPT !.left = IF Whole(j) THEN urls ELSE <<job[j].store>>]
  BY DEF Lock
<1>3. moving = FALSE /\ \A k \in Jobs : job[k].pc \notin Works
  BY <1>1, NobodyWorks
<1>4. ~Whole(j) => job[j].store \in Stores
  BY <1>1 DEF OneStore
<1>5. urls \in Seq(Stores) /\ Empty \in Catalogues
  BY CatalogueAssumption DEF Types, Empty, Catalogues
<1>6. /\ sync' \in ASync
      /\ sync'.left = IF Whole(j) THEN urls ELSE <<job[j].store>>
      /\ sync'.build = Empty
  BY <1>2, <1>4, <1>5, LeftOfOne DEF NoSync
<1>7. Types'
  BY <1>1, <1>2, <1>6 DEF Types
<1>8. Past'
  BY <1>2 DEF Past
<1>9. Locks'
  BY <1>1, <1>2, <1>3 DEF Locks, Works
<1>10. \A k \in Jobs : job'[k].kind = job[k].kind /\ job'[k].store = job[k].store
                       /\ job'[k].since = job[k].since /\ job'[k].ok = job[k].ok
  BY DEF Lock, Types
<1>11. OneStore'
  BY <1>1, <1>2, <1>6, <1>10 DEF OneStore, Whole
<1>12. Working'
  BY <1>1, <1>3 DEF Working, Works
<1>13. Copies' = Copies
  BY <1>2, <1>3 DEF Copies
<1>14. Honest' /\ Safe'
  BY <1>2, <1>13 DEF Honest, Safe
<1>15. Reads'
  BY <1>1, <1>10 DEF Reads
<1>16. Asked'
  <2>0. \A i \in Jobs : ~Downloads(i)'
    BY <1>1, <1>3 DEF Downloads, Works
  <2> SUFFICES ASSUME NEW k \in Jobs, job'[k].kind = "fetch"
               PROVE  /\ Downloads(k)' => job'[k].since <= sync'.got
                      /\ Told(k)' /\ Copies'[job'[k].store] # 0 =>
                           job'[k].since <= Copies'[job'[k].store]
    BY <2>0 DEF Asked
  <2>1. CASE k = j
    <3>1. job'[k].pc = "ask" /\ ~Whole(j)
      BY <2>1, <1>1, <1>10 DEF Whole
    <3>2. sync'.left # <<>>
      BY <3>1, <1>4, <1>6, LeftOfOne
    <3>3. QED
      BY <3>1, <3>2 DEF Told, Downloads
  <2>2. CASE k # j
    <3>1. job'[k] = job[k] /\ job[k].pc \notin Works
      BY <2>2, <1>1, <1>3
    <3>2. QED
      BY <3>1, <1>13, <2>0 DEF Asked, Works, Told
  <2>3. QED
    BY <2>1, <2>2
<1>17. Follows'
  <2>1. \A k \in Jobs : holder # k
    BY <1>1, CatalogueAssumption
  <2>2. Whole(j) => Knows'
    BY <1>2, <1>6 DEF Knows, From, Listed, Empty
  <2>3. Waits => Waits' \/ Whole(j)
    BY <1>1 DEF Waits, Whole
  <2>4. Whole(j)' <=> Whole(j)
    BY <1>10 DEF Whole
  <2>5. From(catalog)' <=> From(catalog)
    BY <1>2 DEF From, Listed
  <2>6. QED
    BY <1>1, <2>1, <2>2, <2>3, <2>4, <2>5 DEF Follows
<1>18. QED
  BY <1>7, <1>8, <1>9, <1>11, <1>12, <1>14, <1>15, <1>16, <1>17

\* A source is done with: what is then there is the copy as it was or none, beside
\* validators that do not claim more.
LEMMA LeaveStep ==
  ASSUME IInv, NEW j \in Jobs, holder = j, sync.left # <<>>,
         NEW ok \in BOOLEAN, NEW apps \in BOOLEAN, Leave(j, ok, apps),
         UNCHANGED <<origin, urls, catalog, holder>>,
         moving' = FALSE, kept' \in [Stores -> BOOLEAN],
         at' \in [Stores -> Nat], tag' \in [Stores -> Nat],
         \A w \in Stores : /\ at'[w] \in {Copies[w], 0} /\ at'[w] <= origin[w]
                           /\ tag'[w] <= origin[w]
                           /\ at'[w] # 0 => tag'[w] <= at'[w]
                           /\ kept'[w] => at'[w] # 0,
         job[j].kind = "fetch" /\ ok => job[j].since <= at'[Current]
  PROVE  IInv'
<1> USE DEF IInv
<1>1. /\ Current \in Stores /\ Tail(sync.left) \in Seq(Stores) /\ Current = sync.left[1]
      /\ 1 \in DOMAIN sync.left
      /\ \A i \in DOMAIN Tail(sync.left) :
           i + 1 \in DOMAIN sync.left /\ Tail(sync.left)[i] = sync.left[i + 1]
  BY LeftParts DEF Types, Current
<1>2. /\ sync' \in ASync
      /\ sync'.left = Tail(sync.left)
      /\ sync'.build = sync.build \/ sync'.build = Merged(sync.build, Current)
  <2>1. sync.build \in Catalogues /\ Merged(sync.build, Current) \in Catalogues
    BY <1>1, MergedParts DEF Types
  <2>2. QED
    BY <1>1, <2>1 DEF Leave, NoSync
<1>3. /\ \A k \in Jobs : k # j => job'[k] = job[k]
      /\ job' \in [Jobs -> AJob]
  <2>1. job' = [job EXCEPT ![j] = [job[j] EXCEPT !.pc = "ask", !.ok = ok]]
    BY DEF Leave, Types
  <2>2. job[j] \in AJob /\ "ask" \in Places
    BY DEF Types, Places
  <2>3. [job[j] EXCEPT !.pc = "ask", !.ok = ok] \in AJob
    BY <2>2
  <2>4. QED
    BY <2>1, <2>3 DEF Types
<1>4. /\ \A k \in Jobs : job'[k].kind = job[k].kind /\ job'[k].store = job[k].store
                         /\ job'[k].since = job[k].since
      /\ job'[j].pc = "ask" /\ job'[j].ok = ok
      /\ job[j].pc \in Works /\ \A k \in Jobs : k # j => job[k].pc \notin Works
  <2>1. job[j].pc \in Works /\ \A k \in Jobs : k # j => job[k].pc \notin Works
    BY WorksAlone DEF Locks
  <2>2. QED
    BY <2>1 DEF Leave, Types
<1>5. Types'
  BY <1>2, <1>3 DEF Types
<1>6. Past'
  BY DEF Past
<1>7. Locks'
  BY <1>3, <1>4 DEF Locks, Works
<1>8. OneStore'
  <2> SUFFICES ASSUME NEW k \in Jobs, ~Whole(k), job'[k].pc # "idle"
               PROVE  /\ job[k].store \in Stores /\ job[k].since <= origin[job[k].store]
                      /\ holder = k => sync'.left \in {<<>>, <<job[k].store>>}
    BY <1>4 DEF OneStore, Whole
  <2>1. job[k].pc # "idle"
    BY <1>3, <1>4 DEF Works
  <2>2. /\ job[k].store \in Stores /\ job[k].since <= origin[job[k].store]
        /\ holder = k => sync.left \in {<<>>, <<job[k].store>>}
    BY <2>1 DEF OneStore
  <2>3. QED
    BY <2>2, <1>2, LeftOfOne
<1>9. Working'
  BY <1>3, <1>4 DEF Working, Works
<1>10. \A w \in Stores : Copies'[w] = at'[w]
  BY DEF Copies
<1>11. Honest' /\ Safe'
  BY <1>10 DEF Honest, Safe
<1>12. Reads'
  BY <1>3, <1>4 DEF Reads
<1>13. Asked'
  <2>0. \A i \in Jobs : ~Downloads(i)'
    BY <1>3, <1>4 DEF Downloads, Works
  <2> SUFFICES ASSUME NEW k \in Jobs, job'[k].kind = "fetch"
               PROVE  /\ Downloads(k)' => job'[k].since <= sync'.got
                      /\ Told(k)' /\ Copies'[job'[k].store] # 0 =>
                           job'[k].since <= Copies'[job'[k].store]
    BY <2>0 DEF Asked
  <2>1. CASE k = j
    <3>1. job[j].kind = "fetch" /\ job'[j].since = job[j].since /\ job'[j].store = job[j].store
      BY <2>1, <1>4
    <3>2. job[j].store \in Stores /\ sync.left = <<job[j].store>>
      BY <3>1, <1>4 DEF OneStore, Whole, Works
    <3>3. Current = job[j].store
      BY <3>2, LeftOfOne DEF Current
    <3>4. job'[j].ok => job'[j].since <= Copies'[job'[j].store]
      BY <3>1, <3>2, <3>3, <1>4, <1>10
    <3>5. QED
      BY <2>0, <2>1, <3>4, <1>4 DEF Told
  <2>2. CASE k # j
    <3>1. job'[k] = job[k] /\ job[k].pc \notin Works
      BY <2>2, <1>3, <1>4
    <3>2. job[k].pc = "read" => job[k].store \in Stores
      BY <3>1 DEF OneStore, Whole
    <3>3. ASSUME job[k].pc = "read", at'[job[k].store] # 0
          PROVE  job[k].since <= at'[job[k].store]
      <4>1. at'[job[k].store] = Copies[job[k].store]
        BY <3>2, <3>3
      <4>2. QED
        BY <2>2, <3>1, <3>3, <4>1, <1>4 DEF Asked, Told
    <3>4. QED
      BY <2>0, <3>1, <3>2, <3>3, <1>10 DEF Works, Told
  <2>3. QED
    BY <2>1, <2>2
<1>14. Follows'
  <2>1. Waits' <=> Waits
    BY <1>3, <1>4 DEF Waits, Whole, Works
  <2>2. Knows => Knows'
    <3>1. ASSUME Knows PROVE From(sync'.build)
      <4>1. Listed(Current)
        BY <3>1, <1>1 DEF Knows
      <4>2. sync.build \in Catalogues /\ From(sync.build)
        BY <3>1 DEF Knows, Types
      <4>3. From(Merged(sync.build, Current))
        BY <4>1, <4>2, <1>1, MergedParts
      <4>4. QED
        BY <4>2, <4>3, <1>2
    <3>2. ASSUME Knows PROVE \A i \in DOMAIN sync'.left : Listed(sync'.left[i])
      BY <3>2, <1>1, <1>2 DEF Knows
    <3>3. QED
      BY <3>1, <3>2 DEF Knows, From, Listed
  <2>3. \A k \in Jobs : Whole(k)' <=> Whole(k)
    BY <1>4 DEF Whole
  <2>4. From(catalog)' <=> From(catalog)
    BY DEF From, Listed
  <2>5. QED
    BY <2>1, <2>2, <2>3, <2>4 DEF Follows
<1>15. QED
  BY <1>5, <1>6, <1>7, <1>8, <1>9, <1>11, <1>12, <1>13, <1>14

\* The copies while nothing is moved are those on disk.
LEMMA CopiesOnDisk ==
  ASSUME IInv, moving = FALSE
  PROVE  /\ \A w \in Stores : Copies[w] = at[w]
         /\ \A w \in Stores : at[w] # 0 => tag[w] <= at[w]
         /\ \A w \in Stores : kept[w] => at[w] # 0
BY DEF IInv, Copies, Honest, Safe

\* Nothing is newer than its origin, and a version is a number.
LEMMA Versions0 ==
  ASSUME IInv, NEW w \in Stores
  PROVE  /\ origin[w] \in Nat /\ at[w] \in Nat /\ tag[w] \in Nat
         /\ 0 < origin[w] /\ at[w] <= origin[w] /\ tag[w] <= origin[w]
BY DEF IInv, Types, Past

\* A job that moves on with the source it is at, and changes nothing else of what the
\* jobs, the sources and the catalogue are.
LEMMA MoveStep ==
  ASSUME IInv, NEW j \in Jobs, holder = j, NEW place \in {"aside", "in", "tag"},
         job' = [job EXCEPT ![j].pc = place],
         UNCHANGED <<origin, urls, catalog, tag, holder>>,
         sync' \in ASync,
         sync'.left = sync.left, sync'.build = sync.build, sync.left # <<>>,
         IF place = "in" THEN moving' = TRUE ELSE moving' = FALSE,
         kept' \in [Stores -> BOOLEAN], at' \in [Stores -> Nat],
         \A w \in Stores : at'[w] <= origin[w] /\ (kept'[w] => Copies'[w] # 0),
         \A w \in Stores : /\ Copies'[w] = Copies[w] \/ (w = Current /\ Copies'[w] = sync'.got)
                           /\ Copies'[w] # 0 => tag[w] <= Copies'[w],
         0 < sync'.got, sync'.got <= origin[Current],
         at'[Current] <= sync'.got, tag[Current] <= sync'.got,
         place = "in" => sync'.old <= sync'.got /\ at'[Current] = 0,
         place = "tag" => at'[Current] = sync'.got,
         job[j].kind = "fetch" => job[j].since <= sync'.got,
         \A k \in Jobs : job[k].pc = "read" /\ job[k].store = Current => job[k].since <= sync'.got
  PROVE  IInv'
<1> USE DEF IInv
<1>1. /\ \A k \in Jobs : k # j => job'[k] = job[k]
      /\ job' \in [Jobs -> AJob]
      /\ job'[j].pc = place
      /\ \A k \in Jobs : job'[k].kind = job[k].kind /\ job'[k].store = job[k].store
                         /\ job'[k].since = job[k].since
  BY DEF Types, Places
<1>2. job[j].pc \in Works /\ \A k \in Jobs : k # j => job[k].pc \notin Works
  BY WorksAlone DEF Locks
<1>3. Current' = Current
  BY DEF Current
<1>4. Types' /\ Past'
  BY <1>1 DEF Types, Past
<1>5. Locks'
  BY <1>1, <1>2 DEF Locks, Works
<1>6. OneStore'
  BY <1>1, <1>2 DEF OneStore, Whole, Works
<1>7. Working'
  BY <1>1, <1>2, <1>3 DEF Working, Works
<1>8. Honest' /\ Safe'
  BY DEF Honest, Safe
<1>9. Reads'
  BY <1>1 DEF Reads
<1>10. Asked'
  <2> SUFFICES ASSUME NEW k \in Jobs, job'[k].kind = "fetch"
               PROVE  /\ Downloads(k)' => job'[k].since <= sync'.got
                      /\ Told(k)' /\ Copies'[job'[k].store] # 0 =>
                           job'[k].since <= Copies'[job'[k].store]
                      /\ job'[k].pc = "read" /\ job'[k].store = Current =>
                           job'[k].since <= sync'.got
    BY <1>3 DEF Asked
  <2>1. CASE k = j
    BY <2>1, <1>1 DEF Told, Downloads
  <2>2. CASE k # j
    <3>1. job'[k] = job[k] /\ job[k].pc \notin Works /\ job[k].kind = "fetch"
      BY <2>2, <1>1, <1>2
    <3>2. ASSUME job[k].pc = "read", Copies'[job[k].store] # 0
          PROVE  job[k].since <= Copies'[job[k].store]
      <4>1. /\ job[k].store \in Stores
            /\ Copies[job[k].store] # 0 => job[k].since <= Copies[job[k].store]
        BY <3>1, <3>2 DEF OneStore, Whole, Asked, Told
      <4>2. CASE Copies'[job[k].store] = Copies[job[k].store]
        BY <3>2, <4>1, <4>2
      <4>3. CASE job[k].store = Current /\ Copies'[job[k].store] = sync'.got
        BY <3>2, <4>3
      <4>4. QED
        BY <4>1, <4>2, <4>3
    <3>3. QED
      BY <3>1, <3>2 DEF Told, Works, Downloads
  <2>3. QED
    BY <2>1, <2>2
<1>11. Follows'
  <2>1. Waits' <=> Waits
    BY <1>1, <1>2 DEF Waits, Whole, Works
  <2>2. Knows' <=> Knows
    BY DEF Knows, From, Listed
  <2>3. \A k \in Jobs : Whole(k)' <=> Whole(k)
    BY <1>1 DEF Whole
  <2>4. From(catalog)' <=> From(catalog)
    BY DEF From, Listed
  <2>5. QED
    BY <2>1, <2>2, <2>3, <2>4 DEF Follows
<1>12. QED
  BY <1>4, <1>5, <1>6, <1>7, <1>8, <1>9, <1>10, <1>11

\* A source is asked: no answer, not modified, or a new copy.
LEMMA AskStep == ASSUME IInv, NEW j \in Jobs, Ask(j) PROVE IInv'
<1>1. /\ holder = j /\ job[j].pc = "ask" /\ sync.left # <<>>
      /\ UNCHANGED <<origin, urls, catalog, at, tag, moving, holder, kept>>
  BY DEF Ask
<1>2. moving = FALSE
  BY <1>1, WorksAlone DEF IInv, Types
<1>3. /\ Current \in Stores
      /\ Whole(j) \/ Current = job[j].store
  <2>1. Current \in Stores
    BY <1>1, LeftParts DEF IInv, Types, Current
  <2>2. ASSUME ~Whole(j) PROVE Current = job[j].store
    <3>1. job[j].store \in Stores /\ sync.left = <<job[j].store>>
      BY <1>1, <2>2 DEF IInv, OneStore
    <3>2. QED
      BY <3>1, LeftOfOne DEF Current
  <2>3. QED
    BY <2>1, <2>2
<1>4. /\ job[j].kind = "fetch" => job[j].since <= origin[Current]
      /\ \A k \in Jobs :
           job[k].pc = "read" /\ job[k].store = Current => job[k].since <= origin[Current]
  BY <1>1, <1>3 DEF IInv, OneStore, Whole, Reads
<1>5. \A w \in Stores : /\ Copies[w] = at[w] /\ (at[w] # 0 => tag[w] <= at[w])
                        /\ (kept[w] => at[w] # 0)
                        /\ origin[w] \in Nat /\ at[w] \in Nat /\ tag[w] \in Nat
                        /\ 0 < origin[w] /\ at[w] <= origin[w] /\ tag[w] <= origin[w]
  BY <1>2, CopiesOnDisk, Versions0
<1>6. /\ moving' = FALSE /\ kept' \in [Stores -> BOOLEAN]
      /\ at' \in [Stores -> Nat] /\ tag' \in [Stores -> Nat]
      /\ \A w \in Stores : /\ at'[w] \in {Copies[w], 0} /\ at'[w] <= origin[w]
                           /\ tag'[w] <= origin[w]
                           /\ (at'[w] # 0 => tag'[w] <= at'[w]) /\ (kept'[w] => at'[w] # 0)
      /\ Usable(Current) \in BOOLEAN
  BY <1>1, <1>2, <1>5 DEF IInv, Types, Usable, HasApps
<1>7. CASE Leave(j, FALSE, Usable(Current))
  BY <1>1, <1>6, <1>7, LeaveStep
<1>8. CASE Condition(Current) = origin[Current] /\ Leave(j, TRUE, Usable(Current))
  <2>1. at[Current] = origin[Current]
    BY <1>3, <1>5, <1>8 DEF Condition, Usable, HasApps
  <2>2. job[j].kind = "fetch" => job[j].since <= at'[Current]
    BY <2>1, <1>1, <1>4
  <2>3. QED
    BY <1>1, <1>6, <1>8, <2>2, LeaveStep
<1>9. CASE /\ sync' = [sync EXCEPT !.got = origin[Current]]
           /\ job' = [job EXCEPT ![j].pc = "aside"]
  <2>1. /\ sync' \in ASync
        /\ sync'.left = sync.left /\ sync'.build = sync.build /\ sync'.got = origin[Current]
    BY <1>3, <1>5, <1>9 DEF IInv, Types
  <2>2. Copies' = Copies
    BY <1>1, <1>2 DEF Copies
  <2>3. \A w \in Stores : /\ at'[w] <= origin[w] /\ (kept'[w] => Copies'[w] # 0)
                          /\ Copies'[w] = Copies[w] /\ (Copies'[w] # 0 => tag[w] <= Copies'[w])
    BY <1>1, <1>5, <2>2
  <2>4. /\ 0 < sync'.got /\ sync'.got <= origin[Current]
        /\ at'[Current] <= sync'.got /\ tag[Current] <= sync'.got
        /\ (job[j].kind = "fetch" => job[j].since <= sync'.got)
        /\ \A k \in Jobs :
             job[k].pc = "read" /\ job[k].store = Current => job[k].since <= sync'.got
    BY <1>1, <1>3, <1>4, <1>5, <2>1
  <2>5. QED
    BY <1>1, <1>2, <1>6, <1>9, <2>1, <2>3, <2>4, MoveStep
<1>10. QED
  BY <1>7, <1>8, <1>9 DEF Ask

\* What is known of the source a download is for.
LEMMA Download ==
  ASSUME IInv, NEW j \in Jobs, holder = j, job[j].pc \in {"aside", "in", "tag"}
  PROVE  /\ Current \in Stores /\ sync.left # <<>>
         /\ \A k \in Jobs :
              job[k].pc = "read" /\ job[k].store = Current => job[k].since <= sync.got
         /\ sync.got \in Nat /\ sync.old \in Nat
         /\ 0 < sync.got /\ sync.got <= origin[Current]
         /\ at[Current] <= sync.got /\ tag[Current] <= sync.got
         /\ job[j].pc = "in" => sync.old <= sync.got
         /\ job[j].pc = "tag" => at[Current] = sync.got
         /\ job[j].kind = "fetch" => job[j].since <= sync.got
         /\ \A w \in Stores : w # Current => Copies[w] = at[w]
         /\ Copies[Current] = IF job[j].pc = "in" THEN sync.old ELSE at[Current]
         /\ moving = (job[j].pc = "in")
<1>1. sync.left # <<>>
  BY DEF IInv, Working
<1>2. Current \in Stores
  BY <1>1, LeftParts DEF IInv, Types, Current
<1>3. moving = (job[j].pc = "in")
  BY WorksAlone DEF IInv, Types
<1>4. /\ \A w \in Stores : w # Current => Copies[w] = at[w]
      /\ Copies[Current] = IF job[j].pc = "in" THEN sync.old ELSE at[Current]
  BY <1>2, <1>3 DEF Copies
<1>5. \A k \in Jobs :
        job[k].pc = "read" /\ job[k].store = Current => job[k].since <= sync.got
  BY DEF IInv, Reads, Asked, Downloads
<1>6. QED
  BY <1>1, <1>2, <1>3, <1>4, <1>5 DEF IInv, Types, Working, Asked, Downloads

\* The copy of every source, against its origin, its validators and its promise.
LEMMA CopyBounds ==
  ASSUME IInv, NEW w \in Stores
  PROVE  /\ Copies[w] \in Nat /\ origin[w] \in Nat /\ at[w] \in Nat /\ tag[w] \in Nat
         /\ at[w] <= origin[w] /\ tag[w] <= origin[w]
         /\ Copies[w] # 0 => tag[w] <= Copies[w]
         /\ kept[w] => Copies[w] # 0
BY CopiesType, Versions0 DEF IInv, Honest, Safe

\* The old copy is put aside: it still counts as the copy.
LEMMA AsideStep == ASSUME IInv, NEW j \in Jobs, Aside(j) PROVE IInv'
<1>1. /\ holder = j /\ job[j].pc = "aside" /\ moving' = TRUE
      /\ sync' = [sync EXCEPT !.old = at[Current]]
      /\ at' = [at EXCEPT ![Current] = 0]
      /\ job' = [job EXCEPT ![j].pc = "in"]
      /\ UNCHANGED <<origin, urls, catalog, tag, holder, kept>>
  BY DEF Aside
<1>2. /\ Current \in Stores /\ sync.left # <<>> /\ sync.got \in Nat /\ moving = FALSE
      /\ 0 < sync.got /\ sync.got <= origin[Current]
      /\ at[Current] <= sync.got /\ tag[Current] <= sync.got
      /\ job[j].kind = "fetch" => job[j].since <= sync.got
      /\ \A k \in Jobs :
           job[k].pc = "read" /\ job[k].store = Current => job[k].since <= sync.got
      /\ \A w \in Stores : Copies[w] = at[w]
  BY <1>1, Download
<1>3. \A w \in Stores : /\ Copies[w] \in Nat /\ origin[w] \in Nat /\ at[w] \in Nat
                        /\ at[w] <= origin[w]
                        /\ Copies[w] # 0 => tag[w] <= Copies[w]
                        /\ kept[w] => Copies[w] # 0
  BY CopyBounds
<1>4. /\ sync' \in ASync
      /\ sync'.left = sync.left /\ sync'.build = sync.build
      /\ sync'.got = sync.got /\ sync'.old = at[Current]
  BY <1>1, <1>2, <1>3 DEF IInv, Types
<1>5. Current' = Current
  BY <1>4 DEF Current
<1>6. at' \in [Stores -> Nat] /\ \A w \in Stores : at'[w] = IF w = Current THEN 0 ELSE at[w]
  BY <1>1, <1>2 DEF IInv, Types
<1>7. \A w \in Stores : Copies'[w] = Copies[w]
  BY <1>1, <1>2, <1>4, <1>5, <1>6 DEF Copies
<1>8. \A w \in Stores : /\ at'[w] <= origin[w] /\ (kept'[w] => Copies'[w] # 0)
                        /\ Copies'[w] = Copies[w] /\ (Copies'[w] # 0 => tag[w] <= Copies'[w])
  BY <1>1, <1>3, <1>6, <1>7
<1>9. /\ at'[Current] <= sync'.got /\ sync'.old <= sync'.got /\ at'[Current] = 0
      /\ kept' \in [Stores -> BOOLEAN]
  BY <1>1, <1>2, <1>4, <1>6 DEF IInv, Types
<1>10. QED
  BY <1>1, <1>2, <1>4, <1>6, <1>8, <1>9, MoveStep

\* The new copy is renamed in, or the old one put back.
LEMMA SwapInStep == ASSUME IInv, NEW j \in Jobs, SwapIn(j) PROVE IInv'
<1>1. /\ holder = j /\ job[j].pc = "in" /\ moving' = FALSE
      /\ UNCHANGED <<origin, urls, catalog, tag, holder>>
  BY DEF SwapIn
<1>2. /\ Current \in Stores /\ sync.left # <<>> /\ sync.got \in Nat /\ sync.old \in Nat
      /\ 0 < sync.got /\ sync.got <= origin[Current] /\ sync.old <= sync.got
      /\ tag[Current] <= sync.got
      /\ job[j].kind = "fetch" => job[j].since <= sync.got
      /\ \A k \in Jobs :
           job[k].pc = "read" /\ job[k].store = Current => job[k].since <= sync.got
      /\ \A w \in Stores : w # Current => Copies[w] = at[w]
      /\ Copies[Current] = sync.old
  BY <1>1, Download
<1>3. \A w \in Stores : /\ Copies[w] \in Nat /\ origin[w] \in Nat /\ at[w] \in Nat
                        /\ tag[w] \in Nat /\ at[w] <= origin[w] /\ tag[w] <= origin[w]
                        /\ Copies[w] # 0 => tag[w] <= Copies[w]
                        /\ kept[w] => Copies[w] # 0
  BY CopyBounds
<1>4. CASE /\ at' = [at EXCEPT ![Current] = sync.got]
           /\ job' = [job EXCEPT ![j].pc = "tag"]
           /\ kept' = [kept EXCEPT ![Current] = TRUE]
           /\ UNCHANGED sync
  <2>1. /\ at' \in [Stores -> Nat] /\ kept' \in [Stores -> BOOLEAN]
        /\ \A w \in Stores : w # Current => at'[w] = at[w] /\ kept'[w] = kept[w]
        /\ at'[Current] = sync.got
    BY <1>2, <1>4 DEF IInv, Types
  <2>2. \A w \in Stores : Copies'[w] = at'[w]
    BY <1>1 DEF Copies
  <2>3. \A w \in Stores : /\ at'[w] <= origin[w] /\ (kept'[w] => Copies'[w] # 0)
                          /\ Copies'[w] = Copies[w] \/ (w = Current /\ Copies'[w] = sync.got)
                          /\ (Copies'[w] # 0 => tag[w] <= Copies'[w])
    <3> SUFFICES ASSUME NEW w \in Stores
                 PROVE  /\ at'[w] <= origin[w] /\ (kept'[w] => Copies'[w] # 0)
                        /\ Copies'[w] = Copies[w] \/ (w = Current /\ Copies'[w] = sync.got)
                        /\ (Copies'[w] # 0 => tag[w] <= Copies'[w])
      OBVIOUS
    <3>1. CASE w = Current
      BY <3>1, <1>2, <2>1, <2>2
    <3>2. CASE w # Current
      BY <3>2, <1>2, <1>3, <2>1, <2>2
    <3>3. QED
      BY <3>1, <3>2
  <2>4. /\ sync' \in ASync
        /\ sync'.left = sync.left /\ sync'.build = sync.build /\ sync'.got = sync.got
    BY <1>4 DEF IInv, Types
  <2>5. /\ 0 < sync'.got /\ sync'.got <= origin[Current]
        /\ at'[Current] = sync'.got /\ at'[Current] <= sync'.got /\ tag[Current] <= sync'.got
        /\ (job[j].kind = "fetch" => job[j].since <= sync'.got)
    BY <1>1, <1>2, <2>1, <2>4
  <2>6. QED
    BY <1>1, <1>2, <1>4, <2>1, <2>3, <2>4, <2>5, MoveStep
<1>5. CASE /\ at' = [at EXCEPT ![Current] = sync.old]
           /\ Leave(j, FALSE, HasApps(Current, sync.old))
           /\ UNCHANGED kept
  <2>1. /\ at' \in [Stores -> Nat] /\ kept' \in [Stores -> BOOLEAN] /\ tag' \in [Stores -> Nat]
        /\ \A w \in Stores : at'[w] = Copies[w]
    BY <1>1, <1>2, <1>5 DEF IInv, Types
  <2>2. sync.old <= origin[Current]
    BY <1>2, <1>3
  <2>3. \A w \in Stores : /\ at'[w] \in {Copies[w], 0} /\ at'[w] <= origin[w]
                          /\ tag'[w] <= origin[w]
                          /\ (at'[w] # 0 => tag'[w] <= at'[w]) /\ (kept'[w] => at'[w] # 0)
    BY <1>1, <1>2, <1>3, <1>5, <2>1, <2>2
  <2>4. HasApps(Current, sync.old) \in BOOLEAN
    BY DEF HasApps
  <2>5. QED
    BY <1>1, <1>2, <1>5, <2>1, <2>3, <2>4, LeaveStep
<1>6. CASE /\ Leave(j, FALSE, FALSE)
           /\ kept' = [kept EXCEPT ![Current] = FALSE]
           /\ UNCHANGED at
  <2>1. /\ at' \in [Stores -> Nat] /\ kept' \in [Stores -> BOOLEAN] /\ tag' \in [Stores -> Nat]
        /\ at'[Current] = 0 /\ kept'[Current] = FALSE
        /\ \A w \in Stores : w # Current => at'[w] = Copies[w] /\ kept'[w] = kept[w]
    BY <1>1, <1>2, <1>6 DEF IInv, Types, Working
  <2>2. \A w \in Stores : /\ at'[w] \in {Copies[w], 0} /\ at'[w] <= origin[w]
                          /\ tag'[w] <= origin[w]
                          /\ (at'[w] # 0 => tag'[w] <= at'[w]) /\ (kept'[w] => at'[w] # 0)
    BY <1>1, <1>2, <1>3, <2>1
  <2>3. QED
    BY <1>1, <1>2, <1>6, <2>1, <2>2, LeaveStep
<1>7. QED
  BY <1>4, <1>5, <1>6 DEF SwapIn

\* The validators are written, dropped or left as they were.
LEMMA TagStep == ASSUME IInv, NEW j \in Jobs, Tag(j) PROVE IInv'
<1>1. /\ holder = j /\ job[j].pc = "tag" /\ Leave(j, Usable(Current), Usable(Current))
      /\ UNCHANGED <<origin, urls, catalog, at, moving, holder, kept>>
  BY DEF Tag
<1>2. /\ Current \in Stores /\ sync.left # <<>> /\ sync.got \in Nat
      /\ sync.got <= origin[Current] /\ tag[Current] <= sync.got
      /\ at[Current] = sync.got /\ moving = FALSE
      /\ job[j].kind = "fetch" => job[j].since <= sync.got
      /\ \A k \in Jobs :
           job[k].pc = "read" /\ job[k].store = Current => job[k].since <= sync.got
      /\ \A w \in Stores : Copies[w] = at[w]
  BY <1>1, Download
<1>3. \A w \in Stores : /\ Copies[w] \in Nat /\ origin[w] \in Nat /\ at[w] \in Nat
                        /\ tag[w] \in Nat /\ at[w] <= origin[w] /\ tag[w] <= origin[w]
                        /\ Copies[w] # 0 => tag[w] <= Copies[w]
                        /\ kept[w] => Copies[w] # 0
  BY CopyBounds
<1>4. PICK t \in {sync.got, 0, tag[Current]} : tag' = [tag EXCEPT ![Current] = t]
  BY DEF Tag
<1>5. t \in Nat /\ t <= sync.got
  BY <1>2, <1>3, <1>4
<1>6. /\ tag' \in [Stores -> Nat] /\ at' \in [Stores -> Nat] /\ kept' \in [Stores -> BOOLEAN]
      /\ \A w \in Stores : w # Current => tag'[w] = tag[w]
      /\ tag'[Current] = t
      /\ Usable(Current) \in BOOLEAN
  BY <1>1, <1>2, <1>4, <1>5 DEF IInv, Types, Usable, HasApps
<1>7. \A w \in Stores : /\ at'[w] \in {Copies[w], 0} /\ at'[w] <= origin[w]
                        /\ tag'[w] <= origin[w]
                        /\ (at'[w] # 0 => tag'[w] <= at'[w]) /\ (kept'[w] => at'[w] # 0)
  <2> SUFFICES ASSUME NEW w \in Stores
               PROVE  /\ at'[w] \in {Copies[w], 0} /\ at'[w] <= origin[w]
                      /\ tag'[w] <= origin[w]
                      /\ (at'[w] # 0 => tag'[w] <= at'[w]) /\ (kept'[w] => at'[w] # 0)
    OBVIOUS
  <2>1. CASE w = Current
    BY <2>1, <1>1, <1>2, <1>3, <1>5, <1>6
  <2>2. CASE w # Current
    BY <2>2, <1>1, <1>2, <1>3, <1>6
  <2>3. QED
    BY <2>1, <2>2
<1>8. QED
  BY <1>1, <1>2, <1>6, <1>7, LeaveStep

\* All sources are done with: the catalogue is put in place, and the lock is left.
LEMMA DoneStep == ASSUME IInv, NEW j \in Jobs, Done(j) PROVE IInv'
<1> USE DEF IInv
<1>1. /\ holder = j /\ job[j].pc = "ask" /\ sync.left = <<>>
      /\ holder' = "none" /\ sync' = NoSync
      /\ catalog' = (IF Whole(j) THEN sync.build ELSE catalog)
      /\ UNCHANGED <<origin, urls, at, tag, moving, kept>>
  BY DEF Done
<1>2. moving = FALSE /\ \A k \in Jobs : k # j => job[k].pc \notin Works
  BY <1>1, WorksAlone DEF Types
<1>3. /\ job' \in [Jobs -> AJob]
      /\ \A k \in Jobs : k # j => job'[k] = job[k]
      /\ job'[j].pc \in {"idle", "wait", "read"}
      /\ job'[j].pc = "idle" \/ ~Whole(j)
      /\ job'[j].pc = "wait" => job'[j].kind = "refresh"
      /\ job'[j].pc = "read" =>
           /\ job[j].kind = "fetch" /\ (job[j].ok \/ job[j].since = 0)
           /\ job'[j].kind = "fetch" /\ job'[j].store = job[j].store
           /\ job'[j].since = job[j].since
  <2>1. job[j] \in AJob
    BY DEF Types
  <2>2. Idle \in AJob /\ Idle.pc = "idle" /\ Idle.kind = "refresh"
    BY DEF Idle, Places, Kinds
  <2>3. PICK new : /\ job' = [job EXCEPT ![j] = new]
                   /\ \/ new = Idle
                      \/ job[j].kind = "reload" /\ new = [Idle EXCEPT !.pc = "wait"]
                      \/ /\ job[j].kind = "fetch" /\ (job[j].ok \/ job[j].since = 0)
                         /\ new = [job[j] EXCEPT !.pc = "read"]
    BY DEF Done
  <2>4. /\ new \in AJob
        /\ new.pc \in {"idle", "wait", "read"}
        /\ new.pc = "idle" \/ ~Whole(j)
        /\ new.pc = "wait" => new.kind = "refresh"
        /\ new.pc = "read" =>
             /\ job[j].kind = "fetch" /\ (job[j].ok \/ job[j].since = 0)
             /\ new.kind = "fetch" /\ new.store = job[j].store /\ new.since = job[j].since
    <3>1. CASE new = Idle
      BY <3>1, <2>2
    <3>2. CASE job[j].kind = "reload" /\ new = [Idle EXCEPT !.pc = "wait"]
      BY <3>2, <2>2 DEF Whole, Places
    <3>3. CASE /\ job[j].kind = "fetch" /\ (job[j].ok \/ job[j].since = 0)
               /\ new = [job[j] EXCEPT !.pc = "read"]
      BY <3>3, <2>1 DEF Whole, Places
    <3>4. QED
      BY <2>3, <3>1, <3>2, <3>3
  <2>5. job'[j] = new
    BY <2>3 DEF Types
  <2>6. QED
    BY <2>3, <2>4, <2>5 DEF Types
<1>4. Empty \in Catalogues /\ NoSync \in ASync
  BY DEF NoSync, Empty, Catalogues
<1>5. Types'
  BY <1>1, <1>3, <1>4 DEF Types
<1>6. Past'
  BY <1>1 DEF Past
<1>7. Locks'
  <2>1. \A k \in Jobs : job'[k].pc \notin Works /\ job[k].pc # "in" /\ k # "none"
    BY <1>1, <1>2, <1>3, CatalogueAssumption DEF Works
  <2>2. QED
    BY <1>1, <1>2, <2>1 DEF Locks, Works
<1>8. OneStore'
  <2> SUFFICES ASSUME NEW k \in Jobs, ~Whole(k)', job'[k].pc # "idle"
               PROVE  job'[k].store \in Stores /\ job'[k].since <= origin[job'[k].store]
    BY <1>1, CatalogueAssumption DEF OneStore
  <2>1. CASE k = j
    <3>1. job'[j].pc = "read"
      BY <2>1, <1>3 DEF Whole
    <3>2. QED
      BY <2>1, <3>1, <1>1, <1>3 DEF OneStore, Whole
  <2>2. CASE k # j
    BY <2>2, <1>3 DEF OneStore, Whole
  <2>3. QED
    BY <2>1, <2>2
<1>9. Working'
  BY <1>2, <1>3 DEF Working, Works
<1>10. /\ \A w \in Stores : Copies'[w] = Copies[w]
  BY <1>1, <1>2 DEF Copies
<1>11. Honest' /\ Safe'
  BY <1>1, <1>10 DEF Honest, Safe
<1>12. Reads'
  BY <1>3 DEF Reads
<1>13. Asked'
  <2>0. \A i \in Jobs : ~Downloads(i)'
    BY <1>2, <1>3 DEF Downloads, Works
  <2> SUFFICES ASSUME NEW k \in Jobs, job'[k].kind = "fetch"
               PROVE  /\ Downloads(k)' => job'[k].since <= sync'.got
                      /\ Told(k)' /\ Copies'[job'[k].store] # 0 =>
                           job'[k].since <= Copies'[job'[k].store]
    BY <2>0 DEF Asked
  <2>1. CASE k = j
    <3>1. ASSUME job'[j].pc = "read", Copies'[job'[j].store] # 0
          PROVE  job'[j].since <= Copies'[job'[j].store]
      <4>1. /\ job[j].kind = "fetch" /\ (job[j].ok \/ job[j].since = 0)
            /\ job'[j].since = job[j].since /\ job'[j].store = job[j].store
            /\ job[j].store \in Stores
        BY <3>1, <1>1, <1>3 DEF OneStore, Whole
      <4>2. job[j].since \in Nat /\ Copies[job[j].store] \in Nat
        BY <4>1, CopiesType DEF Types
      <4>3. job[j].ok => job[j].since <= Copies[job[j].store]
        BY <3>1, <4>1, <1>1, <1>10 DEF Asked, Told
      <4>4. QED
        BY <4>1, <4>2, <4>3, <1>10
    <3>2. QED
      BY <2>0, <2>1, <3>1, <1>3 DEF Told
  <2>2. CASE k # j
    <3>1. job'[k] = job[k] /\ job[k].pc \notin Works
      BY <2>2, <1>2, <1>3
    <3>2. job[k].pc = "read" => job[k].store \in Stores
      BY <3>1 DEF OneStore, Whole
    <3>3. QED
      BY <2>0, <3>1, <3>2, <1>10 DEF Asked, Told, Works
  <2>3. QED
    BY <2>1, <2>2
<1>14. Follows'
  <2>1. \A k \in Jobs : holder' # k
    BY <1>1, CatalogueAssumption
  <2>2. Waits => Waits'
    BY <1>1, <1>3 DEF Waits, Whole
  <2>3. CASE Whole(j)
    <3>1. Knows \/ Waits
      BY <2>3, <1>1 DEF Follows
    <3>2. Knows => From(catalog)'
      BY <2>3, <1>1 DEF Knows, From, Listed
    <3>3. QED
      BY <2>1, <2>2, <3>1, <3>2 DEF Follows
  <2>4. CASE ~Whole(j)
    <3>1. From(catalog) \/ Waits
      BY <2>4, <1>1 DEF Follows
    <3>2. From(catalog) => From(catalog)'
      BY <2>4, <1>1 DEF From, Listed
    <3>3. QED
      BY <2>1, <2>2, <3>1, <3>2 DEF Follows
  <2>5. QED
    BY <2>3, <2>4
<1>15. QED
  BY <1>5, <1>6, <1>7, <1>8, <1>9, <1>11, <1>12, <1>13, <1>14

-----------------------------------------------------------------------------
(* Readers, origins and kills *)

\* A reader is done.
LEMMA ReadStep == ASSUME IInv, NEW j \in Jobs, Read(j) PROVE IInv'
<1> USE DEF IInv
<1>1. /\ job[j].pc = "read" /\ job' = [job EXCEPT ![j] = Idle]
      /\ UNCHANGED <<origin, urls, catalog, at, tag, moving, holder, sync, kept>>
  BY DEF Read
<1>2. /\ Idle \in AJob
      /\ Idle.pc = "idle" /\ holder # j
  BY <1>1 DEF Idle, Places, Kinds, Locks, Works
<1>3. job'[j] = Idle /\ \A k \in Jobs : k # j => job'[k] = job[k]
  BY <1>1 DEF Types
<1>4. Types' /\ Past'
  BY <1>1, <1>2 DEF Types, Past
<1>5. Locks' /\ OneStore' /\ Reads'
  BY <1>1, <1>2, <1>3 DEF Locks, Works, OneStore, Whole, Reads
<1>6. Current' = Current /\ Copies' = Copies
  BY <1>1 DEF Current, Copies
<1>7. Working'
  BY <1>1, <1>2, <1>3, <1>6 DEF Working
<1>8. Honest' /\ Safe' /\ Asked'
  BY <1>1, <1>2, <1>3, <1>6 DEF Honest, Safe, Asked, Told, Downloads
<1>9. Follows'
  <2>1. Waits => Waits'
    BY <1>1, <1>3 DEF Waits, Whole
  <2>2. \A k \in Jobs : holder = k => Whole(k)' = Whole(k)
    BY <1>2, <1>3 DEF Whole
  <2>3. (From(catalog)' <=> From(catalog)) /\ (Knows' <=> Knows)
    BY <1>1 DEF From, Knows, Listed
  <2>4. QED
    BY <1>1, <2>1, <2>2, <2>3 DEF Follows
<1>10. QED
  BY <1>4, <1>5, <1>7, <1>8, <1>9

\* An origin publishes: what was current no longer is, and no invariant cares.
LEMMA AdvanceStep == ASSUME IInv, Advance PROVE IInv'
<1> USE DEF IInv
<1>1. PICK u \in Stores : origin[u] < MaxVersion[u] /\ origin' = [origin EXCEPT ![u] = @ + 1]
  BY DEF Advance
<1>2. UNCHANGED <<urls, catalog, at, tag, moving, holder, sync, job, kept>>
  BY DEF Advance
<1>3. MaxVersion[u] \in Nat /\ \A w \in Stores : origin[w] \in Nat /\ at[w] \in Nat /\ tag[w] \in Nat
  BY CatalogueAssumption DEF Types
<1>4. /\ origin' \in [Stores -> Nat]
      /\ \A w \in Stores : origin'[w] = IF w = u THEN origin[w] + 1 ELSE origin[w]
  BY <1>1, <1>3 DEF Types
<1>5. Types'
  BY <1>2, <1>4 DEF Types
<1>6. Past'
  BY <1>1, <1>2, <1>3, <1>4 DEF Past
<1>7. Locks' /\ Reads'
  BY <1>2 DEF Locks, Reads
<1>8. OneStore'
  <2>1. \A k \in Jobs : job[k].since \in Nat
    BY DEF Types
  <2>2. QED
    BY <1>2, <1>3, <1>4, <2>1 DEF OneStore, Whole
<1>9. Current' = Current /\ Copies' = Copies
  BY <1>2 DEF Current, Copies
<1>10. Working'
  <2> SUFFICES ASSUME NEW k \in Jobs, job[k].pc \in {"aside", "in", "tag"}
               PROVE  sync.got <= origin'[Current]
    BY <1>2, <1>9 DEF Working
  <2>1. sync.left # <<>> /\ sync.got <= origin[Current] /\ sync.got \in Nat
    BY DEF Working, Types
  <2>2. Current \in Stores
    BY <2>1, LeftParts DEF Types, Current
  <2>3. QED
    BY <1>3, <1>4, <2>1, <2>2
<1>11. Honest' /\ Safe' /\ Asked'
  BY <1>2, <1>9 DEF Honest, Safe, Asked, Told, Downloads
<1>12. Follows'
  BY <1>2 DEF Follows, Waits, Whole, From, Knows, Listed
<1>13. QED
  BY <1>5, <1>6, <1>7, <1>8, <1>10, <1>11, <1>12

\* A kill ends every job; a copy that was put aside is lost, and no longer promised.
LEMMA KillStep == ASSUME IInv, Kill PROVE IInv'
<1> USE DEF IInv
<1>1. /\ catalog' = Empty /\ moving' = FALSE /\ holder' = "none" /\ sync' = NoSync
      /\ job' = [k \in Jobs |-> Idle]
      /\ kept' = [u \in Stores |-> kept[u] /\ ~(moving /\ u = Current)]
      /\ UNCHANGED <<origin, urls, at, tag>>
  BY DEF Kill
<1>2. /\ Idle \in AJob
      /\ Idle.pc = "idle" /\ Empty \in Catalogues
      /\ NoSync \in ASync
  BY DEF Idle, Places, Kinds, NoSync, Empty, Catalogues
<1>3. \A k \in Jobs : job'[k].pc = "idle" /\ k # "none"
  BY <1>1, <1>2, CatalogueAssumption
<1>4. Types' /\ Past'
  BY <1>1, <1>2 DEF Types, Past
<1>5. Locks' /\ OneStore' /\ Working' /\ Reads' /\ Asked'
  BY <1>1, <1>3 DEF Locks, Works, OneStore, Working, Reads, Asked, Told, Downloads
<1>6. \A w \in Stores : Copies'[w] = at[w] /\ (Copies[w] = at[w] \/ (moving /\ w = Current))
  BY <1>1 DEF Copies
<1>7. Safe'
  BY <1>1, <1>6 DEF Safe
<1>8. Honest'
  <2>1. \A w \in Stores : Copies[w] = at[w] \/ at[w] = 0
    BY <1>6 DEF Locks, Working
  <2>2. QED
    BY <1>1, <1>6, <2>1 DEF Honest
<1>9. From(catalog)'
  BY <1>1 DEF From, Empty
<1>10. Follows'
  BY <1>1, <1>3, <1>9 DEF Follows
<1>11. QED
  BY <1>4, <1>5, <1>7, <1>8, <1>10

-----------------------------------------------------------------------------
(* The theorems *)

LEMMA InvInit == Init => IInv
<1> SUFFICES ASSUME Init PROVE IInv
  OBVIOUS
<1> USE DEF Init
<1>1. /\ Idle \in AJob
      /\ Idle.pc = "idle" /\ Empty \in Catalogues
      /\ NoSync \in ASync
  BY DEF Idle, Places, Kinds, NoSync, Empty, Catalogues
<1>2. \A k \in Jobs : job[k].pc = "idle" /\ k # "none"
  BY <1>1, CatalogueAssumption
<1>3. Types
  BY <1>1 DEF Types
<1>4. Past
  BY CatalogueAssumption DEF Past
<1>5. Locks /\ OneStore /\ Working /\ Reads /\ Asked
  BY <1>2 DEF Locks, Works, OneStore, Working, Reads, Asked, Told, Downloads
<1>6. Honest /\ Safe
  BY DEF Honest, Safe, Copies
<1>7. Follows
  BY <1>2 DEF Follows, From, Empty
<1>8. QED
  BY <1>3, <1>4, <1>5, <1>6, <1>7 DEF IInv

LEMMA InvNext == IInv /\ [Next]_vars => IInv'
<1> SUFFICES ASSUME IInv, [Next]_vars PROVE IInv'
  OBVIOUS
<1>1. ASSUME NEW j \in Jobs, Nightly(j) \/ Edit(j) \/ Reload(j) \/ Fetch(j) PROVE IInv'
  BY <1>1, StartStep
<1>2. ASSUME NEW j \in Jobs, Step(j) PROVE IInv'
  BY <1>2, LockStep, AskStep, AsideStep, SwapInStep, TagStep, DoneStep, ReadStep DEF Step
<1>3. CASE Advance
  BY <1>3, AdvanceStep
<1>4. CASE Kill
  BY <1>4, KillStep
<1>5. CASE UNCHANGED vars
  <2>1. UNCHANGED <<origin, urls, catalog, at, tag, moving, holder, sync, job, kept>>
    BY <1>5 DEF vars
  <2>2. Types' /\ Past' /\ Locks' /\ OneStore' /\ Reads'
    BY <2>1 DEF IInv, Types, Past, Locks, OneStore, Whole, Reads
  <2>3. Current' = Current /\ Copies' = Copies
    BY <2>1 DEF Current, Copies
  <2>4. Working' /\ Honest' /\ Safe' /\ Asked'
    BY <2>1, <2>3 DEF IInv, Working, Honest, Safe, Asked, Told, Downloads
  <2>5. Follows'
    BY <2>1 DEF IInv, Follows, Waits, Whole, Knows, From, Listed
  <2>6. QED
    BY <2>2, <2>4, <2>5 DEF IInv
<1>6. QED
  BY <1>1, <1>2, <1>3, <1>4, <1>5 DEF Next

\* The inductive invariant of the app store's jobs, locks, copies and catalogue.
THEOREM Invariance == Spec => []IInv
BY InvInit, InvNext, PTL DEF Spec

\* The types, and that syncMu and filesMu are held by exactly who is at work.
THEOREM TypeCorrect == Spec => []TypeOK
<1>1. IInv => TypeOK
  <2> SUFFICES ASSUME IInv PROVE TypeOK
    OBVIOUS
  <2>1. urls \in Lists /\ {catalog, sync.build} \subseteq Catalogues
    BY DEF IInv, Types
  <2>2. \A u \in Stores :
          origin[u] \in Versions(u) \ {0} /\ {at[u], tag[u]} \subseteq Versions(u)
    BY CatalogueAssumption DEF IInv, Types, Past, Versions
  <2>3. QED
    BY <2>1, <2>2 DEF TypeOK, IInv, Locks, Works
<1>2. QED
  BY <1>1, Invariance, PTL

\* Once extracted there is a copy, whatever downloads and renames fail, for as long as no
\* kill hits the two renames and an old copy can be put back (swapIn).
THEOREM CopyTheorem == Spec => []KeepsCopy
<1>1. IInv => KeepsCopy
  BY DEF IInv, Safe, Copies, KeepsCopy
<1>2. QED
  BY <1>1, Invariance, PTL

\* What an update check reads is no older than what the origin had when it was asked for
\* (AppComposeFrom).
THEOREM CheckTheorem == Spec => []CheckedIsCurrent
<1>1. IInv => CheckedIsCurrent
  <2> SUFFICES ASSUME IInv, NEW j \in Jobs, job[j].pc = "read", moving = FALSE,
                      at[job[j].store] # 0
               PROVE  at[job[j].store] >= job[j].since
    BY DEF CheckedIsCurrent, IInv, Types
  <2>1. job[j].kind = "fetch"
    BY DEF IInv, Reads
  <2>2. job[j].store \in Stores
    BY <2>1 DEF IInv, OneStore, Whole
  <2>3. Copies[job[j].store] = at[job[j].store] /\ at[job[j].store] \in Nat /\ job[j].since \in Nat
    BY <2>2 DEF IInv, Types, Copies
  <2>4. job[j].since <= Copies[job[j].store]
    BY <2>1, <2>3 DEF IInv, Asked, Told
  <2>5. QED
    BY <2>3, <2>4
<1>2. QED
  BY <1>1, Invariance, PTL

\* When no job is under way the catalogue offers apps of configured sources only
\* (applySources, Refresh).
THEOREM SourcesTheorem == Spec => []CatalogueFollowsSources
<1>1. IInv => CatalogueFollowsSources
  BY DEF IInv, Locks, Works, Follows, Waits, From, Listed, CatalogueFollowsSources
<1>2. QED
  BY <1>1, Invariance, PTL

-----------------------------------------------------------------------------
(* Jobs end *)

\* The stages of a job: it waits or has the lock for one source, waits or has it for what
\* it came for, and reads.
WaitsFirst(j) == job[j].pc = "wait" /\ job[j].kind = "reload"
HoldsFirst(j) == holder = j /\ job[j].kind = "reload"
WaitsLast(j) == job[j].pc = "wait" /\ job[j].kind # "reload"
HoldsLast(j) == holder = j /\ job[j].kind # "reload"
IsReading(j) == job[j].pc = "read"
IsIdle(j) == job[j].pc = "idle"

HolderType == holder \in Jobs \cup {"none"}

\* The lock goes from one job to another through nobody's hands.
LEMMA HolderMoves ==
  ASSUME [Next]_vars
  PROVE  \/ holder' = holder \/ holder' = "none"
         \/ holder = "none" /\ holder' \in Jobs
<1>1. ASSUME NEW j \in Jobs, Nightly(j) \/ Edit(j) \/ Reload(j) \/ Fetch(j)
      PROVE  holder' = holder
  BY <1>1 DEF Nightly, Edit, Reload, Fetch, Begin
<1>2. ASSUME NEW j \in Jobs, Step(j)
      PROVE  holder' = holder \/ holder' = "none" \/ (holder = "none" /\ holder' = j)
  BY <1>2 DEF Step, Lock, Ask, Aside, SwapIn, Tag, Done, Read
<1>3. CASE Advance \/ Kill
  BY <1>3 DEF Advance, Kill
<1>4. QED
  BY <1>1, <1>2, <1>3 DEF Next, vars

LEMMA HolderTheorem == Spec => []HolderType
<1>1. Init => HolderType
  BY DEF Init, HolderType
<1>2. HolderType /\ [Next]_vars => HolderType'
  BY HolderMoves DEF HolderType
<1>3. QED
  BY <1>1, <1>2, PTL DEF Spec

\* Only its own steps and a kill move a job.
LEMMA OwnMoves ==
  ASSUME Types, NEW j \in Jobs, [Next]_vars
  PROVE  job'[j] = job[j] \/ IsIdle(j) \/ Step(j) \/ IsIdle(j)'
<1>1. ASSUME NEW k \in Jobs, Nightly(k) \/ Edit(k) \/ Reload(k) \/ Fetch(k)
      PROVE  job'[j] = job[j] \/ IsIdle(j)
  BY <1>1 DEF Nightly, Edit, Reload, Fetch, Begin, Types, IsIdle
<1>2. ASSUME NEW k \in Jobs, k # j, Step(k) PROVE job'[j] = job[j]
  BY <1>2 DEF Step, Lock, Ask, Aside, SwapIn, Tag, Done, Read, Leave, Types
<1>3. CASE Kill
  BY <1>3 DEF Kill, Idle, IsIdle
<1>4. CASE Advance \/ UNCHANGED vars
  BY <1>4 DEF Advance, vars
<1>5. QED
  BY <1>1, <1>2, <1>3, <1>4 DEF Next

\* Where a job goes from a stage by a step of its own.
LEMMA StageSteps ==
  ASSUME IInv, NEW j \in Jobs, Step(j)
  PROVE  /\ WaitsFirst(j) => HoldsFirst(j)'
         /\ HoldsFirst(j) => HoldsFirst(j)' \/ WaitsLast(j)'
         /\ WaitsLast(j) => HoldsLast(j)'
         /\ HoldsLast(j) => HoldsLast(j)' \/ IsReading(j)' \/ IsIdle(j)'
         /\ IsReading(j) => IsIdle(j)'
<1> USE DEF WaitsFirst, HoldsFirst, WaitsLast, HoldsLast, IsReading, IsIdle
<1>1. /\ job \in [Jobs -> AJob] /\ job[j] \in AJob
      /\ job[j].pc \in Works <=> holder = j
  BY DEF IInv, Types, Locks
<1>2. CASE Lock(j)
  BY <1>1, <1>2 DEF Lock, Works
<1>3. CASE Ask(j) \/ Aside(j) \/ SwapIn(j) \/ Tag(j)
  BY <1>1, <1>3 DEF Ask, Aside, SwapIn, Tag, Leave, Works
<1>4. CASE Done(j)
  <2>1. holder = j /\ job[j].pc = "ask"
    BY <1>4 DEF Done
  <2>2. CASE Whole(j)
    <3>1. job[j].kind # "reload" /\ job'[j] = Idle
      BY <1>1, <1>4, <2>2 DEF Done, Whole
    <3>2. QED
      BY <2>1, <3>1 DEF Idle
  <2>3. CASE job[j].kind = "reload"
    <3>1. job'[j] = [Idle EXCEPT !.pc = "wait"]
      BY <1>1, <1>4, <2>3 DEF Done, Whole
    <3>2. QED
      BY <2>1, <2>3, <3>1 DEF Idle
  <2>4. CASE job[j].kind = "fetch"
    <3>1. job'[j] = [job[j] EXCEPT !.pc = "read"] \/ job'[j] = Idle
      BY <1>1, <1>4, <2>4 DEF Done, Whole
    <3>2. QED
      BY <1>1, <2>1, <2>4, <3>1 DEF Idle
  <2>5. QED
    BY <1>1, <2>2, <2>3, <2>4 DEF Whole, Kinds
<1>5. CASE Read(j)
  BY <1>1, <1>5 DEF Read, Works, Idle
<1>6. QED
  BY <1>2, <1>3, <1>4, <1>5 DEF Step

\* Whatever anybody does, a job stays at its stage, goes to the next, or has ended.
LEMMA StageMoves ==
  ASSUME IInv, IInv', NEW j \in Jobs, [Next]_vars
  PROVE  /\ WaitsFirst(j) => WaitsFirst(j)' \/ HoldsFirst(j)' \/ IsIdle(j)'
         /\ HoldsFirst(j) => HoldsFirst(j)' \/ WaitsLast(j)' \/ IsIdle(j)'
         /\ WaitsLast(j) => WaitsLast(j)' \/ HoldsLast(j)' \/ IsIdle(j)'
         /\ HoldsLast(j) => HoldsLast(j)' \/ IsReading(j)' \/ IsIdle(j)'
         /\ IsReading(j) => IsReading(j)' \/ IsIdle(j)'
<1>1. CASE Step(j)
  BY <1>1, StageSteps
<1>2. CASE IsIdle(j)'
  BY <1>2
<1>3. CASE job'[j] = job[j]
  <2>1. holder' = j <=> holder = j
    BY <1>3 DEF IInv, Locks
  <2>2. QED
    BY <1>3, <2>1 DEF WaitsFirst, HoldsFirst, WaitsLast, HoldsLast, IsReading
<1>4. CASE IsIdle(j)
  <2>1. holder # j
    BY <1>4 DEF IInv, Locks, Works, IsIdle
  <2>2. QED
    BY <1>4, <2>1 DEF WaitsFirst, HoldsFirst, WaitsLast, HoldsLast, IsReading, IsIdle
<1>5. QED
  BY <1>1, <1>2, <1>3, <1>4, OwnMoves DEF IInv

\* What the fair steps of a job that waits or reads do.
LEMMA GetsIn ==
  ASSUME IInv, NEW j \in Jobs, Lock(j) \/ Read(j)
  PROVE  /\ WaitsFirst(j) => HoldsFirst(j)'
         /\ WaitsLast(j) => HoldsLast(j)'
         /\ IsReading(j) => IsIdle(j)'
BY StageSteps DEF Step

\* If those who have the lock let go of it, it is free again and again.
LEMMA FreeAgain == Spec /\ []HoldersLetGo => []<>(holder = "none")
<1> DEFINE Going == [][Next]_vars /\ []HoldersLetGo
           Freed == <>(holder = "none")
<1>1. ASSUME NEW k \in Jobs PROVE Going => (holder = k => Freed)
  <2>1. HoldersLetGo => LetsGo(k)
    BY DEF HoldersLetGo
  <2>2. holder = k /\ [Next]_vars => (holder = k)' \/ (holder = "none")'
    BY HolderMoves, CatalogueAssumption
  <2>3. holder # k => ~(holder = k)
    OBVIOUS
  <2>4. QED
    BY <2>1, <2>2, <2>3, PTL DEF LetsGo
<1>2. holder = "none" => Freed
  BY PTL
<1>3. HolderType /\ Going => Freed
  <2> HIDE DEF Going, Freed
  <2>1. QED
    BY <1>1, <1>2 DEF HolderType
<1>4. QED
  BY <1>3, HolderTheorem, PTL DEF Spec

\* A job that waits gets the lock, and one that reads gets to: nobody starves.
LEMMA WaitEnds ==
  ASSUME NEW j \in Jobs
  PROVE  Spec /\ []JobsGoOn /\ []HoldersLetGo =>
           /\ WaitsFirst(j) ~> HoldsFirst(j) \/ IsIdle(j)
           /\ WaitsLast(j) ~> HoldsLast(j) \/ IsIdle(j)
           /\ IsReading(j) ~> IsIdle(j)
<1> DEFINE Can == ENABLED <<Lock(j) \/ Read(j)>>_vars
           Open == holder = "none"
<1>1. IInv /\ JobsGoOn /\ Open =>
        /\ WaitsFirst(j) => Can
        /\ WaitsLast(j) => Can
        /\ IsReading(j) => Can
  BY NobodyWorks DEF JobsGoOn, WaitsFirst, WaitsLast, IsReading
<1>2. IInv /\ IInv' /\ [Next]_vars =>
        /\ WaitsFirst(j) => WaitsFirst(j)' \/ HoldsFirst(j)' \/ IsIdle(j)'
        /\ WaitsLast(j) => WaitsLast(j)' \/ HoldsLast(j)' \/ IsIdle(j)'
        /\ IsReading(j) => IsReading(j)' \/ IsIdle(j)'
  BY StageMoves
<1>3. IInv /\ <<Lock(j) \/ Read(j)>>_vars =>
        /\ WaitsFirst(j) => HoldsFirst(j)'
        /\ WaitsLast(j) => HoldsLast(j)'
        /\ IsReading(j) => IsIdle(j)'
  BY GetsIn
<1>4. Fairness => Fair(j)
  BY DEF Fairness
<1>5. QED
  BY <1>1, <1>2, <1>3, <1>4, FreeAgain, Invariance, PTL DEF Spec, Fair

\* A job that has the lock goes on to its next stage, as who has it lets go.
LEMMA HoldEnds ==
  ASSUME NEW j \in Jobs
  PROVE  Spec /\ []HoldersLetGo =>
           /\ HoldsFirst(j) ~> WaitsLast(j) \/ IsIdle(j)
           /\ HoldsLast(j) ~> IsReading(j) \/ IsIdle(j)
<1>1. HoldersLetGo => LetsGo(j)
  BY DEF HoldersLetGo
<1>2. /\ HoldsFirst(j) => holder = j
      /\ HoldsLast(j) => holder = j
      /\ holder # j => ~(holder = j)
  BY DEF HoldsFirst, HoldsLast
<1>3. IInv /\ IInv' /\ [Next]_vars =>
        /\ HoldsFirst(j) => HoldsFirst(j)' \/ WaitsLast(j)' \/ IsIdle(j)'
        /\ HoldsLast(j) => HoldsLast(j)' \/ IsReading(j)' \/ IsIdle(j)'
  BY StageMoves
<1>4. QED
  BY <1>1, <1>2, <1>3, Invariance, PTL DEF Spec, LetsGo

\* Every job ends, however many come and whatever else they do, if nothing but a held lock
\* blocks one and who has the lock lets go of it: nobody starves, a reload's two turns and
\* a fetch's reading included (syncMu, filesMu).  The run checks both hypotheses.
THEOREM EndsTheorem == Spec /\ []JobsGoOn /\ []HoldersLetGo => NothingRunsUnbounded
<1> SUFFICES ASSUME NEW j \in Jobs
             PROVE  Spec /\ []JobsGoOn /\ []HoldersLetGo => Ends(j)
  BY DEF NothingRunsUnbounded
<1>1. Spec /\ []JobsGoOn /\ []HoldersLetGo =>
        /\ WaitsFirst(j) ~> HoldsFirst(j) \/ IsIdle(j)
        /\ WaitsLast(j) ~> HoldsLast(j) \/ IsIdle(j)
        /\ IsReading(j) ~> IsIdle(j)
        /\ HoldsFirst(j) ~> WaitsLast(j) \/ IsIdle(j)
        /\ HoldsLast(j) ~> IsReading(j) \/ IsIdle(j)
  BY WaitEnds, HoldEnds
<1>2. IInv => \/ IsIdle(j) \/ WaitsFirst(j) \/ WaitsLast(j) \/ HoldsFirst(j) \/ HoldsLast(j)
              \/ IsReading(j)
  BY DEF IInv, Types, Locks, Works, Places, IsIdle, WaitsFirst, WaitsLast, HoldsFirst,
         HoldsLast, IsReading
<1>3. IsIdle(j) => job[j].pc = "idle"
  BY DEF IsIdle
<1>4. QED
  BY <1>1, <1>2, <1>3, Invariance, PTL DEF Ends

\* The stages of one source, with n sources left.
AtStage(j, place, n) == holder = j /\ job[j].pc = place /\ Len(sync.left) = n

\* The lock was let go of, or there are fewer sources left.
Gone(j, n) == holder # j \/ Len(sync.left) < n

\* A source that is done with leaves one less.
LEMMA LeaveLess ==
  ASSUME Types, NEW j \in Jobs, NEW n \in Nat, NEW ok, NEW apps,
         sync.left # <<>>, Len(sync.left) = n, Leave(j, ok, apps)
  PROVE  Gone(j, n)'
<1>1. sync.left \in Seq(Stores) /\ sync'.left = Tail(sync.left)
  BY DEF Types, Leave, NoSync
<1>2. Len(Tail(sync.left)) < n
  BY <1>1
<1>3. QED
  BY <1>1, <1>2 DEF Gone

\* Where the work on a source goes.
LEMMA SourceSteps ==
  ASSUME IInv, NEW j \in Jobs, NEW n \in Nat, Step(j)
  PROVE  /\ AtStage(j, "ask", n) => AtStage(j, "aside", n)' \/ Gone(j, n)'
         /\ AtStage(j, "aside", n) => AtStage(j, "in", n)'
         /\ AtStage(j, "in", n) => AtStage(j, "tag", n)' \/ Gone(j, n)'
         /\ AtStage(j, "tag", n) => Gone(j, n)'
<1>1. job \in [Jobs -> AJob] /\ job[j] \in AJob /\ sync \in ASync
  BY DEF IInv, Types
<1>2. job[j].pc \in {"aside", "in", "tag"} => sync.left # <<>>
  BY DEF IInv, Working
<1>3. Types
  BY DEF IInv
<1>4. CASE Lock(j) \/ Read(j)
  BY <1>4 DEF Lock, Read, AtStage
<1>5. CASE Ask(j)
  <2>1. holder = j /\ job[j].pc = "ask" /\ sync.left # <<>>
    BY <1>5 DEF Ask
  <2>2. CASE \E ok \in BOOLEAN : Leave(j, ok, Usable(Current))
    BY <1>3, <2>1, <2>2, LeaveLess DEF AtStage
  <2>3. CASE /\ sync' = [sync EXCEPT !.got = origin[Current]]
             /\ job' = [job EXCEPT ![j].pc = "aside"]
    <3>1. holder' = holder /\ sync'.left = sync.left /\ job'[j].pc = "aside"
      BY <1>1, <1>5, <2>3 DEF Ask
    <3>2. QED
      BY <2>1, <3>1 DEF AtStage
  <2>4. QED
    BY <1>5, <2>2, <2>3 DEF Ask
<1>6. CASE Aside(j)
  <2>1. holder' = holder /\ sync'.left = sync.left /\ job'[j].pc = "in" /\ job[j].pc = "aside"
    BY <1>1, <1>6 DEF Aside
  <2>2. QED
    BY <2>1 DEF AtStage
<1>7. CASE SwapIn(j)
  <2>1. holder' = holder /\ holder = j /\ job[j].pc = "in"
    BY <1>7 DEF SwapIn
  <2>2. CASE \E apps \in {FALSE, HasApps(Current, sync.old)} : Leave(j, FALSE, apps)
    BY <1>2, <1>3, <2>1, <2>2, LeaveLess DEF AtStage
  <2>3. CASE job' = [job EXCEPT ![j].pc = "tag"] /\ UNCHANGED sync
    <3>1. job'[j].pc = "tag" /\ sync'.left = sync.left
      BY <1>1, <2>3
    <3>2. QED
      BY <2>1, <3>1 DEF AtStage
  <2>4. QED
    BY <1>7, <2>2, <2>3 DEF SwapIn
<1>8. CASE Tag(j)
  BY <1>2, <1>3, <1>8, LeaveLess DEF Tag, AtStage
<1>9. CASE Done(j)
  <2>1. holder' # j
    BY <1>9, CatalogueAssumption DEF Done
  <2>2. QED
    BY <1>9, <2>1 DEF Done, AtStage, Gone
<1>10. QED
  BY <1>4, <1>5, <1>6, <1>7, <1>8, <1>9 DEF Step

\* Nobody else disturbs it.
LEMMA SourceAlone ==
  ASSUME IInv, NEW j \in Jobs, holder = j, [Next]_vars
  PROVE  \/ Step(j) \/ holder' # j
         \/ holder' = holder /\ job'[j].pc = job[j].pc /\ sync' = sync
<1>1. job[j].pc \in Works
  BY DEF IInv, Locks
<1>2. ASSUME NEW k \in Jobs, Nightly(k) \/ Edit(k) \/ Reload(k) \/ Fetch(k)
      PROVE  holder' = holder /\ job'[j].pc = job[j].pc /\ sync' = sync
  BY <1>1, <1>2 DEF Nightly, Edit, Reload, Fetch, Begin, IInv, Types, Works
<1>3. ASSUME NEW k \in Jobs, k # j, Step(k)
      PROVE  holder' = holder /\ job'[j].pc = job[j].pc /\ sync' = sync
  <2>1. Read(k)
    BY <1>3, CatalogueAssumption DEF Step, Lock, Ask, Aside, SwapIn, Tag, Done
  <2>2. QED
    BY <1>3, <2>1 DEF Read, IInv, Types
<1>4. CASE Advance \/ UNCHANGED vars
  BY <1>4 DEF Advance, vars
<1>5. CASE Kill
  BY <1>5, CatalogueAssumption DEF Kill
<1>6. QED
  BY <1>2, <1>3, <1>4, <1>5 DEF Next

\* A job that has the lock gets done with the source it is at, or with all: whatever
\* downloads and renames fail, none is asked for ever.  What is left to see that the lock
\* is let go of is that there are finitely many.
THEOREM SourceTheorem ==
  ASSUME NEW j \in Jobs, NEW n \in Nat
  PROVE  Spec /\ []JobsGoOn => (holder = j /\ Len(sync.left) = n ~> Gone(j, n))
<1> DEFINE Can == ENABLED <<Work(j)>>_vars
           Here == holder = j /\ Len(sync.left) = n
<1>1. JobsGoOn =>
        /\ AtStage(j, "ask", n) => Can
        /\ AtStage(j, "aside", n) => Can
        /\ AtStage(j, "in", n) => Can
        /\ AtStage(j, "tag", n) => Can
  BY DEF JobsGoOn, AtStage
<1>2. IInv /\ [Next]_vars =>
        /\ AtStage(j, "ask", n) =>
             AtStage(j, "ask", n)' \/ AtStage(j, "aside", n)' \/ Gone(j, n)'
        /\ AtStage(j, "aside", n) =>
             AtStage(j, "aside", n)' \/ AtStage(j, "in", n)' \/ Gone(j, n)'
        /\ AtStage(j, "in", n) => AtStage(j, "in", n)' \/ AtStage(j, "tag", n)' \/ Gone(j, n)'
        /\ AtStage(j, "tag", n) => AtStage(j, "tag", n)' \/ Gone(j, n)'
  BY SourceSteps, SourceAlone DEF AtStage, Gone
<1>3. IInv /\ <<Work(j)>>_vars =>
        /\ AtStage(j, "ask", n) => AtStage(j, "aside", n)' \/ Gone(j, n)'
        /\ AtStage(j, "aside", n) => AtStage(j, "in", n)'
        /\ AtStage(j, "in", n) => AtStage(j, "tag", n)' \/ Gone(j, n)'
        /\ AtStage(j, "tag", n) => Gone(j, n)'
  BY SourceSteps DEF Work, Step
<1>4. IInv => (Here => \/ AtStage(j, "ask", n) \/ AtStage(j, "aside", n)
                       \/ AtStage(j, "in", n) \/ AtStage(j, "tag", n))
  BY DEF IInv, Locks, Works, AtStage
<1>5. Fairness => Fair(j)
  BY DEF Fairness
<1>6. QED
  BY <1>1, <1>2, <1>3, <1>4, <1>5, Invariance, PTL DEF Spec, Fair
=============================================================================
