---------------------------- MODULE OverrideForm -----------------------------
(***************************************************************************)
(* The settings form of a service (internal/overrideform): Build reads the  *)
(* store's compose and the override into fields, Apply patches the override *)
(* with them, and Compose merges the two files.                             *)
(*                                                                          *)
(* Of each kind of field one is kept: the scalar image (for restart,        *)
(* privileged, command, mem_limit and cpus too), the list ports (for        *)
(* volumes, devices and cap_add) and environment.  What the form cannot     *)
(* represent is Complex, as a scalar, as an item of a list or as a value of *)
(* a variable.  Blank rows are not submitted.                               *)
(***************************************************************************)
EXTENDS Integers, Sequences, SequencesExt

Absent == "absent"
Complex == "complex"
Inherit == "inherit" \* a variable named without a value: the one of the shell
NoEnv == [k \in {} |-> ""]

\* A list or a mapping as a file has it: absent, merged, or under a tag of Compose.
Node(tag, val) == [tag |-> tag, val |-> val]
NoList == Node(Absent, <<>>)
NoMap == Node(Absent, NoEnv)

\* An override that says nothing of the service.
NoFields == [image |-> "", ports |-> NoList, environment |-> NoMap]

-----------------------------------------------------------------------------
(* Compose's merge of the two files (external) *)

Extended(b, o) == b \o o
OverlaidWith(b, o) ==
  [k \in DOMAIN b \cup DOMAIN o |-> IF k \in DOMAIN o THEN o[k] ELSE b[k]]

Composed(b, o, Merge(_, _), nothing) ==
  CASE o.tag = "reset"    -> nothing
    [] o.tag = "override" -> o.val
    [] OTHER              -> Merge(b, o.val)

\* What a service runs with.
Effective(b, o) ==
  [image |-> IF o.image = "" THEN b.image ELSE o.image,
   ports |-> Composed(b.ports.val, o.ports, Extended, <<>>),
   environment |-> Composed(b.environment.val, o.environment, OverlaidWith, NoEnv)]

-----------------------------------------------------------------------------
(* Build *)

ComplexList(node) == Contains(node.val, Complex)
ComplexMap(node) == \E k \in DOMAIN node.val : node.val[k] = Complex

\* stringList and envPairs: a variable without a value reads as an empty one.
ReadValues(m) == [k \in DOMAIN m |-> IF m[k] = Inherit THEN "" ELSE m[k]]
ReadEnv(node) == Node(node.tag, ReadValues(node.val))

ScalarField(b, o) ==
  LET complex == Complex \in {b, o}
  IN [value |-> IF complex THEN "" ELSE IF o = "" THEN b ELSE o, complex |-> complex]

ListField(b, o) ==
  LET complex == ComplexList(b) \/ ComplexList(o)
  IN [value |-> IF complex THEN <<>> ELSE Composed(b.val, o, Extended, <<>>),
      complex |-> complex]

EnvField(b, o) ==
  LET complex == ComplexMap(b) \/ ComplexMap(o)
  IN [value |-> IF complex THEN NoEnv
                ELSE Composed(ReadEnv(b).val, ReadEnv(o), OverlaidWith, NoEnv),
      complex |-> complex]

Build(b, o) ==
  [image |-> ScalarField(b.image, o.image),
   ports |-> ListField(b.ports, o.ports),
   environment |-> EnvField(b.environment, o.environment)]

-----------------------------------------------------------------------------
(* Apply *)

ApplyScalar(b, o, want) ==
  IF ScalarField(b, o).complex THEN o ELSE IF want \in {"", b} THEN "" ELSE want

\* Mutant of ApplyList: what is wanted is written as it is.
ApplyListPlain(b, o, want) ==
  IF ListField(b, o).complex THEN o
  ELSE IF want = b.val THEN NoList ELSE Node("plain", want)

ApplyList(b, o, want) ==
  IF ListField(b, o).complex THEN o
  ELSE IF want = b.val THEN NoList
  ELSE IF IsPrefix(b.val, want) THEN Node("plain", SubSeq(want, Len(b.val) + 1, Len(want)))
  ELSE Node("override", want)

\* All of it if one of the store's is gone, else what differs from the store's.
ApplyEnv(b, o, want) ==
  LET base == ReadValues(b.val)
      delta == {k \in DOMAIN want : ~(k \in DOMAIN base /\ base[k] = want[k])}
  IN IF EnvField(b, o).complex THEN o
     ELSE IF ~(DOMAIN base \subseteq DOMAIN want) THEN Node("override", want)
     ELSE IF delta = {} THEN NoMap
     ELSE Node("plain", Restrict(want, delta))

Apply(b, o, form) ==
  [image |-> ApplyScalar(b.image, o.image, form.image.value),
   ports |-> ApplyList(b.ports, o.ports, form.ports.value),
   environment |-> ApplyEnv(b.environment, o.environment, form.environment.value)]

-----------------------------------------------------------------------------
(* What a form that is saved should come to *)

\* Each field that the form may edit has the value wanted, an image left blank the
\* store's; the others are as they were.
Meant(b, o, form) ==
  LET now == Effective(b, o)
  IN [image |-> IF form.image.complex THEN now.image
                ELSE IF form.image.value = "" THEN b.image ELSE form.image.value,
      ports |-> IF form.ports.complex THEN now.ports ELSE form.ports.value,
      environment |-> IF form.environment.complex THEN now.environment
                      ELSE form.environment.value]

-----------------------------------------------------------------------------
(* SetTips and SetWebUI decode the override into Go maps, and encode it again: a tag of
   Compose's is lost, and one on a scalar, as in "ports: !reset null", does not decode *)

HasReset(o) == "reset" \in {o.ports.tag, o.environment.tag}

Untagged(node) == IF node.tag = Absent THEN node ELSE Node("plain", node.val)
Reencoded(o) ==
  [o EXCEPT !.ports = Untagged(o.ports), !.environment = Untagged(o.environment)]
==============================================================================
