------------------------------- MODULE EnvFile -------------------------------
(***************************************************************************)
(* An app's .env file (internal/envinject/envfile.go) and how the           *)
(* deployment's variables are kept current in it (EnsureVars in envinject.go *)
(* and Sync of internal/appenv).                                            *)
(*                                                                          *)
(* A file is a sequence of lines [key, value]; the key of a comment is Note *)
(* and Bad stands for a name that is not an identifier, such as that of     *)
(* "export FOO=1".  Blank lines, and values of several lines, are left out.  *)
(***************************************************************************)
EXTENDS Integers, Sequences, SequencesExt

Note == "#"
Bad == "export FOO"

Line(key, value) == [key |-> key, value |-> value]
KeysIn(lines) == {lines[i].key : i \in DOMAIN lines} \ {Note}
At(lines, key) == {i \in DOMAIN lines : lines[i].key = key}

\* What a sequence has at the positions of I, in order.
Rank(I, i) == Cardinality({j \in I : j <= i})
InOrder(I) == [r \in 1..Cardinality(I) |-> CHOOSE i \in I : Rank(I, i) = r]
Picked(s, I) == [r \in 1..Cardinality(I) |-> s[InOrder(I)[r]]]

\* ParseEnvFile: a key at its first line, with the value of its last.
Value(lines, key) == lines[Max(At(lines, key))].value
FirstOf(lines, i) == lines[i].key # Note /\ i = Min(At(lines, lines[i].key))

Parse(lines) ==
  LET first == Picked(lines, {i \in DOMAIN lines : FirstOf(lines, i)})
  IN [r \in DOMAIN first |-> Line(first[r].key, Value(lines, first[r].key))]

ValidVars(vars) ==
  \A i \in DOMAIN vars :
    vars[i].key # Bad /\ \A j \in DOMAIN vars : vars[i].key = vars[j].key => i = j

\* PatchEnvFile, of valid variables: comments are kept, and so is the first line of a
\* variable that is; the others are appended.
Patch(lines, vars) ==
  LET stays(i) == lines[i].key = Note \/ (FirstOf(lines, i) /\ lines[i].key \in KeysIn(vars))
      kept == Picked(lines, {i \in DOMAIN lines : stays(i)})
      added == Picked(vars, {i \in DOMAIN vars : vars[i].key \notin KeysIn(lines)})
  IN [r \in DOMAIN kept |-> IF kept[r].key = Note THEN kept[r]
                            ELSE Line(kept[r].key, Value(vars, kept[r].key))] \o added

\* Mutant of EnsureVars: what is there already is left as it is.
EnsureMissing(lines, order, vars) ==
  LET missing == Picked(order, {i \in DOMAIN order : order[i] \in DOMAIN vars \ KeysIn(lines)})
  IN lines \o [i \in DOMAIN missing |-> Line(missing[i], vars[missing[i]])]

\* EnsureVars: each of vars is set where it stands, or appended; nothing is done to a file
\* that cannot be patched.  The keys of vars come in the order given.
EnsureVars(lines, order, vars) ==
  LET old == Parse(lines)
      ours == {k \in ToSet(order) : k \in DOMAIN vars}
      fresh == [i \in DOMAIN old |->
                  IF old[i].key \in ours THEN Line(old[i].key, vars[old[i].key]) ELSE old[i]]
      missing == Picked(order, {i \in DOMAIN order : order[i] \in ours \ KeysIn(lines)})
      all == fresh \o [i \in DOMAIN missing |-> Line(missing[i], vars[missing[i]])]
  IN IF ValidVars(all) THEN Patch(lines, all) ELSE lines
==============================================================================
