----------------------------- MODULE MCRevisions -----------------------------
EXTENDS Revisions, JsonObjects

CONSTANTS a, b, l, x, y, Spc, c1, butler, bps, main

Leaf(v) == <<>> :> v

(* {"spec": {"a": "x", "l": ["x"]}, "metadata": {}}                        *)
Posted ==
  <<>> :> Map @@ <<Spc>> :> Map @@ <<Spc, a>> :> x @@ <<Spc, l>> :> List
    @@ <<Spc, l, 0>> :> x @@ <<Metadata>> :> Map

MCDocuments == {Posted}

Op(op, path, token, v)      == [op |-> op, path |-> path, token |-> token, value |-> v]
From(op, path, token, f, i) == [op |-> op, path |-> path, token |-> token, from |-> f, item |-> i]
InSpec == <<Spc>>
InList == <<Spc, l>>

MCPatches ==
  { <<Op("add", InList, 0, Leaf(y))>>,
    <<Op("replace", InSpec, a, Leaf(y)), Op("add", InList, Dash, Leaf(x))>>,
    <<Op("test", InSpec, a, Leaf(x)), From("move", InSpec, b, InSpec, a)>>,
    <<Op("remove", InList, 0, Leaf(x)), From("copy", InSpec, b, InSpec, l)>> }

ASSUME InputsApply == InputsAreWellFormed({a, b, l, x, y, Spc, Dash, Metadata, Name})

(* What the service makes of any one operation, or of an addition or a     *)
(* removal and any other, is what the standard does, as                    *)
(* PatchedAsRequested says.                                                *)
Paths  == {<<>>, InSpec, InList, <<Metadata>>, <<Spc, a>>}
Tokens == {a, b, l, Spc, Dash, 0, 1, 2}
Ops ==
  {Op(op, p, t, v) : op \in {"add", "replace", "remove", "test"}, p \in Paths \ {<<>>},
                     t \in Tokens, v \in {Leaf(x), Leaf(y), Leaf(Map)}}
  \cup {From(op, p, t, q, i) : op \in {"move", "copy"}, p \in Paths, t \in Tokens, q \in Paths, i \in {a, l, Spc, 0}}

Supported(o) == IsNumber(o.token) => o.path = InList

AsStandard(ops) ==
  LET expected == Standard(Posted, ops)
      actual == ApplyPatch(Posted, ops)
  IN  expected # Refused /\ actual # Refused => actual = expected

ASSUME PatchesAreStandard ==
  LET Ones  == {o \in Ops : Supported(o) /\ ~Departs(o)}
      Edits == {o \in Ones : o.op \in {"add", "remove"}}
  IN  /\ \A o \in Ones : AsStandard(<<o>>)
      /\ \A o \in Edits, q \in Ones : AsStandard(<<o, q>>)

(* Documents as values and objects in memory give the same result, for any *)
(* one operation, or a second one after any that leaves nothing shared.    *)
Few == {o \in Ops : /\ Supported(o) /\ o.path # <<Spc, a>> /\ o.token \notin {1, 2}
                    /\ o.op \in {"add", "replace", "remove", "test"} => o.value # Leaf(y)
                    /\ o.op \in {"move", "copy"} => o.from \in {InSpec, InList} /\ o.item \in {l, 0}}

ASSUME ValuesAreObjects ==
  /\ \A o \in Ops : Supported(o) => Written(Posted, <<o>>) = ApplyPatch(Posted, <<o>>)
  /\ \A o, q \in Few : CopiesLast(<<o, q>>) =>
       Written(Posted, <<o, q>>) = ApplyPatch(Posted, <<o, q>>)

(* An edit after a copy shows in both places, which the standard does not  *)
(* say: why patches are taken to end with their copies.                    *)
ASSUME CopiesAreShared ==
  LET copy == From("copy", InSpec, b, InSpec, l)
      edit == Op("add", InList, Dash, Leaf(y))
  IN  /\ <<Spc, b, 1>> \in DOMAIN Written(Posted, <<copy, edit>>)
      /\ <<Spc, b, 1>> \notin DOMAIN Standard(Posted, <<copy, edit>>)
=============================================================================
