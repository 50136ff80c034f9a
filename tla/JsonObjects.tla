----------------------------- MODULE JsonObjects -----------------------------
(***************************************************************************)
(* What apply_json_patch does to the objects in memory.  A value that is   *)
(* copied is not cloned: it is then held in two places, and an operation   *)
(* below one of them shows in the other, until the document is written.    *)
(* JsonPatch leaves that out and applies to patches in which nothing but   *)
(* tests follows a copy (CopiesLast); this module is what that is held     *)
(* against.                                                                *)
(*                                                                         *)
(* Memory is a function from the identities of dicts and lists to their    *)
(* entries; an entry holds a scalar or refers to one of them.              *)
(***************************************************************************)
EXTENDS JsonPatch

Refers(v) == v[1] = "ref"

(* The entry for what document d, loaded as the i-th, has at p.            *)
Entry(d, i, p) == IF d[p] \in {Map, List} THEN <<"ref", <<i, p>>>> ELSE <<"leaf", d[p]>>

Load(d, i) ==
  [id \in {<<i, p>> : p \in {q \in DOMAIN d : d[q] \in {Map, List}}} |->
     LET inside == {q \in Under(d, id[2]) : Len(q) = Len(id[2]) + 1}
     IN  [type |-> d[id[2]],
          entries |-> [t \in {Last(q) : q \in inside} |-> Entry(d, i, Append(id[2], t))]]]

(* The pointer is followed through dicts.                                  *)
Follow(m, p) ==
  LET Into(v, t) == IF /\ Refers(v) /\ ~IsNumber(t)
                       /\ m[v[2]].type = Map /\ t \in DOMAIN m[v[2]].entries
                    THEN m[v[2]].entries[t] ELSE <<"none">>
  IN  FoldLeft(Into, <<"ref", <<0, <<>>>>>>, p)

Has(m, v, t)    == Refers(v) /\ t \in DOMAIN m[v[2]].entries
IsA(m, v, type) == Refers(v) /\ m[v[2]].type = type
Length(m, v)    == Cardinality(DOMAIN m[v[2]].entries)

SetEntry(m, v, t, new) == [m EXCEPT ![v[2]].entries = (t :> new) @@ @]

InsertEntry(m, v, i, new) ==
  [m EXCEPT ![v[2]].entries =
     [j \in 0..Length(m, v) |-> IF j < i THEN @[j] ELSE IF j = i THEN new ELSE @[j - 1]]]

PopEntry(m, v, t) ==
  [m EXCEPT ![v[2]].entries =
     IF IsA(m, v, Map) THEN Restrict(@, DOMAIN @ \ {t})
     ELSE [j \in 0..(Length(m, v) - 2) |-> IF j < t THEN @[j] ELSE @[j + 1]]]

AddTo(m, v, o, new) ==
  CASE IsA(m, v, List) /\ o.token = Dash -> InsertEntry(m, v, Length(m, v), new)
    [] IsA(m, v, List) /\ IsNumber(o.token) ->
         InsertEntry(m, v, IF o.token < Length(m, v) THEN o.token ELSE Length(m, v), new)
    [] IsA(m, v, Map) /\ ~IsNumber(o.token) -> SetEntry(m, v, o.token, new)
    [] OTHER -> m

RemoveFrom(m, v, o) ==
  IF \/ IsA(m, v, List) /\ IsNumber(o.token)
     \/ IsA(m, v, Map) /\ ~IsNumber(o.token) /\ o.token # Dash
  THEN IF Has(m, v, o.token) THEN PopEntry(m, v, o.token) ELSE m
  ELSE Refused

(* The entry is assigned; a move then pops it from where it was found.     *)
Transfer(m, v, o) ==
  LET from == Follow(m, o.from)
  IN  IF Has(m, from, o.item) /\ (IsA(m, v, Map) \/ (IsA(m, v, List) /\ Has(m, v, o.token)))
      THEN LET assigned == SetEntry(m, v, o.token, m[from[2]].entries[o.item])
           IN  IF o.op = "move" THEN PopEntry(assigned, from, o.item) ELSE assigned
      ELSE Refused

(* What is reached from v, as a document; there is none if v reaches       *)
(* itself.                                                                 *)
Unfold(m, v) ==
  LET Inside(r) == {<<Append(r[1], t), m[r[2][2]].entries[t]>> : t \in DOMAIN m[r[2][2]].entries}
      reached[i \in 0..(Cardinality(DOMAIN m) + 1)] ==
        IF i = 0 THEN {<<<<>>, v>>}
        ELSE UNION {Inside(r) : r \in {s \in reached[i - 1] : Refers(s[2])}}
      all == UNION Range(reached)
  IN  IF reached[Cardinality(DOMAIN m) + 1] # {} THEN Refused
      ELSE [p \in {r[1] : r \in all} |->
              LET w == (CHOOSE r \in all : r[1] = p)[2]
              IN  IF Refers(w) THEN m[w[2]].type ELSE w[2]]

ApplyTo(m, o, i) ==
  LET v == Follow(m, o.path)
      loaded == m @@ Load(o.value, i)
      new == Entry(o.value, i, <<>>)
      hit == o.token # Dash /\ Has(m, v, o.token)
  IN  CASE v = <<"none">> -> Refused
        [] v # <<"none">> /\ o.op = "add" -> AddTo(loaded, v, o, new)
        [] v # <<"none">> /\ o.op = "replace" ->
             IF hit THEN SetEntry(loaded, v, o.token, new) ELSE Refused
        [] v # <<"none">> /\ o.op = "remove" -> RemoveFrom(m, v, o)
        [] v # <<"none">> /\ o.op \in {"move", "copy"} -> Transfer(m, v, o)
        [] v # <<"none">> /\ o.op = "test" ->
             IF hit /\ Unfold(m, m[v[2]].entries[o.token]) = o.value THEN m ELSE Refused

(* The document that is written after the operations on what was read.     *)
Written(d, ops) ==
  LET after[i \in 0..Len(ops)] ==
        IF i = 0 THEN Load(d, 0)
        ELSE IF after[i - 1] = Refused THEN Refused ELSE ApplyTo(after[i - 1], ops[i], i)
  IN  IF after[Len(ops)] = Refused THEN Refused
      ELSE Unfold(after[Len(ops)], <<"ref", <<0, <<>>>>>>)
=============================================================================
