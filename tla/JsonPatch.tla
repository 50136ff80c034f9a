------------------------------ MODULE JsonPatch ------------------------------
(***************************************************************************)
(* The JSON patch operations with which manifests and nodes are edited,    *)
(* as the service applies them (ApplyPatch) and as RFC 6902 defines them   *)
(* (Standard).  A document is a function from paths to what is there: Map, *)
(* List or a scalar.  A path is a sequence of keys and, in lists, numbers. *)
(* Numeric keys of objects are not supported by the service, nor here.  A  *)
(* document holds values and not objects, so that all this is about        *)
(* patches in which nothing but tests follows a copy (CopiesLast).         *)
(***************************************************************************)
EXTENDS Naturals, SequencesExt, Functions

CONSTANTS Map, List, Dash, Refused

ASSUME PatchAssumption == Map # List /\ Dash \notin Nat

Under(d, p)   == {q \in DOMAIN d : IsPrefix(p, q)}
Size(d, p)    == Cardinality({q \in Under(d, p) : Len(q) = Len(p) + 1})
Value(d, p)   == LET rest == {SubSeq(q, Len(p) + 1, Len(q)) : q \in Under(d, p)}
                 IN  [s \in rest |-> d[p \o s]]
Without(d, p) == Restrict(d, DOMAIN d \ Under(d, p))

(* The value v at p, in place of what is there.                            *)
Assign(d, p, v) ==
  [q \in {p \o s : s \in DOMAIN v} \cup (DOMAIN d \ Under(d, p)) |->
     IF IsPrefix(p, q) THEN v[SubSeq(q, Len(p) + 1, Len(q))] ELSE d[q]]

(* The elements from i on of the list at p, renumbered.                    *)
Shifted(d, p, i, add, less) ==
  LET at == Len(p) + 1
      Moves(q) == IsStrictPrefix(p, q) /\ q[at] >= i
      To(q) == IF Moves(q) THEN [q EXCEPT ![at] = @ + add - less] ELSE q
  IN  [q \in {To(r) : r \in DOMAIN d} |-> d[CHOOSE r \in DOMAIN d : To(r) = q]]

Insert(d, p, i, v) == Assign(Shifted(d, p, i, 1, 0), Append(p, i), v)
TakeOut(d, p, i)   == Shifted(Without(d, Append(p, i)), p, i + 1, 0, 1)

IsNumber(t)    == t \in Nat
Is(d, p, type) == p \in DOMAIN d /\ d[p] = type
Target(o)      == Append(o.path, o.token)
Source(o)      == Append(o.from, o.item)

-----------------------------------------------------------------------------
(* The service resolves a pointer by its keys alone, but for the last      *)
(* token: it does not go through lists.                                    *)
Resolves(d, p) == p \in DOMAIN d /\ \A i \in DOMAIN p : ~IsNumber(p[i])

(* A list is extended past its end without complaint; a key for a list, or *)
(* a number for an object, changes nothing.                                *)
Add(d, o) ==
  CASE Is(d, o.path, List) /\ o.token = Dash -> Insert(d, o.path, Size(d, o.path), o.value)
    [] Is(d, o.path, List) /\ IsNumber(o.token) ->
         Insert(d, o.path, IF o.token < Size(d, o.path) THEN o.token ELSE Size(d, o.path), o.value)
    [] Is(d, o.path, Map) /\ ~IsNumber(o.token) -> Assign(d, Target(o), o.value)
    [] OTHER -> d

Replace(d, o) ==
  IF o.token # Dash /\ Target(o) \in DOMAIN d THEN Assign(d, Target(o), o.value) ELSE Refused

Discard(d, p, t) ==
  IF Append(p, t) \notin DOMAIN d THEN d
  ELSE IF Is(d, p, List) THEN TakeOut(d, p, t) ELSE Without(d, Append(p, t))

(* What is not there needs no removal, if it could have been.              *)
Removal(d, o) ==
  IF \/ Is(d, o.path, List) /\ IsNumber(o.token)
     \/ Is(d, o.path, Map) /\ ~IsNumber(o.token) /\ o.token # Dash
  THEN Discard(d, o.path, o.token) ELSE Refused

(* The value goes to an entry that may be new in an object but is          *)
(* overwritten in a list.  A copy into itself cannot be serialized.  The   *)
(* service puts the same object there and not another one like it, which   *)
(* can show in later edits and is gone when the document is written: see   *)
(* CopiesLast.                                                             *)
Copy(d, o) ==
  IF /\ Resolves(d, o.from) /\ Source(o) \in DOMAIN d
     /\ \/ Is(d, o.path, Map)
        \/ Is(d, o.path, List) /\ Target(o) \in DOMAIN d
     /\ ~IsStrictPrefix(Source(o), Target(o))
  THEN Assign(d, Target(o), Value(d, Source(o))) ELSE Refused

(* A move assigns and then removes: what is moved to where it is, or into  *)
(* itself, is gone; what replaces its own parent is not removed again.     *)
Move(d, o) ==
  IF IsStrictPrefix(Source(o), Target(o))
  THEN IF Resolves(d, o.from) /\ (Is(d, o.path, Map) \/ Target(o) \in DOMAIN d)
       THEN Discard(d, o.from, o.item) ELSE Refused
  ELSE LET copied == Copy(d, o)
       IN  IF copied = Refused \/ IsStrictPrefix(Target(o), Source(o)) THEN copied
           ELSE Discard(copied, o.from, o.item)

Test(d, o) ==
  IF o.token # Dash /\ Target(o) \in DOMAIN d /\ Value(d, Target(o)) = o.value THEN d ELSE Refused

ApplyOp(d, o) ==
  IF d = Refused \/ ~Resolves(d, o.path) THEN Refused
  ELSE CASE o.op = "add"     -> Add(d, o)
         [] o.op = "replace" -> Replace(d, o)
         [] o.op = "remove"  -> Removal(d, o)
         [] o.op = "move"    -> Move(d, o)
         [] o.op = "copy"    -> Copy(d, o)
         [] o.op = "test"    -> Test(d, o)

(* One after the other.                                                    *)
ApplyPatch(d, ops) ==
  LET after[i \in 0..Len(ops)] == IF i = 0 THEN d ELSE ApplyOp(after[i - 1], ops[i])
  IN  after[Len(ops)]

-----------------------------------------------------------------------------
(* RFC 6902: add inserts into lists and sets in objects, remove and        *)
(* replace want a target, move is remove and add, copy is add.             *)
StandardAdd(d, p, t, v) ==
  CASE Is(d, p, List) /\ t = Dash -> Insert(d, p, Size(d, p), v)
    [] Is(d, p, List) /\ IsNumber(t) /\ t <= Size(d, p) -> Insert(d, p, t, v)
    [] Is(d, p, Map) /\ ~IsNumber(t) -> Assign(d, Append(p, t), v)
    [] OTHER -> Refused

StandardEdit(d, o) ==
  CASE Target(o) \notin DOMAIN d -> Refused
    [] Target(o) \in DOMAIN d /\ o.op = "remove"  -> Discard(d, o.path, o.token)
    [] Target(o) \in DOMAIN d /\ o.op = "replace" -> Assign(d, Target(o), o.value)
    [] Target(o) \in DOMAIN d /\ o.op = "test" -> IF Value(d, Target(o)) = o.value THEN d ELSE Refused

StandardTransfer(d, o) ==
  IF Source(o) \notin DOMAIN d \/ (o.op = "move" /\ IsStrictPrefix(Source(o), Target(o))) THEN Refused
  ELSE StandardAdd(IF o.op = "move" THEN Discard(d, o.from, o.item) ELSE d,
                   o.path, o.token, Value(d, Source(o)))

StandardOp(d, o) ==
  CASE d = Refused -> Refused
    [] d # Refused /\ o.op = "add" -> StandardAdd(d, o.path, o.token, o.value)
    [] d # Refused /\ o.op \in {"remove", "replace", "test"} -> StandardEdit(d, o)
    [] d # Refused /\ o.op \in {"move", "copy"} -> StandardTransfer(d, o)

Standard(d, ops) ==
  LET after[i \in 0..Len(ops)] == IF i = 0 THEN d ELSE StandardOp(after[i - 1], ops[i])
  IN  after[Len(ops)]

(* Where the service knowingly or unknowingly departs from the standard    *)
(* though both accept: an entry of a list as the target of a copy or a     *)
(* move, and a move to where the value is.                                 *)
Departs(o) ==
  /\ o.op \in {"move", "copy"}
  /\ IsNumber(o.token) \/ o.token = Dash \/ (o.op = "move" /\ Source(o) = Target(o))

-----------------------------------------------------------------------------
(* Documents and patches whose paths are made of tokens of K: below a list *)
(* a document has numbered entries only.                                   *)
IsDocument(d, K) ==
  /\ d = [q \in DOMAIN d |-> d[q]] /\ DOMAIN d \subseteq Seq(K) /\ IsFiniteSet(DOMAIN d)
  /\ \A p, q \in DOMAIN d : d[p] = List /\ IsStrictPrefix(p, q) => IsNumber(q[Len(p) + 1])

IsOperation(o, K) ==
  /\ o.op \in {"add", "replace", "remove", "test", "move", "copy"}
  /\ o.path \in Seq(K) /\ o.token \in K
  /\ o.op \in {"add", "replace", "test"} => IsDocument(o.value, K)
  /\ o.op \in {"move", "copy"} => o.from \in Seq(K) /\ o.item \in K

(* Nothing but tests follows a copy: no operation edits what is held in    *)
(* two places.  What the service makes of others, JsonObjects says.        *)
CopiesLast(ops) ==
  \A i, j \in DOMAIN ops : ops[i].op = "copy" /\ i < j => ops[j].op = "test"

IsPatch(ops, K) ==
  /\ Len(ops) \in Nat /\ DOMAIN ops = 1..Len(ops)
  /\ \A i \in DOMAIN ops : IsOperation(ops[i], K)
  /\ CopiesLast(ops)
=============================================================================
