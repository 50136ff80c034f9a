------------------------------- MODULE MCGraph -------------------------------
(* Small graphs and requests on which TLC checks GraphEditing.             *)
EXTENDS GraphEditing

CONSTANTS s, a, x, y, e

Kinds == [n \in Nodes |-> CASE n = s -> "start" [] n = e -> "end"
                            [] n = a -> "step" [] OTHER -> "other"]

(* s -> a -> e *)
Chain == {<<s, a>>, <<a, e>>}

(* s -> e beside s -> a -> e *)
Fork == Chain \cup {<<s, e>>}

AnyEdit == [op : {"insert", "append", "replace"}, n0 : Nodes, n1 : {a, x, y}]

Inserts == [op : {"insert"}, n0 : {a}, n1 : {x, y}]

NoEdits == {}
NoPosts == {}

(* An edge of the chain, which may have moved since, and one of no use. *)
PostsAgain == {<<a, e>>, <<s, y>>}
=============================================================================
