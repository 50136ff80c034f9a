---------------------------- MODULE CampaignGraph ----------------------------
(***************************************************************************)
(* The graph of a campaign as a set of edges, the test that the campaign   *)
(* machine makes before it lets a campaign run, and the operations of the  *)
(* graph library that the API and the step machine edit it with.  No state *)
(* of its own.                                                             *)
(*                                                                         *)
(* Reachability and acyclicity are stated with sets of nodes that no edge  *)
(* leaves or enters, so that no definition here is recursive.              *)
(***************************************************************************)
EXTENDS FiniteSets

CONSTANTS
  Nodes,         \* nodes of the campaign, in its graph or not
  START, END,    \* the nodes of these names
  Kind           \* the kind of each node

ASSUME NodesAssumption ==
  /\ START \in Nodes /\ END \in Nodes /\ START # END
  /\ Kind \in [Nodes -> {"start", "end", "step", "group", "collect_groups",
                         "breakpoint", "other"}]
  /\ \A n \in Nodes : /\ Kind[n] = "start" <=> n = START
                      /\ Kind[n] = "end" <=> n = END

Pair == Nodes \X Nodes

(* A graph has the nodes of its edges and no others.                       *)
Vertices(E) == {e[1] : e \in E} \cup {e[2] : e \in E}
Out(E, n)   == {e \in E : e[1] = n}
In(E, n)    == {e \in E : e[2] = n}
Sources(E)  == {n \in Vertices(E) : In(E, n) = {}}
Sinks(E)    == {n \in Vertices(E) : Out(E, n) = {}}

Closed(E, S) == \A e \in E : e[1] \in S => e[2] \in S

(* Some path, of no edge at all if m = n, leads from m to n.               *)
HasPath(E, m, n) ==
  /\ {m, n} \subseteq Vertices(E)
  /\ \A S \in SUBSET Vertices(E) : m \in S /\ Closed(E, S) => n \in S

(* Every set of nodes has a first and a last one: one that no edge enters  *)
(* from the set and one that no edge leaves for the set.                   *)
Acyclic(E) ==
  \A S \in SUBSET Vertices(E) : S # {} =>
    /\ \E n \in S : \A e \in E : e[1] \in S => e[2] # n
    /\ \E n \in S : \A e \in E : e[2] \in S => e[1] # n

WeaklyConnected(E) ==
  \A S \in SUBSET Vertices(E) :
    S # {} /\ S # Vertices(E) => \E e \in E : (e[1] \in S) # (e[2] \in S)

Inner(E) == Vertices(E) \ {START, END}

(* Two edges or more begin or end at n.                                    *)
Joined(E, n) == \E d, e \in In(E, n) \cup Out(E, n) : d # e

(* Leave out the guard against a second source or sink, and the degrees.   *)
WrongValidGraph(E) == Acyclic(E) /\ HasPath(E, START, END) /\ Inner(E) # {}

(* validate_graph.  It takes the minimum of the degrees of inner nodes, so *)
(* it raises when there are none: the campaign does not start either way.  *)
(* Its test for isolated nodes can tell nothing: edges alone make nodes.   *)
ValidGraph(E) ==
  /\ Acyclic(E)
  /\ HasPath(E, START, END)
  /\ \E n \in Nodes : Sources(E) = {n}
  /\ \E n \in Nodes : Sinks(E) = {n}
  /\ WeaklyConnected(E)
  /\ Inner(E) # {} /\ \A n \in Inner(E) : Joined(E, n)

(* Every node of E lies between its only source and its only sink.         *)
Walkable(E) ==
  \E s, t \in Nodes :
    /\ Sources(E) = {s} /\ Sinks(E) = {t}
    /\ \A n \in Vertices(E) : HasPath(E, s, n) /\ HasPath(E, n, t)

-----------------------------------------------------------------------------
(* The operations on a graph that no other transaction edits               *)

(* Put n1 between n0 and what follows n0.                                  *)
Insert(E, n0, n1) ==
  (E \ Out(E, n0)) \cup {<<n1, e[2]>> : e \in Out(E, n0)} \cup {<<n0, n1>>}

(* Lead n1 from where n0 is led from, to where exit leads.                 *)
AppendNode(E, exit, n0, n1) ==
  E \cup {<<n1, e[2]>> : e \in Out(E, exit)} \cup {<<e[1], n1>> : e \in In(E, n0)}

(* Take n0 out and, to heal, lead each edge into n0 on to its successors.  *)
Delete(E, n0, heal) ==
  LET bridges == {<<d[1], e[2]>> : d \in In(E, n0), e \in Out(E, n0)}
  IN  (E \ (In(E, n0) \cup Out(E, n0))) \cup (IF heal THEN bridges ELSE {})

(* The nodes whose successors a node parallel to n0 is given.  For a step  *)
(* it is the source of some edge downstream that leads neither to a group  *)
(* nor to a collect node; which one the query, limited to one row, returns *)
(* is left open.                                                           *)
Exits(E, n0) ==
  CASE Kind[n0] \in {"group", "other"} -> {n0}
    [] Kind[n0] = "step" ->
         {e[1] : e \in {d \in E : /\ HasPath(E, n0, d[1])
                                 /\ Kind[d[2]] \notin {"group", "collect_groups"}}}
    [] OTHER -> {}
=============================================================================
