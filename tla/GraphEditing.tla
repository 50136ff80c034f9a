---------------------------- MODULE GraphEditing ----------------------------
(***************************************************************************)
(* The API routes that edit the graph of a campaign, next to the resume    *)
(* that checks the graph and lets the campaign run on it.                  *)
(*                                                                         *)
(* An edge is a row with an identity that its end points may change under: *)
(* the id of a posted edge is made of the nodes it was posted with.  A     *)
(* locking select waits for the rows that matched when it began, and keeps *)
(* those that still match when it gets them.                               *)
(***************************************************************************)
EXTENDS CampaignGraph, Naturals, Functions

CONSTANTS
  InitialEdges,    \* the edges the campaign was created with
  EditRequests,    \* [op, n0, n1] users may send
  PostRequests,    \* edges users may post
  WithDeletes,     \* whether users delete edges
  MaxEdits,        \* bound: requests that edit
  MaxInFlight      \* bound: requests served at once

ASSUME EditingAssumption ==
  /\ InitialEdges \subseteq Pair /\ PostRequests \subseteq Pair
  /\ EditRequests \subseteq
       [op : {"insert", "append", "replace"}, n0 : Nodes, n1 : Nodes]
  /\ WithDeletes \in BOOLEAN
  /\ MaxEdits \in Nat /\ MaxInFlight \in Nat

(* The request that created a row, 0 for a posted one, and its end points. *)
RowId == [by : 0..MaxEdits, born : Pair]

VARIABLES
  edges,       \* edges_v2: end points by row id
  campaign,    \* campaigns_v2.status
  edits,       \* edit requests being served
  resume,      \* the resume being served: none, or its graph was checked
  made         \* edit requests so far

vars == <<edges, campaign, edits, resume, made>>

Graph == Range(edges)

(* The unique constraint on source and target.                             *)
GraphTypeOK ==
  /\ DOMAIN edges \subseteq RowId
  /\ edges \in [DOMAIN edges -> Pair]
  /\ IsInjective(edges)
  /\ campaign \in {"paused", "running"}
  /\ edits \subseteq
       [op : {"insert", "append", "replace"}, n0 : Nodes, n1 : Nodes,
        by : 1..MaxEdits, rows : SUBSET RowId, from : Nodes,
        phase : {"asked", "selected"}]
  /\ resume \in {"none", "checked"}
  /\ made \in 0..MaxEdits

GraphInit ==
  /\ edges = [k \in {[by |-> 0, born |-> e] : e \in InitialEdges} |-> k.born]
  /\ campaign = "paused" /\ edits = {} /\ resume = "none" /\ made = 0

Free == Cardinality(edits) + (IF resume = "none" THEN 0 ELSE 1) < MaxInFlight

-----------------------------------------------------------------------------
(* Replace, insert and append                                              *)

RequestEdit(q) ==
  /\ Free /\ made < MaxEdits
  /\ campaign = "paused"
  /\ made' = made + 1
  /\ edits' = edits \cup
       {[op |-> q.op, n0 |-> q.n0, n1 |-> q.n1, by |-> made + 1, rows |-> {},
         from |-> q.n0, phase |-> "asked"]}
  /\ UNCHANGED <<edges, campaign, resume>>

Selected(r, n) ==
  [r EXCEPT !.phase = "selected", !.from = n,
            !.rows = {k \in DOMAIN edges : edges[k][1] = n}]

(* The select of rows begins.  An append is refused that finds no edge to  *)
(* be parallel to, or is of a kind that nothing may be parallel to.        *)
SelectRows(r) ==
  /\ r.phase = "asked"
  /\ \/ /\ r.op # "append"
        /\ edits' = (edits \ {r}) \cup {Selected(r, r.n0)}
     \/ /\ r.op = "append" /\ Exits(Graph, r.n0) = {}
        /\ edits' = edits \ {r}
     \/ /\ r.op = "append"
        /\ \E n \in Exits(Graph, r.n0) : edits' = (edits \ {r}) \cup {Selected(r, n)}
  /\ UNCHANGED <<edges, campaign, resume, made>>

(* The rows that still match.                                              *)
Matching(r) == {k \in r.rows \cap DOMAIN edges : edges[k][1] = r.from}

(* Wrong... definitions are not part of the model: see CampaignDaemon.     *)

(* Make room for the new node without moving the edges.                    *)
WrongMoved(r) == edges

(* The rows with their new end points.                                     *)
Moved(r) ==
  [k \in DOMAIN edges |->
     << IF k \in Matching(r) /\ r.op # "append" THEN r.n1 ELSE edges[k][1],
        IF edges[k][2] = r.n0 /\ r.op = "replace" THEN r.n1 ELSE edges[k][2] >>]

(* The end points of new rows.                                             *)
Born(r) ==
  CASE r.op = "insert" -> {<<r.n0, r.n1>>}
    [] r.op = "append" -> {<<r.n1, edges[k][2]>> : k \in Matching(r)}
                            \cup {<<e[1], r.n1>> : e \in In(Graph, r.n0)}
    [] r.op = "replace" -> {}

(* Lose the rows that were found.                                          *)
WrongEdited(r) ==
  LET new == [by : {r.by}, born : Born(r)]
  IN  [k \in (DOMAIN edges \ Matching(r)) \cup new |->
         IF k \in new THEN k.born ELSE Moved(r)[k]]

Edited(r) ==
  LET new == [by : {r.by}, born : Born(r)]
  IN  [k \in DOMAIN edges \cup new |-> IF k \in new THEN k.born ELSE Moved(r)[k]]

(* Write the rows whatever they are.                                       *)
WrongAccepted(r) == TRUE

(* The replaced node must have edges, the unique constraint must hold, and *)
(* an edge that an append copies at both ends cannot be expunged twice.    *)
Accepted(r) ==
  /\ r.op = "replace" => Matching(r) # {}
  /\ r.op = "append" => \A k \in Matching(r) : edges[k][2] # r.n0
  /\ IsInjective(Edited(r))

CommitEdit(r) ==
  /\ r.phase = "selected"
  /\ edges' = IF Accepted(r) THEN Edited(r) ELSE edges
  /\ edits' = edits \ {r}
  /\ UNCHANGED <<campaign, resume, made>>

-----------------------------------------------------------------------------
(* The edge routes, which do not ask for the campaign's status             *)

(* A posted edge replaces the row with its id, wherever that leads by now. *)
PostEdge(e) ==
  LET id  == [by |-> 0, born |-> e]
      new == [k \in DOMAIN edges \cup {id} |-> IF k = id THEN e ELSE edges[k]]
  IN  /\ Free /\ made < MaxEdits
      /\ made' = made + 1
      /\ edges' = IF IsInjective(new) THEN new ELSE edges
      /\ UNCHANGED <<campaign, edits, resume>>

DeleteEdge(k) ==
  /\ WithDeletes /\ Free /\ made < MaxEdits
  /\ made' = made + 1
  /\ edges' = [j \in DOMAIN edges \ {k} |-> edges[j]]
  /\ UNCHANGED <<campaign, edits, resume>>

-----------------------------------------------------------------------------
(* The campaign machine                                                    *)

(* Without a valid graph the condition raises and nothing changes.         *)
ResumeChecks ==
  /\ Free /\ campaign = "paused" /\ resume = "none"
  /\ resume' = IF ValidGraph(Graph) THEN "checked" ELSE "none"
  /\ UNCHANGED <<edges, campaign, edits, made>>

ResumeCommits ==
  /\ resume = "checked"
  /\ campaign' = "running"
  /\ resume' = "none"
  /\ UNCHANGED <<edges, edits, made>>

Pause ==
  /\ Free /\ campaign = "running"
  /\ campaign' = "paused"
  /\ UNCHANGED <<edges, edits, resume, made>>

GraphNext ==
  \/ \E q \in EditRequests : RequestEdit(q)
  \/ \E r \in edits : SelectRows(r) \/ CommitEdit(r)
  \/ \E e \in PostRequests : PostEdge(e)
  \/ \E k \in DOMAIN edges : DeleteEdge(k)
  \/ ResumeChecks \/ ResumeCommits \/ Pause

GraphSpec == GraphInit /\ [][GraphNext]_vars
-----------------------------------------------------------------------------
(* Properties                                                              *)

(* A resumed campaign's walk visits every node: what validate_graph checks *)
(* is enough for what graph.py asks in its TODO, "making sure every node   *)
(* appears in a path".                                                     *)
ResumedGraphIsWalkable ==
  [][campaign = "paused" /\ campaign' = "running" => Walkable(Graph)]_vars

(* The request puts a node that is not in the graph behind one that is,    *)
(* beside it, or in its place, and that can be done.                       *)
Sensible(r) ==
  /\ r.n0 \in Vertices(Graph) /\ r.n1 \notin Vertices(Graph)
  /\ r.op = "insert"  => r.n0 \notin Sinks(Graph) \cup (Sources(Graph) \ {START})
  /\ r.op = "append"  => r.n0 \notin Sinks(Graph) \cup Sources(Graph)
  /\ r.op = "replace" => r.n0 \notin {START, END}

(* An insert, append or replace that its user could mean keeps a valid     *)
(* graph valid, so that the campaign can be resumed (graph.py insert and   *)
(* append, replace in routers/v2/campaigns.py); an edge that is posted or  *)
(* deleted may not.                                                        *)
EditsKeepGraphValid ==
  [][\A r \in edits :
       CommitEdit(r) /\ Sensible(r) /\ ValidGraph(Graph) => ValidGraph(Graph')]_vars

(* No edit lets a node run before one that it had to wait for: what led    *)
(* from m to n does so afterwards, if both are still in the graph (insert, *)
(* append and replace, whatever nodes they are asked for).                 *)
OrderIsKept ==
  [][\A r \in edits : CommitEdit(r) =>
       \A m, n \in Vertices(Graph') :
         HasPath(Graph, m, n) => HasPath(Graph', m, n)]_vars

(* After an insert the new node alone follows n0, as update_node_in_graph  *)
(* says of all of its edges.  The code does not keep this with two inserts *)
(* at once (MaxInFlight = 2).  No run asks for it.                         *)
InsertSeparates ==
  [][\A r \in edits :
       CommitEdit(r) /\ r.op = "insert" /\ Sensible(r) =>
         Out(Graph', r.n0) = {<<r.n0, r.n1>>}]_vars
=============================================================================
