-------------------------- MODULE GraphEditingProofs --------------------------
(***************************************************************************)
(* Type correctness of GraphEditing, and what a resume may rely on while   *)
(* requests are served one at a time.                                      *)
(***************************************************************************)
EXTENDS GraphEditing, CampaignGraphProofs, FiniteSetTheorems

USE NodesAssumption, EditingAssumption

LEMMA ExitsAreNodes ==
  ASSUME NEW E \in SUBSET Pair, NEW n \in Nodes
  PROVE  Exits(E, n) \subseteq Nodes
<1>1. \A e \in E : e[1] \in Nodes
  BY DEF Pair
<1>2. CASE Kind[n] \in {"group", "other"}
  BY <1>2 DEF Exits
<1>3. CASE Kind[n] = "step"
  BY <1>1, <1>3 DEF Exits
<1>4. CASE Kind[n] \notin {"group", "other", "step"}
  BY <1>4 DEF Exits
<1>5. QED
  BY <1>2, <1>3, <1>4

LEMMA GraphIsPairs ==
  ASSUME GraphTypeOK
  PROVE  Graph \in SUBSET Pair
BY DEF GraphTypeOK, Graph, Range

Edits == [op : {"insert", "append", "replace"}, n0 : Nodes, n1 : Nodes,
          by : 1..MaxEdits, rows : SUBSET RowId, from : Nodes,
          phase : {"asked", "selected"}]

LEMMA EditedIsTyped ==
  ASSUME GraphTypeOK, NEW r \in Edits
  PROVE  /\ DOMAIN Edited(r) \subseteq RowId
         /\ Edited(r) \in [DOMAIN Edited(r) -> Pair]
<1> DEFINE new == [by : {r.by}, born : Born(r)]
<1>1. \A k \in DOMAIN edges : edges[k] \in Pair /\ edges[k][1] \in Nodes /\ edges[k][2] \in Nodes
  BY DEF GraphTypeOK, Pair
<1>2. Matching(r) \subseteq DOMAIN edges
  BY DEF Matching
<1>3. In(Graph, r.n0) \subseteq Pair
  BY GraphIsPairs DEF In
<1>4. Born(r) \subseteq Pair
  <2>1. {<<r.n1, edges[k][2]>> : k \in Matching(r)} \subseteq Pair
    BY <1>1, <1>2 DEF Pair, Edits
  <2>2. {<<e[1], r.n1>> : e \in In(Graph, r.n0)} \subseteq Pair
    BY <1>3 DEF Pair, Edits
  <2>3. <<r.n0, r.n1>> \in Pair
    BY DEF Pair, Edits
  <2>4. r.op \in {"insert", "append", "replace"}
    BY DEF Edits
  <2>5. QED
    BY <2>1, <2>2, <2>3, <2>4 DEF Born
<1>5. new \subseteq RowId
  BY <1>4 DEF RowId, Edits
<1>6. \A k \in new : k.born \in Pair
  BY <1>4
<1>7. \A k \in DOMAIN edges : Moved(r)[k] \in Pair
  BY <1>1 DEF Moved, Pair, Edits
<1>8. DOMAIN Edited(r) = DOMAIN edges \cup new
  BY DEF Edited
<1>9. \A k \in DOMAIN Edited(r) : Edited(r)[k] \in Pair
  BY <1>6, <1>7 DEF Edited
<1>10. Edited(r) = [k \in DOMAIN Edited(r) |-> Edited(r)[k]]
  BY DEF Edited
<1>11. QED
  BY <1>5, <1>8, <1>9, <1>10 DEF GraphTypeOK
-----------------------------------------------------------------------------
(* The initial edges and every step keep the rows typed and unique.        *)
THEOREM GraphTypeCorrect == GraphSpec => []GraphTypeOK
<1>1. GraphInit => GraphTypeOK
  <2>1. SUFFICES ASSUME GraphInit PROVE GraphTypeOK
    OBVIOUS
  <2> DEFINE ids == {[by |-> 0, born |-> e] : e \in InitialEdges}
  <2>2. ids \subseteq RowId /\ \A k \in ids : k.born \in Pair
    BY DEF RowId, EditingAssumption
  <2>3. \A j, k \in ids : j.born = k.born => j = k
    OBVIOUS
  <2>4. edges = [k \in ids |-> k.born]
    BY <2>1 DEF GraphInit
  <2>5. DOMAIN edges \subseteq RowId /\ edges \in [DOMAIN edges -> Pair] /\ IsInjective(edges)
    BY <2>2, <2>3, <2>4 DEF IsInjective
  <2>6. QED
    BY <2>1, <2>5 DEF GraphInit, GraphTypeOK, EditingAssumption
<1>2. GraphTypeOK /\ [GraphNext]_vars => GraphTypeOK'
  <2>1. SUFFICES ASSUME GraphTypeOK, [GraphNext]_vars PROVE GraphTypeOK'
    OBVIOUS
  <2>2. ASSUME NEW q \in EditRequests, RequestEdit(q) PROVE GraphTypeOK'
    <3>1. q.op \in {"insert", "append", "replace"} /\ q.n0 \in Nodes /\ q.n1 \in Nodes
      BY DEF EditingAssumption
    <3>2. made + 1 \in 1..MaxEdits
      BY <2>1, <2>2 DEF RequestEdit, GraphTypeOK, EditingAssumption
    <3>3. [op |-> q.op, n0 |-> q.n0, n1 |-> q.n1, by |-> made + 1, rows |-> {},
           from |-> q.n0, phase |-> "asked"] \in Edits
      BY <3>1, <3>2 DEF Edits
    <3>4. QED
      BY <2>1, <2>2, <3>2, <3>3 DEF RequestEdit, GraphTypeOK, Edits
  <2>3. ASSUME NEW r \in edits, SelectRows(r) PROVE GraphTypeOK'
    <3>1. r \in Edits
      BY <2>1 DEF GraphTypeOK, Edits
    <3>2. ASSUME NEW n \in Nodes PROVE Selected(r, n) \in Edits
      <4>1. {k \in DOMAIN edges : edges[k][1] = n} \in SUBSET RowId
        BY <2>1 DEF GraphTypeOK
      <4>2. QED
        BY <3>1, <4>1 DEF Selected, Edits
    <3>3. Exits(Graph, r.n0) \subseteq Nodes /\ r.n0 \in Nodes
      BY <2>1, <3>1, GraphIsPairs, ExitsAreNodes DEF Edits
    <3>4. edits' \subseteq Edits
      BY <2>1, <2>3, <3>2, <3>3 DEF SelectRows, GraphTypeOK, Edits
    <3>5. QED
      BY <2>1, <2>3, <3>4 DEF SelectRows, GraphTypeOK, Edits
  <2>4. ASSUME NEW r \in edits, CommitEdit(r) PROVE GraphTypeOK'
    <3>1. r \in Edits
      BY <2>1 DEF GraphTypeOK, Edits
    <3>2. CASE Accepted(r)
      <4>1. edges' = Edited(r) /\ IsInjective(Edited(r))
        BY <2>4, <3>2 DEF CommitEdit, Accepted
      <4>2. DOMAIN edges' \subseteq RowId /\ edges' \in [DOMAIN edges' -> Pair]
        BY <2>1, <3>1, <4>1, EditedIsTyped
      <4>3. QED
        BY <2>1, <2>4, <4>1, <4>2 DEF CommitEdit, GraphTypeOK
    <3>3. CASE ~Accepted(r)
      BY <2>1, <2>4, <3>3 DEF CommitEdit, GraphTypeOK
    <3>4. QED
      BY <3>2, <3>3
  <2>5. ASSUME NEW e \in PostRequests, PostEdge(e) PROVE GraphTypeOK'
    <3> DEFINE id == [by |-> 0, born |-> e]
    <3> DEFINE new == [k \in DOMAIN edges \cup {id} |-> IF k = id THEN e ELSE edges[k]]
    <3>1. e \in Pair
      BY DEF EditingAssumption
    <3>2. id \in RowId
      BY <3>1 DEF RowId, EditingAssumption
    <3>3. DOMAIN new \subseteq RowId /\ new \in [DOMAIN new -> Pair]
      BY <2>1, <3>1, <3>2 DEF GraphTypeOK
    <3>4. (edges' = new /\ IsInjective(new)) \/ edges' = edges
      BY <2>5 DEF PostEdge
    <3>5. made' \in 0..MaxEdits
      BY <2>1, <2>5 DEF PostEdge, GraphTypeOK, EditingAssumption
    <3>6. CASE edges' = new /\ IsInjective(new)
      <4> HIDE DEF new
      <4>1. QED
        BY <2>1, <2>5, <3>3, <3>5, <3>6 DEF PostEdge, GraphTypeOK
    <3>7. CASE edges' = edges
      BY <2>1, <2>5, <3>5, <3>7 DEF PostEdge, GraphTypeOK
    <3>8. QED
      BY <3>4, <3>6, <3>7
  <2>6. ASSUME NEW k \in DOMAIN edges, DeleteEdge(k) PROVE GraphTypeOK'
    <3>1. made' \in 0..MaxEdits
      BY <2>1, <2>6 DEF DeleteEdge, GraphTypeOK, EditingAssumption
    <3>2. DOMAIN edges' \subseteq RowId /\ edges' \in [DOMAIN edges' -> Pair]
      BY <2>1, <2>6 DEF DeleteEdge, GraphTypeOK
    <3>3. IsInjective(edges')
      BY <2>1, <2>6 DEF DeleteEdge, GraphTypeOK, IsInjective
    <3>4. QED
      BY <2>1, <2>6, <3>1, <3>2, <3>3 DEF DeleteEdge, GraphTypeOK
  <2>7. CASE ResumeChecks
    BY <2>1, <2>7 DEF ResumeChecks, GraphTypeOK
  <2>8. CASE ResumeCommits
    BY <2>1, <2>8 DEF ResumeCommits, GraphTypeOK
  <2>9. CASE Pause
    BY <2>1, <2>9 DEF Pause, GraphTypeOK
  <2>10. CASE UNCHANGED vars
    BY <2>1, <2>10 DEF vars, GraphTypeOK
  <2>11. QED
    BY <2>1, <2>2, <2>3, <2>4, <2>5, <2>6, <2>7, <2>8, <2>9, <2>10 DEF GraphNext
<1>3. QED
  BY <1>1, <1>2, PTL DEF GraphSpec

(* While one request is served nothing else is, so that what a resume has  *)
(* checked is still so when it commits.                                    *)
CheckedIsCurrent ==
  /\ IsFiniteSet(edits)
  /\ resume = "checked" => edits = {} /\ ValidGraph(Graph)

LEMMA OneAtATime ==
  ASSUME MaxInFlight = 1, CheckedIsCurrent, Free
  PROVE  edits = {} /\ resume = "none"
<1>1. Cardinality(edits) \in Nat
  BY FS_CardinalityType DEF CheckedIsCurrent
<1>2. Cardinality(edits) = 0 /\ resume = "none"
  BY <1>1 DEF Free
<1>3. QED
  BY <1>2, FS_EmptySet DEF CheckedIsCurrent

LEMMA CheckedStaysCurrent ==
  ASSUME MaxInFlight = 1
  PROVE  GraphSpec => []CheckedIsCurrent
<1>1. GraphInit => CheckedIsCurrent
  BY FS_EmptySet DEF GraphInit, CheckedIsCurrent
<1>2. CheckedIsCurrent /\ [GraphNext]_vars => CheckedIsCurrent'
  <2>1. SUFFICES ASSUME CheckedIsCurrent, [GraphNext]_vars PROVE CheckedIsCurrent'
    OBVIOUS
  <2>2. ASSUME NEW q \in EditRequests, RequestEdit(q) PROVE CheckedIsCurrent'
    <3>1. resume' = "none"
      BY <2>1, <2>2, OneAtATime DEF RequestEdit
    <3>2. IsFiniteSet(edits')
      BY <2>1, <2>2, FS_Singleton, FS_Union DEF RequestEdit, CheckedIsCurrent
    <3>3. QED
      BY <3>1, <3>2 DEF CheckedIsCurrent
  <2>3. ASSUME NEW r \in edits, SelectRows(r) PROVE CheckedIsCurrent'
    <3>1. resume' # "checked"
      BY <2>1, <2>3 DEF SelectRows, CheckedIsCurrent
    <3>2. IsFiniteSet(edits \ {r})
      BY <2>1, FS_Difference DEF CheckedIsCurrent
    <3>3. \A m : IsFiniteSet((edits \ {r}) \cup {m})
      BY <3>2, FS_Singleton, FS_Union
    <3>4. IsFiniteSet(edits')
      BY <2>3, <3>2, <3>3 DEF SelectRows
    <3>5. QED
      BY <3>1, <3>4 DEF CheckedIsCurrent
  <2>4. ASSUME NEW r \in edits, CommitEdit(r) PROVE CheckedIsCurrent'
    <3>1. resume' # "checked"
      BY <2>1, <2>4 DEF CommitEdit, CheckedIsCurrent
    <3>2. IsFiniteSet(edits')
      BY <2>1, <2>4, FS_Difference DEF CommitEdit, CheckedIsCurrent
    <3>3. QED
      BY <3>1, <3>2 DEF CheckedIsCurrent
  <2>5. ASSUME NEW e \in PostRequests, PostEdge(e) PROVE CheckedIsCurrent'
    BY <2>1, <2>5, OneAtATime DEF PostEdge, CheckedIsCurrent
  <2>6. ASSUME NEW k \in DOMAIN edges, DeleteEdge(k) PROVE CheckedIsCurrent'
    BY <2>1, <2>6, OneAtATime DEF DeleteEdge, CheckedIsCurrent
  <2>7. CASE ResumeChecks
    <3>1. edits' = {} /\ Graph' = Graph
      BY <2>1, <2>7, OneAtATime DEF ResumeChecks, Graph
    <3>2. resume' = "checked" => ValidGraph(Graph)
      BY <2>7 DEF ResumeChecks
    <3>3. ValidGraph(Graph)' <=> ValidGraph(Graph)
      BY <3>1 DEF ValidGraph, Acyclic, HasPath, Closed, Sources, Sinks, In, Out,
                  Vertices, WeaklyConnected, Inner, Joined
    <3>4. QED
      BY <3>1, <3>2, <3>3, FS_EmptySet DEF CheckedIsCurrent
  <2>8. CASE ResumeCommits
    BY <2>1, <2>8 DEF ResumeCommits, CheckedIsCurrent
  <2>9. CASE Pause
    BY <2>1, <2>9, OneAtATime DEF Pause, CheckedIsCurrent
  <2>10. CASE UNCHANGED vars
    <3>1. Graph' = Graph
      BY <2>10 DEF vars, Graph
    <3>2. QED
      BY <2>1, <2>10, <3>1 DEF vars, CheckedIsCurrent
  <2>11. QED
    BY <2>1, <2>2, <2>3, <2>4, <2>5, <2>6, <2>7, <2>8, <2>9, <2>10 DEF GraphNext
<1>3. QED
  BY <1>1, <1>2, PTL DEF GraphSpec

(* When requests are served one at a time the walk of a resumed campaign   *)
(* visits every node, whatever edits, posts and deletes came before.       *)
THEOREM ResumedIsWalkable ==
  ASSUME MaxInFlight = 1
  PROVE  GraphSpec => ResumedGraphIsWalkable
<1>1. ASSUME GraphTypeOK, CheckedIsCurrent, [GraphNext]_vars,
             campaign = "paused", campaign' = "running"
      PROVE  Walkable(Graph)
  <2>1. ResumeCommits
    BY <1>1 DEF GraphNext, vars, RequestEdit, SelectRows, CommitEdit, PostEdge,
                DeleteEdge, ResumeChecks, Pause
  <2>2. ValidGraph(Graph)
    BY <1>1, <2>1 DEF ResumeCommits, CheckedIsCurrent
  <2>3. QED
    BY <1>1, <2>2, GraphIsPairs, ValidGraphIsWalkable
<1>2. GraphTypeOK /\ CheckedIsCurrent /\ [GraphNext]_vars =>
        [campaign = "paused" /\ campaign' = "running" => Walkable(Graph)]_vars
  BY <1>1
<1>3. QED
  BY <1>2, GraphTypeCorrect, CheckedStaysCurrent, PTL DEF GraphSpec, ResumedGraphIsWalkable
-----------------------------------------------------------------------------
(* A graph in which n1 stands for n0                                       *)

InPlace(v, n0, n1) == IF v = n0 THEN n1 ELSE v

Renamed(E, n0, n1) == {<<InPlace(e[1], n0, n1), InPlace(e[2], n0, n1)>> : e \in E}

LEMMA RenamedEdges ==
  ASSUME NEW E \in SUBSET Pair, NEW n0 \in Nodes, NEW n1 \in Nodes
  PROVE  LET F    == Renamed(E, n0, n1)
             P(v) == InPlace(v, n0, n1)
         IN  /\ F \in SUBSET Pair
             /\ \A e \in E : <<P(e[1]), P(e[2])>> \in F
             /\ \A f \in F : \E e \in E : f = <<P(e[1]), P(e[2])>>
             /\ \A v \in Vertices(E) : P(v) \in Vertices(F)
             /\ \A w \in Vertices(F) : \E v \in Vertices(E) : w = P(v)
<1> DEFINE F    == Renamed(E, n0, n1)
           P(v) == InPlace(v, n0, n1)
<1>1. \A e \in E : e[1] \in Nodes /\ e[2] \in Nodes
  BY DEF Pair
<1>2. /\ \A e \in E : <<P(e[1]), P(e[2])>> \in F
      /\ \A f \in F : \E e \in E : f = <<P(e[1]), P(e[2])>>
  BY DEF Renamed
<1>3. \A v \in Nodes : P(v) \in Nodes
  BY DEF InPlace
<1>4. F \in SUBSET Pair
  BY <1>1, <1>2, <1>3 DEF Pair
<1> HIDE DEF F, P
<1>5. ASSUME NEW v \in Vertices(E) PROVE P(v) \in Vertices(F)
  <2>1. PICK e \in E : v = e[1] \/ v = e[2]
    BY <1>5 DEF Vertices
  <2>2. /\ <<P(e[1]), P(e[2])>> \in F
        /\ <<P(e[1]), P(e[2])>>[1] = P(e[1]) /\ <<P(e[1]), P(e[2])>>[2] = P(e[2])
    BY <1>2
  <2>3. P(e[1]) \in Vertices(F) /\ P(e[2]) \in Vertices(F)
    BY <1>4, <2>2, EdgeEnds
  <2>4. QED
    BY <2>1, <2>3
<1>6. ASSUME NEW w \in Vertices(F) PROVE \E v \in Vertices(E) : w = P(v)
  <2>1. PICK f \in F : w = f[1] \/ w = f[2]
    BY <1>6 DEF Vertices
  <2>2. PICK e \in E : f = <<P(e[1]), P(e[2])>>
    BY <1>2
  <2>3. e[1] \in Vertices(E) /\ e[2] \in Vertices(E)
    BY EdgeEnds
  <2>4. QED
    BY <2>1, <2>2, <2>3
<1>7. QED
  BY <1>2, <1>4, <1>5, <1>6 DEF F, P

LEMMA RenamedPaths ==
  ASSUME NEW E \in SUBSET Pair, NEW n0 \in Nodes, NEW n1 \in Nodes,
         NEW p, NEW q, HasPath(E, p, q)
  PROVE  HasPath(Renamed(E, n0, n1), InPlace(p, n0, n1), InPlace(q, n0, n1))
<1> DEFINE F    == Renamed(E, n0, n1)
           P(v) == InPlace(v, n0, n1)
<1>e. \A e \in E : <<P(e[1]), P(e[2])>> \in F
  BY RenamedEdges
<1>v. p \in Vertices(E) /\ q \in Vertices(E)
  BY DEF HasPath
<1>1. P(p) \in Vertices(F) /\ P(q) \in Vertices(F)
  BY <1>v, RenamedEdges
<1> HIDE DEF F, P
<1>2. ASSUME NEW S \in SUBSET Vertices(F), P(p) \in S, Closed(F, S)
      PROVE  P(q) \in S
  <2> DEFINE T == {v \in Vertices(E) : P(v) \in S}
  <2>1. Closed(E, T)
    <3>1. SUFFICES ASSUME NEW e \in E, e[1] \in T PROVE e[2] \in T
      BY DEF Closed
    <3>2. /\ <<P(e[1]), P(e[2])>> \in F
          /\ <<P(e[1]), P(e[2])>>[1] = P(e[1]) /\ <<P(e[1]), P(e[2])>>[2] = P(e[2])
      BY <1>e
    <3>3. P(e[2]) \in S
      BY <1>2, <3>1, <3>2 DEF Closed
    <3>4. QED
      BY <3>3, EdgeEnds
  <2>2. p \in T
    BY <1>2, <1>v
  <2>3. q \in T
    BY <2>1, <2>2 DEF HasPath
  <2>4. QED
    BY <2>3
<1>3. HasPath(F, P(p), P(q))
  BY <1>1, <1>2 DEF HasPath
<1>4. QED
  BY <1>3 DEF F, P

(* A graph that validate_graph accepted stays one when a node is replaced  *)
(* by one that is not in it.                                               *)
LEMMA RenamedIsValid ==
  ASSUME NEW E \in SUBSET Pair, ValidGraph(E), NEW n0 \in Nodes \ {START, END},
         NEW n1 \in Nodes \ Vertices(E)
  PROVE  ValidGraph(Renamed(E, n0, n1))
<1> DEFINE F    == Renamed(E, n0, n1)
           P(v) == InPlace(v, n0, n1)
<1>e. /\ \A e \in E : <<P(e[1]), P(e[2])>> \in F
      /\ \A f \in F : \E e \in E : f = <<P(e[1]), P(e[2])>>
      /\ \A v \in Vertices(E) : P(v) \in Vertices(F)
      /\ \A w \in Vertices(F) : \E v \in Vertices(E) : w = P(v)
      /\ F \in SUBSET Pair
  BY RenamedEdges
<1>i. \A v, w \in Vertices(E) : P(v) = P(w) => v = w
  BY DEF InPlace
<1>s. /\ START \in Vertices(E) /\ P(START) = START
      /\ END \in Vertices(E) /\ P(END) = END
  BY DEF ValidGraph, HasPath, InPlace
<1>p. \A v, w : HasPath(E, v, w) => HasPath(F, P(v), P(w))
  BY RenamedPaths
<1> HIDE DEF F, P
<1>n. \A v \in Vertices(E) : P(v) \in Nodes
  BY <1>e DEF Vertices, Pair
<1>g. \A e \in E : /\ e[1] \in Vertices(E) /\ e[2] \in Vertices(E)
                   /\ e = <<e[1], e[2]>>
  BY EdgeEnds
<1>1. Acyclic(F)
  <2>1. SUFFICES ASSUME NEW S \in SUBSET Vertices(F), S # {}
                 PROVE  /\ \E m \in S : \A f \in F : f[1] \in S => f[2] # m
                        /\ \E m \in S : \A f \in F : f[2] \in S => f[1] # m
    BY DEF Acyclic
  <2> DEFINE T == {v \in Vertices(E) : P(v) \in S}
  <2>2. T \in SUBSET Vertices(E) /\ T # {}
    BY <2>1, <1>e
  <2>3. PICK a \in T : \A e \in E : e[1] \in T => e[2] # a
    BY <2>2 DEF Acyclic, ValidGraph
  <2>4. PICK b \in T : \A e \in E : e[2] \in T => e[1] # b
    BY <2>2 DEF Acyclic, ValidGraph
  <2>5. ASSUME NEW f \in F, f[1] \in S PROVE f[2] # P(a)
    <3>1. PICK e \in E : f = <<P(e[1]), P(e[2])>>
      BY <1>e
    <3>2. e[1] \in T
      BY <2>5, <3>1, <1>g
    <3>3. QED
      BY <2>3, <3>1, <3>2, <1>g, <1>i
  <2>6. ASSUME NEW f \in F, f[2] \in S PROVE f[1] # P(b)
    <3>1. PICK e \in E : f = <<P(e[1]), P(e[2])>>
      BY <1>e
    <3>2. e[2] \in T
      BY <2>6, <3>1, <1>g
    <3>3. QED
      BY <2>4, <3>1, <3>2, <1>g, <1>i
  <2>7. QED
    BY <2>5, <2>6
<1>2. HasPath(F, START, END)
  BY <1>s, <1>p DEF ValidGraph
<1>3. \A v \in Vertices(E) : /\ In(F, P(v)) = {} <=> In(E, v) = {}
                             /\ Out(F, P(v)) = {} <=> Out(E, v) = {}
  <2>1. ASSUME NEW v \in Vertices(E), NEW e \in E
        PROVE  /\ e[2] = v => \E f \in F : f[2] = P(v)
               /\ e[1] = v => \E f \in F : f[1] = P(v)
    <3>1. /\ <<P(e[1]), P(e[2])>> \in F
          /\ <<P(e[1]), P(e[2])>>[1] = P(e[1]) /\ <<P(e[1]), P(e[2])>>[2] = P(e[2])
      BY <1>e
    <3>2. QED
      BY <3>1
  <2>2. ASSUME NEW v \in Vertices(E), NEW f \in F
        PROVE  /\ f[2] = P(v) => \E e \in E : e[2] = v
               /\ f[1] = P(v) => \E e \in E : e[1] = v
    <3>1. PICK e \in E : f = <<P(e[1]), P(e[2])>>
      BY <1>e
    <3>2. QED
      BY <3>1, <1>g, <1>i
  <2>3. QED
    BY <2>1, <2>2 DEF In, Out
<1>4. \E n \in Nodes : Sources(F) = {n}
  <2>1. PICK s \in Nodes : Sources(E) = {s}
    BY DEF ValidGraph
  <2>2. s \in Vertices(E) /\ \A v \in Vertices(E) : In(E, v) = {} <=> v = s
    BY <2>1 DEF Sources
  <2>3. Sources(F) = {P(s)}
    BY <2>2, <1>3, <1>e, <1>i DEF Sources
  <2>4. QED
    BY <2>2, <2>3, <1>n
<1>5. \E n \in Nodes : Sinks(F) = {n}
  <2>1. PICK s \in Nodes : Sinks(E) = {s}
    BY DEF ValidGraph
  <2>2. s \in Vertices(E) /\ \A v \in Vertices(E) : Out(E, v) = {} <=> v = s
    BY <2>1 DEF Sinks
  <2>3. Sinks(F) = {P(s)}
    BY <2>2, <1>3, <1>e, <1>i DEF Sinks
  <2>4. QED
    BY <2>2, <2>3, <1>n
<1>6. WeaklyConnected(F)
  <2>1. SUFFICES ASSUME NEW S \in SUBSET Vertices(F), S # {}, S # Vertices(F)
                 PROVE  \E f \in F : (f[1] \in S) # (f[2] \in S)
    BY DEF WeaklyConnected
  <2> DEFINE T == {v \in Vertices(E) : P(v) \in S}
  <2>2. T \in SUBSET Vertices(E) /\ T # {} /\ T # Vertices(E)
    BY <2>1, <1>e
  <2>3. PICK e \in E : (e[1] \in T) # (e[2] \in T)
    BY <2>2 DEF WeaklyConnected, ValidGraph
  <2>4. /\ <<P(e[1]), P(e[2])>> \in F
        /\ <<P(e[1]), P(e[2])>>[1] = P(e[1]) /\ <<P(e[1]), P(e[2])>>[2] = P(e[2])
    BY <1>e
  <2>5. (P(e[1]) \in S) # (P(e[2]) \in S)
    BY <2>3, <1>g
  <2>6. QED
    BY <2>4, <2>5
<1>7. \A v \in Inner(E) : P(v) \in Inner(F)
  BY <1>e, <1>i, <1>s DEF Inner
<1>8. ASSUME NEW w \in Inner(F) PROVE Joined(F, w)
  <2>1. PICK v \in Vertices(E) : w = P(v)
    BY <1>e DEF Inner
  <2>2. v \in Inner(E)
    BY <2>1, <1>s DEF Inner
  <2>3. PICK d \in E, e \in E : /\ d # e
                                /\ d[1] = v \/ d[2] = v
                                /\ e[1] = v \/ e[2] = v
    BY <2>2 DEF ValidGraph, Joined, In, Out
  <2>4. /\ <<P(d[1]), P(d[2])>> \in F /\ <<P(e[1]), P(e[2])>> \in F
        /\ <<P(d[1]), P(d[2])>>[1] = P(d[1]) /\ <<P(d[1]), P(d[2])>>[2] = P(d[2])
        /\ <<P(e[1]), P(e[2])>>[1] = P(e[1]) /\ <<P(e[1]), P(e[2])>>[2] = P(e[2])
    BY <1>e
  <2>5. <<P(d[1]), P(d[2])>> # <<P(e[1]), P(e[2])>>
    BY <2>3, <1>g, <1>i
  <2>6. QED
    BY <2>1, <2>3, <2>4, <2>5, JoinedBy
<1>9. Inner(F) # {}
  BY <1>7 DEF ValidGraph
<1>10. ValidGraph(F)
  BY <1>1, <1>2, <1>4, <1>5, <1>6, <1>8, <1>9 DEF ValidGraph
<1>11. QED
  BY <1>10 DEF F
-----------------------------------------------------------------------------
(* Requests that are served one at a time                                  *)

(* The one request that is served finds what it selected as it was then,   *)
(* and no row is of its own making yet.                                    *)
SelectionIsCurrent ==
  /\ \A q, r \in edits : q = r
  /\ \A k \in DOMAIN edges : k.by <= made
  /\ \A r \in edits :
       /\ r.by = made /\ \A k \in DOMAIN edges : k.by < made
       /\ r.phase = "selected" =>
            /\ r.rows = {k \in DOMAIN edges : edges[k][1] = r.from}
            /\ r.op = "append" => r.from \in Exits(Graph, r.n0)
            /\ r.op # "append" => r.from = r.n0

LEMMA SelectionStaysCurrent ==
  ASSUME MaxInFlight = 1
  PROVE  GraphSpec => []SelectionIsCurrent
<1>1. GraphInit => SelectionIsCurrent
  BY DEF GraphInit, SelectionIsCurrent
<1>2. GraphTypeOK /\ CheckedIsCurrent /\ SelectionIsCurrent /\ [GraphNext]_vars =>
        SelectionIsCurrent'
  <2>1. SUFFICES ASSUME GraphTypeOK, CheckedIsCurrent, SelectionIsCurrent,
                        [GraphNext]_vars
                 PROVE  SelectionIsCurrent'
    OBVIOUS
  <2>t. /\ made \in Nat /\ \A k \in DOMAIN edges : k.by \in Nat
        /\ \A r \in edits : r \in Edits
    BY <2>1 DEF GraphTypeOK, RowId, Edits
  <2>2. ASSUME NEW q \in EditRequests, RequestEdit(q) PROVE SelectionIsCurrent'
    <3>1. edits = {}
      BY <2>1, <2>2, OneAtATime DEF RequestEdit
    <3> DEFINE new == [op |-> q.op, n0 |-> q.n0, n1 |-> q.n1, by |-> made + 1, rows |-> {},
                       from |-> q.n0, phase |-> "asked"]
    <3>2. edits' = {new} /\ edges' = edges /\ made' = made + 1
      BY <2>2, <3>1 DEF RequestEdit
    <3>3. \A k \in DOMAIN edges : k.by < made + 1
      BY <2>1, <2>t DEF SelectionIsCurrent
    <3>4. new.by = made + 1 /\ new.phase = "asked"
      OBVIOUS
    <3> HIDE DEF new
    <3>5. QED
      BY <2>t, <3>2, <3>3, <3>4 DEF SelectionIsCurrent
  <2>3. ASSUME NEW r \in edits, SelectRows(r) PROVE SelectionIsCurrent'
    <3>1. edits = {r}
      BY <2>1 DEF SelectionIsCurrent
    <3>2. edges' = edges /\ made' = made /\ Graph' = Graph
      BY <2>3 DEF SelectRows, Graph
    <3>3. r.by = made /\ \A k \in DOMAIN edges : k.by < made
      BY <2>1 DEF SelectionIsCurrent
    <3>4. CASE edits' = {}
      BY <2>1, <3>2, <3>4 DEF SelectionIsCurrent
    <3>5. ASSUME NEW n, edits' = {Selected(r, n)},
                 r.op = "append" => n \in Exits(Graph, r.n0),
                 r.op # "append" => n = r.n0
          PROVE  SelectionIsCurrent'
      <4>1. /\ Selected(r, n).by = r.by /\ Selected(r, n).from = n
            /\ Selected(r, n).op = r.op /\ Selected(r, n).n0 = r.n0
            /\ Selected(r, n).rows = {k \in DOMAIN edges : edges[k][1] = n}
        BY <2>t DEF Selected, Edits
      <4> DEFINE x == Selected(r, n)
      <4> HIDE DEF x
      <4>2. /\ x.by = made' /\ \A k \in DOMAIN edges' : k.by < made'
            /\ x.rows = {k \in DOMAIN edges' : edges'[k][1] = x.from}
            /\ x.op = "append" => x.from \in Exits(Graph', x.n0)
            /\ x.op # "append" => x.from = x.n0
        BY <3>2, <3>3, <3>5, <4>1 DEF x
      <4>3. edits' = {x}
        BY <3>5 DEF x
      <4>4. \A k \in DOMAIN edges' : k.by <= made'
        BY <2>1, <3>2 DEF SelectionIsCurrent
      <4>5. QED
        BY <4>2, <4>3, <4>4 DEF SelectionIsCurrent
    <3>6. CASE r.op # "append"
      <4>1. edits' = {Selected(r, r.n0)}
        BY <2>3, <3>1, <3>6 DEF SelectRows
      <4>2. QED
        BY <3>5, <3>6, <4>1
    <3>7. CASE r.op = "append" /\ edits' # {}
      <4>1. PICK n \in Exits(Graph, r.n0) : edits' = {Selected(r, n)}
        BY <2>3, <3>1, <3>7 DEF SelectRows
      <4>2. QED
        BY <3>5, <3>7, <4>1
    <3>8. QED
      BY <3>4, <3>6, <3>7
  <2>4. ASSUME NEW r \in edits, CommitEdit(r) PROVE SelectionIsCurrent'
    <3>1. edits' = {} /\ made' = made
      BY <2>1, <2>4 DEF CommitEdit, SelectionIsCurrent
    <3>2. \A k \in DOMAIN edges : k.by <= made
      BY <2>1 DEF SelectionIsCurrent
    <3>3. \A k \in DOMAIN Edited(r) : k.by <= made
      <4>1. r.by = made /\ made <= made
        BY <2>1, <2>t DEF SelectionIsCurrent
      <4>2. QED
        BY <3>2, <4>1 DEF Edited
    <3>4. \A k \in DOMAIN edges' : k.by <= made
      BY <2>4, <3>2, <3>3 DEF CommitEdit
    <3>5. QED
      BY <3>1, <3>4 DEF SelectionIsCurrent
  <2>5. ASSUME NEW e \in PostRequests, PostEdge(e) PROVE SelectionIsCurrent'
    <3>1. edits = {} /\ edits' = {} /\ made' = made + 1
      BY <2>1, <2>5, OneAtATime DEF PostEdge
    <3>2. DOMAIN edges' \subseteq DOMAIN edges \cup {[by |-> 0, born |-> e]}
      BY <2>5 DEF PostEdge
    <3>3. \A k \in DOMAIN edges' : k.by <= made + 1
      BY <2>1, <2>t, <3>2 DEF SelectionIsCurrent
    <3>4. QED
      BY <3>1, <3>3 DEF SelectionIsCurrent
  <2>6. ASSUME NEW k \in DOMAIN edges, DeleteEdge(k) PROVE SelectionIsCurrent'
    <3>1. edits = {} /\ edits' = {} /\ made' = made + 1
      BY <2>1, <2>6, OneAtATime DEF DeleteEdge
    <3>2. DOMAIN edges' \subseteq DOMAIN edges
      BY <2>6 DEF DeleteEdge
    <3>3. \A j \in DOMAIN edges' : j.by <= made + 1
      BY <2>1, <2>t, <3>2 DEF SelectionIsCurrent
    <3>4. QED
      BY <3>1, <3>3 DEF SelectionIsCurrent
  <2>7. ASSUME UNCHANGED <<edges, edits, made>> PROVE SelectionIsCurrent'
    <3>1. Graph' = Graph
      BY <2>7 DEF Graph
    <3>2. QED
      BY <2>1, <2>7, <3>1 DEF SelectionIsCurrent
  <2>8. QED
    BY <2>1, <2>2, <2>3, <2>4, <2>5, <2>6, <2>7
       DEF GraphNext, ResumeChecks, ResumeCommits, Pause, vars
<1>3. QED
  BY <1>1, <1>2, GraphTypeCorrect, CheckedStaysCurrent, PTL DEF GraphSpec

(* What the operation does to a graph, by whatever rows it is stored.      *)
Applied(r) ==
  CASE r.op = "insert"  -> Insert(Graph, r.n0, r.n1)
    [] r.op = "append"  -> AppendNode(Graph, r.from, r.n0, r.n1)
    [] r.op = "replace" -> Renamed(Graph, r.n0, r.n1)

LEMMA EditedGraph ==
  ASSUME GraphTypeOK, SelectionIsCurrent, NEW r \in edits, r.phase = "selected"
  PROVE  Range(Edited(r)) = Applied(r)
<1> DEFINE new == [by : {r.by}, born : Born(r)]
           P(v) == InPlace(v, r.n0, r.n1)
<1>t. r \in Edits /\ r.op \in {"insert", "append", "replace"}
  BY DEF GraphTypeOK, Edits
<1>e. \A k \in DOMAIN edges : /\ edges[k] \in Pair
                              /\ edges[k] = <<edges[k][1], edges[k][2]>>
  BY DEF GraphTypeOK, Pair
<1>g. /\ \A k \in DOMAIN edges : edges[k] \in Graph
      /\ \A e \in Graph : \E k \in DOMAIN edges : e = edges[k]
  BY DEF Graph, Range
<1>m. /\ Matching(r) = {k \in DOMAIN edges : edges[k][1] = r.from}
      /\ r.op # "append" => r.from = r.n0
  BY DEF SelectionIsCurrent, Matching
<1>1. \A k \in DOMAIN edges : k \notin new
  <2>1. r.by = made /\ \A k \in DOMAIN edges : k.by < made /\ k.by \in Nat
    BY DEF SelectionIsCurrent, GraphTypeOK, RowId
  <2>2. \A k \in DOMAIN edges : k.by # r.by
    BY <2>1 DEF GraphTypeOK
  <2>3. \A k \in new : k.by = r.by
    OBVIOUS
  <2>4. QED
    BY <2>2, <2>3
<1>2. /\ \A b \in Born(r) : [by |-> r.by, born |-> b] \in new
      /\ \A b \in Born(r) : [by |-> r.by, born |-> b].born = b
      /\ \A k \in new : k.born \in Born(r)
  OBVIOUS
<1>3. Edited(r) = [k \in DOMAIN edges \cup new |-> IF k \in new THEN k.born ELSE Moved(r)[k]]
  BY DEF Edited
<1> HIDE DEF new
<1>4. Range(Edited(r)) = {Moved(r)[k] : k \in DOMAIN edges} \cup Born(r)
  <2>1. DOMAIN Edited(r) = DOMAIN edges \cup new
    BY <1>3
  <2>2. \A k \in DOMAIN edges : Edited(r)[k] = Moved(r)[k]
    BY <1>1, <1>3
  <2>3. \A k \in new : Edited(r)[k] = k.born
    BY <1>3
  <2>4. ASSUME NEW x \in Range(Edited(r))
        PROVE  x \in {Moved(r)[k] : k \in DOMAIN edges} \cup Born(r)
    <3>1. PICK k \in DOMAIN Edited(r) : x = Edited(r)[k]
      BY DEF Range
    <3>2. QED
      BY <1>2, <2>1, <2>2, <2>3, <3>1
  <2>5. ASSUME NEW k \in DOMAIN edges PROVE Moved(r)[k] \in Range(Edited(r))
    BY <2>1, <2>2 DEF Range
  <2>6. ASSUME NEW b \in Born(r) PROVE b \in Range(Edited(r))
    <3>1. Edited(r)[[by |-> r.by, born |-> b]] = b
      BY <1>2, <2>3
    <3>2. QED
      BY <1>2, <2>1, <3>1 DEF Range
  <2>7. QED
    BY <2>4, <2>5, <2>6
<1>5. CASE r.op = "insert"
  <2>1. \A k \in DOMAIN edges :
          Moved(r)[k] = IF edges[k][1] = r.n0 THEN <<r.n1, edges[k][2]>> ELSE edges[k]
    BY <1>e, <1>m, <1>5 DEF Moved
  <2>2. Born(r) = {<<r.n0, r.n1>>} /\ Applied(r) = Insert(Graph, r.n0, r.n1)
    BY <1>5 DEF Born, Applied
  <2> DEFINE B == (Graph \ Out(Graph, r.n0)) \cup {<<r.n1, e[2]>> : e \in Out(Graph, r.n0)}
  <2>3. {Moved(r)[k] : k \in DOMAIN edges} = B
    <3>1. ASSUME NEW k \in DOMAIN edges PROVE Moved(r)[k] \in B
      <4>1. edges[k] \in Graph
        BY <1>g
      <4>2. CASE edges[k][1] = r.n0
        BY <2>1, <4>1, <4>2 DEF Out
      <4>3. CASE edges[k][1] # r.n0
        BY <2>1, <4>1, <4>3 DEF Out
      <4>4. QED
        BY <4>2, <4>3
    <3>2. ASSUME NEW b \in B PROVE \E k \in DOMAIN edges : b = Moved(r)[k]
      <4>1. CASE b \in Graph /\ b[1] # r.n0
        <5>1. PICK k \in DOMAIN edges : b = edges[k]
          BY <1>g, <4>1
        <5>2. QED
          BY <2>1, <4>1, <5>1
      <4>2. CASE \E e \in Graph : e[1] = r.n0 /\ b = <<r.n1, e[2]>>
        <5>1. PICK e \in Graph : e[1] = r.n0 /\ b = <<r.n1, e[2]>>
          BY <4>2
        <5>2. PICK k \in DOMAIN edges : e = edges[k]
          BY <1>g
        <5>3. QED
          BY <2>1, <5>1, <5>2
      <4>3. QED
        BY <4>1, <4>2 DEF Out
    <3>3. QED
      BY <3>1, <3>2
  <2>4. QED
    BY <1>4, <2>2, <2>3 DEF Insert
<1>6. CASE r.op = "append"
  <2>1. \A k \in DOMAIN edges : Moved(r)[k] = edges[k]
    BY <1>e, <1>6 DEF Moved
  <2>2. {Moved(r)[k] : k \in DOMAIN edges} = Graph
    BY <1>g, <2>1
  <2>3. /\ Born(r) = {<<r.n1, edges[k][2]>> : k \in Matching(r)}
                        \cup {<<e[1], r.n1>> : e \in In(Graph, r.n0)}
        /\ Applied(r) = AppendNode(Graph, r.from, r.n0, r.n1)
    BY <1>6 DEF Born, Applied
  <2>4. {<<r.n1, edges[k][2]>> : k \in Matching(r)} =
          {<<r.n1, e[2]>> : e \in Out(Graph, r.from)}
    BY <1>g, <1>m DEF Out
  <2>5. QED
    BY <1>4, <2>2, <2>3, <2>4 DEF AppendNode
<1>7. CASE r.op = "replace"
  <2>1. \A k \in DOMAIN edges : Moved(r)[k] = <<P(edges[k][1]), P(edges[k][2])>>
    BY <1>m, <1>7 DEF Moved, InPlace
  <2>2. Born(r) = {} /\ Applied(r) = Renamed(Graph, r.n0, r.n1)
    BY <1>7 DEF Born, Applied
  <2> HIDE DEF P
  <2> DEFINE B == {<<P(e[1]), P(e[2])>> : e \in Graph}
  <2>3. {Moved(r)[k] : k \in DOMAIN edges} = B
    <3>1. ASSUME NEW k \in DOMAIN edges PROVE Moved(r)[k] \in B
      BY <1>g, <2>1
    <3>2. ASSUME NEW b \in B PROVE \E k \in DOMAIN edges : b = Moved(r)[k]
      BY <1>g, <2>1
    <3>3. QED
      BY <3>1, <3>2
  <2>4. QED
    BY <1>4, <2>2, <2>3 DEF Renamed, P
<1>8. QED
  BY <1>t, <1>5, <1>6, <1>7

LEMMA CommittedEdit ==
  ASSUME GraphTypeOK, SelectionIsCurrent, NEW r \in edits, CommitEdit(r)
  PROVE  Graph' \in {Graph, Applied(r)}
<1>1. CASE edges' = edges
  BY <1>1 DEF Graph
<1>2. CASE edges' = Edited(r)
  <2>1. Graph' = Range(Edited(r))
    BY <1>2 DEF Graph, Range
  <2>2. QED
    BY <2>1, EditedGraph DEF CommitEdit
<1>3. QED
  BY <1>1, <1>2 DEF CommitEdit

(* The rows that a request moves and adds, one at a time served, are the   *)
(* graph operation it asks for, or nothing (graph.py, and replace in       *)
(* routers/v2/campaigns.py): new identities and moved end points never     *)
(* leave an edge behind or lose one.                                       *)
THEOREM EditsAreOperations ==
  ASSUME MaxInFlight = 1
  PROVE  GraphSpec =>
           [][\A r \in edits : CommitEdit(r) => Graph' \in {Graph, Applied(r)}]_vars
<1>1. GraphTypeOK /\ SelectionIsCurrent =>
        [\A r \in edits : CommitEdit(r) => Graph' \in {Graph, Applied(r)}]_vars
  BY CommittedEdit
<1>2. QED
  BY <1>1, GraphTypeCorrect, SelectionStaysCurrent, PTL DEF GraphSpec

(* Where the operation would make sense it keeps a valid graph valid.      *)
LEMMA AppliedIsValid ==
  ASSUME GraphTypeOK, SelectionIsCurrent, NEW r \in edits, r.phase = "selected",
         Sensible(r), ValidGraph(Graph)
  PROVE  ValidGraph(Applied(r))
<1>1. /\ r.op \in {"insert", "append", "replace"} /\ r.n0 \in Nodes /\ r.n1 \in Nodes
      /\ Graph \in SUBSET Pair
  BY GraphIsPairs DEF GraphTypeOK
<1>2. r.n0 \in Vertices(Graph) /\ r.n1 \in Nodes \ Vertices(Graph)
  BY <1>1 DEF Sensible
<1>3. CASE r.op = "insert"
  <2>1. r.n0 \notin Sinks(Graph) /\ r.n0 \notin Sources(Graph) \ {START}
    BY <1>3 DEF Sensible
  <2>2. QED
    BY <1>1, <1>2, <1>3, <2>1, InsertKeepsValid DEF Applied
<1>4. CASE r.op = "append"
  <2>1. r.n0 \notin Sinks(Graph) /\ r.n0 \notin Sources(Graph)
    BY <1>4 DEF Sensible
  <2>2. r.from \in Exits(Graph, r.n0)
    BY <1>4 DEF SelectionIsCurrent
  <2>3. HasPath(Graph, r.n0, r.from) /\ r.from \notin Sinks(Graph)
    <3>1. CASE Kind[r.n0] \in {"group", "other"}
      <4>1. r.from = r.n0
        BY <2>2, <3>1 DEF Exits
      <4>2. QED
        BY <1>2, <2>1, <4>1 DEF HasPath
    <3>2. CASE Kind[r.n0] = "step"
      <4>1. PICK e \in Graph : HasPath(Graph, r.n0, e[1]) /\ r.from = e[1]
        BY <2>2, <3>2 DEF Exits
      <4>2. QED
        BY <4>1 DEF Sinks, Out
    <3>3. CASE Kind[r.n0] \notin {"group", "other", "step"}
      BY <2>2, <3>3 DEF Exits
    <3>4. QED
      BY <3>1, <3>2, <3>3
  <2>4. Appendable(Graph, r.from, r.n0)
    BY <2>1, <2>3 DEF Appendable
  <2>5. Applied(r) = Twins(Graph, r.from, r.n0, {r.n1})
    BY <1>4, AppendIsTwin DEF Applied
  <2>6. {r.n1} \in SUBSET (Nodes \ Vertices(Graph))
    BY <1>2
  <2>7. QED
    BY <1>1, <2>4, <2>5, <2>6, TwinsKeepValid
<1>5. CASE r.op = "replace"
  <2>1. r.n0 \in Nodes \ {START, END}
    BY <1>1, <1>5 DEF Sensible
  <2>2. QED
    BY <1>1, <1>2, <1>5, <2>1, RenamedIsValid DEF Applied
<1>6. QED
  BY <1>1, <1>3, <1>4, <1>5

(* An insert, append or replace that its user could mean (Sensible) keeps  *)
(* a valid graph valid, if requests are served one at a time: the routes   *)
(* replace_node_in_graph and update_node_in_graph.  An edge that is posted *)
(* or deleted in between may make the graph invalid; of that this says     *)
(* nothing.                                                                *)
THEOREM ValidGraphsStayValid ==
  ASSUME MaxInFlight = 1
  PROVE  GraphSpec => EditsKeepGraphValid
<1>1. ASSUME GraphTypeOK, SelectionIsCurrent, NEW r \in edits, CommitEdit(r),
             Sensible(r), ValidGraph(Graph)
      PROVE  ValidGraph(Graph')
  <2>1. r.phase = "selected" /\ Graph' \in {Graph, Applied(r)}
    BY <1>1, CommittedEdit DEF CommitEdit
  <2>2. QED
    BY <1>1, <2>1, AppliedIsValid
<1>2. GraphTypeOK /\ SelectionIsCurrent =>
        [\A r \in edits :
           CommitEdit(r) /\ Sensible(r) /\ ValidGraph(Graph) => ValidGraph(Graph')]_vars
  BY <1>1
<1>3. QED
  BY <1>2, GraphTypeCorrect, SelectionStaysCurrent, PTL
     DEF GraphSpec, EditsKeepGraphValid

(* No operation cuts what led from one node to another, sensible or not.   *)
LEMMA AppliedKeepsPaths ==
  ASSUME NEW E \in SUBSET Pair, NEW n0 \in Nodes, NEW n1 \in Nodes, NEW exit \in Nodes,
         NEW F \in {Insert(E, n0, n1), AppendNode(E, exit, n0, n1), Renamed(E, n0, n1)},
         NEW p \in Vertices(F), NEW q \in Vertices(F), HasPath(E, p, q)
  PROVE  HasPath(F, p, q)
<1>p. \A e \in E : e[1] \in Nodes /\ e[2] \in Nodes /\ e = <<e[1], e[2]>>
  BY DEF Pair
<1>1. CASE F = Insert(E, n0, n1)
  <2>1. /\ F \in SUBSET Pair /\ <<n0, n1>> \in F
        /\ \A e \in E : e[1] # n0 => e \in F
        /\ \A e \in E : e[1] = n0 => <<n1, e[2]>> \in F
    BY <1>p, <1>1 DEF Insert, Out, Pair
  <2>2. ASSUME NEW S \in SUBSET Vertices(F), Closed(F, S), NEW e \in E, e[1] \in S
        PROVE  e[2] \in S
    <3>1. CASE e[1] # n0
      BY <2>1, <2>2, <3>1 DEF Closed
    <3>2. CASE e[1] = n0
      <4>1. /\ <<n0, n1>>[1] = n0 /\ <<n0, n1>>[2] = n1
            /\ <<n1, e[2]>>[1] = n1 /\ <<n1, e[2]>>[2] = e[2]
        OBVIOUS
      <4>2. n1 \in S
        BY <2>1, <2>2, <3>2, <4>1 DEF Closed
      <4>3. QED
        BY <2>1, <2>2, <3>2, <4>1, <4>2 DEF Closed
    <3>3. QED
      BY <3>1, <3>2
  <2>3. QED
    BY <2>1, <2>2, PathsKept
<1>2. CASE F = AppendNode(E, exit, n0, n1)
  <2>1. F \in SUBSET Pair /\ E \subseteq F
    BY <1>p, <1>2 DEF AppendNode, In, Out, Pair
  <2>2. \A S \in SUBSET Vertices(F) :
          Closed(F, S) => \A e \in E : e[1] \in S => e[2] \in S
    BY <2>1 DEF Closed
  <2>3. QED
    BY <2>1, <2>2, PathsKept
<1>3. CASE F = Renamed(E, n0, n1)
  <2>1. \A v \in Vertices(F) : InPlace(v, n0, n1) = v
    <3>1. \A w \in Vertices(F) : \E v \in Vertices(E) : w = InPlace(v, n0, n1)
      BY <1>3, RenamedEdges
    <3>2. QED
      BY <3>1 DEF InPlace
  <2>2. QED
    BY <1>3, <2>1, RenamedPaths
<1>4. QED
  BY <1>1, <1>2, <1>3

(* Requests that are served one at a time, whatever nodes they are for,    *)
(* let no node run before one that it had to wait for.                     *)
THEOREM OrderIsNeverLost ==
  ASSUME MaxInFlight = 1
  PROVE  GraphSpec => OrderIsKept
<1>1. ASSUME GraphTypeOK, SelectionIsCurrent, NEW r \in edits, CommitEdit(r),
             NEW m \in Vertices(Graph'), NEW n \in Vertices(Graph'), HasPath(Graph, m, n)
      PROVE  HasPath(Graph', m, n)
  <2>1. /\ r.op \in {"insert", "append", "replace"}
        /\ r.n0 \in Nodes /\ r.n1 \in Nodes /\ r.from \in Nodes
        /\ Graph \in SUBSET Pair
    BY <1>1, GraphIsPairs DEF GraphTypeOK
  <2>2. Graph' \in {Graph, Applied(r)}
    BY <1>1, CommittedEdit
  <2>3. Applied(r) \in {Insert(Graph, r.n0, r.n1), AppendNode(Graph, r.from, r.n0, r.n1),
                        Renamed(Graph, r.n0, r.n1)}
    BY <2>1 DEF Applied
  <2>4. CASE Graph' = Graph
    BY <1>1, <2>4
  <2>5. CASE Graph' = Applied(r)
    BY <1>1, <2>1, <2>3, <2>5, AppliedKeepsPaths
  <2>6. QED
    BY <2>2, <2>4, <2>5
<1>2. GraphTypeOK /\ SelectionIsCurrent =>
        [\A r \in edits : CommitEdit(r) =>
           \A m, n \in Vertices(Graph') :
             HasPath(Graph, m, n) => HasPath(Graph', m, n)]_vars
  BY <1>1
<1>3. QED
  BY <1>2, GraphTypeCorrect, SelectionStaysCurrent, PTL DEF GraphSpec, OrderIsKept
=============================================================================
