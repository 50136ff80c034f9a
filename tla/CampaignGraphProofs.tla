------------------------- MODULE CampaignGraphProofs -------------------------
(***************************************************************************)
(* What validate_graph guarantees, and what the operations of the graph    *)
(* library preserve, for graphs of any size.                               *)
(***************************************************************************)
EXTENDS CampaignGraph, TLAPS

(* An edge joins two vertices.                                             *)
LEMMA EdgeEnds ==
  ASSUME NEW E \in SUBSET Pair, NEW e \in E
  PROVE  /\ e = <<e[1], e[2]>>
         /\ e[1] \in Vertices(E) /\ e[2] \in Vertices(E)
         /\ e \in In(E, e[2]) /\ e \in Out(E, e[1])
  BY DEF Pair, Vertices, In, Out

(* In an acyclic graph with one source everything is reached from there.   *)
LEMMA SourceReachesAll ==
  ASSUME NEW E \in SUBSET Pair, Acyclic(E),
         NEW s, Sources(E) = {s}, NEW n \in Vertices(E)
  PROVE  HasPath(E, s, n)
<1>1. s \in Vertices(E) /\ In(E, s) = {}
  BY DEF Sources
<1>2. SUFFICES ASSUME NEW S \in SUBSET Vertices(E), s \in S, Closed(E, S),
                      n \notin S
               PROVE  FALSE
  BY <1>1 DEF HasPath
<1> DEFINE T == Vertices(E) \ S
<1>3. PICK m \in T : \A e \in E : e[1] \in T => e[2] # m
  BY <1>2 DEF Acyclic
<1>4. In(E, m) = {}
  <2>1. SUFFICES ASSUME NEW e \in E, e[2] = m PROVE FALSE
    BY DEF In
  <2>2. e[1] \in S
    BY <1>3, <2>1, EdgeEnds
  <2>3. QED
    BY <1>2, <2>1, <2>2 DEF Closed
<1>5. m \in Sources(E)
  BY <1>4 DEF Sources
<1>6. QED
  BY <1>2, <1>5

(* And from everywhere in it the one sink is reached.                      *)
LEMMA AllReachSink ==
  ASSUME NEW E \in SUBSET Pair, Acyclic(E),
         NEW t, Sinks(E) = {t}, NEW n \in Vertices(E)
  PROVE  HasPath(E, n, t)
<1>1. t \in Vertices(E)
  BY DEF Sinks
<1>2. SUFFICES ASSUME NEW S \in SUBSET Vertices(E), n \in S, Closed(E, S)
               PROVE  t \in S
  BY <1>1 DEF HasPath
<1>3. PICK m \in S : \A e \in E : e[2] \in S => e[1] # m
  BY <1>2 DEF Acyclic
<1>4. Out(E, m) = {}
  BY <1>2, <1>3 DEF Out, Closed
<1>5. m \in Sinks(E)
  BY <1>4 DEF Sinks
<1>6. QED
  BY <1>3, <1>5

(* A graph that validate_graph accepts leads the walk of the daemon        *)
(* through every node: the TODO in validate_graph asks for no more.        *)
THEOREM ValidGraphIsWalkable ==
  ASSUME NEW E \in SUBSET Pair, ValidGraph(E)
  PROVE  Walkable(E)
<1>1. PICK s \in Nodes : Sources(E) = {s}
  BY DEF ValidGraph
<1>2. PICK t \in Nodes : Sinks(E) = {t}
  BY DEF ValidGraph
<1>3. \A n \in Vertices(E) : HasPath(E, s, n) /\ HasPath(E, n, t)
  BY <1>1, <1>2, SourceReachesAll, AllReachSink DEF ValidGraph
<1>4. QED
  BY <1>1, <1>2, <1>3 DEF Walkable
-----------------------------------------------------------------------------
(* Insert                                                                  *)

(* The edges of a graph after x was inserted behind n, and its vertices.   *)
LEMMA EdgesInserted ==
  ASSUME NEW E \in SUBSET Pair, NEW n \in Vertices(E), NEW x \in Nodes
  PROVE  /\ Insert(E, n, x) \in SUBSET Pair
         /\ <<n, x>> \in Insert(E, n, x)
         /\ \A e \in E : e[1] # n => e \in Insert(E, n, x)
         /\ \A e \in E : e[1] = n => <<x, e[2]>> \in Insert(E, n, x)
<1>1. n \in Nodes /\ Vertices(E) \subseteq Nodes
  BY DEF Pair, Vertices
<1>2. QED
  BY <1>1 DEF Insert, Out, Pair

LEMMA InsertedEdge ==
  ASSUME NEW E \in SUBSET Pair, NEW n, NEW x, NEW f \in Insert(E, n, x)
  PROVE  \/ f \in E /\ f[1] # n
         \/ f[1] = x /\ <<n, f[2]>> \in E /\ f[2] \in Vertices(E)
         \/ f[1] = n /\ f[2] = x
<1>1. CASE f \in E \ Out(E, n)
  BY <1>1 DEF Out
<1>2. CASE f \in {<<x, e[2]>> : e \in Out(E, n)}
  <2>1. PICK e \in E : e[1] = n /\ f = <<x, e[2]>>
    BY <1>2 DEF Out
  <2>2. e = <<n, e[2]>> /\ e[2] \in Vertices(E)
    BY <2>1, EdgeEnds
  <2>3. f[1] = x /\ f[2] = e[2]
    BY <2>1
  <2>4. QED
    BY <2>2, <2>3
<1>3. CASE f = <<n, x>>
  BY <1>3
<1>4. QED
  BY <1>1, <1>2, <1>3 DEF Insert

LEMMA InsertedVertices ==
  ASSUME NEW E \in SUBSET Pair, NEW n \in Vertices(E), n \notin Sinks(E),
         NEW x \in Nodes
  PROVE  Vertices(Insert(E, n, x)) = Vertices(E) \cup {x}
<1> DEFINE F == Insert(E, n, x)
<1>f. \A f \in F : \/ f \in E /\ f[1] # n
                   \/ f[1] = x /\ <<n, f[2]>> \in E /\ f[2] \in Vertices(E)
                   \/ f[1] = n /\ f[2] = x
  BY InsertedEdge
<1>1. ASSUME NEW v \in Vertices(F) PROVE v \in Vertices(E) \cup {x}
  <2>1. PICK f \in F : v = f[1] \/ v = f[2]
    BY <1>1 DEF Vertices
  <2>2. CASE f \in E
    BY <2>1, <2>2, EdgeEnds
  <2>3. CASE f[1] = x /\ <<n, f[2]>> \in E /\ f[2] \in Vertices(E)
    BY <2>1, <2>3
  <2>4. CASE f[1] = n /\ f[2] = x
    BY <2>1, <2>4
  <2>5. QED
    BY <2>2, <2>3, <2>4, <1>f
<1>2. x \in Vertices(F) /\ n \in Vertices(F)
  <2>1. <<n, x>> \in F
    BY EdgesInserted
  <2>2. QED
    BY <2>1 DEF Vertices
<1>3. ASSUME NEW e \in E PROVE e[1] \in Vertices(F) /\ e[2] \in Vertices(F)
  <2>1. CASE e[1] # n
    BY <2>1, EdgesInserted DEF Vertices
  <2>2. CASE e[1] = n
    <3>1. <<x, e[2]>> \in F
      BY <2>2, EdgesInserted
    <3>2. <<x, e[2]>>[2] \in Vertices(F)
      BY <3>1 DEF Vertices
    <3>3. QED
      BY <1>2, <2>2, <3>2
  <2>3. QED
    BY <2>1, <2>2
<1>4. QED
  BY <1>1, <1>2, <1>3 DEF Vertices

(* An insert keeps what led from p to q.                                   *)
LEMMA InsertKeepsPaths ==
  ASSUME NEW E \in SUBSET Pair, NEW n \in Vertices(E), n \notin Sinks(E),
         NEW x \in Nodes, NEW p, NEW q, HasPath(E, p, q)
  PROVE  HasPath(Insert(E, n, x), p, q)
<1> DEFINE F == Insert(E, n, x)
<1>1. p \in Vertices(F) /\ q \in Vertices(F)
  BY InsertedVertices DEF HasPath
<1>2. SUFFICES ASSUME NEW S \in SUBSET Vertices(F), p \in S, Closed(F, S)
               PROVE  q \in S
  BY <1>1 DEF HasPath
<1> DEFINE T == S \cap Vertices(E)
<1>3. Closed(E, T)
  <2>1. SUFFICES ASSUME NEW e \in E, e[1] \in T PROVE e[2] \in T
    BY DEF Closed
  <2>2. e[2] \in Vertices(E)
    BY EdgeEnds
  <2>3. CASE e[1] # n
    BY <1>2, <2>1, <2>2, <2>3, EdgesInserted DEF Closed
  <2>4. CASE e[1] = n
    <3>1. <<n, x>> \in F /\ <<x, e[2]>> \in F
      BY <2>4, EdgesInserted
    <3>2. x \in S
      BY <1>2, <2>1, <2>4, <3>1 DEF Closed
    <3>3. QED
      BY <1>2, <2>2, <3>1, <3>2 DEF Closed
  <2>5. QED
    BY <2>3, <2>4
<1>4. p \in T
  BY <1>2 DEF HasPath
<1>5. q \in T
  BY <1>3, <1>4 DEF HasPath
<1>6. QED
  BY <1>5

LEMMA InsertKeepsAcyclic ==
  ASSUME NEW E \in SUBSET Pair, Acyclic(E), NEW n \in Vertices(E),
         n \notin Sinks(E), NEW x \in Nodes \ Vertices(E)
  PROVE  Acyclic(Insert(E, n, x))
<1> DEFINE F == Insert(E, n, x)
<1>f. \A f \in F : \/ f \in E /\ f[1] # n
                   \/ f[1] = x /\ <<n, f[2]>> \in E /\ f[2] \in Vertices(E)
                   \/ f[1] = n /\ f[2] = x
  BY InsertedEdge
<1>1. SUFFICES ASSUME NEW S \in SUBSET Vertices(F), S # {}
               PROVE  /\ \E m \in S : \A f \in F : f[1] \in S => f[2] # m
                      /\ \E m \in S : \A f \in F : f[2] \in S => f[1] # m
  BY DEF Acyclic
<1> DEFINE T == S \ {x}
<1>2. T \in SUBSET Vertices(E)
  BY <1>1, InsertedVertices
<1>3. \A f \in F : f[2] = x => f[1] = n
  <2>1. ASSUME NEW f \in F, f[2] = x PROVE f[1] = n
    <3>1. CASE f \in E
      BY <2>1, <3>1, EdgeEnds
    <3>2. QED
      BY <2>1, <3>1, <1>f
  <2>2. QED
    BY <2>1
<1>4. CASE T = {}
  <2>1. S = {x}
    BY <1>1, <1>4
  <2>2. QED
    BY <1>3, <2>1
<1>5. CASE T # {}
  <2>1. PICK a \in T : \A e \in E : e[1] \in T => e[2] # a
    BY <1>2, <1>5 DEF Acyclic
  <2>2. PICK b \in T : \A e \in E : e[2] \in T => e[1] # b
    BY <1>2, <1>5 DEF Acyclic
  <2>3. \E m \in S : \A f \in F : f[1] \in S => f[2] # m
    <3>1. CASE x \in S /\ <<n, a>> \in E
      <4>1. n \notin S
        BY <2>1, <3>1
      <4>2. QED
        BY <1>3, <3>1, <4>1
    <3>2. CASE ~(x \in S /\ <<n, a>> \in E)
      <4>1. ASSUME NEW f \in F, f[1] \in S, f[2] = a PROVE FALSE
        <5>1. f[1] # x
          <6>1. ASSUME f[1] = x PROVE FALSE
            <7>1. f \notin E
              BY <6>1, EdgeEnds
            <7>2. <<n, f[2]>> \in E
              BY <4>1, <6>1, <7>1, <1>f
            <7>3. x \in S
              BY <4>1, <6>1
            <7>4. QED
              BY <3>2, <4>1, <7>2, <7>3
          <6>2. QED
            BY <6>1
        <5>2. f \in E
          BY <4>1, <5>1, <1>f
        <5>3. QED
          BY <2>1, <4>1, <5>1, <5>2
      <4>2. QED
        BY <4>1
    <3>3. QED
      BY <3>1, <3>2
  <2>4. \E m \in S : \A f \in F : f[2] \in S => f[1] # m
    <3>1. CASE x \in S /\ b = n
      <4>1. ASSUME NEW f \in F, f[2] \in S, f[1] = x PROVE FALSE
        <5>1. f \notin E
          BY <4>1, EdgeEnds
        <5>2. <<n, f[2]>> \in E /\ f[2] \in Vertices(E)
          BY <4>1, <5>1, <1>f
        <5>3. f[2] \in T
          BY <4>1, <5>2
        <5>4. <<n, f[2]>>[1] = n /\ <<n, f[2]>>[2] = f[2]
          OBVIOUS
        <5>5. QED
          BY <2>2, <3>1, <5>2, <5>3, <5>4
      <4>2. QED
        BY <3>1, <4>1
    <3>2. CASE ~(x \in S /\ b = n)
      <4>1. ASSUME NEW f \in F, f[2] \in S, f[1] = b PROVE FALSE
        <5>1. b # x
          OBVIOUS
        <5>2. f \in E
          BY <3>2, <4>1, <5>1, <1>f
        <5>3. f[2] \in T
          BY <4>1, <5>2, EdgeEnds
        <5>4. QED
          BY <2>2, <4>1, <5>2, <5>3
      <4>2. QED
        BY <4>1
    <3>3. QED
      BY <3>1, <3>2
  <2>5. QED
    BY <2>3, <2>4
<1>6. QED
  BY <1>4, <1>5

LEMMA InsertKeepsEnds ==
  ASSUME NEW E \in SUBSET Pair, NEW n \in Vertices(E), n \notin Sinks(E),
         NEW x \in Nodes \ Vertices(E)
  PROVE  /\ Sources(Insert(E, n, x)) = Sources(E)
         /\ Sinks(Insert(E, n, x)) = Sinks(E)
<1> DEFINE F == Insert(E, n, x)
<1>f. \A f \in F : \/ f \in E /\ f[1] # n
                   \/ f[1] = x /\ <<n, f[2]>> \in E /\ f[2] \in Vertices(E)
                   \/ f[1] = n /\ f[2] = x
  BY InsertedEdge
<1>v. Vertices(F) = Vertices(E) \cup {x}
  BY InsertedVertices
<1>1. <<n, x>> \in F /\ <<n, x>>[1] = n /\ <<n, x>>[2] = x
  BY EdgesInserted
<1>2. PICK o \in E : o[1] = n
  BY DEF Sinks, Out
<1>3. <<x, o[2]>> \in F /\ <<x, o[2]>>[1] = x
  BY <1>2, EdgesInserted
<1>4. ASSUME NEW v \in Vertices(E)
      PROVE  In(F, v) = {} <=> In(E, v) = {}
  <2>1. ASSUME NEW e \in E, e[2] = v PROVE \E f \in F : f[2] = v
    <3>1. CASE e[1] # n
      BY <2>1, <3>1, EdgesInserted
    <3>2. CASE e[1] = n
      <4>1. <<x, e[2]>> \in F /\ <<x, e[2]>>[2] = v
        BY <2>1, <3>2, EdgesInserted
      <4>2. QED
        BY <4>1
    <3>3. QED
      BY <3>1, <3>2
  <2>2. ASSUME NEW f \in F, f[2] = v PROVE \E e \in E : e[2] = v
    <3>1. CASE f \in E
      BY <2>2, <3>1
    <3>2. CASE <<n, f[2]>> \in E
      <4>1. <<n, f[2]>>[2] = v
        BY <2>2
      <4>2. QED
        BY <3>2, <4>1
    <3>3. QED
      BY <2>2, <3>1, <3>2, <1>f
  <2>3. QED
    BY <2>1, <2>2 DEF In
<1>5. ASSUME NEW v \in Vertices(E)
      PROVE  Out(F, v) = {} <=> Out(E, v) = {}
  <2>1. CASE v = n
    BY <1>1, <1>2, <2>1 DEF Out
  <2>2. CASE v # n
    <3>1. ASSUME NEW e \in E, e[1] = v PROVE e \in F
      BY <2>2, <3>1, EdgesInserted
    <3>2. ASSUME NEW f \in F, f[1] = v PROVE f \in E
      BY <2>2, <3>2, <1>f
    <3>3. QED
      BY <3>1, <3>2 DEF Out
  <2>3. QED
    BY <2>1, <2>2
<1>6. In(F, x) # {} /\ Out(F, x) # {}
  BY <1>1, <1>3 DEF In, Out
<1>7. QED
  BY <1>v, <1>4, <1>5, <1>6 DEF Sources, Sinks

LEMMA InsertKeepsConnected ==
  ASSUME NEW E \in SUBSET Pair, WeaklyConnected(E), NEW n \in Vertices(E),
         n \notin Sinks(E), NEW x \in Nodes \ Vertices(E)
  PROVE  WeaklyConnected(Insert(E, n, x))
<1> DEFINE F == Insert(E, n, x)
<1>v. Vertices(F) = Vertices(E) \cup {x}
  BY InsertedVertices
<1>1. SUFFICES ASSUME NEW S \in SUBSET Vertices(F), S # {}, S # Vertices(F)
               PROVE  \E f \in F : (f[1] \in S) # (f[2] \in S)
  BY DEF WeaklyConnected
<1>2. <<n, x>> \in F /\ <<n, x>>[1] = n /\ <<n, x>>[2] = x
  BY EdgesInserted
<1> DEFINE T == S \cap Vertices(E)
<1>3. CASE T = {}
  <2>1. n \notin S /\ x \in S
    BY <1>v, <1>1, <1>3
  <2>2. QED
    BY <1>2, <2>1
<1>4. CASE T = Vertices(E)
  <2>1. n \in S /\ x \notin S
    BY <1>v, <1>1, <1>4
  <2>2. QED
    BY <1>2, <2>1
<1>5. CASE T # {} /\ T # Vertices(E)
  <2>1. PICK e \in E : (e[1] \in T) # (e[2] \in T)
    BY <1>5 DEF WeaklyConnected
  <2>2. (e[1] \in S) # (e[2] \in S)
    BY <2>1, EdgeEnds
  <2>3. CASE e[1] # n
    BY <2>2, <2>3, EdgesInserted
  <2>4. CASE e[1] = n
    <3>1. /\ <<x, e[2]>> \in F
          /\ <<x, e[2]>>[1] = x /\ <<x, e[2]>>[2] = e[2]
      BY <2>4, EdgesInserted
    <3>2. CASE (x \in S) # (n \in S)
      BY <1>2, <3>2
    <3>3. CASE (x \in S) # (e[2] \in S)
      BY <3>1, <3>3
    <3>4. QED
      BY <2>2, <2>4, <3>2, <3>3
  <2>5. QED
    BY <2>3, <2>4
<1>6. QED
  BY <1>3, <1>4, <1>5

LEMMA JoinedBy ==
  ASSUME NEW E, NEW v, NEW d \in E, NEW e \in E, d # e,
         d[1] = v \/ d[2] = v, e[1] = v \/ e[2] = v
  PROVE  Joined(E, v)
  BY DEF Joined, In, Out

LEMMA InsertKeepsJoined ==
  ASSUME NEW E \in SUBSET Pair, Acyclic(E), NEW n \in Vertices(E),
         n \notin Sinks(E), NEW x \in Nodes \ Vertices(E),
         NEW v \in Vertices(E), n \notin Sources(E) \/ v # n, Joined(E, v)
  PROVE  Joined(Insert(E, n, x), v)
<1> DEFINE F == Insert(E, n, x)
<1>1. <<n, x>> \in F /\ <<n, x>>[1] = n /\ <<n, x>>[2] = x
  BY EdgesInserted
<1>2. CASE v = n
  <2>1. PICK e \in E : e[2] = n
    BY <1>2 DEF Sources, In
  <2>2. e[1] # n
    <3>1. \E m \in {n} : \A d \in E : d[1] \in {n} => d[2] # m
      BY DEF Acyclic
    <3>2. QED
      BY <2>1, <3>1
  <2>3. e \in F
    BY <2>2, EdgesInserted
  <2>4. e # <<n, x>>
    BY <1>1, <2>1
  <2>5. QED
    BY <1>1, <1>2, <2>1, <2>3, <2>4 DEF Joined, In, Out
<1>3. CASE v # n
  <2>1. PICK d \in E, e \in E : /\ d # e
                                /\ d[1] = v \/ d[2] = v
                                /\ e[1] = v \/ e[2] = v
    BY DEF Joined, In, Out
  <2>2. /\ d[1] # x /\ d = <<d[1], d[2]>>
        /\ e[1] # x /\ e = <<e[1], e[2]>>
    BY EdgeEnds
  <2>3. \A h \in E : h[1] # n => h \in F
    BY EdgesInserted
  <2>4. \A h \in E : h[1] = n => /\ <<x, h[2]>> \in F
                                /\ <<x, h[2]>>[1] = x /\ <<x, h[2]>>[2] = h[2]
    BY EdgesInserted
  <2>5. CASE d[1] # n /\ e[1] # n
    <3>1. d \in F /\ e \in F
      BY <2>3, <2>5
    <3>2. QED
      BY <2>1, <3>1, JoinedBy
  <2>6. CASE d[1] = n /\ e[1] # n
    <3>1. d[2] = v /\ <<x, d[2]>>[2] = v
      BY <1>3, <2>1, <2>6
    <3>2. <<x, d[2]>>[1] # e[1]
      BY <2>2
    <3>3. <<x, d[2]>> \in F /\ e \in F
      BY <2>3, <2>4, <2>6
    <3>4. <<x, d[2]>> # e
      BY <3>2
    <3>5. QED
      BY <2>1, <3>1, <3>3, <3>4, JoinedBy
  <2>7. CASE d[1] # n /\ e[1] = n
    <3>1. e[2] = v /\ <<x, e[2]>>[2] = v
      BY <1>3, <2>1, <2>7
    <3>2. <<x, e[2]>>[1] # d[1]
      BY <2>2
    <3>3. <<x, e[2]>> \in F /\ d \in F
      BY <2>3, <2>4, <2>7
    <3>4. <<x, e[2]>> # d
      BY <3>2
    <3>5. QED
      BY <2>1, <3>1, <3>3, <3>4, JoinedBy
  <2>8. d[1] = n /\ e[1] = n => FALSE
    <3>1. SUFFICES ASSUME d[1] = n, e[1] = n PROVE d = e
      BY <2>1
    <3>2. d[2] = v /\ e[2] = v
      BY <1>3, <2>1, <3>1
    <3>3. <<d[1], d[2]>> = <<e[1], e[2]>>
      BY <3>1, <3>2
    <3>4. QED
      BY <2>2, <3>3
  <2>9. QED
    BY <2>5, <2>6, <2>7, <2>8
<1>4. QED
  BY <1>2, <1>3

(* What validate_graph accepted it accepts again after a new node was      *)
(* inserted behind any node but the sink, or a first node that is not      *)
(* START (graph.py insert_node_to_graph): the route needs no check.        *)
THEOREM InsertKeepsValid ==
  ASSUME NEW E \in SUBSET Pair, ValidGraph(E), NEW n \in Vertices(E),
         n \notin Sinks(E), n \notin Sources(E) \ {START},
         NEW x \in Nodes \ Vertices(E)
  PROVE  ValidGraph(Insert(E, n, x))
<1> DEFINE F == Insert(E, n, x)
<1>1. Acyclic(F)
  BY InsertKeepsAcyclic DEF ValidGraph
<1>2. HasPath(F, START, END)
  BY InsertKeepsPaths DEF ValidGraph
<1>3. Sources(F) = Sources(E) /\ Sinks(F) = Sinks(E)
  BY InsertKeepsEnds
<1>4. WeaklyConnected(F)
  BY InsertKeepsConnected DEF ValidGraph
<1>5. Vertices(F) = Vertices(E) \cup {x}
  BY InsertedVertices
<1>6. Inner(F) = Inner(E) \cup {x}
  BY <1>5 DEF ValidGraph, HasPath, Inner
<1>7. ASSUME NEW v \in Inner(E) PROVE Joined(F, v)
  <2>1. v \in Vertices(E) /\ (n \notin Sources(E) \/ v # n) /\ Joined(E, v)
    BY DEF Inner, ValidGraph
  <2>2. QED
    BY <2>1, InsertKeepsJoined DEF ValidGraph
<1>8. Joined(F, x)
  <2>1. <<n, x>> \in F /\ <<n, x>>[1] = n /\ <<n, x>>[2] = x
    BY EdgesInserted
  <2>2. PICK e \in E : e[1] = n
    BY DEF Sinks, Out
  <2>3. <<x, e[2]>> \in F /\ <<x, e[2]>>[1] = x
    BY <2>2, EdgesInserted
  <2>4. QED
    BY <2>1, <2>3 DEF Joined, In, Out
<1>9. QED
  BY <1>1, <1>2, <1>3, <1>4, <1>6, <1>7, <1>8 DEF ValidGraph

(* Deleting the node that was inserted, and healing, gives the graph back  *)
(* (graph.py delete_node_from_graph): the two operations are inverses.     *)
THEOREM DeleteUndoesInsert ==
  ASSUME NEW E \in SUBSET Pair, NEW n \in Vertices(E),
         NEW x \in Nodes \ Vertices(E)
  PROVE  Delete(Insert(E, n, x), x, TRUE) = E
<1> DEFINE F == Insert(E, n, x)
<1> DEFINE D == Delete(F, x, TRUE)
<1>f. \A f \in F : \/ f \in E /\ f[1] # n
                   \/ f[1] = x /\ <<n, f[2]>> \in E /\ f[2] \in Vertices(E)
                   \/ f[1] = n /\ f[2] = x
  BY InsertedEdge
<1>1. \A e \in E : e[1] # x /\ e[2] # x /\ e = <<e[1], e[2]>>
  BY EdgeEnds
<1>2. <<n, x>> \in F /\ <<n, x>>[1] = n /\ <<n, x>>[2] = x
  BY EdgesInserted
<1>3. \A d \in D : \/ d \in F /\ d[1] # x /\ d[2] # x
                   \/ \E f, g \in F : f[2] = x /\ g[1] = x /\ d = <<f[1], g[2]>>
  BY DEF Delete, In, Out
<1>4. \A f \in F : f[2] = x => f[1] = n
  BY <1>f, <1>1
<1>5. ASSUME NEW d \in D PROVE d \in E
  <2>1. CASE d \in F /\ d[1] # x /\ d[2] # x
    BY <2>1, <1>f
  <2>2. CASE \E f, g \in F : f[2] = x /\ g[1] = x /\ d = <<f[1], g[2]>>
    <3>1. PICK f \in F, g \in F : f[2] = x /\ g[1] = x /\ d = <<f[1], g[2]>>
      BY <2>2
    <3>2. f[1] = n
      BY <3>1, <1>4
    <3>3. n # x
      OBVIOUS
    <3>4. <<n, g[2]>> \in E
      BY <3>1, <3>3, <1>f, <1>1
    <3>5. QED
      BY <3>1, <3>2, <3>4
  <2>3. QED
    BY <2>1, <2>2, <1>3
<1>6. ASSUME NEW e \in E PROVE e \in D
  <2>1. CASE e[1] # n
    <3>1. e \in F
      BY <2>1, EdgesInserted
    <3>2. QED
      BY <3>1, <1>1 DEF Delete, In, Out
  <2>2. CASE e[1] = n
    <3>1. <<x, e[2]>> \in F /\ <<x, e[2]>>[1] = x /\ <<x, e[2]>>[2] = e[2]
      BY <2>2, EdgesInserted
    <3>2. <<n, x>> \in In(F, x) /\ <<x, e[2]>> \in Out(F, x)
      BY <1>2, <3>1 DEF In, Out
    <3>3. <<n, e[2]>> \in D
      BY <1>2, <3>1, <3>2 DEF Delete
    <3>4. QED
      BY <2>2, <3>3, <1>1
  <2>3. QED
    BY <2>1, <2>2
<1>7. QED
  BY <1>5, <1>6
-----------------------------------------------------------------------------
(* Parallel nodes                                                          *)

(* If F takes whoever follows e[1] to e[2], for each edge e of E, then F   *)
(* keeps what leads from p to q in E.                                      *)
LEMMA PathsKept ==
  ASSUME NEW E \in SUBSET Pair, NEW F \in SUBSET Pair,
         \A S \in SUBSET Vertices(F) :
           Closed(F, S) => \A e \in E : e[1] \in S => e[2] \in S,
         NEW p \in Vertices(F), NEW q \in Vertices(F), HasPath(E, p, q)
  PROVE  HasPath(F, p, q)
<1>1. SUFFICES ASSUME NEW S \in SUBSET Vertices(F), p \in S, Closed(F, S)
               PROVE  q \in S
  BY DEF HasPath
<1>2. Closed(E, S \cap Vertices(E))
  BY <1>1, EdgeEnds DEF Closed
<1>3. QED
  BY <1>1, <1>2 DEF HasPath

(* Each node of X is led from where n0 is led from, to where exit leads.   *)
Twins(E, exit, n0, X) ==
  E \cup {<<x, e[2]>> : x \in X, e \in Out(E, exit)}
    \cup {<<e[1], x>> : x \in X, e \in In(E, n0)}

LEMMA AppendIsTwin ==
  ASSUME NEW E, NEW exit, NEW n0, NEW x
  PROVE  AppendNode(E, exit, n0, x) = Twins(E, exit, n0, {x})
BY DEF AppendNode, Twins

LEMMA TwinsEdge ==
  ASSUME NEW E \in SUBSET Pair, NEW exit, NEW n0, NEW X, NEW f \in Twins(E, exit, n0, X)
  PROVE  \/ f \in E /\ f[1] \in Vertices(E) /\ f[2] \in Vertices(E)
         \/ f[1] \in X /\ f[2] \in Vertices(E) /\ <<exit, f[2]>> \in E
         \/ f[2] \in X /\ f[1] \in Vertices(E) /\ <<f[1], n0>> \in E
<1>1. CASE f \in E
  BY <1>1, EdgeEnds
<1>2. CASE f \in {<<x, e[2]>> : x \in X, e \in Out(E, exit)}
  <2>1. PICK x \in X, e \in E : e[1] = exit /\ f = <<x, e[2]>>
    BY <1>2 DEF Out
  <2>2. e = <<exit, e[2]>> /\ e[2] \in Vertices(E)
    BY <2>1, EdgeEnds
  <2>3. f[1] = x /\ f[2] = e[2]
    BY <2>1
  <2>4. QED
    BY <2>2, <2>3
<1>3. CASE f \in {<<e[1], x>> : x \in X, e \in In(E, n0)}
  <2>1. PICK x \in X, e \in E : e[2] = n0 /\ f = <<e[1], x>>
    BY <1>3 DEF In
  <2>2. e = <<e[1], n0>> /\ e[1] \in Vertices(E)
    BY <2>1, EdgeEnds
  <2>3. f[2] = x /\ f[1] = e[1]
    BY <2>1
  <2>4. QED
    BY <2>2, <2>3
<1>4. QED
  BY <1>1, <1>2, <1>3 DEF Twins

LEMMA EdgesTwinned ==
  ASSUME NEW E \in SUBSET Pair, NEW exit \in Vertices(E), NEW n0 \in Vertices(E),
         NEW X \in SUBSET Nodes
  PROVE  /\ Twins(E, exit, n0, X) \in SUBSET Pair
         /\ E \subseteq Twins(E, exit, n0, X)
         /\ \A x \in X, e \in E : e[1] = exit => <<x, e[2]>> \in Twins(E, exit, n0, X)
         /\ \A x \in X, e \in E : e[2] = n0 => <<e[1], x>> \in Twins(E, exit, n0, X)
<1>1. \A e \in E : e[1] \in Nodes /\ e[2] \in Nodes
  BY DEF Pair
<1>2. QED
  BY <1>1 DEF Twins, In, Out, Pair

(* Conditions under which a parallel node makes sense.                     *)
Appendable(E, exit, n0) ==
  /\ HasPath(E, n0, exit)
  /\ n0 \notin Sources(E) /\ exit \notin Sinks(E)

LEMMA TwinsVertices ==
  ASSUME NEW E \in SUBSET Pair, NEW exit, NEW n0, NEW X \in SUBSET Nodes,
         Appendable(E, exit, n0)
  PROVE  /\ Vertices(Twins(E, exit, n0, X)) = Vertices(E) \cup X
         /\ exit \in Vertices(E) /\ n0 \in Vertices(E)
         /\ \E d \in E : d[2] = n0
         /\ \E e \in E : e[1] = exit
<1> DEFINE F == Twins(E, exit, n0, X)
<1>1. exit \in Vertices(E) /\ n0 \in Vertices(E)
  BY DEF Appendable, HasPath
<1>2. PICK d \in E : d[2] = n0
  BY <1>1 DEF Appendable, Sources, In
<1>3. \E e \in E : e[1] = exit
  BY <1>1 DEF Appendable, Sinks, Out
<1>4. ASSUME NEW v \in Vertices(F) PROVE v \in Vertices(E) \cup X
  <2>1. PICK f \in F : v = f[1] \/ v = f[2]
    BY <1>4 DEF Vertices
  <2>2. \A g \in F : /\ g[1] \in Vertices(E) \cup X
                    /\ g[2] \in Vertices(E) \cup X
    BY TwinsEdge
  <2>3. QED
    BY <2>1, <2>2
<1>5. ASSUME NEW v \in Vertices(E) \cup X PROVE v \in Vertices(F)
  <2>1. CASE v \in X
    <3>1. <<d[1], v>> \in F /\ <<d[1], v>>[2] = v
      BY <1>1, <1>2, <2>1, EdgesTwinned
    <3>2. QED
      BY <3>1 DEF Vertices
  <2>2. CASE v \in Vertices(E)
    BY <1>1, <2>2, EdgesTwinned DEF Vertices
  <2>3. QED
    BY <2>1, <2>2
<1>6. QED
  BY <1>1, <1>2, <1>3, <1>4, <1>5

(* If no edge leads from T to m, and n0 and all that it leads to are in T, *)
(* then m is n0 or not led to from there.                                  *)
LEMMA FirstBehind ==
  ASSUME NEW E \in SUBSET Pair, NEW n0, NEW T, NEW m,
         \A v \in Vertices(E) : HasPath(E, n0, v) => v \in T,
         HasPath(E, n0, m),
         \A e \in E : e[1] \in T => e[2] # m
  PROVE  m = n0
<1> DEFINE R == {v \in Vertices(E) : HasPath(E, n0, v)}
           S == R \ {m}
<1>1. SUFFICES ASSUME m # n0 PROVE FALSE
  OBVIOUS
<1>2. n0 \in Vertices(E) /\ m \in Vertices(E) /\ HasPath(E, n0, n0)
  BY DEF HasPath
<1>3. Closed(E, S)
  <2>1. SUFFICES ASSUME NEW e \in E, e[1] \in S PROVE e[2] \in S
    BY DEF Closed
  <2>2. e[2] \in Vertices(E)
    BY EdgeEnds
  <2>3. HasPath(E, n0, e[2])
    BY <2>1, <2>2 DEF HasPath, Closed
  <2>4. QED
    BY <2>1, <2>2, <2>3
<1>4. n0 \in S /\ S \in SUBSET Vertices(E)
  BY <1>1, <1>2
<1>5. QED
  BY <1>3, <1>4 DEF HasPath

LEMMA LastBefore ==
  ASSUME NEW E \in SUBSET Pair, NEW exit, NEW T, NEW m,
         \A v \in Vertices(E) : HasPath(E, v, exit) => v \in T,
         HasPath(E, m, exit),
         \A e \in E : e[2] \in T => e[1] # m
  PROVE  m = exit
<1> DEFINE Q == {v \in Vertices(E) : HasPath(E, v, exit)}
           S == {m} \cup (Vertices(E) \ Q)
<1>1. exit \in Vertices(E) /\ m \in Vertices(E) /\ HasPath(E, exit, exit)
  BY DEF HasPath
<1>2. Closed(E, S)
  <2>1. SUFFICES ASSUME NEW e \in E, e[1] \in S PROVE e[2] \in S
    BY DEF Closed
  <2>2. e[1] \in Vertices(E) /\ e[2] \in Vertices(E)
    BY EdgeEnds
  <2>3. CASE e[1] = m
    BY <2>2, <2>3
  <2>4. CASE e[1] \notin Q
    <3>1. HasPath(E, e[2], exit) => HasPath(E, e[1], exit)
      BY <2>2 DEF HasPath, Closed
    <3>2. QED
      BY <2>2, <2>4, <3>1
  <2>5. QED
    BY <2>1, <2>3, <2>4
<1>3. m \in S /\ S \in SUBSET Vertices(E)
  BY <1>1
<1>4. exit \in S
  BY <1>2, <1>3 DEF HasPath
<1>5. QED
  BY <1>1, <1>4

LEMMA TwinsKeepAcyclic ==
  ASSUME NEW E \in SUBSET Pair, Acyclic(E), NEW exit, NEW n0,
         Appendable(E, exit, n0), NEW X \in SUBSET (Nodes \ Vertices(E))
  PROVE  Acyclic(Twins(E, exit, n0, X))
<1> DEFINE F == Twins(E, exit, n0, X)
<1>f. \A f \in F : \/ f \in E /\ f[1] \in Vertices(E) /\ f[2] \in Vertices(E)
                   \/ f[1] \in X /\ f[2] \in Vertices(E) /\ <<exit, f[2]>> \in E
                   \/ f[2] \in X /\ f[1] \in Vertices(E) /\ <<f[1], n0>> \in E
  BY TwinsEdge
<1>v. /\ Vertices(F) = Vertices(E) \cup X
      /\ exit \in Vertices(E) /\ n0 \in Vertices(E)
  BY TwinsVertices
<1>x. \A x \in X : x \notin Vertices(E)
  OBVIOUS
<1> HIDE DEF F
<1>1. SUFFICES ASSUME NEW S \in SUBSET Vertices(F), S # {}
               PROVE  /\ \E m \in S : \A f \in F : f[1] \in S => f[2] # m
                      /\ \E m \in S : \A f \in F : f[2] \in S => f[1] # m
  BY DEF Acyclic, F
<1> DEFINE S0 == S \cap Vertices(E)
<1>2. CASE S0 = {}
  <2>1. S \subseteq X
    BY <1>2, <1>v
  <2>2. \A f \in F : ~(f[1] \in S /\ f[2] \in S)
    BY <2>1, <1>f, <1>x
  <2>3. QED
    BY <1>1, <2>2
<1>3. CASE S0 # {} /\ S \cap X = {}
  <2>1. S \in SUBSET Vertices(E)
    BY <1>3, <1>v
  <2>2. \A f \in F : f[1] \in S /\ f[2] \in S => f \in E
    BY <1>3, <1>f
  <2>3. /\ \E m \in S : \A e \in E : e[1] \in S => e[2] # m
        /\ \E m \in S : \A e \in E : e[2] \in S => e[1] # m
    BY <1>1, <2>1 DEF Acyclic
  <2>4. QED
    BY <2>2, <2>3
<1>4. CASE S0 # {} /\ S \cap X # {}
  <2>1. PICK x \in S : x \in X
    BY <1>4
  <2>2. \E m \in S : \A f \in F : f[1] \in S => f[2] # m
    <3> DEFINE R == {v \in Vertices(E) : HasPath(E, n0, v)}
               T == S0 \cup R
    <3>1. T \in SUBSET Vertices(E) /\ T # {}
      BY <1>4
    <3>2. PICK m \in T : \A e \in E : e[1] \in T => e[2] # m
      BY <3>1 DEF Acyclic
    <3>3. exit \in T
      BY <1>v DEF Appendable
    <3>4. CASE m \in S0
      <4>1. SUFFICES ASSUME NEW f \in F, f[1] \in S, f[2] = m PROVE FALSE
        BY <3>4
      <4>2. f \notin E
        BY <3>2, <4>1, EdgeEnds
      <4>3. f[1] \in X /\ <<exit, m>> \in E
        BY <4>1, <4>2, <3>4, <1>f, <1>x
      <4>4. QED
        BY <3>2, <3>3, <4>3
    <3>5. CASE m \notin S0
      <4>1. HasPath(E, n0, m) /\ \A v \in Vertices(E) : HasPath(E, n0, v) => v \in T
        BY <3>5
      <4>2. m = n0
        <5> HIDE DEF T
        <5>1. QED
          BY <3>2, <4>1, FirstBehind
      <4>3. SUFFICES ASSUME NEW f \in F, f[1] \in S, f[2] = x PROVE FALSE
        BY <2>1
      <4>4. f[1] \in S0 /\ <<f[1], n0>> \in E
        BY <4>3, <2>1, <1>f, <1>x
      <4>5. QED
        BY <3>2, <4>2, <4>4
    <3>6. QED
      BY <3>4, <3>5
  <2>3. \E m \in S : \A f \in F : f[2] \in S => f[1] # m
    <3> DEFINE Q == {v \in Vertices(E) : HasPath(E, v, exit)}
               T == S0 \cup Q
    <3>1. T \in SUBSET Vertices(E) /\ T # {}
      BY <1>4
    <3>2. PICK m \in T : \A e \in E : e[2] \in T => e[1] # m
      BY <3>1 DEF Acyclic
    <3>3. n0 \in T
      BY <1>v DEF Appendable
    <3>4. CASE m \in S0
      <4>1. SUFFICES ASSUME NEW f \in F, f[2] \in S, f[1] = m PROVE FALSE
        BY <3>4
      <4>2. f \notin E
        BY <3>2, <4>1, EdgeEnds
      <4>3. f[2] \in X /\ <<m, n0>> \in E
        BY <4>1, <4>2, <3>4, <1>f, <1>x
      <4>4. QED
        BY <3>2, <3>3, <4>3
    <3>5. CASE m \notin S0
      <4>1. HasPath(E, m, exit) /\ \A v \in Vertices(E) : HasPath(E, v, exit) => v \in T
        BY <3>5
      <4>2. m = exit
        <5> HIDE DEF T
        <5>1. QED
          BY <3>2, <4>1, LastBefore, Z3
      <4>3. SUFFICES ASSUME NEW f \in F, f[2] \in S, f[1] = x PROVE FALSE
        BY <2>1
      <4>4. f[2] \in S0 /\ <<exit, f[2]>> \in E
        BY <4>3, <2>1, <1>f, <1>x
      <4>5. QED
        BY <3>2, <4>2, <4>4
    <3>6. QED
      BY <3>4, <3>5
  <2>4. QED
    BY <2>2, <2>3
<1>5. QED
  BY <1>2, <1>3, <1>4

LEMMA TwinsKeepEnds ==
  ASSUME NEW E \in SUBSET Pair, NEW exit, NEW n0,
         Appendable(E, exit, n0), NEW X \in SUBSET (Nodes \ Vertices(E))
  PROVE  /\ Sources(Twins(E, exit, n0, X)) = Sources(E)
         /\ Sinks(Twins(E, exit, n0, X)) = Sinks(E)
<1> DEFINE F == Twins(E, exit, n0, X)
<1>f. \A f \in F : \/ f \in E /\ f[1] \in Vertices(E) /\ f[2] \in Vertices(E)
                   \/ f[1] \in X /\ f[2] \in Vertices(E) /\ <<exit, f[2]>> \in E
                   \/ f[2] \in X /\ f[1] \in Vertices(E) /\ <<f[1], n0>> \in E
  BY TwinsEdge
<1>v. Vertices(F) = Vertices(E) \cup X
  BY TwinsVertices
<1>1. PICK d \in E, o \in E : d[2] = n0 /\ o[1] = exit
  <2>1. X \in SUBSET Nodes
    OBVIOUS
  <2>2. (\E d \in E : d[2] = n0) /\ (\E e \in E : e[1] = exit)
    BY <2>1, TwinsVertices
  <2>3. QED
    BY <2>2
<1>2. E \subseteq F
  BY DEF Twins
<1>3. \A x \in X : /\ <<d[1], x>> \in F /\ <<d[1], x>>[2] = x
                   /\ <<x, o[2]>> \in F /\ <<x, o[2]>>[1] = x
  BY <1>1 DEF Twins, In, Out
<1> HIDE DEF F
<1>4. \A x \in X : In(F, x) # {} /\ Out(F, x) # {} /\ x \notin Vertices(E)
  BY <1>3 DEF In, Out
<1>5. ASSUME NEW v \in Vertices(E), NEW f \in F, f[2] = v
      PROVE  \E e \in E : e[2] = v
  <2>1. f \in E \/ <<exit, v>> \in E
    BY <1>5, <1>f
  <2>2. QED
    BY <1>5, <2>1
<1>6. ASSUME NEW v \in Vertices(E), NEW f \in F, f[1] = v
      PROVE  \E e \in E : e[1] = v
  <2>1. f \in E \/ <<v, n0>> \in E
    BY <1>6, <1>f
  <2>2. QED
    BY <1>6, <2>1
<1>7. \A v \in Vertices(E) : /\ In(F, v) = {} <=> In(E, v) = {}
                             /\ Out(F, v) = {} <=> Out(E, v) = {}
  BY <1>2, <1>5, <1>6 DEF In, Out
<1>8. Sources(F) = Sources(E) /\ Sinks(F) = Sinks(E)
  BY <1>v, <1>4, <1>7 DEF Sources, Sinks
<1>9. QED
  BY <1>8 DEF F

LEMMA TwinsKeepConnected ==
  ASSUME NEW E \in SUBSET Pair, WeaklyConnected(E), NEW exit, NEW n0,
         Appendable(E, exit, n0), NEW X \in SUBSET (Nodes \ Vertices(E))
  PROVE  WeaklyConnected(Twins(E, exit, n0, X))
<1> DEFINE F == Twins(E, exit, n0, X)
<1>v. Vertices(F) = Vertices(E) \cup X
  BY TwinsVertices
<1>1. PICK d \in E : d[2] = n0
  BY TwinsVertices
<1>2. E \subseteq F /\ d[1] \in Vertices(E)
  BY EdgeEnds DEF Twins
<1>3. \A x \in X : <<d[1], x>> \in F
  BY <1>1 DEF Twins, In
<1> HIDE DEF F
<1>4. SUFFICES ASSUME NEW S \in SUBSET Vertices(F), S # {}, S # Vertices(F)
               PROVE  \E f \in F : (f[1] \in S) # (f[2] \in S)
  BY DEF WeaklyConnected, F
<1> DEFINE T == S \cap Vertices(E)
<1>5. CASE T = {} \/ T = Vertices(E)
  <2>1. PICK x \in X : (d[1] \in S) # (x \in S)
    BY <1>v, <1>2, <1>4, <1>5
  <2>2. <<d[1], x>> \in F /\ <<d[1], x>>[1] = d[1] /\ <<d[1], x>>[2] = x
    BY <1>3
  <2>3. QED
    BY <2>1, <2>2
<1>6. CASE T # {} /\ T # Vertices(E)
  <2>1. PICK e \in E : (e[1] \in T) # (e[2] \in T)
    BY <1>6 DEF WeaklyConnected
  <2>2. e[1] \in Vertices(E) /\ e[2] \in Vertices(E)
    BY EdgeEnds
  <2>3. QED
    BY <1>2, <2>1, <2>2
<1>7. QED
  BY <1>5, <1>6

(* What validate_graph accepted it accepts again after nodes were put in   *)
(* parallel to what leads from n0 to exit (graph.py append_node_to_graph). *)
THEOREM TwinsKeepValid ==
  ASSUME NEW E \in SUBSET Pair, ValidGraph(E), NEW exit, NEW n0,
         Appendable(E, exit, n0), NEW X \in SUBSET (Nodes \ Vertices(E))
  PROVE  ValidGraph(Twins(E, exit, n0, X))
<1> DEFINE F == Twins(E, exit, n0, X)
<1>v. /\ Vertices(F) = Vertices(E) \cup X
      /\ exit \in Vertices(E) /\ n0 \in Vertices(E)
  BY TwinsVertices
<1>1. Acyclic(F)
  BY TwinsKeepAcyclic DEF ValidGraph
<1>2. F \in SUBSET Pair /\ E \subseteq F
  BY <1>v, EdgesTwinned
<1>3. Sources(F) = Sources(E) /\ Sinks(F) = Sinks(E)
  BY TwinsKeepEnds
<1>4. WeaklyConnected(F)
  BY TwinsKeepConnected DEF ValidGraph
<1>5. PICK d \in E, o \in E : d[2] = n0 /\ o[1] = exit
  <2>1. X \in SUBSET Nodes
    OBVIOUS
  <2>2. (\E d \in E : d[2] = n0) /\ (\E e \in E : e[1] = exit)
    BY <2>1, TwinsVertices
  <2>3. QED
    BY <2>2
<1>6. \A x \in X : /\ <<d[1], x>> \in F /\ <<d[1], x>>[2] = x /\ <<d[1], x>>[1] = d[1]
                   /\ <<x, o[2]>> \in F /\ <<x, o[2]>>[1] = x
                   /\ d[1] # x
  <2>1. d[1] \in Vertices(E)
    BY EdgeEnds
  <2>2. QED
    BY <1>5, <2>1 DEF Twins, In, Out
<1> HIDE DEF F
<1>7. HasPath(F, START, END)
  <2>1. HasPath(E, START, END)
    BY DEF ValidGraph
  <2>2. START \in Vertices(F) /\ END \in Vertices(F)
    BY <1>v, <2>1 DEF HasPath
  <2>3. \A S \in SUBSET Vertices(F) :
          Closed(F, S) => \A e \in E : e[1] \in S => e[2] \in S
    BY <1>2 DEF Closed
  <2>4. QED
    BY <1>2, <2>1, <2>2, <2>3, PathsKept
<1>8. Inner(F) = Inner(E) \cup X
  BY <1>v DEF ValidGraph, HasPath, Inner
<1>9. \A v \in Inner(E) : Joined(F, v)
  BY <1>2 DEF ValidGraph, Joined, In, Out
<1>10. ASSUME NEW x \in X PROVE Joined(F, x)
  <2>1. <<d[1], x>> # <<x, o[2]>>
    BY <1>6
  <2>2. /\ <<d[1], x>> \in F /\ <<d[1], x>>[2] = x
        /\ <<x, o[2]>> \in F /\ <<x, o[2]>>[1] = x
    BY <1>6
  <2>3. QED
    BY <2>1, <2>2, JoinedBy
<1>11. ValidGraph(F)
  BY <1>1, <1>3, <1>4, <1>7, <1>8, <1>9, <1>10 DEF ValidGraph
<1>12. QED
  BY <1>11 DEF F
=============================================================================
