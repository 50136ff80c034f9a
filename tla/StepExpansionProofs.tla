------------------------- MODULE StepExpansionProofs -------------------------
(***************************************************************************)
(* The graph around a step that is prepared and reset any number of times, *)
(* with any groups and crashes; and what the splitters that name the       *)
(* groups promise, for any number of ids, any bounds, and whatever         *)
(* floating point makes of the boundaries between groups.                  *)
(***************************************************************************)
EXTENDS StepExpansion, QuerySplit, CampaignGraphProofs, FiniteSetTheorems,
        WellFoundedInduction

(* Induction up to n: a set of the numbers to n that has 0, and each       *)
(* number after one that it has, has them all.                             *)
LEMMA Leads ==
  ASSUME NEW n \in Nat, NEW S \in SUBSET (0..n), 0 \in S,
         \A i \in 1..n : i - 1 \in S => i \in S
  PROVE  S = 0..n
<1> DEFINE All == 0..n
           R == StrictSubsetOrdering(All)
           T == {0..i : i \in All \ S}
<1>1. SUFFICES ASSUME All \ S # {}
               PROVE  FALSE
  OBVIOUS
<1>2. IsFiniteSet(All)
  BY FS_Interval
<1>3. IsWellFoundedOn(R, SUBSET All)
  BY <1>2, FS_StrictSubsetOrderingWellFounded, FS_FiniteSubsetsOfFinite
<1>4. T \subseteq SUBSET All /\ T # {}
  BY <1>1
<1>5. PICK x \in T : \A y \in T : ~(<<y, x>> \in R)
  <2> HIDE DEF T, R, All
  <2>1. QED
    BY <1>3, <1>4, WFMin
<1>6. PICK i \in All \ S : x = 0..i
  BY <1>5
<1>7. i - 1 \in All \ S
  BY <1>6
<1>8. 0..(i - 1) \in T
  BY <1>7
<1>9. <<0..(i - 1), 0..i>> \in R
  <2>1. 0..(i - 1) \subseteq 0..i /\ 0..i \subseteq All /\ i \in 0..i /\ i \notin 0..(i - 1)
    BY <1>6
  <2>2. 0..(i - 1) \in SUBSET All
    BY <2>1
  <2>3. QED
    BY <2>1, <2>2 DEF StrictSubsetOrdering
<1>10. QED
  BY <1>5, <1>6, <1>8, <1>9

-----------------------------------------------------------------------------
(* The graph with a set G of groups                                        *)

Expanded(G) ==
  (InitialEdges \ Out(InitialEdges, Step))
    \cup {<<Collect, e[2]>> : e \in Out(InitialEdges, Step)}
    \cup (IF G = {} THEN {<<Step, Collect>>} ELSE ({Step} \X G) \cup (G \X {Collect}))

LEMMA NewNodes ==
  /\ InitialEdges \in SUBSET Pair /\ Vertices(InitialEdges) \subseteq Nodes
  /\ Step \in Vertices(InitialEdges) /\ Step \notin Groups /\ Step # Collect
  /\ Collect \in Nodes \ Vertices(InitialEdges) /\ Collect \notin Groups
  /\ Groups \subseteq Nodes \ Vertices(InitialEdges)
  /\ NoNode \notin Nodes /\ NoNode # Collect /\ NoNode \notin Groups
<1>1. Vertices(InitialEdges) \subseteq Nodes
  BY StepAssumption DEF Vertices, Pair
<1>2. Collect \notin Groups
  BY StepAssumption
<1>3. QED
  BY <1>1, <1>2, StepAssumption

LEMMA ExpandedEdge ==
  ASSUME NEW G \in SUBSET Groups, NEW f
  PROVE  f \in Expanded(G) <=>
           \/ f \in InitialEdges /\ f[1] # Step
           \/ \E e \in InitialEdges : e[1] = Step /\ f = <<Collect, e[2]>>
           \/ G = {} /\ f = <<Step, Collect>>
           \/ \E g \in G : f = <<Step, g>> \/ f = <<g, Collect>>
<1>1. f \in InitialEdges \ Out(InitialEdges, Step) <=> f \in InitialEdges /\ f[1] # Step
  BY DEF Out
<1>2. f \in {<<Collect, e[2]>> : e \in Out(InitialEdges, Step)} <=>
        \E e \in InitialEdges : e[1] = Step /\ f = <<Collect, e[2]>>
  BY DEF Out
<1>3. f \in ({Step} \X G) \cup (G \X {Collect}) <=>
        \E g \in G : f = <<Step, g>> \/ f = <<g, Collect>>
  OBVIOUS
<1>4. CASE G = {}
  BY <1>1, <1>2, <1>4 DEF Expanded
<1>5. CASE G # {}
  BY <1>1, <1>2, <1>3, <1>5 DEF Expanded
<1>6. QED
  BY <1>4, <1>5

LEMMA ExpandedIsPairs ==
  ASSUME NEW G \in SUBSET Groups
  PROVE  /\ Expanded(G) \in SUBSET Pair
         /\ Vertices(Expanded(G)) \subseteq Vertices(InitialEdges) \cup {Collect} \cup G
         /\ Step \in Vertices(Expanded(G))
<1> DEFINE V == Vertices(InitialEdges) \cup {Collect} \cup G
<1>1. ASSUME NEW f \in Expanded(G)
      PROVE  f \in Pair /\ f[1] \in V /\ f[2] \in V
  <2>1. CASE f \in InitialEdges
    BY <2>1, NewNodes, EdgeEnds
  <2>2. CASE \E e \in InitialEdges : e[1] = Step /\ f = <<Collect, e[2]>>
    <3>1. PICK e \in InitialEdges : f = <<Collect, e[2]>>
      BY <2>2
    <3>2. e[2] \in Vertices(InitialEdges)
      BY NewNodes, EdgeEnds
    <3>3. QED
      BY <3>1, <3>2, NewNodes DEF Pair
  <2>3. CASE f = <<Step, Collect>>
    BY <2>3, NewNodes DEF Pair
  <2>4. CASE \E g \in G : f = <<Step, g>> \/ f = <<g, Collect>>
    BY <2>4, NewNodes DEF Pair
  <2>5. QED
    BY <2>1, <2>2, <2>3, <2>4, ExpandedEdge
<1>2. Vertices(Expanded(G)) \subseteq V
  BY <1>1 DEF Vertices
<1>3. \E f \in Expanded(G) : f[1] = Step
  <2>1. CASE G = {}
    <3>1. <<Step, Collect>> \in Expanded(G)
      BY <2>1, ExpandedEdge
    <3>2. QED
      BY <3>1
  <2>2. CASE G # {}
    <3>1. PICK g \in G : TRUE
      BY <2>2
    <3>2. <<Step, g>> \in Expanded(G)
      BY ExpandedEdge
    <3>3. QED
      BY <3>2
  <2>3. QED
    BY <2>1, <2>2
<1>4. Step \in Vertices(Expanded(G))
  BY <1>3 DEF Vertices
<1>5. QED
  BY <1>1, <1>2, <1>4

(* The edges of the step, a group and the collect node.                    *)
LEMMA ExpandedAround ==
  ASSUME NEW G \in SUBSET Groups
  PROVE  /\ \A g \in G : /\ In(Expanded(G), g) = {<<Step, g>>}
                         /\ Out(Expanded(G), g) = {<<g, Collect>>}
         /\ G = {} => Out(Expanded(G), Step) = {<<Step, Collect>>}
         /\ G # {} => Out(Expanded(G), Step) = {Step} \X G
<1>1. \A e \in InitialEdges : /\ e = <<e[1], e[2]>> /\ e[1] \in Vertices(InitialEdges)
                              /\ e[2] \in Vertices(InitialEdges)
  BY NewNodes, EdgeEnds
<1>2. ASSUME NEW g \in G PROVE In(Expanded(G), g) = {<<Step, g>>}
  <2>1. <<Step, g>> \in Expanded(G)
    BY ExpandedEdge
  <2>2. ASSUME NEW f \in Expanded(G), f[2] = g PROVE f = <<Step, g>>
    <3>1. f \notin InitialEdges /\ g # Collect
      BY <1>1, <2>2, NewNodes
    <3>2. ~ \E e \in InitialEdges : f = <<Collect, e[2]>>
      BY <1>1, <2>2, NewNodes
    <3>3. PICK h \in G : f = <<Step, h>> \/ f = <<h, Collect>>
      BY <2>2, <3>1, <3>2, ExpandedEdge
    <3>4. QED
      BY <2>2, <3>1, <3>3
  <2>3. QED
    BY <2>1, <2>2 DEF In
<1>3. ASSUME NEW g \in G PROVE Out(Expanded(G), g) = {<<g, Collect>>}
  <2>1. <<g, Collect>> \in Expanded(G)
    BY ExpandedEdge
  <2>2. ASSUME NEW f \in Expanded(G), f[1] = g PROVE f = <<g, Collect>>
    <3>1. f \notin InitialEdges /\ g # Collect /\ g # Step
      BY <1>1, <2>2, NewNodes
    <3>2. PICK h \in G : f = <<Step, h>> \/ f = <<h, Collect>>
      BY <2>2, <3>1, ExpandedEdge
    <3>3. QED
      BY <2>2, <3>1, <3>2
  <2>3. QED
    BY <2>1, <2>2 DEF Out
<1>4. ASSUME NEW f \in Expanded(G), f[1] = Step
      PROVE  (G = {} /\ f = <<Step, Collect>>) \/ \E g \in G : f = <<Step, g>>
  <2>1. Step # Collect /\ Step \notin G
    BY NewNodes
  <2>2. QED
    BY <1>4, <2>1, ExpandedEdge
<1>5. G = {} => Out(Expanded(G), Step) = {<<Step, Collect>>}
  <2>1. SUFFICES ASSUME G = {} PROVE Out(Expanded(G), Step) = {<<Step, Collect>>}
    OBVIOUS
  <2>2. <<Step, Collect>> \in Expanded(G)
    BY <2>1, ExpandedEdge
  <2>3. QED
    BY <1>4, <2>1, <2>2 DEF Out
<1>6. G # {} => Out(Expanded(G), Step) = {Step} \X G
  <2>1. \A g \in G : <<Step, g>> \in Expanded(G)
    BY ExpandedEdge
  <2>2. QED
    BY <1>4, <2>1 DEF Out
<1>7. QED
  BY <1>2, <1>3, <1>5, <1>6

(* It comes about with the first group inserted, and the others appended   *)
(* to any one that is there.                                               *)
LEMMA FirstGroup ==
  ASSUME NEW g \in Groups
  PROVE  Expanded({g}) = Insert(Expanded({}), Step, g)
<1>1. Out(Expanded({}), Step) = {<<Step, Collect>>}
  <2>1. \A G \in SUBSET Groups : G = {} => Out(Expanded(G), Step) = {<<Step, Collect>>}
    BY ExpandedAround
  <2>2. QED
    BY <2>1
<1>2. Insert(Expanded({}), Step, g) =
        (Expanded({}) \ {<<Step, Collect>>}) \cup {<<g, Collect>>, <<Step, g>>}
  <2>1. {<<g, e[2]>> : e \in {<<Step, Collect>>}} = {<<g, Collect>>}
    OBVIOUS
  <2>2. QED
    BY <1>1, <2>1 DEF Insert
<1>3. ASSUME NEW f
      PROVE  f \in Expanded({g}) <=>
               \/ f \in Expanded({}) /\ f # <<Step, Collect>>
               \/ f = <<g, Collect>> \/ f = <<Step, g>>
  <2>1. f \in InitialEdges => f # <<Step, Collect>>
    BY NewNodes, EdgeEnds
  <2>2. Step # Collect
    BY NewNodes
  <2>3. {g} \in SUBSET Groups /\ {} \in SUBSET Groups
    OBVIOUS
  <2>4. f \in Expanded({g}) <=>
           \/ f \in InitialEdges /\ f[1] # Step
           \/ \E e \in InitialEdges : e[1] = Step /\ f = <<Collect, e[2]>>
           \/ f = <<Step, g>> \/ f = <<g, Collect>>
    BY <2>3, ExpandedEdge
  <2>5. f \in Expanded({}) <=>
           \/ f \in InitialEdges /\ f[1] # Step
           \/ \E e \in InitialEdges : e[1] = Step /\ f = <<Collect, e[2]>>
           \/ f = <<Step, Collect>>
    BY <2>3, ExpandedEdge
  <2>6. QED
    BY <2>1, <2>2, <2>4, <2>5
<1>4. QED
  BY <1>2, <1>3

LEMMA NextGroup ==
  ASSUME NEW G \in SUBSET Groups, NEW a \in G, NEW g \in Groups
  PROVE  Expanded(G \cup {g}) = AppendNode(Expanded(G), a, a, g)
<1>1. In(Expanded(G), a) = {<<Step, a>>} /\ Out(Expanded(G), a) = {<<a, Collect>>}
  BY ExpandedAround
<1>2. AppendNode(Expanded(G), a, a, g) = Expanded(G) \cup {<<g, Collect>>, <<Step, g>>}
  BY <1>1 DEF AppendNode
<1>3. ({Step} \X (G \cup {g})) \cup ((G \cup {g}) \X {Collect}) =
        ({Step} \X G) \cup (G \X {Collect}) \cup {<<g, Collect>>, <<Step, g>>}
  OBVIOUS
<1>4. G # {} /\ G \cup {g} # {}
  OBVIOUS
<1>5. QED
  BY <1>2, <1>3, <1>4 DEF Expanded
-----------------------------------------------------------------------------
(* What prepare and reset do to it                                         *)

AnchorOf(split, i) == IF i = 1 THEN machine.anchor ELSE Anchor(split)

IsExpanded(f, E, split) ==
  f = [i \in 0..Len(split) |->
         IF i = 0 THEN Insert(E, Step, Collect)
         ELSE WithGroup(f[i - 1], AnchorOf(split, i), split[i])]

(* The recursion of Expand has one solution.                               *)
LEMMA ExpandIs ==
  ASSUME NEW E, NEW split \in Seq(Nodes), NEW h, IsExpanded(h, E, split)
  PROVE  Expand(E, split) = h[Len(split)]
<1> DEFINE c == CHOOSE f : f = [i \in 0..Len(split) |->
         IF i = 0 THEN Insert(E, Step, Collect)
         ELSE WithGroup(f[i - 1], IF i = 1 THEN machine.anchor ELSE Anchor(split), split[i])]
<1>1. Expand(E, split) = c[Len(split)]
  BY DEF Expand
<1>2. IsExpanded(c, E, split)
  BY DEF IsExpanded, AnchorOf
<1>n. Len(split) \in Nat
  OBVIOUS
<1> DEFINE S == {i \in 0..Len(split) : c[i] = h[i]}
<1> HIDE DEF c
<1>3. \A i \in 0..Len(split) :
         /\ c[i] = IF i = 0 THEN Insert(E, Step, Collect)
                   ELSE WithGroup(c[i - 1], AnchorOf(split, i), split[i])
         /\ h[i] = IF i = 0 THEN Insert(E, Step, Collect)
                   ELSE WithGroup(h[i - 1], AnchorOf(split, i), split[i])
  BY <1>2 DEF IsExpanded
<1>4. 0 \in S
  BY <1>3
<1>5. ASSUME NEW i \in 1..Len(split), i - 1 \in S PROVE i \in S
  <2>1. c[i - 1] = h[i - 1] /\ i \in 0..Len(split) /\ i # 0
    BY <1>5
  <2>2. c[i] = h[i]
    BY <1>3, <2>1
  <2>3. QED
    BY <2>1, <2>2
<1>6. S = 0..Len(split)
  <2> HIDE DEF S
  <2>1. S \in SUBSET (0..Len(split))
    BY DEF S
  <2>2. QED
    BY <1>n, <1>4, <1>5, <2>1, Leads
<1>7. QED
  BY <1>1, <1>6

LEMMA SplitsAreGroups ==
  ASSUME NEW split \in Splits
  PROVE  /\ split \in Seq(Nodes) /\ Len(split) \in Nat
         /\ Seqs!ToSet(split) \in SUBSET Groups
         /\ Seqs!ToSet(split) = {split[i] : i \in 1..Len(split)}
         /\ \A i, j \in 1..Len(split) : split[i] = split[j] => i = j
         /\ split = <<>> <=> Seqs!ToSet(split) = {}
<1>1. split \in Seq(Nodes) /\ Seqs!IsInjective(split)
  BY StepAssumption
<1>2. Len(split) \in Nat /\ DOMAIN split = 1..Len(split)
  BY <1>1
<1>3. Seqs!ToSet(split) = {split[i] : i \in 1..Len(split)}
  BY <1>2 DEF Seqs!ToSet
<1>4. Seqs!ToSet(split) \in SUBSET Groups
  BY DEF Groups
<1>5. \A i, j \in 1..Len(split) : split[i] = split[j] => i = j
  BY <1>1, <1>2 DEF Seqs!IsInjective
<1>6. split = <<>> <=> Seqs!ToSet(split) = {}
  <2>1. split = <<>> => Seqs!ToSet(split) = {}
    BY <1>3
  <2>2. split # <<>> => 1 \in 1..Len(split)
    BY <1>1
  <2>3. QED
    BY <1>3, <2>1, <2>2
<1>7. QED
  BY <1>1, <1>2, <1>3, <1>4, <1>5, <1>6

(* A prepare by a machine that has no anchor, or that finds no groups,     *)
(* builds it from the graph as it was before.                              *)
LEMMA PreparedGraph ==
  ASSUME NEW split \in Splits, split = <<>> \/ machine.anchor = NoNode
  PROVE  Expand(InitialEdges, split) = Expanded(Seqs!ToSet(split))
<1> DEFINE P(i) == {split[j] : j \in 1..i}
           h    == [i \in 0..Len(split) |-> Expanded(P(i))]
<1>s. /\ split \in Seq(Nodes) /\ Len(split) \in Nat
      /\ Seqs!ToSet(split) \in SUBSET Groups
      /\ Seqs!ToSet(split) = {split[i] : i \in 1..Len(split)}
      /\ \A i, j \in 1..Len(split) : split[i] = split[j] => i = j
  BY SplitsAreGroups
<1>g. \A i \in 1..Len(split) : split[i] \in Groups
  BY <1>s
<1>1. \A i \in 0..Len(split) : P(i) \in SUBSET Groups
  BY <1>s, <1>g
<1>2. P(0) = {}
  OBVIOUS
<1>3. \A i \in 1..Len(split) : P(i) = P(i - 1) \cup {split[i]}
  <2>1. \A i \in 1..Len(split) : 1..i = (1..(i - 1)) \cup {i}
    BY <1>s
  <2>2. QED
    BY <2>1
<1>4. \A i \in 2..Len(split) : split[1] \in P(i - 1)
  BY <1>s
<1> HIDE DEF P
<1>5. ASSUME NEW i \in 0..Len(split)
      PROVE  h[i] = IF i = 0 THEN Insert(InitialEdges, Step, Collect)
                    ELSE WithGroup(h[i - 1], AnchorOf(split, i), split[i])
  <2>1. CASE i = 0
    <3>1. Expanded({}) = Insert(InitialEdges, Step, Collect)
      BY DEF Expanded, Insert
    <3>2. QED
      BY <1>2, <2>1, <3>1
  <2>2. CASE i = 1
    <3>1. 1 \in 1..Len(split) /\ 0 \in 0..Len(split)
      BY <1>s, <2>2
    <3>2. P(1) = {split[1]}
      <4>1. P(1) = P(1 - 1) \cup {split[1]}
        BY <1>3, <3>1
      <4>2. QED
        BY <1>2, <4>1
    <3>3. h[1] = Expanded({split[1]}) /\ h[0] = Expanded({})
      BY <1>2, <2>2, <3>1, <3>2
    <3>4. AnchorOf(split, i) = NoNode
      BY <1>s, <2>2, <3>1 DEF AnchorOf
    <3>5. split[1] \in Groups
      BY <1>g, <3>1
    <3>6. h[1] = Insert(h[0], Step, split[1])
      BY <3>3, <3>5, FirstGroup
    <3> HIDE DEF h
    <3>7. QED
      BY <2>2, <3>4, <3>6 DEF WithGroup
  <2>3. CASE i > 1
    <3>1. /\ i \in 2..Len(split) /\ i \in 1..Len(split) /\ i - 1 \in 0..Len(split)
          /\ 1 \in 1..Len(split) /\ i # 0 /\ i # 1
      BY <1>s, <2>3
    <3>2. split # <<>>
      BY <1>s, <3>1
    <3>3. AnchorOf(split, i) = split[1]
      BY <3>1, <3>2 DEF AnchorOf, Anchor
    <3>4. split[1] # NoNode
      BY <1>g, <3>1, NewNodes
    <3>5. P(i) = P(i - 1) \cup {split[i]} /\ split[1] \in P(i - 1)
      BY <1>3, <1>4, <3>1
    <3>6. P(i - 1) \in SUBSET Groups /\ split[i] \in Groups
      BY <1>1, <1>g, <3>1
    <3>7. Expanded(P(i)) = AppendNode(Expanded(P(i - 1)), split[1], split[1], split[i])
      BY <3>5, <3>6, NextGroup
    <3>8. h[i] = Expanded(P(i)) /\ h[i - 1] = Expanded(P(i - 1))
      BY <3>1
    <3> HIDE DEF h
    <3>9. QED
      BY <3>1, <3>3, <3>4, <3>7, <3>8 DEF WithGroup
  <2>4. QED
    BY <1>s, <2>1, <2>2, <2>3
<1>6. IsExpanded(h, InitialEdges, split)
  <2> DEFINE k == [i \in 0..Len(split) |->
                     IF i = 0 THEN Insert(InitialEdges, Step, Collect)
                     ELSE WithGroup(h[i - 1], AnchorOf(split, i), split[i])]
  <2>1. h = k
    <3>1. \A i \in 0..Len(split) : h[i] = k[i]
      BY <1>5
    <3>2. h = [i \in 0..Len(split) |-> h[i]] /\ k = [i \in 0..Len(split) |-> k[i]]
      OBVIOUS
    <3> HIDE DEF h, k
    <3>3. QED
      BY <3>1, <3>2
  <2>2. QED
    BY <2>1 DEF IsExpanded
<1>7. h[Len(split)] = Expanded(Seqs!ToSet(split))
  <2>1. P(Len(split)) = Seqs!ToSet(split)
    BY <1>s DEF P
  <2>2. Len(split) \in 0..Len(split)
    BY <1>s
  <2>3. h[Len(split)] = Expanded(P(Len(split)))
    BY <2>2
  <2> HIDE DEF h
  <2>4. QED
    BY <2>1, <2>3
<1>8. QED
  <2> HIDE DEF h
  <2>1. QED
    BY <1>s, <1>6, <1>7, ExpandIs

LEMMA DeletedGroup ==
  ASSUME NEW G \in SUBSET Groups, NEW g \in G, G \ {g} # {}
  PROVE  Delete(Expanded(G), g, FALSE) = Expanded(G \ {g})
<1>1. In(Expanded(G), g) = {<<Step, g>>} /\ Out(Expanded(G), g) = {<<g, Collect>>}
  BY ExpandedAround
<1>2. Delete(Expanded(G), g, FALSE) = Expanded(G) \ {<<Step, g>>, <<g, Collect>>}
  BY <1>1 DEF Delete
<1>n. g \in Nodes /\ g \notin Vertices(InitialEdges) /\ g # Step /\ g # Collect /\ Step # Collect
  BY NewNodes
<1>3. ASSUME NEW f
      PROVE  f \in Expanded(G \ {g}) <=>
               f \in Expanded(G) /\ f # <<Step, g>> /\ f # <<g, Collect>>
  <2>1. f \in InitialEdges => f # <<Step, g>> /\ f # <<g, Collect>>
    BY <1>n, NewNodes, EdgeEnds
  <2>2. \A e \in InitialEdges : <<Collect, e[2]>> # <<Step, g>> /\ <<Collect, e[2]>> # <<g, Collect>>
    BY <1>n
  <2>3. \A h \in G : /\ <<Step, h>> = <<Step, g>> <=> h = g
                     /\ <<h, Collect>> = <<g, Collect>> <=> h = g
                     /\ <<Step, h>> # <<g, Collect>> /\ <<h, Collect>> # <<Step, g>>
    BY <1>n, NewNodes
  <2>4. f \in Expanded(G) <=>
           \/ f \in InitialEdges /\ f[1] # Step
           \/ \E e \in InitialEdges : e[1] = Step /\ f = <<Collect, e[2]>>
           \/ \E h \in G : f = <<Step, h>> \/ f = <<h, Collect>>
    BY ExpandedEdge
  <2>5. f \in Expanded(G \ {g}) <=>
           \/ f \in InitialEdges /\ f[1] # Step
           \/ \E e \in InitialEdges : e[1] = Step /\ f = <<Collect, e[2]>>
           \/ \E h \in G \ {g} : f = <<Step, h>> \/ f = <<h, Collect>>
    BY ExpandedEdge
  <2>6. QED
    BY <2>1, <2>2, <2>3, <2>4, <2>5
<1>4. QED
  BY <1>2, <1>3

LEMMA DeletedAnchor ==
  ASSUME NEW g \in Groups
  PROVE  Delete(Expanded({g}), g, TRUE) = Expanded({})
<1>1. {} \in SUBSET Groups
  OBVIOUS
<1>2. /\ Expanded({}) \in SUBSET Pair /\ Step \in Vertices(Expanded({}))
      /\ Vertices(Expanded({})) \subseteq Vertices(InitialEdges) \cup {Collect} \cup {}
  BY <1>1, ExpandedIsPairs
<1>3. g \in Nodes \ Vertices(Expanded({}))
  BY <1>2, NewNodes
<1>4. QED
  BY <1>2, <1>3, FirstGroup, DeleteUndoesInsert

LEMMA DeletedCollect == Delete(Expanded({}), Collect, TRUE) = InitialEdges
<1>1. Expanded({}) = Insert(InitialEdges, Step, Collect)
  BY DEF Expanded, Insert
<1>2. QED
  BY <1>1, NewNodes, DeleteUndoesInsert

LEMMA ExpandedIsValid ==
  ASSUME StartsValid, NEW G \in SUBSET Groups
  PROVE  ValidGraph(Expanded(G))
<1>1. Expanded({}) = Insert(InitialEdges, Step, Collect)
  BY DEF Expanded, Insert
<1>2. /\ ValidGraph(Expanded({}))
      /\ Sources(Expanded({})) = Sources(InitialEdges)
      /\ Sinks(Expanded({})) = Sinks(InitialEdges)
  BY <1>1, NewNodes, InsertKeepsValid, InsertKeepsEnds DEF StartsValid
<1>3. /\ Expanded({}) \in SUBSET Pair /\ Step \in Vertices(Expanded({}))
      /\ Vertices(Expanded({})) \subseteq Vertices(InitialEdges) \cup {Collect} \cup {}
  <2>1. {} \in SUBSET Groups
    OBVIOUS
  <2>2. QED
    BY <2>1, ExpandedIsPairs
<1>4. ASSUME NEW a \in G PROVE ValidGraph(Expanded(G))
  <2>1. a \in Nodes \ Vertices(Expanded({})) /\ a \in Groups
    BY <1>3, NewNodes
  <2>2. Expanded({a}) = Insert(Expanded({}), Step, a)
    BY <2>1, FirstGroup
  <2>3. Step \notin Sinks(Expanded({})) /\ Step \notin Sources(Expanded({}))
    BY <1>2 DEF StartsValid
  <2>4. ValidGraph(Expanded({a}))
    BY <1>2, <1>3, <2>1, <2>2, <2>3, InsertKeepsValid
  <2> DEFINE X == G \ {a}
             E == Expanded({a})
  <2>5. {a} \in SUBSET Groups /\ {a} # {}
    BY <2>1
  <2>6. /\ E \in SUBSET Pair
        /\ Vertices(E) \subseteq Vertices(InitialEdges) \cup {Collect} \cup {a}
    BY <2>5, ExpandedIsPairs
  <2>7. In(E, a) = {<<Step, a>>} /\ Out(E, a) = {<<a, Collect>>}
    BY <2>5, ExpandedAround
  <2>8. X \in SUBSET (Nodes \ Vertices(E))
    BY <2>6, NewNodes
  <2>9. Appendable(E, a, a)
    <3>1. a \in Vertices(E)
      BY <2>7 DEF In, Vertices
    <3>2. QED
      BY <2>7, <3>1 DEF Appendable, HasPath, Sources, Sinks
  <2>10. Expanded(G) = Twins(E, a, a, X)
    <3>1. Twins(E, a, a, X) = E \cup {<<x, Collect>> : x \in X} \cup {<<Step, x>> : x \in X}
      <4>1. {<<x, e[2]>> : x \in X, e \in {<<a, Collect>>}} = {<<x, Collect>> : x \in X}
        OBVIOUS
      <4>2. {<<e[1], x>> : x \in X, e \in {<<Step, a>>}} = {<<Step, x>> : x \in X}
        OBVIOUS
      <4>3. QED
        BY <2>7, <4>1, <4>2 DEF Twins
    <3>2. {<<x, Collect>> : x \in X} = X \X {Collect} /\ {<<Step, x>> : x \in X} = {Step} \X X
      OBVIOUS
    <3>3. ({Step} \X G) \cup (G \X {Collect}) =
            ({Step} \X {a}) \cup ({a} \X {Collect}) \cup (X \X {Collect}) \cup ({Step} \X X)
      OBVIOUS
    <3>4. G # {}
      OBVIOUS
    <3>5. QED
      BY <2>5, <3>1, <3>2, <3>3, <3>4 DEF Expanded
  <2> HIDE DEF X, E
  <2>11. ValidGraph(Twins(E, a, a, X))
    <3>1. ValidGraph(E)
      BY <2>4 DEF E
    <3>2. QED
      BY <2>6, <2>8, <2>9, <3>1, TwinsKeepValid
  <2>12. QED
    BY <2>10, <2>11
<1>5. CASE G = {}
  BY <1>2, <1>5
<1>6. QED
  BY <1>4, <1>5
-----------------------------------------------------------------------------
(* The inductive invariant                                                 *)

(* The graph is that of the groups there are, whichever transition was cut *)
(* short before.                                                           *)
ShapeIsKnown ==
  IF Collect \in rows
  THEN /\ rows = Vertices(InitialEdges) \cup {Collect} \cup GroupsThere
       /\ graph = Expanded(GroupsThere)
  ELSE rows = Vertices(InitialEdges) /\ graph = InitialEdges

Forgets(m) == m.anchor = NoNode /\ m.collect = NoNode

(* A machine that knows of a collect node that is there knows a group, if  *)
(* one is there.                                                           *)
Remembers(m) ==
  /\ m.collect = NoNode => m.anchor = NoNode
  /\ m.collect = Collect /\ Collect \in rows =>
       GroupsThere = {} \/ m.anchor \in GroupsThere

MachinesRemember == Remembers(stored) /\ (pc # "idle" => Remembers(machine))

(* A step that waits has never been prepared, as far as its pickle knows,  *)
(* or a reset was lost, and the group that the pickle names is gone.       *)
Harmless(m) == Forgets(m) \/ (m.anchor \notin rows /\ crashes > 0)

WaitingIsHarmless ==
  /\ status = "waiting" /\ pc # "store" => Harmless(stored)
  /\ pc = "prepare" => /\ status = "waiting"
                       /\ machine.anchor = stored.anchor /\ machine.collect = stored.collect
  /\ pc = "expanded" => status = "waiting"
  /\ pc = "save" /\ status = "waiting" => dest # "waiting"

ResetIsOnCourse ==
  /\ pc \in {"reset", "groups", "collect"} => machine = stored /\ status = "failed"
  /\ pc = "groups" => /\ machine.anchor \in GroupsThere
                      /\ doomed = GroupsThere \ {machine.anchor}
  /\ pc = "collect" => /\ machine.anchor \notin rows
                       /\ machine.collect = Collect => GroupsThere = {}

EndIsOnCourse ==
  /\ pc \in {"save", "store"} /\ dest = "waiting" =>
       Forgets(machine) /\ stored.anchor \notin rows
  /\ pc = "store" => status = dest
  /\ pc = "save" /\ dest = "waiting" =>
       /\ status = "failed"
       /\ stored.collect # NoNode => graph = InitialEdges

StepInv ==
  /\ StepTypeOK /\ ShapeIsKnown /\ MachinesRemember
  /\ WaitingIsHarmless /\ ResetIsOnCourse /\ EndIsOnCourse

-----------------------------------------------------------------------------
(* Types.  They hold whatever misleads a machine, so that nothing is known *)
(* of the graph here but that it is one.                                   *)

LEMMA EditsArePairs ==
  ASSUME NEW E \in SUBSET Pair, NEW m, NEW n \in Nodes, NEW exit
  PROVE  /\ m \in Nodes => Insert(E, m, n) \in SUBSET Pair
         /\ AppendNode(E, exit, m, n) \in SUBSET Pair
         /\ \A heal \in BOOLEAN : Delete(E, m, heal) \in SUBSET Pair
<1>1. \A e \in E : e \in Pair /\ e[1] \in Nodes /\ e[2] \in Nodes
  BY DEF Pair
<1>2. \A v, w \in Nodes : <<v, w>> \in Pair
  BY DEF Pair
<1>3. {<<n, e[2]>> : e \in Out(E, m)} \subseteq Pair /\ {<<n, e[2]>> : e \in Out(E, exit)} \subseteq Pair
  BY <1>1, <1>2 DEF Out
<1>4. {<<e[1], n>> : e \in In(E, m)} \subseteq Pair
  BY <1>1, <1>2 DEF In
<1>5. {<<d[1], e[2]>> : d \in In(E, m), e \in Out(E, m)} \subseteq Pair
  BY <1>1, <1>2 DEF In, Out
<1>6. m \in Nodes => Insert(E, m, n) \in SUBSET Pair
  BY <1>2, <1>3 DEF Insert
<1>7. AppendNode(E, exit, m, n) \in SUBSET Pair
  BY <1>3, <1>4 DEF AppendNode
<1>8. \A heal \in BOOLEAN : Delete(E, m, heal) \in SUBSET Pair
  BY <1>5 DEF Delete
<1>9. QED
  BY <1>6, <1>7, <1>8

LEMMA ExpandsToPairs ==
  ASSUME NEW E \in SUBSET Pair, NEW split \in Splits
  PROVE  Expand(E, split) \in SUBSET Pair
<1> DEFINE n == Len(split)
           Grown(f, k) == f = [i \in 0..k |->
              IF i = 0 THEN Insert(E, Step, Collect)
              ELSE WithGroup(f[i - 1], AnchorOf(split, i), split[i])]
           S == {k \in 0..n : \E f : Grown(f, k) /\ f[k] \in SUBSET Pair}
<1>s. split \in Seq(Nodes) /\ n \in Nat /\ \A i \in 1..n : split[i] \in Nodes
  BY SplitsAreGroups
<1>p. Step \in Nodes /\ Collect \in Nodes
  BY NewNodes
<1> HIDE DEF n
<1>1. 0 \in S
  <2> DEFINE f == [i \in 0..0 |-> Insert(E, Step, Collect)]
  <2>1. f = [i \in 0..0 |-> IF i = 0 THEN Insert(E, Step, Collect)
                            ELSE WithGroup(f[i - 1], AnchorOf(split, i), split[i])]
    OBVIOUS
  <2>2. f[0] \in SUBSET Pair
    BY <1>p, EditsArePairs
  <2> HIDE DEF f
  <2>3. QED
    BY <1>s, <2>1, <2>2
<1>2. ASSUME NEW j \in 1..n, j - 1 \in S PROVE j \in S
  <2>1. PICK f : Grown(f, j - 1) /\ f[j - 1] \in SUBSET Pair
    BY <1>2
  <2> DEFINE new == WithGroup(f[j - 1], AnchorOf(split, j), split[j])
             g   == [i \in 0..j |-> IF i < j THEN f[i] ELSE new]
  <2>2. new \in SUBSET Pair
    BY <1>s, <1>p, <2>1, EditsArePairs DEF WithGroup
  <2> HIDE DEF new
  <2>3. \A i \in 0..(j - 1) : f[i] = IF i = 0 THEN Insert(E, Step, Collect)
                                     ELSE WithGroup(f[i - 1], AnchorOf(split, i), split[i])
    BY <2>1
  <2>4. \A i \in 0..j : g[i] = IF i = 0 THEN Insert(E, Step, Collect)
                               ELSE WithGroup(g[i - 1], AnchorOf(split, i), split[i])
    BY <2>3 DEF new
  <2>5. g = [i \in 0..j |-> g[i]] /\ g[j] = new
    OBVIOUS
  <2> HIDE DEF g
  <2>6. Grown(g, j)
    BY <2>4, <2>5
  <2> HIDE DEF Grown
  <2>7. QED
    BY <1>s, <2>2, <2>5, <2>6
<1>3. n \in S
  <2> HIDE DEF S
  <2>1. S \in SUBSET (0..n)
    BY DEF S
  <2>2. QED
    BY <1>s, <1>1, <1>2, <2>1, Leads
<1> HIDE DEF Grown
<1>4. PICK f : Grown(f, n) /\ f[n] \in SUBSET Pair
  BY <1>3
<1>5. IsExpanded(f, E, split)
  BY <1>4 DEF Grown, IsExpanded, n
<1>6. QED
  BY <1>s, <1>4, <1>5, ExpandIs DEF n

(* Only a prepare that goes by a stale machine misleads, and there is none *)
(* as long as nothing dies.                                                *)
LEMMA TypeStep ==
  ASSUME StepTypeOK, ~misled => WaitingIsHarmless, [StepNext]_vars
  PROVE  StepTypeOK'
<1>t. /\ graph \in SUBSET Pair /\ rows \in SUBSET Nodes /\ doomed \in SUBSET Nodes
      /\ machine \in Remembered /\ machine.anchor \in Groups \cup {NoNode}
      /\ stored \in Remembered \cup {NoMachine} /\ crashes \in Nat /\ MaxCrashes \in Nat
      /\ Step \in Nodes /\ Collect \in Nodes
  BY NewNodes, StepAssumption DEF StepTypeOK, Remembered
<1>a. \A split \in Splits : Anchor(split) \in Groups \cup {NoNode}
  <2>1. SUFFICES ASSUME NEW split \in Splits, split # <<>> PROVE split[1] \in Groups
    BY <1>t DEF Anchor
  <2>2. 1 \in 1..Len(split)
    BY <2>1, SplitsAreGroups
  <2>3. QED
    BY <2>2, SplitsAreGroups
<1>1. CASE BeginPrepare \/ StartRaises
  <2>1. machine' \in Remembered
    BY <1>t, <1>1 DEF BeginPrepare, StartRaises, Rehydrated, Remembered, NoMachine
  <2>2. doomed = {}
    BY <1>1 DEF BeginPrepare, StartRaises, StepTypeOK
  <2>3. QED
    BY <1>1, <2>1, <2>2 DEF BeginPrepare, StartRaises, StepTypeOK
<1>2. CASE PrepareCommits
  <2>1. PICK split \in Splits :
          /\ graph' = Expand(graph, split)
          /\ rows' = rows \cup {Collect} \cup Seqs!ToSet(split)
          /\ machine' = [machine EXCEPT !.anchor = Anchor(split), !.collect = Collect]
          /\ misled' = (misled \/ (split # <<>> /\ machine.collect # NoNode))
    BY <1>2 DEF PrepareCommits
  <2>2. pc = "prepare" /\ pc' = "expanded" /\ UNCHANGED <<status, stored, dest, doomed, crashes>>
    BY <1>2 DEF PrepareCommits
  <2>3. graph' \subseteq Pair
    BY <1>t, <2>1, ExpandsToPairs
  <2>4. rows' \subseteq Nodes
    BY <1>t, <2>1, SplitsAreGroups, NewNodes
  <2>5. machine' \in Remembered
    BY <1>t, <1>a, <2>1 DEF Remembered
  <2>6. doomed = {}
    BY <2>2 DEF StepTypeOK
  <2>7. misled' => crashes > 0
    <3>1. CASE misled
      BY <3>1 DEF StepTypeOK
    <3>2. CASE ~misled /\ machine.collect # NoNode
      BY <2>2, <3>2 DEF WaitingIsHarmless, Harmless, Forgets
    <3>3. QED
      BY <2>1, <3>1, <3>2
  <2>8. misled' \in BOOLEAN
    BY <2>1 DEF StepTypeOK
  <2>9. QED
    BY <2>2, <2>3, <2>4, <2>5, <2>6, <2>7, <2>8 DEF StepTypeOK
<1>3. CASE PrepareRaises
  <2>1. machine' \in Remembered
    <3>1. CASE machine' = machine
      BY <1>t, <3>1
    <3>2. ASSUME NEW a \in {machine.anchor} \cup {Anchor(split) : split \in Splits},
                 machine' = [machine EXCEPT !.anchor = a, !.collect = Collect]
          PROVE  machine' \in Remembered
      <4>1. a \in Groups \cup {NoNode}
        BY <1>t, <1>a
      <4>2. QED
        BY <1>t, <3>2, <4>1 DEF Remembered
    <3>3. QED
      BY <1>3, <3>1, <3>2 DEF PrepareRaises, RolledBack
  <2>2. doomed = {}
    BY <1>3 DEF PrepareRaises, StepTypeOK
  <2>3. QED
    BY <1>3, <2>1, <2>2 DEF PrepareRaises, StepTypeOK
<1>4. CASE RenderEnds \/ SaveStatus \/ StoreMachine
  <2>1. machine' \in Remembered /\ doomed = {} /\ UNCHANGED <<graph, rows, doomed, crashes, misled>>
    BY <1>t, <1>4 DEF RenderEnds, SaveStatus, StoreMachine, Remembered, StepTypeOK
  <2>2. stored' \in Remembered \cup {NoMachine}
    BY <1>t, <1>4 DEF RenderEnds, SaveStatus, StoreMachine, Pickle
  <2>3. QED
    BY <1>4, <2>1, <2>2 DEF RenderEnds, SaveStatus, StoreMachine, StepTypeOK
<1>5. CASE Retry \/ BeginReset
  <2>1. machine' \in Remembered
    BY <1>t, <1>5 DEF Retry, BeginReset, NoMachine, Remembered
  <2>2. doomed = {}
    BY <1>5 DEF Retry, BeginReset, StepTypeOK
  <2>3. QED
    BY <1>5, <2>1, <2>2 DEF Retry, BeginReset, StepTypeOK
<1>6. CASE FindGroups
  <2>1. {e[2] : e \in Out(graph, Step)} \subseteq Nodes
    BY <1>t DEF Out, Pair
  <2>2. doomed' \subseteq Nodes \ {machine.anchor} /\ (doomed' # {} => pc' = "groups")
    BY <1>6, <2>1 DEF FindGroups
  <2>3. pc' \in {"idle", "collect", "groups"}
    BY <1>6 DEF FindGroups
  <2>4. QED
    BY <1>6, <2>2, <2>3 DEF FindGroups, StepTypeOK
<1>7. CASE \E g \in doomed : DeleteGroup(g)
  <2>1. PICK g \in doomed : DeleteGroup(g)
    BY <1>7
  <2>2. graph' \subseteq Pair
    BY <1>t, <2>1, EditsArePairs DEF DeleteGroup
  <2>3. rows' \subseteq Nodes /\ doomed' \subseteq doomed /\ pc = "groups"
    BY <1>t, <2>1 DEF DeleteGroup
  <2>4. QED
    BY <2>1, <2>2, <2>3 DEF DeleteGroup, StepTypeOK
<1>8. CASE DeleteAnchor
  <2>1. graph' \subseteq Pair
    BY <1>t, <1>8, EditsArePairs DEF DeleteAnchor, WithoutAnchor
  <2>2. QED
    BY <1>8, <2>1 DEF DeleteAnchor, StepTypeOK
<1>9. CASE DeleteCollect
  <2>1. graph' \subseteq Pair
    BY <1>t, <1>9, EditsArePairs DEF DeleteCollect, WithoutCollect
  <2>2. machine' \in Remembered
    BY <1>t, <1>9 DEF DeleteCollect, Remembered
  <2>3. doomed = {}
    BY <1>9 DEF DeleteCollect, StepTypeOK
  <2>4. QED
    BY <1>9, <2>1, <2>2, <2>3 DEF DeleteCollect, StepTypeOK
<1>10. CASE Crash
  <2>1. crashes' \in 0..MaxCrashes /\ crashes' > 0
    BY <1>t, <1>10 DEF Crash
  <2>2. QED
    BY <1>10, <2>1 DEF Crash, StepTypeOK
<1>11. CASE UNCHANGED vars
  BY <1>11 DEF vars, StepTypeOK
<1>12. QED
  BY <1>1, <1>2, <1>3, <1>4, <1>5, <1>6, <1>7, <1>8, <1>9, <1>10, <1>11 DEF StepNext

-----------------------------------------------------------------------------
(* The invariant, action by action.  It lasts until a machine is misled.   *)

LEMMA InitialInv == StepInit => StepInv
<1>1. SUFFICES ASSUME StepInit PROVE StepInv
  OBVIOUS
<1>2. /\ InitialEdges \in SUBSET Pair /\ Vertices(InitialEdges) \subseteq Nodes
      /\ Collect \notin Vertices(InitialEdges) /\ MaxCrashes \in Nat
  BY NewNodes, StepAssumption
<1>3. machine = [state |-> "waiting", anchor |-> NoNode, collect |-> NoNode]
  BY <1>1 DEF StepInit, NoMachine
<1>4. StepTypeOK
  <2>1. machine \in Remembered
    BY <1>3 DEF Remembered
  <2>2. graph \subseteq Pair /\ Vertices(graph) \subseteq rows /\ rows \subseteq Nodes
    BY <1>1, <1>2 DEF StepInit
  <2>3. crashes \in 0..MaxCrashes /\ misled = FALSE
    BY <1>1, <1>2 DEF StepInit
  <2>4. QED
    BY <1>1, <2>1, <2>2, <2>3 DEF StepInit, StepTypeOK
<1>5. ShapeIsKnown
  BY <1>1, <1>2 DEF StepInit, ShapeIsKnown
<1>6. stored.anchor = NoNode /\ stored.collect = NoNode /\ NoNode # Collect
  BY <1>1, NewNodes DEF StepInit, NoMachine
<1>7. MachinesRemember /\ WaitingIsHarmless /\ ResetIsOnCourse /\ EndIsOnCourse
  BY <1>1, <1>6 DEF StepInit, MachinesRemember, Remembers, Forgets, Harmless,
                    WaitingIsHarmless, ResetIsOnCourse, EndIsOnCourse
<1>8. QED
  BY <1>4, <1>5, <1>7 DEF StepInv

(* A graph of the known shape has its type.                                *)
LEMMA ShapeIsTyped ==
  ASSUME ShapeIsKnown
  PROVE  graph \subseteq Pair /\ Vertices(graph) \subseteq rows /\ rows \subseteq Nodes
<1>1. GroupsThere \in SUBSET Groups
  BY DEF GroupsThere
<1>2. CASE Collect \in rows
  BY <1>1, <1>2, NewNodes, ExpandedIsPairs DEF ShapeIsKnown
<1>3. CASE Collect \notin rows
  BY <1>3, NewNodes DEF ShapeIsKnown
<1>4. QED
  BY <1>2, <1>3

LEMMA WithoutCollectNoGroups ==
  ASSUME ShapeIsKnown, Collect \notin rows
  PROVE  GroupsThere = {}
BY NewNodes DEF ShapeIsKnown, GroupsThere

(* A transition that edits no rows only has to keep its own books.         *)
LEMMA SameGraph ==
  ASSUME StepInv, UNCHANGED <<graph, rows>>
  PROVE  /\ ShapeIsKnown' /\ GroupsThere' = GroupsThere
         /\ Remembers(stored) /\ (pc # "idle" => Remembers(machine))
BY DEF StepInv, ShapeIsKnown, GroupsThere, MachinesRemember, StepTypeOK

LEMMA BeginPrepareStep == StepInv /\ BeginPrepare => StepInv'
<1>1. SUFFICES ASSUME StepInv, BeginPrepare PROVE StepInv'
  OBVIOUS
<1>2. /\ stored \in Remembered \cup {NoMachine} /\ Harmless(stored) /\ Remembers(stored)
      /\ machine' = Rehydrated /\ status = "waiting" /\ pc = "idle" /\ pc' = "prepare"
      /\ UNCHANGED <<graph, rows, status, stored, dest, doomed, crashes, misled>>
  BY <1>1 DEF StepInv, StepTypeOK, WaitingIsHarmless, BeginPrepare, MachinesRemember
<1>3. machine'.anchor = stored.anchor /\ machine'.collect = stored.collect
  BY <1>2 DEF Rehydrated, Remembered, NoMachine
<1>4. UNCHANGED <<graph, rows>>
  BY <1>1 DEF BeginPrepare
<1>5. StepTypeOK'
  BY <1>1, TypeStep DEF StepInv, StepNext
<1>6. MachinesRemember'
  BY <1>1, <1>2, <1>3, SameGraph DEF MachinesRemember, Remembers
<1>7. WaitingIsHarmless' /\ ResetIsOnCourse' /\ EndIsOnCourse'
  BY <1>2, <1>3
     DEF WaitingIsHarmless, ResetIsOnCourse, EndIsOnCourse, Forgets, Harmless
<1>8. QED
  BY <1>1, <1>4, <1>5, <1>6, <1>7, SameGraph DEF StepInv

LEMMA PrepareCommitsStep == StepInv /\ PrepareCommits /\ ~misled' => StepInv'
<1>1. SUFFICES ASSUME StepInv, PrepareCommits, ~misled' PROVE StepInv'
  OBVIOUS
<1>2. PICK split \in Splits :
        /\ ~Collides(split)
        /\ graph' = Expand(graph, split)
        /\ rows' = rows \cup {Collect} \cup Seqs!ToSet(split)
        /\ machine' = [machine EXCEPT !.anchor = Anchor(split), !.collect = Collect]
        /\ split = <<>> \/ machine.collect = NoNode
  BY <1>1 DEF PrepareCommits
<1>3. /\ pc = "prepare" /\ pc' = "expanded"
      /\ UNCHANGED <<status, stored, dest, doomed, crashes>>
  BY <1>1 DEF PrepareCommits
<1> DEFINE G == Seqs!ToSet(split)
<1>4. Collect \notin rows
  BY <1>2 DEF Collides
<1>5. rows = Vertices(InitialEdges) /\ graph = InitialEdges
  BY <1>1, <1>4 DEF StepInv, ShapeIsKnown
<1>6. /\ status = "waiting" /\ Remembers(machine) /\ Remembers(stored) /\ Harmless(stored)
      /\ machine.anchor = stored.anchor /\ machine.collect = stored.collect
      /\ machine \in Remembered /\ doomed = {}
  BY <1>1, <1>3 DEF StepInv, StepTypeOK, MachinesRemember, WaitingIsHarmless
<1>7. /\ split \in Seq(Nodes) /\ G \in SUBSET Groups
      /\ split = <<>> <=> G = {}
      /\ split # <<>> => split[1] \in G
  <2>1. /\ split \in Seq(Nodes) /\ Len(split) \in Nat /\ G \in SUBSET Groups
        /\ G = {split[i] : i \in 1..Len(split)}
        /\ split = <<>> <=> G = {}
    BY SplitsAreGroups
  <2>2. split # <<>> => 1 \in 1..Len(split)
    BY <2>1
  <2> HIDE DEF G
  <2>3. QED
    BY <2>1, <2>2
<1>8. graph' = Expanded(G)
  <2>1. split = <<>> \/ machine.anchor = NoNode
    BY <1>2, <1>6 DEF Remembers
  <2>2. QED
    BY <1>2, <1>5, <2>1, PreparedGraph
<1>9. GroupsThere' = G
  BY <1>2, <1>5, <1>7, NewNodes DEF GroupsThere
<1>10. ShapeIsKnown'
  BY <1>2, <1>5, <1>8, <1>9 DEF ShapeIsKnown
<1>11. /\ Anchor(split) \in Groups \cup {NoNode}
       /\ G = {} \/ Anchor(split) \in G
  BY <1>2, <1>6, <1>7 DEF Anchor, Remembers, Remembered
<1>12. /\ machine' \in Remembered /\ machine'.anchor = Anchor(split)
       /\ machine'.collect = Collect
  BY <1>2, <1>6, <1>11 DEF Remembered
<1>13. StepTypeOK'
  BY <1>1, TypeStep DEF StepInv, StepNext
<1>14. MachinesRemember'
  <2>1. Remembers(machine)'
    BY <1>9, <1>11, <1>12, NewNodes DEF Remembers
  <2>2. Remembers(stored)'
    BY <1>2, <1>3, <1>6, <1>7, <1>9, NewNodes DEF Remembers
  <2>3. QED
    BY <2>1, <2>2 DEF MachinesRemember
<1>15. Harmless(stored)'
  <2>1. stored.anchor \in Groups \cup {NoNode}
    BY <1>6 DEF Remembered
  <2>2. CASE split = <<>>
    BY <1>2, <1>3, <1>6, <1>7, <2>1, <2>2, NewNodes DEF Harmless, Forgets
  <2>3. CASE machine.collect = NoNode
    BY <1>3, <1>6, <2>3 DEF Harmless, Forgets, Remembers
  <2>4. QED
    BY <1>2, <2>2, <2>3
<1>16. WaitingIsHarmless' /\ ResetIsOnCourse' /\ EndIsOnCourse'
  BY <1>3, <1>6, <1>15 DEF WaitingIsHarmless, ResetIsOnCourse, EndIsOnCourse
<1>17. QED
  BY <1>10, <1>13, <1>14, <1>16 DEF StepInv

LEMMA PrepareEndsStep == StepInv /\ (PrepareRaises \/ RenderEnds) => StepInv'
<1>1. SUFFICES ASSUME StepInv, PrepareRaises \/ RenderEnds PROVE StepInv'
  OBVIOUS
<1>2. /\ pc \in {"prepare", "expanded"} /\ pc' = "save" /\ dest' \in {"ready", "failed"}
      /\ UNCHANGED <<graph, rows, status, stored, doomed, crashes, misled>>
  BY <1>1 DEF PrepareRaises, RenderEnds
<1>3. /\ machine \in Remembered /\ doomed = {} /\ Remembers(machine)
      /\ status = "waiting" /\ Harmless(stored)
  BY <1>1, <1>2 DEF StepInv, StepTypeOK, MachinesRemember, WaitingIsHarmless
<1>4. machine' \in Remembered /\ Remembers(machine')
  <2>1. CASE machine' = machine
    BY <1>3, <2>1
  <2>2. ASSUME Collect \notin rows,
               NEW a \in {machine.anchor} \cup {Anchor(split) : split \in Splits},
               machine' = [machine EXCEPT !.anchor = a, !.collect = Collect]
        PROVE  machine' \in Remembered /\ Remembers(machine')
    <3>1. \A split \in Splits : split = <<>> \/ split[1] \in Groups
      <4>1. SUFFICES ASSUME NEW split \in Splits, split # <<>> PROVE split[1] \in Groups
        OBVIOUS
      <4>2. 1 \in 1..Len(split)
        BY <4>1, SplitsAreGroups
      <4>3. QED
        BY <4>2, SplitsAreGroups
    <3>2. machine.anchor \in Groups \cup {NoNode}
      BY <1>3 DEF Remembered
    <3>3. a \in Groups \cup {NoNode}
      BY <2>2, <3>1, <3>2 DEF Anchor
    <3>4. machine' \in Remembered /\ machine'.collect = Collect
      BY <1>3, <2>2, <3>3 DEF Remembered
    <3>5. QED
      BY <2>2, <3>4, NewNodes DEF Remembers
  <2>3. machine' = machine \/ machine' \in RolledBack
    BY <1>1 DEF PrepareRaises, RenderEnds
  <2>4. QED
    BY <2>1, <2>2, <2>3 DEF RolledBack
<1>5. StepTypeOK'
  BY <1>1, TypeStep DEF StepInv, StepNext
<1>6. MachinesRemember'
  BY <1>1, <1>2, <1>4, SameGraph DEF MachinesRemember, Remembers
<1>7. WaitingIsHarmless' /\ ResetIsOnCourse' /\ EndIsOnCourse'
  BY <1>2, <1>3
     DEF WaitingIsHarmless, ResetIsOnCourse, EndIsOnCourse, Forgets, Harmless
<1>8. QED
  BY <1>1, <1>2, <1>5, <1>6, <1>7, SameGraph DEF StepInv

(* A transition that begins at a step that waits for none.                 *)
LEMMA OtherBeginningsStep ==
  StepInv /\ (StartRaises \/ Retry \/ BeginReset) => StepInv'
<1>1. SUFFICES ASSUME StepInv, StartRaises \/ Retry \/ BeginReset PROVE StepInv'
  OBVIOUS
<1>2. /\ pc = "idle" /\ pc' \in {"save", "reset"} /\ status \in {"ready", "failed"}
      /\ pc' = "save" => dest' \in {"ready", "failed"}
      /\ pc' = "reset" => machine' = stored /\ status = "failed" /\ dest' = dest
      /\ UNCHANGED <<graph, rows, status, stored, doomed, crashes, misled>>
  BY <1>1 DEF StartRaises, Retry, BeginReset
<1>3. /\ stored \in Remembered \cup {NoMachine} /\ doomed = {} /\ Remembers(stored)
      /\ status = "ready" \/ stored.state = "failed"
  BY <1>1, <1>2 DEF StepInv, StepTypeOK, MachinesRemember, StartRaises, Retry, BeginReset
<1>4. /\ machine' \in Remembered
      /\ machine'.anchor = stored.anchor /\ machine'.collect = stored.collect
  <2>1. CASE machine' = Rehydrated
    BY <1>2, <1>3, <2>1 DEF Rehydrated, Remembered, NoMachine
  <2>2. CASE machine' = stored /\ stored.state = "failed"
    BY <1>3, <2>2 DEF Remembered, NoMachine
  <2>3. QED
    BY <1>1, <2>1, <2>2 DEF StartRaises, Retry, BeginReset
<1>5. StepTypeOK'
  BY <1>1, TypeStep DEF StepInv, StepNext
<1>6. MachinesRemember'
  BY <1>1, <1>2, <1>3, <1>4, SameGraph DEF MachinesRemember, Remembers
<1>7. WaitingIsHarmless' /\ ResetIsOnCourse' /\ EndIsOnCourse'
  BY <1>2, <1>3 DEF WaitingIsHarmless, ResetIsOnCourse, EndIsOnCourse, Forgets
<1>8. QED
  BY <1>1, <1>2, <1>5, <1>6, <1>7, SameGraph DEF StepInv

LEMMA FindGroupsStep == StepInv /\ FindGroups => StepInv'
<1>1. SUFFICES ASSUME StepInv, FindGroups PROVE StepInv'
  OBVIOUS
<1>2. /\ pc = "reset" /\ pc' \in {"collect", "idle", "groups"}
      /\ UNCHANGED <<graph, rows, status, stored, machine, dest, crashes, misled>>
  BY <1>1 DEF FindGroups
<1>3. /\ machine = stored /\ status = "failed" /\ Remembers(stored)
      /\ machine \in Remembered
  BY <1>1, <1>2 DEF StepInv, StepTypeOK, MachinesRemember, ResetIsOnCourse
<1>4. pc' # "groups" => doomed' = {}
  BY <1>1 DEF FindGroups
<1>5. pc' = "groups" =>
        /\ machine.anchor \in GroupsThere
        /\ doomed' = GroupsThere \ {machine.anchor}
  <2>1. SUFFICES ASSUME pc' = "groups"
                 PROVE  /\ machine.anchor \in GroupsThere
                        /\ doomed' = GroupsThere \ {machine.anchor}
    OBVIOUS
  <2>2. /\ machine.anchor \in rows
        /\ doomed' = {e[2] : e \in Out(graph, Step)} \ {machine.anchor}
    BY <1>1, <2>1 DEF FindGroups
  <2>3. rows \subseteq Nodes
    BY <1>1 DEF StepInv, StepTypeOK
  <2>4. machine.anchor \in GroupsThere
    BY <1>3, <2>2, <2>3, NewNodes DEF Remembered, GroupsThere
  <2>5. Collect \in rows /\ GroupsThere \in SUBSET Groups /\ GroupsThere # {}
    BY <1>1, <2>4, WithoutCollectNoGroups DEF StepInv, GroupsThere
  <2>6. Out(graph, Step) = {Step} \X GroupsThere
    BY <1>1, <2>5, ExpandedAround DEF StepInv, ShapeIsKnown
  <2>7. {e[2] : e \in {Step} \X GroupsThere} = GroupsThere
    <3>1. \A g \in GroupsThere : <<Step, g>> \in {Step} \X GroupsThere /\ <<Step, g>>[2] = g
      OBVIOUS
    <3>2. \A e \in {Step} \X GroupsThere : e[2] \in GroupsThere
      OBVIOUS
    <3>3. QED
      BY <3>1, <3>2
  <2>8. QED
    BY <2>2, <2>4, <2>6, <2>7
<1>n. pc' = "collect" => machine.anchor = NoNode /\ machine.anchor \notin rows
  BY <1>1, NewNodes DEF FindGroups, StepInv, StepTypeOK
<1>6. pc' = "collect" /\ machine.collect = Collect => GroupsThere = {}
  <2>1. SUFFICES ASSUME pc' = "collect", machine.collect = Collect PROVE GroupsThere = {}
    OBVIOUS
  <2>2. machine.anchor = NoNode
    BY <1>n, <2>1
  <2>3. CASE Collect \in rows
    BY <1>3, <2>1, <2>2, <2>3, NewNodes DEF Remembers, GroupsThere
  <2>4. CASE Collect \notin rows
    BY <1>1, <2>4, WithoutCollectNoGroups DEF StepInv
  <2>5. QED
    BY <2>3, <2>4
<1>7. StepTypeOK'
  BY <1>1, TypeStep DEF StepInv, StepNext
<1>8. MachinesRemember'
  BY <1>1, <1>2, <1>3, SameGraph DEF MachinesRemember, Remembers
<1>9. WaitingIsHarmless' /\ ResetIsOnCourse' /\ EndIsOnCourse'
  <2>1. GroupsThere' = GroupsThere
    BY <1>2 DEF GroupsThere
  <2>2. QED
    BY <1>2, <1>3, <1>5, <1>n, <1>6, <2>1 DEF WaitingIsHarmless, ResetIsOnCourse, EndIsOnCourse
<1>10. QED
  BY <1>1, <1>2, <1>7, <1>8, <1>9, SameGraph DEF StepInv

LEMMA DeleteGroupStep ==
  ASSUME StepInv, NEW g \in doomed, DeleteGroup(g)
  PROVE  StepInv'
<1>1. /\ pc = "groups" /\ graph' = Delete(graph, g, FALSE)
      /\ rows' = rows \ {g} /\ doomed' = doomed \ {g}
      /\ UNCHANGED <<status, stored, pc, machine, dest, crashes, misled>>
  BY DEF DeleteGroup
<1> DEFINE G == GroupsThere
<1>2. /\ machine = stored /\ status = "failed" /\ Remembers(stored)
      /\ machine.anchor \in G /\ doomed = G \ {machine.anchor} /\ G \in SUBSET Groups
  BY <1>1 DEF StepInv, MachinesRemember, ResetIsOnCourse, GroupsThere
<1>3. g \in G /\ g # machine.anchor /\ G \ {g} # {}
  BY <1>2
<1>4. GroupsThere' = G \ {g}
  BY <1>1 DEF GroupsThere
<1>5. Collect \in rows /\ g \notin Vertices(InitialEdges) /\ g # Collect
  BY <1>2, <1>3, WithoutCollectNoGroups, NewNodes DEF StepInv
<1>6. rows = Vertices(InitialEdges) \cup {Collect} \cup G /\ graph = Expanded(G)
  BY <1>5 DEF StepInv, ShapeIsKnown
<1> HIDE DEF G
<1>7. graph' = Expanded(G \ {g})
  BY <1>1, <1>2, <1>3, <1>6, DeletedGroup
<1>8. ShapeIsKnown'
  BY <1>1, <1>4, <1>5, <1>6, <1>7 DEF ShapeIsKnown
<1>9. StepTypeOK'
  BY <1>1, TypeStep DEF StepInv, StepNext
<1>10. MachinesRemember'
  BY <1>1, <1>2, <1>3, <1>4 DEF MachinesRemember, Remembers
<1>11. WaitingIsHarmless' /\ ResetIsOnCourse' /\ EndIsOnCourse'
  BY <1>1, <1>2, <1>3, <1>4 DEF StepInv, WaitingIsHarmless, ResetIsOnCourse, EndIsOnCourse
<1>12. QED
  BY <1>8, <1>9, <1>10, <1>11 DEF StepInv

LEMMA DeleteAnchorStep == StepInv /\ DeleteAnchor => StepInv'
<1>1. SUFFICES ASSUME StepInv, DeleteAnchor PROVE StepInv'
  OBVIOUS
<1>2. /\ pc = "groups" /\ pc' = "collect" /\ doomed = {} /\ doomed' = {}
      /\ graph' = Delete(graph, machine.anchor, TRUE)
      /\ rows' = rows \ {machine.anchor}
      /\ UNCHANGED <<status, stored, machine, dest, crashes, misled>>
  BY <1>1 DEF DeleteAnchor, WithoutAnchor
<1> DEFINE a == machine.anchor
<1>3. /\ machine = stored /\ status = "failed" /\ Remembers(stored)
      /\ GroupsThere = {a} /\ a \in Groups
  BY <1>1, <1>2 DEF StepInv, MachinesRemember, ResetIsOnCourse, GroupsThere
<1>4. GroupsThere' = {}
  BY <1>2, <1>3 DEF GroupsThere
<1>5. Collect \in rows /\ a \notin Vertices(InitialEdges) /\ a # Collect
  BY <1>1, <1>3, WithoutCollectNoGroups, NewNodes DEF StepInv
<1>6. rows = Vertices(InitialEdges) \cup {Collect} \cup {a} /\ graph = Expanded({a})
  BY <1>1, <1>3, <1>5 DEF StepInv, ShapeIsKnown
<1>7. graph' = Expanded({})
  BY <1>2, <1>3, <1>6, DeletedAnchor
<1>8. ShapeIsKnown'
  BY <1>2, <1>4, <1>5, <1>6, <1>7 DEF ShapeIsKnown
<1>9. StepTypeOK'
  BY <1>1, TypeStep DEF StepInv, StepNext
<1>10. MachinesRemember'
  BY <1>1, <1>2, <1>3, <1>4 DEF MachinesRemember, Remembers
<1>11. WaitingIsHarmless' /\ ResetIsOnCourse' /\ EndIsOnCourse'
  BY <1>2, <1>3, <1>4 DEF WaitingIsHarmless, ResetIsOnCourse, EndIsOnCourse
<1>12. QED
  BY <1>8, <1>9, <1>10, <1>11 DEF StepInv

LEMMA DeleteCollectStep == StepInv /\ DeleteCollect => StepInv'
<1>1. SUFFICES ASSUME StepInv, DeleteCollect PROVE StepInv'
  OBVIOUS
<1>2. /\ pc = "collect" /\ pc' = "save" /\ dest' = "waiting"
      /\ graph' = WithoutCollect(graph) /\ rows' = rows \ {machine.collect}
      /\ machine' = [machine EXCEPT !.anchor = NoNode, !.collect = NoNode]
      /\ UNCHANGED <<status, stored, doomed, crashes, misled>>
  BY <1>1 DEF DeleteCollect
<1>3. /\ machine = stored /\ status = "failed" /\ Remembers(stored)
      /\ machine \in Remembered /\ doomed = {} /\ rows \subseteq Nodes
      /\ machine.anchor \notin rows
      /\ machine.collect = Collect => GroupsThere = {}
  BY <1>1, <1>2 DEF StepInv, StepTypeOK, MachinesRemember, ResetIsOnCourse
<1>4. /\ machine' \in Remembered /\ machine'.anchor = NoNode /\ machine'.collect = NoNode
  BY <1>2, <1>3 DEF Remembered
<1>5. CASE machine.collect = Collect /\ Collect \in rows
  <2>1. graph = Expanded({}) /\ rows = Vertices(InitialEdges) \cup {Collect}
    BY <1>1, <1>3, <1>5 DEF StepInv, ShapeIsKnown
  <2>2. graph' = InitialEdges
    BY <1>2, <1>5, <2>1, DeletedCollect DEF WithoutCollect
  <2>3. rows' = Vertices(InitialEdges) /\ Collect \notin rows'
    BY <1>2, <1>5, <2>1, NewNodes
  <2>4. ShapeIsKnown'
    BY <2>2, <2>3 DEF ShapeIsKnown
  <2>5. StepTypeOK'
    BY <1>1, TypeStep DEF StepInv, StepNext
  <2>6. MachinesRemember'
    BY <1>2, <1>3, <1>4, <2>3, NewNodes DEF MachinesRemember, Remembers
  <2>7. WaitingIsHarmless' /\ ResetIsOnCourse' /\ EndIsOnCourse'
    BY <1>2, <1>3, <1>4, <2>2 DEF WaitingIsHarmless, ResetIsOnCourse, EndIsOnCourse, Forgets
  <2>8. QED
    BY <2>4, <2>5, <2>6, <2>7 DEF StepInv
<1>6. CASE ~(machine.collect = Collect /\ Collect \in rows)
  <2>1. machine.collect \notin rows
    BY <1>3, <1>6, NewNodes DEF Remembered
  <2>2. UNCHANGED <<graph, rows>>
    BY <1>2, <2>1 DEF WithoutCollect
  <2>3. stored.collect # NoNode => graph = InitialEdges
    BY <1>1, <1>3, <1>6 DEF StepInv, ShapeIsKnown, Remembered
  <2>4. StepTypeOK'
    BY <1>1, TypeStep DEF StepInv, StepNext
  <2>5. MachinesRemember'
    BY <1>1, <1>2, <1>3, <1>4, <2>2, NewNodes, SameGraph DEF MachinesRemember, Remembers
  <2>6. WaitingIsHarmless' /\ ResetIsOnCourse' /\ EndIsOnCourse'
    BY <1>2, <1>3, <1>4, <2>2, <2>3
       DEF WaitingIsHarmless, ResetIsOnCourse, EndIsOnCourse, Forgets
  <2>7. QED
    BY <1>1, <2>2, <2>4, <2>5, <2>6, SameGraph DEF StepInv
<1>7. QED
  BY <1>5, <1>6

LEMMA EndingsStep == StepInv /\ (SaveStatus \/ StoreMachine \/ Crash) => StepInv'
<1>1. SUFFICES ASSUME StepInv, SaveStatus \/ StoreMachine \/ Crash PROVE StepInv'
  OBVIOUS
<1>2. UNCHANGED <<graph, rows, dest>>
  BY <1>1 DEF SaveStatus, StoreMachine, Crash
<1>3. /\ machine \in Remembered /\ Remembers(stored)
      /\ pc # "idle" => Remembers(machine)
      /\ dest \in {"waiting", "ready", "failed"}
  BY <1>1 DEF StepInv, StepTypeOK, MachinesRemember
<1>4. ShapeIsKnown' /\ GroupsThere' = GroupsThere
  BY <1>1, <1>2, SameGraph
<1>5. CASE SaveStatus
  <2>1. /\ pc = "save" /\ pc' = "store" /\ status' = dest
        /\ machine' = [machine EXCEPT !.state = dest]
        /\ UNCHANGED <<graph, rows, stored, dest, doomed, crashes, misled>>
    BY <1>5 DEF SaveStatus
  <2>2. /\ machine' \in Remembered
        /\ machine'.anchor = machine.anchor /\ machine'.collect = machine.collect
    BY <1>3, <2>1 DEF Remembered
  <2>3. doomed = {}
    BY <1>1, <2>1 DEF StepInv, StepTypeOK
  <2>4. StepTypeOK'
    BY <1>1, TypeStep DEF StepInv, StepNext
  <2>5. MachinesRemember'
    BY <1>3, <1>4, <2>1, <2>2 DEF MachinesRemember, Remembers
  <2>6. WaitingIsHarmless' /\ ResetIsOnCourse' /\ EndIsOnCourse'
    BY <1>1, <2>1, <2>2
       DEF StepInv, WaitingIsHarmless, ResetIsOnCourse, EndIsOnCourse, Forgets, Harmless
  <2>7. QED
    BY <1>4, <2>4, <2>5, <2>6 DEF StepInv
<1>6. CASE StoreMachine
  <2>1. /\ pc = "store" /\ pc' = "idle" /\ stored' = machine
        /\ UNCHANGED <<graph, rows, status, machine, dest, doomed, crashes, misled>>
    BY <1>6 DEF StoreMachine, Pickle
  <2>2. status = dest /\ (dest = "waiting" => Forgets(machine))
    BY <1>1, <2>1 DEF StepInv, EndIsOnCourse
  <2>3. StepTypeOK'
    BY <1>1, TypeStep DEF StepInv, StepNext
  <2>4. MachinesRemember'
    BY <1>3, <1>4, <2>1 DEF MachinesRemember, Remembers
  <2>5. WaitingIsHarmless' /\ ResetIsOnCourse' /\ EndIsOnCourse'
    BY <2>1, <2>2 DEF WaitingIsHarmless, ResetIsOnCourse, EndIsOnCourse, Forgets, Harmless
  <2>6. QED
    BY <1>4, <2>3, <2>4, <2>5 DEF StepInv
<1>7. CASE Crash
  <2>1. /\ pc # "idle" /\ pc' = "idle" /\ doomed' = {} /\ crashes' = crashes + 1
        /\ UNCHANGED <<graph, rows, status, stored, machine, dest, misled>>
    BY <1>7 DEF Crash
  <2>2. StepTypeOK'
    BY <1>1, <1>7, TypeStep DEF StepInv, StepNext
  <2>3. MachinesRemember'
    BY <1>3, <1>4, <2>1 DEF MachinesRemember, Remembers
  <2>4. status = "waiting" => Forgets(stored) \/ stored.anchor \notin rows
    BY <1>1, <2>1 DEF StepInv, WaitingIsHarmless, EndIsOnCourse, Harmless
  <2>5. crashes' > 0
    BY <1>1, <2>1 DEF StepInv, StepTypeOK
  <2>6. WaitingIsHarmless' /\ ResetIsOnCourse' /\ EndIsOnCourse'
    BY <2>1, <2>4, <2>5
       DEF WaitingIsHarmless, ResetIsOnCourse, EndIsOnCourse, Forgets, Harmless
  <2>7. QED
    BY <1>4, <2>2, <2>3, <2>6 DEF StepInv
<1>8. QED
  BY <1>1, <1>5, <1>6, <1>7

LEMMA StutterStep == StepInv /\ UNCHANGED vars => StepInv'
BY DEF StepInv, vars, StepTypeOK, ShapeIsKnown, MachinesRemember, Remembers,
       WaitingIsHarmless, ResetIsOnCourse, EndIsOnCourse, GroupsThere, Harmless

StepsAreSound == StepTypeOK /\ (~misled => StepInv)

LEMMA SoundStep == StepsAreSound /\ [StepNext]_vars => StepsAreSound'
<1>1. SUFFICES ASSUME StepsAreSound, [StepNext]_vars PROVE StepsAreSound'
  OBVIOUS
<1>2. StepTypeOK'
  BY <1>1, TypeStep DEF StepsAreSound, StepInv
<1>3. misled => misled'
  <2>1. misled \in BOOLEAN
    BY <1>1 DEF StepsAreSound, StepTypeOK
  <2>2. CASE PrepareCommits
    BY <2>2 DEF PrepareCommits
  <2>3. CASE ~PrepareCommits
    BY <1>1, <2>3 DEF StepNext, vars, BeginPrepare, PrepareRaises, RenderEnds,
      StartRaises, Retry, BeginReset, FindGroups, DeleteGroup, DeleteAnchor,
      DeleteCollect, SaveStatus, StoreMachine, Crash
  <2>4. QED
    BY <2>2, <2>3
<1>4. ~misled' => StepInv'
  <2>1. SUFFICES ASSUME ~misled' PROVE StepInv'
    OBVIOUS
  <2>2. StepInv
    BY <1>1, <1>3, <2>1 DEF StepsAreSound
  <2>3. QED
    BY <1>1, <2>1, <2>2, BeginPrepareStep, PrepareCommitsStep, PrepareEndsStep,
       OtherBeginningsStep, FindGroupsStep, DeleteGroupStep, DeleteAnchorStep,
       DeleteCollectStep, EndingsStep, StutterStep DEF StepNext
<1>5. QED
  BY <1>2, <1>4 DEF StepsAreSound

LEMMA StepsStaySound == StepSpec => []StepsAreSound
<1>1. StepInit => StepsAreSound
  BY InitialInv DEF StepsAreSound, StepInv
<1>2. QED
  BY <1>1, SoundStep, PTL DEF StepSpec
-----------------------------------------------------------------------------
(* Theorems.  They assume nothing of when a process dies or a store fails: *)
(* what they exempt is what follows once groups were put in by a machine   *)
(* whose reset was lost, and that takes a crash.                           *)

(* For any graph, splits and crashes every variable has its type; and no   *)
(* machine is misled unless a process died or a machine was not stored.    *)
THEOREM StepTypeCorrect == StepSpec => []StepTypeOK
<1>1. StepsAreSound => StepTypeOK
  BY DEF StepsAreSound
<1>2. QED
  BY <1>1, StepsStaySound, PTL

(* Between any two commits of a prepare or a reset, and wherever they are  *)
(* cut short, the groups that are there run in parallel between the step   *)
(* and the collect node (make_group, do_unprepare), until groups are put   *)
(* in by a machine whose reset was lost.                                   *)
THEOREM GroupsStayParallel == StepSpec => []GroupsAreParallel
<1>1. StepsAreSound => GroupsAreParallel
  <2>1. SUFFICES ASSUME StepInv PROVE GroupsAreParallel
    BY DEF StepsAreSound, GroupsAreParallel
  <2>2. GroupsThere \in SUBSET Groups
    BY DEF GroupsThere
  <2>3. CASE Collect \in rows
    BY <2>1, <2>2, <2>3, ExpandedAround DEF StepInv, ShapeIsKnown, GroupsAreParallel
  <2>4. CASE Collect \notin rows
    BY <2>1, <2>4, WithoutCollectNoGroups DEF StepInv, GroupsAreParallel
  <2>5. QED
    BY <2>3, <2>4
<1>2. QED
  BY <1>1, StepsStaySound, PTL

(* With the same exemption, what followed the step follows the collect     *)
(* node while there is one, and the step again when there is none.         *)
THEOREM SuccessorsStayGuarded == StepSpec => []CollectGuardsSuccessors
<1>1. StepsAreSound => CollectGuardsSuccessors
  <2>1. SUFFICES ASSUME StepInv, NEW e \in Out(InitialEdges, Step)
                 PROVE  IF Collect \in rows THEN <<Collect, e[2]>> \in graph /\ e \notin graph
                        ELSE e \in graph /\ GroupsThere = {}
    BY DEF StepsAreSound, CollectGuardsSuccessors
  <2>2. /\ e \in InitialEdges /\ e[1] = Step /\ e[2] \in Vertices(InitialEdges)
        /\ e = <<e[1], e[2]>>
    BY NewNodes, EdgeEnds DEF Out
  <2>3. CASE Collect \in rows
    <3>1. GroupsThere \in SUBSET Groups /\ graph = Expanded(GroupsThere)
      BY <2>1, <2>3 DEF StepInv, ShapeIsKnown, GroupsThere
    <3>2. <<Collect, e[2]>> \in graph
      BY <2>2, <3>1, ExpandedEdge
    <3>3. e \notin graph
      <4>1. /\ e # <<Step, Collect>> /\ Step # Collect
            /\ \A g \in GroupsThere : e # <<Step, g>> /\ e # <<g, Collect>>
        BY <2>2, <3>1, NewNodes
      <4>2. QED
        BY <2>2, <3>1, <4>1, ExpandedEdge
    <3>4. QED
      BY <2>3, <3>2, <3>3
  <2>4. CASE Collect \notin rows
    BY <2>1, <2>2, <2>4, WithoutCollectNoGroups DEF StepInv, ShapeIsKnown
  <2>5. QED
    BY <2>3, <2>4
<1>2. QED
  BY <1>1, StepsStaySound, PTL

(* If validate_graph accepts the graph without groups, and the step is not *)
(* its first or last node, it accepts whatever prepare and reset commit,   *)
(* and every node of it has a row: a campaign that is paused halfway can   *)
(* be resumed.  The exemption is the same.                                 *)
THEOREM CommittedIsValid ==
  ASSUME StartsValid
  PROVE  StepSpec => []CommittedGraphIsValid
<1>1. StepsAreSound => CommittedGraphIsValid
  <2>1. SUFFICES ASSUME StepInv PROVE ValidGraph(graph)
    <3>1. StepInv => Vertices(graph) \subseteq rows
      BY ShapeIsTyped DEF StepInv
    <3>2. QED
      BY <3>1 DEF StepsAreSound, CommittedGraphIsValid
  <2>2. GroupsThere \in SUBSET Groups
    BY DEF GroupsThere
  <2>3. CASE Collect \in rows
    BY <2>1, <2>2, <2>3, ExpandedIsValid DEF StepInv, ShapeIsKnown
  <2>4. CASE Collect \notin rows
    BY <2>1, <2>4 DEF StepInv, ShapeIsKnown, StartsValid
  <2>5. QED
    BY <2>3, <2>4
<1>2. QED
  BY <1>1, StepsStaySound, PTL

(* A reset by a machine that knows its collect node ends with the graph as *)
(* it was before the step was prepared, whichever resets before it were    *)
(* cut short, and with the same exemption.                                 *)
THEOREM ResetsRestore == StepSpec => RememberedResetRestores
<1>1. ASSUME StepsAreSound, [StepNext]_vars, Resets, stored.collect # NoNode, ~misled
      PROVE  graph' = InitialEdges
  <2>1. SaveStatus
    BY <1>1 DEF Resets, StepNext, vars, BeginPrepare, PrepareCommits, PrepareRaises,
                RenderEnds, StartRaises, Retry, BeginReset, FindGroups, DeleteGroup,
                DeleteAnchor, DeleteCollect, StoreMachine, Crash
  <2>2. QED
    BY <1>1, <2>1 DEF StepsAreSound, StepInv, EndIsOnCourse, SaveStatus, Resets
<1>2. StepsAreSound /\ [StepNext]_vars =>
        [Resets /\ stored.collect # NoNode /\ ~misled => graph' = InitialEdges]_vars
  BY <1>1
<1>3. QED
  BY <1>2, StepsStaySound, PTL DEF StepSpec, RememberedResetRestores
-----------------------------------------------------------------------------
(* The splitters                                                           *)

LEMMA DivMod ==
  ASSUME NEW a \in Int, NEW b \in Nat, b > 0
  PROVE  /\ a \div b \in Int /\ a % b \in 0..(b - 1)
         /\ a = b * (a \div b) + (a % b)
OBVIOUS

LEMMA MulMono ==
  ASSUME NEW a \in Int, NEW b \in Int, NEW c \in Nat, a <= b
  PROVE  c * a <= c * b
OBVIOUS

LEMMA MulCancel ==
  ASSUME NEW a \in Int, NEW b \in Int, NEW c \in Nat, c * a < c * b
  PROVE  a < b
OBVIOUS

LEMMA Distributes ==
  ASSUME NEW a \in Int, NEW b \in Int, NEW c \in Int
  PROVE  c * (a + b) = c * a + c * b
OBVIOUS

(* A multiple of k leaves no rest.                                         *)
LEMMA Multiple ==
  ASSUME NEW a \in Nat, NEW k \in Nat, k > 0
  PROVE  (k * a) % k = 0
OBVIOUS
-----------------------------------------------------------------------------
LEMMA SizeIsSound ==
  ASSUME NEW n \in Nat, NEW min \in Nat, NEW max \in Nat, Splittable(n, min, max)
  PROVE  LET size == GroupSize(n, min, max)
         IN  size \in Nat /\ size > 0 /\ size <= max /\ min * size <= n
<1>1. /\ n \div min \in Int /\ n % min \in 0..(min - 1)
      /\ n = min * (n \div min) + (n % min)
  BY DivMod DEF Splittable
<1>2. n \div min > 0
  <2>1. CASE n \div min <= 0
    <3>1. min * (n \div min) <= min * 0
      BY <2>1, <1>1, MulMono
    <3> QED BY <3>1, <1>1 DEF Splittable
  <2> QED BY <2>1, <1>1
<1>3. min * GroupSize(n, min, max) <= min * (n \div min)
  BY <1>1, MulMono DEF GroupSize
<1>4. min * GroupSize(n, min, max) \in Int
  BY <1>1 DEF GroupSize
<1> QED BY <1>1, <1>2, <1>3, <1>4 DEF GroupSize, Splittable

LEMMA CountIsSound ==
  ASSUME NEW n \in Nat, NEW size \in Nat, size > 0
  PROVE  LET k == GroupCount(n, size)
         IN  k \in Nat /\ n <= size * k /\ size * (k - 1) < n /\ k <= n
<1> DEFINE q == n \div size
           r == n % size
           k == GroupCount(n, size)
<1>1. q \in Int /\ r \in 0..(size - 1) /\ n = size * q + r
  BY DivMod
<1>2. q >= 0
  <2>1. CASE q <= -1
    <3>1. size * q <= size * (-1)
      BY <2>1, <1>1, MulMono
    <3> QED BY <3>1, <1>1
  <2> QED BY <2>1, <1>1
<1>3. k = IF r = 0 THEN q ELSE q + 1
  BY <1>1 DEF GroupCount
<1>4. CASE r = 0
  <2>1. k = q /\ n = size * k
    BY <1>1, <1>3, <1>4
  <2>2. size * (k - 1) = size * k - size
    BY <2>1, <1>1
  <2>3. 1 * k <= size * k
    BY <1>1, <1>2, <2>1
  <2> QED BY <1>1, <1>2, <2>1, <2>2, <2>3
<1>5. CASE r # 0
  <2>1. k = q + 1
    BY <1>3, <1>5
  <2>2. size * k = size * q + size
    BY <2>1, <1>1
  <2>3. q <= size * q
    BY <1>1, <1>2
  <2> QED BY <1>1, <1>2, <1>5, <2>1, <2>2, <2>3
<1> HIDE DEF k
<1> QED BY <1>1, <1>4, <1>5 DEF k

(* There are no fewer groups than were asked for.                          *)
LEMMA CountReachesMinimum ==
  ASSUME NEW n \in Nat, NEW min \in Nat, NEW size \in Nat, NEW k \in Nat,
         size > 0, min * size <= n, n <= size * k
  PROVE  min <= k
<1>1. CASE k < min
  <2>1. size * (k + 1) <= size * min
    BY <1>1, MulMono
  <2>2. size * (k + 1) = size * k + size
    BY Distributes
  <2> QED BY <2>1, <2>2
<1> QED BY <1>1
-----------------------------------------------------------------------------
(* A boundary, without a division.                                         *)
Bounds(n, k, i, b) ==
  /\ k * b <= i * n
  /\ i * n < k * (b + 1) \/ (i * n = k * (b + 1) /\ n % k # 0)

LEMMA BoundaryIsBounded ==
  ASSUME NEW n \in Nat, NEW k \in Nat, k > 0, NEW i \in Nat, NEW b \in Boundary(n, k, i)
  PROVE  b \in Nat /\ Bounds(n, k, i, b)
<1> DEFINE p == i * n
           f == p \div k
           r == p % k
<1>1. b \in Nat /\ (b = f \/ (b + 1 = f /\ r = 0 /\ n % k # 0))
  BY DEF Boundary
<1>2. p \in Int
  OBVIOUS
<1>3. f \in Int /\ r \in 0..(k - 1) /\ p = k * f + r
  <2> HIDE DEF p
  <2> QED BY DivMod, <1>2
<1> HIDE DEF p, f, r
<1>4. k * (b + 1) = k * b + k /\ k * b \in Int
  BY <1>1
<1>5. CASE b = f
  BY <1>2, <1>3, <1>4, <1>5, <1>1 DEF Bounds, p
<1>6. CASE b + 1 = f /\ r = 0 /\ n % k # 0
  BY <1>2, <1>3, <1>4, <1>6, <1>1 DEF Bounds, p
<1> QED BY <1>1, <1>5, <1>6

(* Boundaries are apart ...                                                *)
LEMMA Apart ==
  ASSUME NEW n \in Nat, NEW k \in Nat, k > 0, k <= n,
         NEW i \in Nat, NEW j \in Nat, i < j,
         NEW b \in Nat, NEW c \in Nat, Bounds(n, k, i, b), Bounds(n, k, j, c)
  PROVE  b < c
<1>1. n * (i + 1) <= n * j
  BY MulMono
<1>2. n * (i + 1) = i * n + n /\ n * j = j * n
  OBVIOUS
<1>3. k * b + n <= j * n
  BY <1>1, <1>2 DEF Bounds
<1>4. k * (c + 1) = k * c + k
  OBVIOUS
<1>5. k * b < k * c
  <2>1. CASE j * n < k * (c + 1)
    BY <1>3, <1>4, <2>1
  <2>2. CASE j * n = k * (c + 1) /\ n % k # 0
    <3>1. n # k
      BY <2>2
    <3> QED BY <1>3, <1>4, <2>2, <3>1
  <2> QED BY <2>1, <2>2 DEF Bounds
<1> QED BY <1>5, MulCancel

(* ... and those of neighbours not too far apart.                          *)
LEMMA Near ==
  ASSUME NEW n \in Nat, NEW k \in Nat, k > 0, NEW size \in Nat, n <= size * k,
         NEW i \in Nat, NEW b \in Nat, NEW c \in Nat,
         Bounds(n, k, i, b), Bounds(n, k, i + 1, c)
  PROVE  c - b <= size
<1>1. (i + 1) * n = i * n + n
  OBVIOUS
<1>2. k * (b + 1 + size) = k * (b + 1) + size * k
  OBVIOUS
<1>3. k * c < k * (b + 1 + size)
  <2>1. CASE i * n < k * (b + 1)
    BY <1>1, <1>2, <2>1 DEF Bounds
  <2>2. CASE i * n = k * (b + 1) /\ n % k # 0
    <3>1. n # size * k
      <4>1. size * k = k * size
        OBVIOUS
      <4> QED BY <2>2, <4>1, Multiple
    <3> QED BY <1>1, <1>2, <2>2, <3>1 DEF Bounds
  <2> QED BY <2>1, <2>2 DEF Bounds
<1>4. c < b + 1 + size
  BY <1>3, MulCancel
<1> QED BY <1>4

(* The position after the last id of a group.                              *)
End(B, n, k, i) == IF i < k - 1 THEN B[i + 1] ELSE n

LEMMA GroupsHaveEnds ==
  ASSUME NEW n \in Nat, NEW k \in Nat, k > 0, NEW B, IsPartition(B, n, k),
         NEW i \in 0..(k - 1)
  PROVE  /\ B[i] \in Nat /\ Bounds(n, k, i, B[i])
         /\ End(B, n, k, i) \in Nat /\ Bounds(n, k, i + 1, End(B, n, k, i))
<1>1. B[i] \in Nat /\ Bounds(n, k, i, B[i])
  <2>1. B[i] \in Boundary(n, k, i)
    BY DEF IsPartition
  <2> QED BY <2>1, BoundaryIsBounded
<1>2. CASE i < k - 1
  <2>1. B[i + 1] \in Boundary(n, k, i + 1)
    BY <1>2 DEF IsPartition
  <2>2. B[i + 1] \in Nat /\ Bounds(n, k, i + 1, B[i + 1])
    BY <2>1, BoundaryIsBounded
  <2> QED BY <1>1, <1>2, <2>2 DEF End
<1>3. CASE i = k - 1
  <2>1. k * (n + 1) = k * n + k
    OBVIOUS
  <2> QED BY <1>1, <1>3, <2>1 DEF End, Bounds
<1> QED BY <1>2, <1>3

(* The groups of a query split: no fewer than min_groups, none empty, none *)
(* of more than max_size ids (QuerySplitter), the first from the first id  *)
(* on, each up to where the next begins.                                   *)
THEOREM SplitKeepsBounds ==
  ASSUME NEW n \in Nat, NEW min \in Nat, NEW max \in Nat, Splittable(n, min, max),
         NEW B, IsPartition(B, n, GroupCount(n, GroupSize(n, min, max)))
  PROVE  LET k == GroupCount(n, GroupSize(n, min, max))
         IN  /\ k >= min /\ k > 0
             /\ B[0] = 0
             /\ \A i \in 0..(k - 1) : End(B, n, k, i) - B[i] \in 1..max
<1> DEFINE size == GroupSize(n, min, max)
           k    == GroupCount(n, size)
<1>1. size \in Nat /\ size > 0 /\ size <= max /\ min * size <= n
  BY SizeIsSound
<1>2. k \in Nat /\ n <= size * k /\ size * (k - 1) < n /\ k <= n
  <2> HIDE DEF size
  <2> QED BY <1>1, CountIsSound
<1>3. min > 0
  BY DEF Splittable
<1>4. IsPartition(B, n, k)
  OBVIOUS
<1> HIDE DEF size, k
<1>5. k >= min
  BY <1>1, <1>2, CountReachesMinimum
<1>6. k > 0
  BY <1>2, <1>3, <1>5
<1>7. B[0] = 0
  <2>1. 0 \in 0..(k - 1)
    BY <1>2, <1>6
  <2>2. B[0] \in Nat /\ Bounds(n, k, 0, B[0])
    BY <1>2, <1>4, <1>6, <2>1, GroupsHaveEnds
  <2>3. k * B[0] <= 0
    BY <2>2 DEF Bounds
  <2> QED BY <1>2, <1>6, <2>2, <2>3
<1>8. ASSUME NEW i \in 0..(k - 1)
      PROVE  End(B, n, k, i) - B[i] \in 1..max
  <2> DEFINE e == End(B, n, k, i)
  <2>1. /\ B[i] \in Nat /\ Bounds(n, k, i, B[i])
        /\ e \in Nat /\ Bounds(n, k, i + 1, e)
    BY <1>2, <1>4, <1>6, GroupsHaveEnds
  <2> HIDE DEF e
  <2>2. i \in Nat /\ i + 1 \in Nat /\ i < i + 1
    BY <1>2
  <2>3. B[i] < e
    BY <1>2, <1>6, <2>1, <2>2, Apart
  <2>4. e - B[i] <= size
    BY <1>1, <1>2, <1>6, <2>1, <2>2, Near
  <2> QED BY <1>1, <2>1, <2>3, <2>4 DEF e
<1> QED BY <1>5, <1>6, <1>7, <1>8 DEF k, size

-----------------------------------------------------------------------------
Increasing(sorted, n) ==
  /\ sorted \in [0..(n - 1) -> Int]
  /\ \A x, y \in 0..(n - 1) : x < y => sorted[x] < sorted[y]

LEMMA StartsBeforeEnd ==
  ASSUME NEW n \in Nat, NEW k \in Nat, k > 0, k <= n, NEW B, IsPartition(B, n, k),
         NEW i \in 0..(k - 1)
  PROVE  B[i] \in 0..(n - 1)
<1>1. B[i] \in Nat /\ Bounds(n, k, i, B[i])
  BY GroupsHaveEnds
<1>2. Bounds(n, k, k, n)
  <2>1. k * (n + 1) = k * n + k
    OBVIOUS
  <2> QED BY <2>1 DEF Bounds
<1>3. B[i] < n
  BY <1>1, <1>2, Apart
<1> QED BY <1>1, <1>3

(* A group selects the ids between its boundaries.                         *)
LEMMA SelectedByPosition ==
  ASSUME NEW n \in Nat, NEW k \in Nat, k > 0, k <= n, NEW B, IsPartition(B, n, k),
         NEW sorted, Increasing(sorted, n),
         NEW i \in 0..(k - 1), NEW x \in 0..(n - 1)
  PROVE  Selects(B, k, sorted, i, sorted[x]) <=> B[i] <= x /\ x < End(B, n, k, i)
<1>1. sorted[B[i]] <= sorted[x] <=> B[i] <= x
  <2>1. B[i] \in 0..(n - 1)
    BY StartsBeforeEnd
  <2> QED BY <2>1 DEF Increasing
<1>2. CASE i < k - 1
  <2>1. B[i + 1] \in 0..(n - 1)
    BY <1>2, StartsBeforeEnd
  <2>2. sorted[x] < sorted[B[i + 1]] <=> x < B[i + 1]
    BY <2>1 DEF Increasing
  <2> QED BY <1>1, <1>2, <2>2 DEF Selects, End
<1>3. CASE i = k - 1
  BY <1>1, <1>3 DEF Selects, End
<1> QED BY <1>2, <1>3

(* Every id is in exactly one group: none of the step's data is left out,  *)
(* and none is processed twice.                                            *)
THEOREM EveryIdInOneGroup ==
  ASSUME NEW n \in Nat, NEW min \in Nat, NEW max \in Nat, Splittable(n, min, max),
         NEW B, IsPartition(B, n, GroupCount(n, GroupSize(n, min, max))),
         NEW sorted, Increasing(sorted, n), NEW x \in 0..(n - 1)
  PROVE  LET k == GroupCount(n, GroupSize(n, min, max))
         IN  /\ \E i \in 0..(k - 1) : Selects(B, k, sorted, i, sorted[x])
             /\ \A i, j \in 0..(k - 1) :
                  Selects(B, k, sorted, i, sorted[x]) /\ Selects(B, k, sorted, j, sorted[x]) => i = j
<1> DEFINE k == GroupCount(n, GroupSize(n, min, max))
           InGroup(i) == B[i] <= x /\ x < End(B, n, k, i)
<1>1. k \in Nat /\ k <= n /\ k > 0 /\ IsPartition(B, n, k)
  <2>1. GroupSize(n, min, max) \in Nat /\ GroupSize(n, min, max) > 0
    BY SizeIsSound
  <2>2. k > 0
    BY SplitKeepsBounds
  <2> QED BY <2>1, <2>2, CountIsSound
<1> HIDE DEF k
<1>2. \A i \in 0..(k - 1) : Selects(B, k, sorted, i, sorted[x]) <=> InGroup(i)
  BY <1>1, SelectedByPosition
<1>3. \E i \in 0..(k - 1) : InGroup(i)
  <2> DEFINE p == (x + 1) * k - 1
             q == p \div n
  <2>1. n > 0 /\ p \in Int
    BY <1>1
  <2>2. q \in Int /\ p % n \in 0..(n - 1) /\ p = n * q + (p % n)
    <3> HIDE DEF p
    <3> QED BY <2>1, DivMod
  <2>3. n * (q + 1) = n * q + n
    BY <2>2
  <2>4. n * q < (x + 1) * k /\ (x + 1) * k <= n * (q + 1)
    <3> HIDE DEF q
    <3> QED BY <1>1, <2>1, <2>2, <2>3
  <2> HIDE DEF p, q
  <2>5. q \in 0..(k - 1)
    <3>1. n * 0 < n * (q + 1)
      <4>1. (x + 1) * k > 0
        BY <1>1
      <4> QED BY <1>1, <2>2, <2>3, <2>4, <4>1
    <3>2. 0 < q + 1
      BY <2>2, <3>1, MulCancel
    <3>3. (x + 1) * k <= n * k
      <4>1. k * (x + 1) <= k * n
        BY <1>1, MulMono
      <4> QED BY <1>1, <4>1
    <3>4. n * q < n * k
      BY <1>1, <2>2, <2>4, <3>3
    <3>5. q < k
      BY <1>1, <2>2, <3>4, MulCancel
    <3> QED BY <1>1, <2>2, <3>2, <3>5
  <2>6. B[q] <= x
    <3>1. B[q] \in Nat /\ k * B[q] <= q * n
      BY <1>1, <2>5, GroupsHaveEnds DEF Bounds
    <3>2. q * n = n * q /\ (x + 1) * k = k * (x + 1)
      BY <1>1, <2>2
    <3>3. k * B[q] < k * (x + 1)
      BY <1>1, <2>2, <2>4, <3>1, <3>2
    <3>4. B[q] < x + 1
      BY <1>1, <3>1, <3>3, MulCancel
    <3> QED BY <3>1, <3>4
  <2>7. CASE x < End(B, n, k, q)
    BY <2>5, <2>6, <2>7
  <2>8. CASE ~(x < End(B, n, k, q))
    <3>1. q < k - 1 /\ B[q + 1] <= x
      BY <1>1, <2>5, <2>8, GroupsHaveEnds DEF End
    <3>2. q + 1 \in 0..(k - 1)
      BY <1>1, <2>5, <3>1
    <3>3. /\ B[q + 1] \in Nat /\ Bounds(n, k, q + 1, B[q + 1])
          /\ End(B, n, k, q + 1) \in Nat /\ Bounds(n, k, q + 2, End(B, n, k, q + 1))
      <4>1. (q + 1) + 1 = q + 2
        BY <2>2
      <4> QED BY <1>1, <3>2, <4>1, GroupsHaveEnds
    <3>4. B[q + 1] < End(B, n, k, q + 1)
      BY <1>1, <2>5, <3>3, Apart
    <3>5. x <= B[q + 1]
      <4>1. (q + 1) * n <= k * (B[q + 1] + 1)
        BY <1>1, <2>5, <3>3 DEF Bounds
      <4>2. (q + 1) * n = n * (q + 1) /\ (x + 1) * k = k * (x + 1)
        BY <1>1, <2>2
      <4>3. k * (x + 1) <= k * (B[q + 1] + 1)
        BY <1>1, <2>2, <2>4, <3>3, <4>1, <4>2
      <4>4. CASE B[q + 1] + 1 < x + 1
        <5>1. k * (B[q + 1] + 2) <= k * (x + 1)
          BY <1>1, <3>3, <4>4, MulMono
        <5>2. k * (B[q + 1] + 2) = k * (B[q + 1] + 1) + k
          BY <1>1, <3>3
        <5> QED BY <1>1, <3>3, <4>3, <5>1, <5>2
      <4> QED BY <3>3, <4>4
    <3> QED BY <3>1, <3>2, <3>3, <3>4, <3>5
  <2> QED BY <2>7, <2>8
<1>4. ASSUME NEW i \in 0..(k - 1), NEW j \in 0..(k - 1), i < j, InGroup(i), InGroup(j)
      PROVE  FALSE
  <2>1. /\ B[j] \in Nat /\ Bounds(n, k, j, B[j])
        /\ B[i + 1] = End(B, n, k, i) /\ B[i + 1] \in Nat /\ Bounds(n, k, i + 1, B[i + 1])
    BY <1>1, <1>4, GroupsHaveEnds DEF End
  <2>2. B[i + 1] <= B[j]
    <3>1. CASE i + 1 = j
      BY <2>1, <3>1
    <3>2. CASE i + 1 < j
      BY <1>1, <2>1, <3>2, Apart
    <3> QED BY <1>1, <1>4, <3>1, <3>2
  <2> QED BY <1>4, <2>1, <2>2
<1>5. \A i, j \in 0..(k - 1) : InGroup(i) /\ InGroup(j) => i = j
  BY <1>1, <1>4
<1> HIDE DEF InGroup
<1> QED BY <1>2, <1>3, <1>5 DEF k

-----------------------------------------------------------------------------
(* The legacy splitter's groups hold every id too, even where the ids that *)
(* it has sorted are not all different (SplitByQuery).                     *)
THEOREM LegacySplitCovers ==
  ASSUME NEW n \in Nat, NEW step \in Nat, step > 0,
         NEW sorted \in [0..(n - 1) -> Int],
         \A x, y \in 0..(n - 1) : x <= y => sorted[x] <= sorted[y],
         NEW x \in 0..(n - 1)
  PROVE  \E j \in LegacyGroups(n, step) : LegacySelects(n, step, sorted, j, sorted[x])
<1> DEFINE j == x \div step
<1>1. j \in Int /\ x % step \in 0..(step - 1) /\ x = step * j + (x % step)
  BY DivMod
<1>2. j \in Nat
  <2>1. CASE j <= -1
    <3> HIDE DEF j
    <3>1. step * j <= step * (-1)
      BY <1>1, <2>1, MulMono
    <3> QED BY <1>1, <3>1
  <2> QED BY <1>1, <2>1
<1> HIDE DEF j
<1>3. j * step = step * j /\ (j + 1) * step = step * j + step
  BY <1>2
<1>4. j * step <= x /\ x < (j + 1) * step /\ j * step \in 0..(n - 1)
  BY <1>1, <1>2, <1>3
<1>5. j \in LegacyGroups(n, step)
  BY <1>2, <1>4 DEF LegacyGroups
<1>6. sorted[j * step] <= sorted[x]
  BY <1>4
<1>7. (j + 1) * step \in Nat /\ sorted[x] \in Int /\ sorted[j * step] \in Int
  BY <1>1, <1>2, <1>3, <1>4
<1>8. CASE (j + 1) * step >= n
  <2>1. ~((j + 1) * step < n)
    BY <1>7, <1>8
  <2>2. LegacySelects(n, step, sorted, j, sorted[x])
    BY <1>6, <2>1 DEF LegacySelects
  <2> QED BY <1>5, <2>2
<1>9. CASE (j + 1) * step < n
  <2>1. (j + 1) * step \in 0..(n - 1) /\ j + 1 \in LegacyGroups(n, step)
    BY <1>2, <1>7, <1>9 DEF LegacyGroups
  <2>2. sorted[(j + 1) * step] \in Int
    BY <2>1
  <2>3. CASE sorted[x] < sorted[(j + 1) * step]
    <3>1. LegacySelects(n, step, sorted, j, sorted[x])
      BY <1>6, <2>3 DEF LegacySelects
    <3> QED BY <1>5, <3>1
  <2>4. CASE ~(sorted[x] < sorted[(j + 1) * step])
    <3>1. sorted[x] <= sorted[(j + 1) * step]
      BY <1>4, <2>1
    <3>2. sorted[(j + 1) * step] = sorted[x]
      BY <1>7, <2>2, <2>4, <3>1
    <3>3. LegacySelects(n, step, sorted, j + 1, sorted[x])
      BY <1>7, <3>2 DEF LegacySelects
    <3> QED BY <2>1, <3>3
  <2> QED BY <2>3, <2>4
<1> QED BY <1>7, <1>8, <1>9
=============================================================================
