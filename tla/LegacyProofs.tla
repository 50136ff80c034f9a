---------------------------- MODULE LegacyProofs ----------------------------
(***************************************************************************)
(* Proofs about LegacyProcessing, for every tree of elements, scripts,     *)
(* queue, requests, mishaps and number of crashes.  A pass is a function   *)
(* of what it has read, so most of the work is about one pass: what each   *)
(* part of it does to the statuses (Runs) is kept when parts follow each   *)
(* other (RunsOn) and when one is done for each of several children        *)
(* (PassAllRuns), and a level of the tree does it if the level below does  *)
(* (ElementRuns), whence the whole pass (PassRuns).  The invariants of the *)
(* system then follow action by action.                                    *)
(***************************************************************************)
EXTENDS LegacyProcessing, FiniteSetTheorems, WellFoundedInduction, TLAPS

-----------------------------------------------------------------------------
(* The tree                                                                *)

(* An element with the elements below it, and with the scripts of these.   *)
Family(e) == {e} \cup Kids({e}) \cup Kids(Kids({e})) \cup Kids(Kids(Kids({e})))

Tree(e) == Family(e) \cup UNION {ScriptsIn(f) : f \in Family(e)}

Under(e) == Tree(e) \ {e}

LEMMA KidsOfSets ==
  /\ \A A, B : A \subseteq B => Kids(A) \subseteq Kids(B)
  /\ \A A : Kids(A) = UNION {Kids({e}) : e \in A}
  /\ \A A \in SUBSET Elements : Kids(A) \subseteq Elements
  /\ \A A, B \in SUBSET Elements : A \cap B = {} => Kids(A) \cap Kids(B) = {}
<1>1. \A A : Kids(A) = UNION {Kids({e}) : e \in A}
  BY DEF Kids
<1>2. \A A, B : A \subseteq B => Kids(A) \subseteq Kids(B)
  BY DEF Kids
<1>3. \A e \in Elements : Kids({e}) \subseteq Elements
  BY TreeAssumption DEF Kids, Seqs!ToSet
<1>m. \A A : \A x \in Kids(A) : \E e \in A : x \in Kids({e})
  BY DEF Kids
<1>4. ASSUME NEW A \in SUBSET Elements PROVE Kids(A) \subseteq Elements
  <2>1. ASSUME NEW x \in Kids(A) PROVE x \in Elements
    <3>1. PICK e \in A : x \in Kids({e})
      BY <1>m
    <3> QED
      BY <1>3, <3>1
  <2> QED
    BY <2>1
<1>5. ASSUME NEW A \in SUBSET Elements, NEW B \in SUBSET Elements, A \cap B = {}
      PROVE  Kids(A) \cap Kids(B) = {}
  <2>1. \A a \in A, b \in B : Kids({a}) \cap Kids({b}) = {}
    BY <1>5, TreeAssumption
  <2>2. ASSUME NEW x \in Kids(A), x \in Kids(B) PROVE FALSE
    <3>1. PICK a \in A : x \in Kids({a})
      BY <1>m
    <3>2. PICK b \in B : x \in Kids({b})
      BY <1>m, <2>2
    <3> QED
      BY <2>1, <3>1, <3>2
  <2> QED
    BY <2>2
<1> QED
  BY <1>1, <1>2, <1>4, <1>5

(* The elements below an element, level by level.                          *)
LEMMA Levels ==
  ASSUME NEW e \in Elements
  PROVE  /\ Kids({e}) \subseteq Elements /\ Kids(Kids({e})) \subseteq Elements
         /\ Kids(Kids(Kids({e}))) \subseteq Elements
         /\ Kids(Kids(Kids(Kids({e})))) = {}
         /\ e = Campaign => /\ Kids({e}) \subseteq Steps /\ Kids(Kids({e})) \subseteq Groups
                            /\ Kids(Kids(Kids({e}))) \subseteq Jobs
         /\ e \in Steps  => /\ Kids({e}) \subseteq Groups /\ Kids(Kids({e})) \subseteq Jobs
                            /\ Kids(Kids(Kids({e}))) = {}
         /\ e \in Groups => /\ Kids({e}) \subseteq Jobs /\ Kids(Kids({e})) = {}
                            /\ Kids(Kids(Kids({e}))) = {}
         /\ e \in Jobs   => /\ Kids({e}) = {} /\ Kids(Kids({e})) = {}
                            /\ Kids(Kids(Kids({e}))) = {}
<1>0. Kids({}) = {}
  BY DEF Kids
<1>1. /\ Kids({e}) \subseteq Elements /\ Kids(Kids({e})) \subseteq Elements
      /\ Kids(Kids(Kids({e}))) \subseteq Elements
  BY KidsOfSets, {e} \in SUBSET Elements
<1>2. CASE e = Campaign
  <2>1. Kids({e}) \subseteq Steps /\ Kids(Kids({e})) \subseteq Kids(Steps)
    BY <1>2, TreeAssumption, KidsOfSets
  <2>2. Kids(Kids({e})) \subseteq Groups
    BY <2>1, TreeAssumption
  <2>3. Kids(Kids(Kids({e}))) \subseteq Kids(Groups)
    BY <2>2, KidsOfSets
  <2>4. Kids(Kids(Kids({e}))) \subseteq Jobs
    BY <2>3, TreeAssumption
  <2>5. Kids(Kids(Kids(Kids({e})))) \subseteq Kids(Jobs)
    BY <2>4, KidsOfSets
  <2> QED
    BY <1>1, <1>2, <2>1, <2>2, <2>4, <2>5, TreeAssumption
<1>3. CASE e \in Steps
  <2>1. Kids({e}) \subseteq Kids(Steps)
    BY <1>3, KidsOfSets, {e} \subseteq Steps
  <2>2. Kids({e}) \subseteq Groups
    BY <2>1, TreeAssumption
  <2>3. Kids(Kids({e})) \subseteq Kids(Groups)
    BY <2>2, KidsOfSets
  <2>4. Kids(Kids({e})) \subseteq Jobs
    BY <2>3, TreeAssumption
  <2>5. Kids(Kids(Kids({e}))) \subseteq Kids(Jobs)
    BY <2>4, KidsOfSets
  <2> QED
    BY <1>0, <1>1, <1>3, <2>2, <2>4, <2>5, TreeAssumption
<1>4. CASE e \in Groups
  <2>1. Kids({e}) \subseteq Kids(Groups)
    BY <1>4, KidsOfSets, {e} \subseteq Groups
  <2>2. Kids({e}) \subseteq Jobs
    BY <2>1, TreeAssumption
  <2>3. Kids(Kids({e})) \subseteq Kids(Jobs)
    BY <2>2, KidsOfSets
  <2> QED
    BY <1>0, <1>1, <1>4, <2>2, <2>3, TreeAssumption
<1>5. CASE e \in Jobs
  <2>1. Kids({e}) \subseteq Kids(Jobs)
    BY <1>5, KidsOfSets, {e} \subseteq Jobs
  <2> QED
    BY <1>0, <1>1, <1>5, <2>1, TreeAssumption
<1> QED
  BY <1>2, <1>3, <1>4, <1>5 DEF Elements

LEMMA FamilySplits ==
  ASSUME NEW e \in Elements
  PROVE  /\ Family(e) \subseteq Elements
         /\ Family(e) = {e} \cup UNION {Family(k) : k \in Kids({e})}
<1>1. Family(e) \subseteq Elements
  BY Levels DEF Family
<1>2. \A A, x : x \in Kids(A) <=> \E k \in A : x \in Kids({k})
  BY DEF Kids
<1> DEFINE K == Kids({e})
<1>3. \A x : /\ x \in Kids(K) <=> \E k \in K : x \in Kids({k})
             /\ x \in Kids(Kids(K)) <=> \E k \in K : x \in Kids(Kids({k}))
             /\ x \in Kids(Kids(Kids(K))) <=> \E k \in K : x \in Kids(Kids(Kids({k})))
  <2> HIDE DEF K
  <2>1. \A x : x \in Kids(K) <=> \E k \in K : x \in Kids({k})
    BY <1>2
  <2>2. \A x : x \in Kids(Kids(K)) <=> \E k \in K : x \in Kids(Kids({k}))
    <3>1. \A x : x \in Kids(Kids(K)) <=> \E y \in Kids(K) : x \in Kids({y})
      BY <1>2
    <3>2. \A x, k : x \in Kids(Kids({k})) <=> \E y \in Kids({k}) : x \in Kids({y})
      BY <1>2
    <3> QED
      BY <2>1, <3>1, <3>2
  <2>3. \A x : x \in Kids(Kids(Kids(K))) <=> \E k \in K : x \in Kids(Kids(Kids({k})))
    <3>1. \A x : x \in Kids(Kids(Kids(K))) <=> \E y \in Kids(Kids(K)) : x \in Kids({y})
      BY <1>2
    <3>2. \A x, k : x \in Kids(Kids(Kids({k}))) <=> \E y \in Kids(Kids({k})) : x \in Kids({y})
      BY <1>2
    <3> QED
      BY <2>2, <3>1, <3>2
  <2> QED
    BY <2>1, <2>2, <2>3
<1>4. Kids(Kids(Kids(K))) = {}
  BY Levels
<1>5. \A x, f : x \in Family(f) <=> \/ x = f \/ x \in Kids({f}) \/ x \in Kids(Kids({f}))
                                     \/ x \in Kids(Kids(Kids({f})))
  BY DEF Family
<1>6. \A x : x \in Family(e) <=> x = e \/ x \in K \/ x \in Kids(K) \/ x \in Kids(Kids(K))
  BY <1>5
<1>7. \A x : x \in UNION {Family(k) : k \in K} <=> \E k \in K : x \in Family(k)
  OBVIOUS
<1>8. \A x : x \in Family(e) <=> x = e \/ \E k \in K : x \in Family(k)
  <2> TAKE x
  <2>1. (\E k \in K : x \in Family(k))
          <=> \/ \E k \in K : x = k \/ x \in Kids({k})
              \/ \E k \in K : x \in Kids(Kids({k})) \/ x \in Kids(Kids(Kids({k})))
    BY <1>5
  <2>2. (\E k \in K : x \in Kids(Kids({k}))) <=> x \in Kids(Kids(K))
    BY <1>3
  <2>3. (\E k \in K : x \in Kids(Kids(Kids({k})))) <=> FALSE
    BY <1>3, <1>4
  <2>4. (\E k \in K : x \in Kids({k})) <=> x \in Kids(K)
    BY <1>3
  <2> HIDE DEF K
  <2> QED
    BY <1>6, <2>1, <2>2, <2>3, <2>4
<1> QED
  BY <1>1, <1>7, <1>8

LEMMA FamiliesApart ==
  ASSUME NEW e \in Elements, NEW k \in Kids({e})
  PROVE  /\ k \in Elements /\ e \notin Family(k)
         /\ \A m \in Kids({e}) : m # k => Family(k) \cap Family(m) = {}
<1>1. Kids({e}) \subseteq Elements
  BY Levels
<1>2. ASSUME NEW m \in Kids({e}), m # k
      PROVE  /\ Kids({k}) \cap Kids({m}) = {} /\ Kids(Kids({k})) \cap Kids(Kids({m})) = {}
             /\ Kids(Kids(Kids({k}))) \cap Kids(Kids(Kids({m}))) = {}
  <2>1. {k} \in SUBSET Elements /\ {m} \in SUBSET Elements /\ {k} \cap {m} = {}
    BY <1>1, <1>2
  <2>2. Kids({k}) \in SUBSET Elements /\ Kids({m}) \in SUBSET Elements
        /\ Kids({k}) \cap Kids({m}) = {}
    BY <2>1, KidsOfSets
  <2>3. Kids(Kids({k})) \in SUBSET Elements /\ Kids(Kids({m})) \in SUBSET Elements
        /\ Kids(Kids({k})) \cap Kids(Kids({m})) = {}
    BY <2>2, KidsOfSets
  <2>4. Kids(Kids(Kids({k}))) \cap Kids(Kids(Kids({m}))) = {}
    BY <2>3, KidsOfSets
  <2> QED
    BY <2>2, <2>3, <2>4
<1>f. \A x, f : x \in Family(f) <=> \/ x = f \/ x \in Kids({f}) \/ x \in Kids(Kids({f}))
                                     \/ x \in Kids(Kids(Kids({f})))
  BY DEF Family
<1>3. ASSUME NEW A, NEW B, NEW C, A \cap B = {}, A \cap C = {}, B \cap C = {},
             \A m \in Kids({e}) : /\ m \in A /\ Kids({m}) \subseteq B
                                  /\ Kids(Kids({m})) \subseteq C /\ Kids(Kids(Kids({m}))) = {}
      PROVE  \A m \in Kids({e}) : m # k => Family(k) \cap Family(m) = {}
  <2>1. SUFFICES ASSUME NEW m \in Kids({e}), m # k, NEW x, x \in Family(k), x \in Family(m)
                 PROVE  FALSE
    OBVIOUS
  <2>2. /\ x = k \/ x \in Kids({k}) \/ x \in Kids(Kids({k}))
        /\ x = m \/ x \in Kids({m}) \/ x \in Kids(Kids({m}))
    BY <1>3, <1>f, <2>1
  <2>a. /\ k \in A /\ m \in A /\ Kids({k}) \subseteq B /\ Kids({m}) \subseteq B
        /\ Kids(Kids({k})) \subseteq C /\ Kids(Kids({m})) \subseteq C
    BY <1>3, <2>1
  <2>b. Kids({k}) \cap Kids({m}) = {} /\ Kids(Kids({k})) \cap Kids(Kids({m})) = {}
    BY <1>2, <2>1
  <2>3. CASE x = k
    BY <1>3, <2>1, <2>2, <2>3, <2>a
  <2>4. CASE x \in Kids({k})
    BY <1>3, <2>2, <2>4, <2>a, <2>b
  <2>5. CASE x \in Kids(Kids({k}))
    BY <1>3, <2>2, <2>5, <2>a, <2>b
  <2> QED
    BY <2>2, <2>3, <2>4, <2>5
<1>4. CASE e = Campaign
  <2>1. Kids({e}) \subseteq Steps
    BY <1>4, Levels
  <2>2. \A m \in Kids({e}) : /\ m \in Steps /\ Kids({m}) \subseteq Groups
                             /\ Kids(Kids({m})) \subseteq Jobs /\ Kids(Kids(Kids({m}))) = {}
    BY <1>1, <2>1, Levels
  <2>3. \A m \in Kids({e}) : m # k => Family(k) \cap Family(m) = {}
    BY <1>3, <2>2, TreeAssumption
  <2>4. e \notin Family(k)
    BY <1>4, <1>f, <2>2, TreeAssumption
  <2> QED
    BY <1>1, <2>3, <2>4
<1>5. CASE e \in Steps
  <2>1. Kids({e}) \subseteq Groups
    BY <1>5, Levels
  <2>2. \A m \in Kids({e}) : /\ m \in Groups /\ Kids({m}) \subseteq Jobs
                             /\ Kids(Kids({m})) \subseteq Steps /\ Kids(Kids(Kids({m}))) = {}
    BY <1>1, <2>1, Levels
  <2>d. Groups \cap Jobs = {} /\ Groups \cap Steps = {} /\ Jobs \cap Steps = {}
    BY TreeAssumption
  <2>3. \A m \in Kids({e}) : m # k => Family(k) \cap Family(m) = {}
    BY <1>3, <2>2, <2>d
  <2>4. \A m \in Kids({e}) : Kids(Kids({m})) = {}
    BY <1>1, <2>1, Levels
  <2>5. e \notin Family(k)
    BY <1>5, <1>f, <2>2, <2>4, TreeAssumption
  <2> QED
    BY <1>1, <2>3, <2>5
<1>6. CASE e \in Groups
  <2>1. Kids({e}) \subseteq Jobs
    BY <1>6, Levels
  <2>2. \A m \in Kids({e}) : /\ m \in Jobs /\ Kids({m}) = {}
                             /\ Kids(Kids({m})) = {} /\ Kids(Kids(Kids({m}))) = {}
    BY <1>1, <2>1, Levels
  <2>3. \A m \in Kids({e}) : m # k => Family(k) \cap Family(m) = {}
    <3>1. \A m \in Kids({e}) : \A x : x \in Family(m) <=> x = m
      BY <1>f, <2>2
    <3> QED
      BY <3>1
  <2>4. e \notin Family(k)
    BY <1>6, <1>f, <2>2, TreeAssumption
  <2> QED
    BY <1>1, <2>3, <2>4
<1>7. CASE e \in Jobs
  BY <1>7, Levels
<1> QED
  BY <1>4, <1>5, <1>6, <1>7 DEF Elements

(* The tree of an element is the element, its scripts and the trees of its *)
(* children, all of them apart.                                            *)
LEMMA TreeSplits ==
  ASSUME NEW e \in Elements
  PROVE  /\ Tree(e) \subseteq Rows
         /\ Tree(e) = {e} \cup ScriptsIn(e) \cup UNION {Tree(k) : k \in Kids({e})}
         /\ Under(e) = ScriptsIn(e) \cup UNION {Tree(k) : k \in Kids({e})}
         /\ e \notin Under(e)
         /\ Kids({e}) \subseteq Elements
         /\ \A k \in Kids({e}) :
              /\ ScriptsIn(e) \cap Tree(k) = {} /\ e \notin Tree(k)
              /\ \A m \in Kids({e}) : m # k => Tree(k) \cap Tree(m) = {}
         /\ JobsBelow(e) \subseteq Under(e)
<1>0. \A f \in Elements : ScriptsIn(f) \subseteq Scripts
  BY DEF Scripts
<1>k. Kids({e}) \subseteq Elements
  BY Levels
<1>1. Tree(e) \subseteq Rows
  BY <1>0, FamilySplits DEF Tree, Rows
<1>t. \A x, f : x \in Tree(f) <=> x \in Family(f) \/ \E g \in Family(f) : x \in ScriptsIn(g)
  BY DEF Tree
<1>f. \A x : x \in Family(e) <=> x = e \/ \E k \in Kids({e}) : x \in Family(k)
  BY FamilySplits
<1>2. Tree(e) = {e} \cup ScriptsIn(e) \cup UNION {Tree(k) : k \in Kids({e})}
  <2>1. \A x : x \in Tree(e) <=> \/ x = e \/ x \in ScriptsIn(e)
                                \/ \E k \in Kids({e}) : x \in Tree(k)
    BY <1>t, <1>f
  <2>2. \A x : x \in UNION {Tree(k) : k \in Kids({e})} <=> \E k \in Kids({e}) : x \in Tree(k)
    OBVIOUS
  <2> QED
    BY <2>1, <2>2
<1>3. ASSUME NEW k \in Kids({e})
      PROVE  /\ ScriptsIn(e) \cap Tree(k) = {} /\ e \notin Tree(k)
             /\ \A m \in Kids({e}) : m # k => Tree(k) \cap Tree(m) = {}
  <2>1. \A m \in Kids({e}) : Family(m) \subseteq Elements
    BY <1>k, FamilySplits
  <2>s. \A f, g \in Elements : f # g => ScriptsIn(f) \cap ScriptsIn(g) = {}
    BY ScriptAssumption
  <2>e. \A f \in Elements : ScriptsIn(f) \cap Elements = {}
    BY <1>0, ScriptAssumption
  <2>2. ASSUME NEW f \in Elements, NEW m \in Kids({e}), f \notin Family(m)
        PROVE  ScriptsIn(f) \cap Tree(m) = {} /\ f \notin Tree(m)
    <3>1. \A x \in ScriptsIn(f) : x \notin Family(m)
      BY <2>1, <2>e
    <3>2. \A x \in ScriptsIn(f) : \A g \in Family(m) : x \notin ScriptsIn(g)
      BY <2>1, <2>2, <2>s
    <3>3. \A g \in Family(m) : f \notin ScriptsIn(g)
      BY <2>1, <2>e
    <3> QED
      BY <1>t, <2>2, <3>1, <3>2, <3>3
  <2>4. ASSUME NEW m \in Kids({e}), m # k PROVE Tree(k) \cap Tree(m) = {}
    <3>1. \A f \in Family(k) : f \in Elements /\ f \notin Family(m)
      BY <2>1, <2>4, FamiliesApart
    <3>2. \A f \in Family(k) : f \notin Tree(m) /\ ScriptsIn(f) \cap Tree(m) = {}
      BY <2>2, <3>1
    <3> QED
      BY <1>t, <3>2
  <2> QED
    BY <2>2, <2>4, FamiliesApart
<1>4. e \notin ScriptsIn(e)
  BY <1>0, ScriptAssumption
<1>5. JobsBelow(e) \subseteq Under(e)
  <2>1. JobsBelow(e) \subseteq UNION {Family(k) : k \in Kids({e})}
    <3>1. JobsBelow(e) = Jobs \cap (Kids({e}) \cup Kids(Kids({e})) \cup Kids(Kids(Kids({e}))))
      BY DEF JobsBelow, JobsUnder
    <3>2. JobsBelow(e) \subseteq Family(e)
      BY <3>1 DEF Family
    <3>3. e \notin JobsBelow(e)
      BY <3>1, Levels, TreeAssumption DEF Elements
    <3> QED
      BY <3>2, <3>3, FamilySplits
  <2>2. \A x \in JobsBelow(e) : \E k \in Kids({e}) : x \in Family(k)
    BY <2>1
  <2>3. \A x \in JobsBelow(e) : x \in Tree(e)
    BY <1>f, <1>t, <2>2
  <2>4. \A x \in JobsBelow(e) : x # e
    BY <2>2, FamiliesApart
  <2> QED
    BY <2>3, <2>4 DEF Under
<1> QED
  BY <1>k, <1>1, <1>2, <1>3, <1>4, <1>5 DEF Under

(* A tree holds the trees of its elements, and none of these its root.     *)
LEMMA TreesNest ==
  ASSUME NEW e \in Elements, NEW f \in Family(e)
  PROVE  /\ f \in Elements /\ Family(f) \subseteq Family(e) /\ Tree(f) \subseteq Tree(e)
         /\ f # e => e \notin Family(f)
<1>1. ASSUME NEW d \in Elements, NEW g \in Family(d) PROVE Family(g) \subseteq Family(d)
  <2>k. /\ \A A, B : A \subseteq B => Kids(A) \subseteq Kids(B)
        /\ Kids({}) = {}
    BY KidsOfSets DEF Kids
  <2>l. Kids(Kids(Kids(Kids({d})))) = {}
    BY Levels
  <2>1. CASE g = d
    BY <2>1
  <2>2. ASSUME NEW A, g \in A
        PROVE  /\ Kids({g}) \subseteq Kids(A) /\ Kids(Kids({g})) \subseteq Kids(Kids(A))
               /\ Kids(Kids(Kids({g}))) \subseteq Kids(Kids(Kids(A)))
    <3>1. Kids({g}) \subseteq Kids(A)
      BY <2>2, <2>k
    <3>2. Kids(Kids({g})) \subseteq Kids(Kids(A))
      BY <3>1, <2>k
    <3> QED
      BY <3>1, <3>2, <2>k
  <2>3. CASE g \in Kids({d})
    BY <2>2, <2>3, <2>l DEF Family
  <2>4. CASE g \in Kids(Kids({d}))
    BY <2>2, <2>4, <2>l, <2>k DEF Family
  <2>5. CASE g \in Kids(Kids(Kids({d})))
    <3>1. Kids({g}) = {}
      BY <2>2, <2>5, <2>l
    <3>2. Kids(Kids({g})) = {} /\ Kids(Kids(Kids({g}))) = {}
      BY <3>1, <2>k
    <3> QED
      BY <2>5, <3>1, <3>2 DEF Family
  <2> QED
    BY <2>1, <2>3, <2>4, <2>5 DEF Family
<1>2. f \in Elements
  BY FamilySplits
<1>3. ASSUME f # e PROVE e \notin Family(f)
  <2>1. PICK k \in Kids({e}) : f \in Family(k)
    BY <1>3, FamilySplits
  <2>2. k \in Elements /\ e \notin Family(k)
    BY FamiliesApart
  <2> QED
    BY <1>1, <2>1, <2>2
<1>4. Family(f) \subseteq Family(e)
  BY <1>1
<1>5. Tree(f) \subseteq Tree(e)
  BY <1>4 DEF Tree
<1> QED
  BY <1>2, <1>3, <1>4, <1>5

(* An element's scripts and children are below what the element is below,  *)
(* and below nothing else but the element itself.                          *)
LEMMA OwnersAndParents ==
  ASSUME NEW p \in Elements
  PROVE  /\ \A e \in Elements : p \in Family(e) => ScriptsIn(p) \subseteq Under(e)
         /\ \A e \in Elements : p \in Tree(e) <=> p \in Family(e)
         /\ \A e \in Elements, s \in ScriptsIn(p) : s \in Under(e) => p \in Family(e)
         /\ \A e \in Elements, x \in Kids({p}) : x \in Under(e) => p \in Family(e)
<1>0. \A f \in Elements : ScriptsIn(f) \subseteq Scripts /\ ScriptsIn(f) \cap Elements = {}
  BY ScriptAssumption DEF Scripts
<1>f. \A e \in Elements : Family(e) \subseteq Elements
  BY FamilySplits
<1>t. \A x, f : x \in Tree(f) <=> x \in Family(f) \/ \E g \in Family(f) : x \in ScriptsIn(g)
  BY DEF Tree
<1>1. ASSUME NEW e \in Elements, p \in Family(e) PROVE ScriptsIn(p) \subseteq Under(e)
  BY <1>0, <1>1, <1>t DEF Under
<1>2. ASSUME NEW e \in Elements PROVE p \in Tree(e) <=> p \in Family(e)
  BY <1>0, <1>f, <1>t
<1>3. ASSUME NEW e \in Elements, NEW s \in ScriptsIn(p), s \in Under(e) PROVE p \in Family(e)
  <2>1. PICK g \in Family(e) : s \in ScriptsIn(g)
    BY <1>0, <1>3, <1>f, <1>t DEF Under
  <2>2. g = p
    BY <1>f, <2>1, ScriptAssumption
  <2> QED
    BY <2>1, <2>2
<1>4. ASSUME NEW e \in Elements, NEW x \in Kids({p}), x \in Under(e) PROVE p \in Family(e)
  <2>0. x \in Elements
    BY Levels
  <2>1. x \in Family(e) /\ x # e
    BY <1>0, <1>4, <1>f, <1>t, <2>0 DEF Under
  <2>2. PICK f \in Family(e) : x \in Kids({f})
    <3>1. /\ \A A, y : y \in Kids(A) <=> \E g \in A : y \in Kids({g})
      BY DEF Kids
    <3>2. CASE x \in Kids({e})
      BY <3>2 DEF Family
    <3>3. CASE x \in Kids(Kids({e}))
      BY <3>1, <3>3 DEF Family
    <3>4. CASE x \in Kids(Kids(Kids({e})))
      BY <3>1, <3>4 DEF Family
    <3> QED
      BY <2>1, <3>2, <3>3, <3>4 DEF Family
  <2>3. f = p
    BY <1>f, <2>2, TreeAssumption
  <2> QED
    BY <2>2, <2>3
<1> QED
  BY <1>1, <1>2, <1>3, <1>4

(* Nothing of an element itself, nor any of its children, is below an      *)
(* element below it that is in another's, or the same, child's tree.       *)
LEMMA BelowChildren ==
  ASSUME NEW p \in Elements, NEW k \in Kids({p}), NEW e \in Tree(k) \cap Elements
  PROVE  /\ Tree(e) \subseteq Tree(k) /\ Under(e) \subseteq Tree(k)
         /\ p \notin Under(e) /\ ScriptsIn(p) \cap Under(e) = {}
         /\ Kids({p}) \cap Under(e) = {}
<1>1. k \in Elements /\ p \notin Family(k)
  BY FamiliesApart
<1>2. e \in Family(k)
  BY <1>1, OwnersAndParents
<1>3. Tree(e) \subseteq Tree(k) /\ Family(e) \subseteq Family(k)
  BY <1>1, <1>2, TreesNest
<1>4. p \notin Tree(k)
  BY <1>1, OwnersAndParents
<1>5. p \notin Family(e)
  BY <1>1, <1>3
<1>6. ScriptsIn(p) \cap Under(e) = {} /\ Kids({p}) \cap Under(e) = {}
  BY <1>5, OwnersAndParents
<1> QED
  BY <1>3, <1>4, <1>6 DEF Under

-----------------------------------------------------------------------------
(* What the proofs rely on                                                 *)

(* What a pass never changes again.                                        *)
Final == {"accepted", "rescued"}

(* A row x with the status v may be there, as far as the rows in known     *)
(* have been accepted.                                                     *)
LegalRow(x, v, known) ==
  /\ v \in Final => x \in known
  /\ v \in Ripe /\ x \in Works \cup Steps => Prereqs[x] \subseteq known
  /\ v # "absent" => \A e \in Steps : x \in Under(e) => Prereqs[e] \subseteq known

Legal(st, known) == \A x \in DOMAIN st : LegalRow(x, st[x], known)

(* What a script must have behind it to be launched.                       *)
Cleared(s, known) ==
  Prereqs[s] \subseteq known /\ \A e \in Steps : s \in Under(e) => Prereqs[e] \subseteq known

LegalPass(r, known) ==
  /\ Legal(r.st, known \cup Accepted(r.st))
  /\ \A s \in r.launched : Cleared(s, known \cup Accepted(r.st))

-----------------------------------------------------------------------------
(* What any part of a pass does to a, in the rows of X                     *)

Grows(a, b, X) ==
  /\ b \in Passes /\ b.mishap = a.mishap /\ b.present = a.present
  /\ \A x \in Rows :
       /\ x \notin X => b.st[x] = a.st[x]
       /\ Exists(a.st, x) => Exists(b.st, x)
       /\ a.st[x] \in Final => b.st[x] = a.st[x]
       /\ x \in Elements /\ a.st[x] # "reviewable" => b.st[x] # "reviewable"
       /\ x \in b.rewritten => x \in a.rewritten \/ Exists(b.st, x)

(* It does not go below an element that is done.                           *)
LeavesDone(a, b, X) ==
  \A e \in X \cap Elements : a.st[e] \in Final => \A y \in Under(e) : b.st[y] = a.st[y]

(* It accepts only elements with no work left below them.                  *)
Judges(a, b, X) ==
  \A e \in X \cap Elements :
    a.st[e] \notin Final \cup {"reviewable"} /\ b.st[e] = "accepted" =>
      \A j \in JobsBelow(e) : b.st[j] \in Final \cup {"absent"}

(* It launches what is fresh, which then is not, and nothing becomes so.   *)
LaunchesOnce(a, b) ==
  /\ a.launched \subseteq b.launched
  /\ b.launched \ a.launched \subseteq Works
  /\ VerdictsEnd =>
       /\ \A s \in b.launched \ a.launched : a.st[s] \in Fresh /\ b.st[s] \notin Fresh
       /\ \A s \in Works : a.st[s] \notin Fresh => b.st[s] \notin Fresh

StaysLegal(a, b) ==
  VerdictsEnd => \A known \in SUBSET Rows : LegalPass(a, known) => LegalPass(b, known)

Runs(a, b, X) ==
  /\ Grows(a, b, X) /\ LeavesDone(a, b, X) /\ Judges(a, b, X)
  /\ LaunchesOnce(a, b) /\ StaysLegal(a, b)

-----------------------------------------------------------------------------
(* Composition                                                             *)

LEMMA Statuses ==
  /\ Status = {"overdue", "failed", "rejected", "blocked", "paused", "rescuable",
               "waiting", "ready", "prepared", "running", "reviewable",
               "accepted", "rescued"}
  /\ "absent" \notin Status
  /\ \A st, x : st[x] \in Status \cup {"absent"} =>
       (AtLeast(st, x, "accepted") <=> st[x] \in Final)
<1>1. Status = {"overdue", "failed", "rejected", "blocked", "paused", "rescuable",
               "waiting", "ready", "prepared", "running", "reviewable",
               "accepted", "rescued"}
  BY DEF Status, StatusValue
<1>2. /\ StatusValue["overdue"] = -6 /\ StatusValue["failed"] = -5
      /\ StatusValue["rejected"] = -4 /\ StatusValue["blocked"] = -3
      /\ StatusValue["paused"] = -2 /\ StatusValue["rescuable"] = -1
      /\ StatusValue["waiting"] = 0 /\ StatusValue["ready"] = 1
      /\ StatusValue["prepared"] = 2 /\ StatusValue["running"] = 3
      /\ StatusValue["reviewable"] = 4 /\ StatusValue["accepted"] = 5
      /\ StatusValue["rescued"] = 6
  BY DEF StatusValue
<1>3. \A v \in Status : StatusValue[v] >= 5 <=> v \in {"accepted", "rescued"}
  BY <1>1, <1>2
<1> QED
  BY <1>1, <1>2, <1>3 DEF AtLeast, Exists, Final

LEMMA AcceptedRows ==
  ASSUME NEW a \in Passes
  PROVE  /\ a.st \in [Rows -> Status \cup {"absent"}] /\ DOMAIN a.st = Rows
         /\ Accepted(a.st) = {x \in Rows : a.st[x] \in Final}
         /\ Accepted(a.st) \subseteq Rows
<1>1. a.st \in [Rows -> Status \cup {"absent"}]
  BY DEF Passes
<1>2. \A x \in Rows : AtLeast(a.st, x, "accepted") <=> a.st[x] \in Final
  BY <1>1, Statuses
<1> QED
  BY <1>1, <1>2 DEF Accepted

LEMMA RunsNot ==
  ASSUME NEW a \in Passes, NEW X, NEW b \in Passes, b.st = a.st, b.launched = a.launched,
         b.rewritten = a.rewritten, b.mishap = a.mishap, b.present = a.present
  PROVE  Runs(a, b, X)
<1>1. Grows(a, b, X)
  BY DEF Grows, Exists
<1>2. LeavesDone(a, b, X) /\ Judges(a, b, X)
  BY DEF LeavesDone, Judges, Final
<1>3. LaunchesOnce(a, b) /\ StaysLegal(a, b)
  BY DEF LaunchesOnce, StaysLegal, LegalPass
<1> QED
  BY <1>1, <1>2, <1>3 DEF Runs

LEMMA RaiseRuns ==
  ASSUME NEW a \in Passes, NEW X
  PROVE  Raise(a) \in Passes /\ Runs(a, Raise(a), X) /\ Runs(a, a, X) /\ Raise(a).raised
<1>1. Raise(a) \in Passes /\ Raise(a).raised
  BY DEF Raise, Passes
<1>2. /\ Raise(a).st = a.st /\ Raise(a).launched = a.launched
      /\ Raise(a).rewritten = a.rewritten /\ Raise(a).mishap = a.mishap
      /\ Raise(a).present = a.present
  BY DEF Raise, Passes
<1> QED
  BY <1>1, <1>2, RunsNot

LEMMA RunsOn ==
  ASSUME NEW a \in Passes, NEW b \in Passes, NEW c \in Passes, NEW X \in SUBSET Rows,
         Runs(a, b, X), Runs(b, c, X)
  PROVE  Runs(a, c, X)
<1>1. Grows(a, c, X)
  <2>1. Grows(a, b, X) /\ Grows(b, c, X)
    BY DEF Runs
  <2>2. c.mishap = a.mishap /\ c.present = a.present
    BY <2>1 DEF Grows
  <2>3. ASSUME NEW x \in Rows
        PROVE  /\ x \notin X => c.st[x] = a.st[x]
               /\ Exists(a.st, x) => Exists(c.st, x)
               /\ a.st[x] \in Final => c.st[x] = a.st[x]
               /\ x \in Elements /\ a.st[x] # "reviewable" => c.st[x] # "reviewable"
               /\ x \in c.rewritten => x \in a.rewritten \/ Exists(c.st, x)
    BY <2>1 DEF Grows
  <2> QED
    BY <2>2, <2>3 DEF Grows
<1>2. LeavesDone(a, c, X)
  <2>1. ASSUME NEW e \in X \cap Elements, a.st[e] \in Final, NEW y \in Under(e)
        PROVE  c.st[y] = a.st[y]
    <3>1. b.st[e] \in Final
      BY <2>1 DEF Runs, Grows
    <3> QED
      BY <2>1, <3>1 DEF Runs, LeavesDone
  <2> QED
    BY <2>1 DEF LeavesDone
<1>3. Judges(a, c, X)
  <2>1. SUFFICES ASSUME NEW e \in X \cap Elements, a.st[e] \notin Final \cup {"reviewable"},
                        c.st[e] = "accepted", NEW j \in JobsBelow(e)
                 PROVE  c.st[j] \in Final \cup {"absent"}
    BY DEF Judges
  <2>2. j \in Under(e)
    BY TreeSplits
  <2>3. CASE b.st[e] \in Final
    <3>1. c.st[e] = b.st[e] /\ c.st[j] = b.st[j]
      BY <2>2, <2>3 DEF Runs, Grows, LeavesDone
    <3> QED
      BY <2>1, <3>1 DEF Runs, Judges
  <2>4. CASE b.st[e] \notin Final
    <3>1. b.st[e] # "reviewable"
      BY <2>1 DEF Runs, Grows
    <3> QED
      BY <2>1, <2>4, <3>1 DEF Runs, Judges
  <2> QED
    BY <2>3, <2>4
<1>4. LaunchesOnce(a, c)
  <2>1. LaunchesOnce(a, b) /\ LaunchesOnce(b, c)
    BY DEF Runs
  <2>2. c.launched \subseteq Scripts /\ Works \subseteq Scripts
    BY DEF Passes, Works
  <2> QED
    BY <2>1, <2>2 DEF LaunchesOnce
<1>5. StaysLegal(a, c)
  BY DEF Runs, StaysLegal
<1> QED
  BY <1>1, <1>2, <1>3, <1>4, <1>5 DEF Runs

LEMMA Leads ==
  ASSUME NEW n \in Nat, NEW S \in SUBSET (0..n), 0 \in S,
         \A i \in 1..n : i - 1 \in S => i \in S
  PROVE  S = 0..n
<1> DEFINE All == 0..n
           R == StrictSubsetOrdering(All)
           T == {0..i : i \in All \ S}
<1>1. SUFFICES ASSUME All \ S # {}
               PROVE  FALSE
  OBVIOUS
<1>2. IsFiniteSet(All)
  BY FS_Interval
<1>3. IsWellFoundedOn(R, SUBSET All)
  BY <1>2, FS_StrictSubsetOrderingWellFounded, FS_FiniteSubsetsOfFinite
<1>4. T \subseteq SUBSET All /\ T # {}
  BY <1>1
<1>5. PICK x \in T : \A y \in T : ~(<<y, x>> \in R)
  <2> HIDE DEF T, R, All
  <2>1. QED
    BY <1>3, <1>4, WFMin
<1>6. PICK i \in All \ S : x = 0..i
  BY <1>5
<1>7. i - 1 \in All \ S
  BY <1>6
<1>8. 0..(i - 1) \in T
  BY <1>7
<1>9. <<0..(i - 1), 0..i>> \in R
  <2>1. 0..(i - 1) \subseteq 0..i /\ 0..i \subseteq All /\ i \in 0..i /\ i \notin 0..(i - 1)
    BY <1>6
  <2>2. 0..(i - 1) \in SUBSET All
    BY <2>1
  <2>3. QED
    BY <2>1, <2>2 DEF StrictSubsetOrdering
<1>10. QED
  BY <1>5, <1>6, <1>8, <1>9

(* What holds of a pass and is kept by processing any of the chosen nodes  *)
(* holds when all of them have been processed.                             *)
LEMMA PassAllKeeps ==
  ASSUME NEW Good, NEW pass, NEW r \in Good, NEW n \in Nat, NEW xs, Len(xs) = n, NEW chosen,
         \A b \in Good, x \in chosen : pass[x][b] \in Good
  PROVE  PassAll(pass, r, xs, chosen) \in Good
<1> DEFINE Then(b, i) == IF b.raised \/ xs[i] \notin chosen THEN b ELSE pass[xs[i]][b]
           IsAfter(f, k) == f = [i \in 0..k |-> IF i = 0 THEN r ELSE Then(f[i - 1], i)]
           S == {k \in 0..n : \E f : IsAfter(f, k)}
           after == CHOOSE f : IsAfter(f, n)
<1>1. PassAll(pass, r, xs, chosen) = after[n]
  BY DEF PassAll
<1>t. \A b \in Good, i \in 1..n : Then(b, i) \in Good
  OBVIOUS
<1> HIDE DEF Then
<1>2. 0 \in S
  <2> DEFINE f == [i \in 0..0 |-> r]
  <2>1. IsAfter(f, 0)
    OBVIOUS
  <2> HIDE DEF f, IsAfter
  <2> QED
    BY <2>1
<1>3. ASSUME NEW i \in 1..n, i - 1 \in S PROVE i \in S
  <2>1. PICK f : IsAfter(f, i - 1)
    BY <1>3
  <2> DEFINE g == [j \in 0..i |-> IF j < i THEN f[j] ELSE Then(f[i - 1], i)]
  <2>2. \A j \in 0..(i - 1) : f[j] = IF j = 0 THEN r ELSE Then(f[j - 1], j)
    BY <2>1
  <2>3. \A j \in 0..i : g[j] = IF j = 0 THEN r ELSE Then(g[j - 1], j)
    BY <2>2
  <2>4. g = [j \in 0..i |-> IF j = 0 THEN r ELSE Then(g[j - 1], j)]
    <3>1. g = [j \in 0..i |-> g[j]]
      OBVIOUS
    <3> HIDE DEF g
    <3> QED
      BY <2>3, <3>1
  <2>5. IsAfter(g, i)
    BY <2>4
  <2> HIDE DEF g, IsAfter
  <2> QED
    BY <2>5
<1>4. n \in S
  <2> HIDE DEF S
  <2>1. S \in SUBSET (0..n)
    BY DEF S
  <2> QED
    BY <1>2, <1>3, <2>1, Leads
<1>5. IsAfter(after, n)
  <2> HIDE DEF IsAfter
  <2> QED
    BY <1>4
<1> HIDE DEF after
<1>6. \A i \in 0..n : after[i] = IF i = 0 THEN r ELSE Then(after[i - 1], i)
  BY <1>5
<1> DEFINE T == {i \in 0..n : after[i] \in Good}
<1>7. 0 \in T
  BY <1>6
<1>8. ASSUME NEW i \in 1..n, i - 1 \in T PROVE i \in T
  BY <1>6, <1>8, <1>t
<1>9. n \in T
  <2> HIDE DEF T
  <2>1. T \in SUBSET (0..n)
    BY DEF T
  <2> QED
    BY <1>7, <1>8, <2>1, Leads
<1> QED
  BY <1>1, <1>9

LEMMA PassAllRuns ==
  ASSUME NEW X \in SUBSET Rows, NEW pass, NEW a \in Passes, NEW xs, Len(xs) \in Nat, NEW chosen,
         \A b \in Passes, x \in chosen : Runs(b, pass[x][b], X)
  PROVE  /\ PassAll(pass, a, xs, chosen) \in Passes
         /\ Runs(a, PassAll(pass, a, xs, chosen), X)
<1> DEFINE Good == {b \in Passes : Runs(a, b, X)}
<1>1. a \in Good
  BY RaiseRuns
<1>2. ASSUME NEW b \in Good, NEW x \in chosen PROVE pass[x][b] \in Good
  <2>1. Runs(b, pass[x][b], X)
    OBVIOUS
  <2>2. pass[x][b] \in Passes
    BY <2>1 DEF Runs, Grows
  <2> QED
    BY <2>1, <2>2, RunsOn
<1>3. PassAll(pass, a, xs, chosen) \in Good
  <2> HIDE DEF Good
  <2> QED
    BY <1>1, <1>2, PassAllKeeps
<1> QED
  BY <1>3

(* What is done to some rows is done to more of them, if no element among  *)
(* these is above what was changed, or else is not done yet.               *)
LEMMA Widens ==
  ASSUME NEW X \in SUBSET Rows, NEW Y \in SUBSET Rows, X \subseteq Y, NEW a \in Passes,
         NEW b, Runs(a, b, X),
         \A e \in (Y \ X) \cap Elements : a.st[e] \notin Final \/ Under(e) \cap X = {},
         \A e \in Y \cap Elements : Under(e) \subseteq Rows
  PROVE  Runs(a, b, Y)
<1>1. Grows(a, b, X) /\ LeavesDone(a, b, X) /\ Judges(a, b, X)
  BY DEF Runs
<1>2. Grows(a, b, Y)
  BY <1>1 DEF Grows
<1>3. LeavesDone(a, b, Y)
  BY <1>1 DEF LeavesDone, Grows
<1>4. Judges(a, b, Y)
  <2>1. \A e \in (Y \ X) \cap Elements : b.st[e] = a.st[e]
    BY <1>1 DEF Grows, Rows
  <2> QED
    BY <1>1, <2>1 DEF Judges, Final
<1> QED
  BY <1>2, <1>3, <1>4 DEF Runs

-----------------------------------------------------------------------------
(* The two ways in which a pass changes rows                               *)

(* Legality survives when more rows are known to have been accepted.       *)
LEMMA KnownGrows ==
  ASSUME NEW a \in Passes, NEW known \in SUBSET Rows, LegalPass(a, known),
         NEW more \in SUBSET Rows, known \cup Accepted(a.st) \subseteq more
  PROVE  /\ \A x \in Rows : LegalRow(x, a.st[x], more)
         /\ \A s \in a.launched : Cleared(s, more)
<1>1. \A x \in Rows : LegalRow(x, a.st[x], known \cup Accepted(a.st))
  BY AcceptedRows DEF LegalPass, Legal
<1>2. \A s \in a.launched : Cleared(s, known \cup Accepted(a.st))
  BY DEF LegalPass
<1>3. \A x \in Rows : LegalRow(x, a.st[x], more)
  BY <1>1 DEF LegalRow
<1>4. \A s \in a.launched : Cleared(s, more)
  BY <1>2 DEF Cleared
<1> QED
  BY <1>3, <1>4

(* It gives a row that exists and is not done another status, and may      *)
(* launch it.                                                              *)
LEMMA WriteRuns ==
  ASSUME NEW a \in Passes, NEW X \in SUBSET Rows, NEW x \in X, NEW v \in Status,
         NEW b \in Passes, b.st = [a.st EXCEPT ![x] = v],
         NEW L \in SUBSET {x}, b.launched = a.launched \cup L,
         b.rewritten \subseteq a.rewritten \cup {x},
         b.mishap = a.mishap, b.present = a.present,
         a.st[x] \notin Final \cup {"absent"},
         \A e \in X \cap Elements : a.st[e] \in Final => x \notin Under(e),
         x \in Elements => v # "reviewable",
         x \in Elements /\ v = "accepted" /\ a.st[x] # "reviewable" =>
           \A j \in JobsBelow(x) : a.st[j] \in Final \cup {"absent"},
         VerdictsEnd /\ x \in Works /\ a.st[x] \notin Fresh => v \notin Fresh,
         VerdictsEnd /\ x \in Works \cup Steps /\ v \in Ripe =>
           a.st[x] \in Ripe \/ PrerequisitesDone(a.st, x),
         L # {} => /\ x \in Works /\ a.st[x] \in Fresh /\ v \notin Fresh
                   /\ a.st[x] \in Ripe \/ PrerequisitesDone(a.st, x)
  PROVE  Runs(a, b, X)
<1>1. /\ a.st \in [Rows -> Status \cup {"absent"}] /\ DOMAIN a.st = Rows /\ x \in Rows
      /\ b.st[x] = v /\ \A y \in Rows : y # x => b.st[y] = a.st[y]
      /\ b.st \in [Rows -> Status \cup {"absent"}] /\ DOMAIN b.st = Rows
  BY AcceptedRows
<1>2. v # "absent"
  BY Statuses
<1>3. Grows(a, b, X)
  BY <1>1, <1>2 DEF Grows, Exists
<1>u. \A e \in Elements : e \in Rows /\ Under(e) \subseteq Rows /\ JobsBelow(e) \subseteq Under(e)
  BY TreeSplits DEF Rows, Under
<1>4. LeavesDone(a, b, X)
  BY <1>1, <1>u DEF LeavesDone
<1>5. Judges(a, b, X)
  <2>1. SUFFICES ASSUME NEW e \in X \cap Elements, a.st[e] \notin Final \cup {"reviewable"},
                        b.st[e] = "accepted", NEW j \in JobsBelow(e)
                 PROVE  b.st[j] \in Final \cup {"absent"}
    BY DEF Judges
  <2>2. e = x /\ v = "accepted"
    BY <1>1, <2>1 DEF Final
  <2>3. j # x /\ j \in Rows
    BY <1>u, <2>1, <2>2, TreeSplits
  <2> QED
    BY <1>1, <2>1, <2>2, <2>3
<1>6. LaunchesOnce(a, b)
  <2>1. Works \subseteq Rows
    BY DEF Works, Rows
  <2> QED
    BY <1>1, <2>1 DEF LaunchesOnce
<1>7. StaysLegal(a, b)
  <2>1. SUFFICES ASSUME VerdictsEnd, NEW known \in SUBSET Rows, LegalPass(a, known)
                 PROVE  LegalPass(b, known)
    BY DEF StaysLegal
  <2> DEFINE before == known \cup Accepted(a.st)
             more   == known \cup Accepted(b.st)
  <2>2. Accepted(a.st) \subseteq Accepted(b.st) /\ Accepted(a.st) \in SUBSET Rows
        /\ Accepted(b.st) \in SUBSET Rows /\ (v \in Final => x \in Accepted(b.st))
    BY <1>1, AcceptedRows
  <2>3. more \in SUBSET Rows /\ before \subseteq more
    BY <2>2
  <2> HIDE DEF more
  <2>4. /\ \A y \in Rows : LegalRow(y, a.st[y], more)
        /\ \A s \in a.launched : Cleared(s, more)
    BY <2>1, <2>3, KnownGrows
  <2>p. PrerequisitesDone(a.st, x) => Prereqs[x] \subseteq more
    <3>1. \A p \in Rows : AtLeast(a.st, p, "accepted") => p \in Accepted(a.st)
      BY DEF Accepted
    <3>2. Prereqs[x] \subseteq Rows
      BY ScriptAssumption
    <3> QED
      BY <2>3, <3>1, <3>2 DEF PrerequisitesDone
  <2>r. a.st[x] \in Ripe /\ x \in Works \cup Steps => Prereqs[x] \subseteq more
    BY <2>4 DEF LegalRow
  <2>e. \A e \in Steps : x \in Under(e) => Prereqs[e] \subseteq more
    BY <2>4 DEF LegalRow
  <2>5. LegalRow(x, v, more)
    <3>1. v \in Final => x \in more
      BY <2>2 DEF more
    <3>2. v \in Ripe /\ x \in Works \cup Steps => Prereqs[x] \subseteq more
      BY <2>1, <2>p, <2>r
    <3> QED
      BY <2>e, <3>1, <3>2 DEF LegalRow
  <2>6. \A y \in Rows : LegalRow(y, b.st[y], more)
    BY <1>1, <2>4, <2>5
  <2>7. L # {} => Cleared(x, more)
    BY <2>p, <2>r, <2>e DEF Cleared
  <2>8. \A s \in b.launched : Cleared(s, more)
    BY <2>4, <2>7
  <2> QED
    BY <1>1, <2>6, <2>8 DEF LegalPass, Legal, more
<1> QED
  BY <1>3, <1>4, <1>5, <1>6, <1>7 DEF Runs

(* It inserts rows, below elements that are not done, and below steps      *)
(* whose turn it is or that have rows already.                             *)
LEMMA InsertRuns ==
  ASSUME NEW a \in Passes, NEW X \in SUBSET Rows, NEW S \in SUBSET X,
         \A e \in X \cap Elements : a.st[e] \in Final => S \cap Under(e) = {},
         \A x \in S, e \in Steps : x \in Under(e) =>
           \/ \E z \in Under(e) : Exists(a.st, z)
           \/ PrerequisitesDone(a.st, e)
           \/ a.st[e] \in Ripe
  PROVE  /\ Insert(a, S) \in Passes /\ Runs(a, Insert(a, S), X)
         /\ Insert(a, S).launched = a.launched
         /\ \A y \in Rows \ S : Insert(a, S).st[y] = a.st[y]
         /\ \A y \in Rows : Exists(a.st, y) => Insert(a, S).st[y] = a.st[y]
<1>1. a.st \in [Rows -> Status \cup {"absent"}] /\ DOMAIN a.st = Rows
  BY AcceptedRows
<1>2. CASE \E x \in S : x \in a.present \/ Exists(a.st, x)
  <2>1. Insert(a, S) = Raise(a)
    BY <1>2 DEF Insert
  <2>2. Raise(a).st = a.st /\ Raise(a).launched = a.launched
    BY DEF Raise, Passes
  <2> QED
    BY <2>1, <2>2, RaiseRuns
<1>3. CASE ~\E x \in S : x \in a.present \/ Exists(a.st, x)
  <2> DEFINE b == [a EXCEPT !.st = Over([x \in S |-> "waiting"], @)]
  <2>1. Insert(a, S) = b
    BY <1>3 DEF Insert
  <2>2. b.st = [y \in Rows |-> IF y \in S THEN "waiting" ELSE a.st[y]]
    <3>1. b.st = Over([x \in S |-> "waiting"], a.st)
      BY DEF Passes
    <3>2. S \cup Rows = Rows
      OBVIOUS
    <3> QED
      BY <1>1, <3>1, <3>2 DEF Over
  <2>3. b.st \in [Rows -> Status \cup {"absent"}] /\ DOMAIN b.st = Rows
    BY <1>1, <2>2, Statuses
  <2>4. /\ b.launched = a.launched /\ b.rewritten = a.rewritten /\ b.mishap = a.mishap
        /\ b.present = a.present /\ b.raised = a.raised
        /\ b = [st |-> b.st, launched |-> b.launched, rewritten |-> b.rewritten,
                raised |-> b.raised, mishap |-> b.mishap, present |-> b.present]
    BY DEF Passes
  <2>5. b \in Passes
    BY <2>3, <2>4 DEF Passes
  <2>6. \A y \in Rows : /\ y \in S => b.st[y] = "waiting" /\ a.st[y] = "absent"
                        /\ y \notin S => b.st[y] = a.st[y]
    BY <1>3, <2>2 DEF Exists
  <2> HIDE DEF b
  <2>7. Grows(a, b, X)
    BY <2>4, <2>5, <2>6 DEF Grows, Exists, Final
  <2>u. \A e \in Elements : e \in Rows /\ Under(e) \subseteq Rows
    BY TreeSplits DEF Rows, Under
  <2>8. LeavesDone(a, b, X)
    BY <2>6, <2>u DEF LeavesDone
  <2>9. Judges(a, b, X)
    BY <2>6, <2>u DEF Judges, Final
  <2>10. LaunchesOnce(a, b)
    <3>1. Works \subseteq Rows
      BY DEF Works, Rows
    <3> QED
      BY <2>4, <2>6, <3>1 DEF LaunchesOnce, Fresh
  <2>11. StaysLegal(a, b)
    <3>1. SUFFICES ASSUME VerdictsEnd, NEW known \in SUBSET Rows, LegalPass(a, known)
                   PROVE  LegalPass(b, known)
      BY DEF StaysLegal
    <3> DEFINE more == known \cup Accepted(b.st)
    <3>2. Accepted(a.st) \in SUBSET Rows /\ Accepted(b.st) = Accepted(a.st)
      BY <2>5, <2>6, AcceptedRows DEF Final
    <3>3. more \in SUBSET Rows /\ known \cup Accepted(a.st) \subseteq more
      BY <3>2
    <3> HIDE DEF more
    <3>4. /\ \A y \in Rows : LegalRow(y, a.st[y], more)
          /\ \A s \in a.launched : Cleared(s, more)
      BY <3>1, <3>3, KnownGrows
    <3>5. ASSUME NEW x \in S PROVE LegalRow(x, "waiting", more)
      <4>1. SUFFICES ASSUME NEW e \in Steps, x \in Under(e) PROVE Prereqs[e] \subseteq more
        BY DEF LegalRow, Final, Ripe
      <4>e. e \in Elements /\ e \in Rows
        BY DEF Elements, Rows
      <4>2. CASE \E z \in Under(e) : Exists(a.st, z)
        BY <2>u, <3>4, <4>2, <4>e DEF LegalRow, Exists
      <4>3. CASE PrerequisitesDone(a.st, e)
        <5>1. \A p \in Rows : AtLeast(a.st, p, "accepted") => p \in Accepted(a.st)
          BY DEF Accepted
        <5>2. Prereqs[e] \subseteq Rows
          BY <4>e, ScriptAssumption
        <5> QED
          BY <3>3, <4>3, <5>1, <5>2 DEF PrerequisitesDone
      <4>4. CASE a.st[e] \in Ripe
        BY <3>4, <4>4, <4>e DEF LegalRow
      <4> QED
        BY <4>1, <4>2, <4>3, <4>4
    <3>6. \A y \in Rows : LegalRow(y, b.st[y], more)
      BY <2>6, <3>4, <3>5
    <3> QED
      BY <2>3, <2>4, <3>4, <3>6 DEF LegalPass, Legal, more
  <2>12. Runs(a, b, X)
    BY <2>7, <2>8, <2>9, <2>10, <2>11 DEF Runs
  <2>13. \A y \in Rows : Exists(a.st, y) => b.st[y] = a.st[y]
    BY <2>6 DEF Exists
  <2> QED
    BY <2>1, <2>4, <2>5, <2>6, <2>12, <2>13
<1> QED
  BY <1>2, <1>3

LEMMA Changes ==
  ASSUME NEW a \in Passes, ~a.raised, NEW x \in Rows, NEW v \in Status
  PROVE  /\ Put(a, x, v) \in Passes /\ Put(a, x, v).st = [a.st EXCEPT ![x] = v]
         /\ Put(a, x, v).launched = a.launched /\ Put(a, x, v).rewritten = a.rewritten
         /\ Put(a, x, v).mishap = a.mishap /\ Put(a, x, v).present = a.present
         /\ Put(a, x, v).raised = a.raised /\ Put(a, x, v).st[x] = v
         /\ Rewrite(a, x, v) \in Passes /\ Rewrite(a, x, v).st = [a.st EXCEPT ![x] = v]
         /\ Rewrite(a, x, v).launched = a.launched
         /\ Rewrite(a, x, v).rewritten = a.rewritten \cup {x}
         /\ Rewrite(a, x, v).mishap = a.mishap /\ Rewrite(a, x, v).present = a.present
         /\ Rewrite(a, x, v).raised = a.raised /\ Rewrite(a, x, v).st[x] = v
BY DEF Put, Rewrite, Passes

-----------------------------------------------------------------------------
(* Scripts                                                                 *)

(* What the pass over a script may change.                                 *)
Span(s) == {s} \cup UNION {Tree(k) : k \in Kids({Owner(s)})}

(* The pass f does what a pass may do to the elements of E.                *)
Good(f, E) == \A e \in E : \A r \in Passes : Runs(r, f[e][r], Tree(e))

WmsOK == \A s \in Scripts : wms[s] \in {"idle", "accepted"} \cup Verdicts[s]

LEMMA ScriptSpans ==
  ASSUME NEW s \in Scripts
  PROVE  /\ Owner(s) \in Elements /\ s \in ScriptsIn(Owner(s)) /\ s \in Rows /\ s \notin Elements
         /\ s \notin Steps
         /\ Span(s) \subseteq Rows /\ Span(s) \subseteq Under(Owner(s))
         /\ Kids({Owner(s)}) = Seqs!ToSet(Children[Owner(s)])
         /\ Kids({Owner(s)}) \subseteq Elements /\ Kids({Owner(s)}) \subseteq Span(s)
         /\ Len(Children[Owner(s)]) \in Nat
         /\ \A k \in Kids({Owner(s)}) :
              Tree(k) \subseteq Span(s) /\ Tree(k) \subseteq Rows /\ s \notin Tree(k)
         /\ \A e \in Span(s) \cap Elements : s \notin Under(e) /\ Kids({Owner(s)}) \cap Under(e) = {}
         /\ \A e \in Elements, k \in Kids({Owner(s)}) : k \in Under(e) => s \in Under(e)
<1> DEFINE p == Owner(s)
<1>1. p \in Elements /\ s \in ScriptsIn(p)
  <2>1. \E e \in Elements : s \in ScriptsIn(e)
    BY DEF Scripts
  <2> QED
    BY <2>1 DEF Owner, OwnerOf
<1>2. s \in Rows /\ s \notin Elements /\ s \notin Steps
  BY ScriptAssumption DEF Rows, Elements
<1>3. Kids({p}) = Seqs!ToSet(Children[p])
  BY DEF Kids
<1>4. Len(Children[p]) \in Nat
  BY <1>1, TreeAssumption
<1> HIDE DEF p
<1>5. /\ Under(p) = ScriptsIn(p) \cup UNION {Tree(k) : k \in Kids({p})}
      /\ Kids({p}) \subseteq Elements /\ Tree(p) \subseteq Rows
      /\ \A k \in Kids({p}) : ScriptsIn(p) \cap Tree(k) = {}
  BY <1>1, TreeSplits
<1>6. Span(s) \subseteq Under(p) /\ Span(s) \subseteq Rows
  BY <1>1, <1>5 DEF Span, Under, p
<1>7. \A k \in Kids({p}) : Tree(k) \subseteq Span(s) /\ k \in Tree(k) /\ s \notin Tree(k)
  <2>1. \A k \in Kids({p}) : Tree(k) \subseteq Span(s)
    BY DEF Span, p
  <2>2. \A k : k \in Tree(k)
    BY DEF Tree, Family
  <2>3. \A k \in Kids({p}) : s \notin Tree(k)
    BY <1>1, <1>5
  <2> QED
    BY <2>1, <2>2, <2>3
<1>8. ASSUME NEW e \in Span(s) \cap Elements
      PROVE  s \notin Under(e) /\ Kids({p}) \cap Under(e) = {}
  <2>1. PICK k \in Kids({p}) : e \in Tree(k)
    BY <1>2 DEF Span, p
  <2> QED
    BY <1>1, <2>1, BelowChildren
<1>9. ASSUME NEW e \in Elements, NEW k \in Kids({p}), k \in Under(e) PROVE s \in Under(e)
  <2>1. p \in Family(e)
    BY <1>1, <1>9, OwnersAndParents
  <2> QED
    BY <1>1, <2>1, OwnersAndParents
<1> QED
  BY <1>1, <1>2, <1>3, <1>4, <1>5, <1>6, <1>7, <1>8, <1>9 DEF p

LEMMA PutType ==
  ASSUME NEW a \in Passes, NEW x \in Rows, NEW v \in Status
  PROVE  Put(a, x, v) \in Passes /\ (Put(a, x, v).st[x] = v \/ Put(a, x, v) = a)
BY DEF Put, Passes

(* A script that is not done takes another status.                         *)
LEMMA ScriptWrites ==
  ASSUME NEW s \in Scripts, NEW a \in Passes, NEW v \in Status, NEW b \in Passes,
         b.st = [a.st EXCEPT ![s] = v], NEW L \in SUBSET {s}, b.launched = a.launched \cup L,
         b.rewritten \subseteq a.rewritten \cup {s},
         b.mishap = a.mishap, b.present = a.present,
         a.st[s] \notin Final \cup {"absent"},
         VerdictsEnd /\ s \in Works /\ a.st[s] \notin Fresh => v \notin Fresh,
         VerdictsEnd /\ s \in Works /\ v \in Ripe => a.st[s] \in Ripe \/ PrerequisitesDone(a.st, s),
         L # {} => /\ s \in Works /\ a.st[s] \in Fresh /\ v \notin Fresh
                   /\ a.st[s] \in Ripe \/ PrerequisitesDone(a.st, s)
  PROVE  Runs(a, b, Span(s))
<1>1. /\ Span(s) \in SUBSET Rows /\ s \in Span(s) /\ s \notin Elements /\ s \notin Steps
      /\ \A e \in Span(s) \cap Elements : s \notin Under(e)
  BY ScriptSpans DEF Span
<1> QED
  BY <1>1, WriteRuns

LEMMA ChildrenRun ==
  ASSUME NEW below, NEW s \in Scripts, Good(below, Kids({Owner(s)})),
         NEW a \in Passes, a.st[s] \notin Final \cup {"absent"}
  PROVE  Runs(a, RunChildren(below, a, s), Span(s))
<1> DEFINE cs == Present(a.st, Children[Owner(s)])
           b  == PassAll(below, a, Children[Owner(s)], cs)
           K  == Kids({Owner(s)})
           X  == UNION {Tree(k) : k \in K}
<1>k. /\ Len(Children[Owner(s)]) \in Nat /\ K \subseteq Elements /\ cs \subseteq K
      /\ X \subseteq Span(s) /\ s \notin X /\ s \in Rows /\ s \notin Elements
      /\ X \in SUBSET Rows /\ Span(s) \in SUBSET Rows
      /\ Span(s) = {s} \cup X
  <2>1. Span(s) = {s} \cup X
    BY DEF Span
  <2>2. s \notin X
    BY ScriptSpans
  <2>3. cs \subseteq K
    BY ScriptSpans DEF Present
  <2> HIDE DEF X, cs
  <2> QED
    BY <2>1, <2>2, <2>3, ScriptSpans
<1>u. \A e \in Rows \cap Elements : Under(e) \subseteq Rows
  BY TreeSplits DEF Under
<1>1. \A r \in Passes, k \in cs : Runs(r, below[k][r], X)
  <2>1. SUFFICES ASSUME NEW r \in Passes, NEW k \in cs PROVE Runs(r, below[k][r], X)
    OBVIOUS
  <2>2. k \in K /\ Runs(r, below[k][r], Tree(k)) /\ Tree(k) \subseteq X
    BY <1>k DEF Good
  <2>3. ASSUME NEW e \in (X \ Tree(k)) \cap Elements PROVE Under(e) \cap Tree(k) = {}
    <3>1. PICK m \in K : e \in Tree(m)
      BY <2>3
    <3>2. Owner(s) \in Elements /\ k \in Kids({Owner(s)}) /\ m \in Kids({Owner(s)}) /\ m # k
      BY <2>2, <2>3, <3>1, ScriptSpans
    <3>3. Under(e) \subseteq Tree(m)
      BY <3>1, <3>2, BelowChildren
    <3>4. Tree(k) \cap Tree(m) = {}
      BY <3>2, TreeSplits
    <3> QED
      BY <3>3, <3>4
  <2>4. Tree(k) \in SUBSET Rows
    BY <1>k, <2>2
  <2> HIDE DEF X
  <2> QED
    BY <1>k, <1>u, <2>2, <2>3, <2>4, Widens
<1> HIDE DEF X
<1>2. b \in Passes /\ Runs(a, b, X)
  BY <1>k, <1>1, PassAllRuns
<1> HIDE DEF b
<1>3. Runs(a, b, Span(s))
  <2>1. (Span(s) \ X) \cap Elements = {}
    BY <1>k
  <2>2. \A e \in Span(s) \cap Elements : Under(e) \subseteq Rows
    BY <1>k, <1>u
  <2> QED
    BY <1>k, <1>2, <2>1, <2>2, Widens
<1>4. b.st[s] = a.st[s]
  BY <1>2, <1>k DEF Runs, Grows
<1> DEFINE v == IF \A c \in cs : AtLeast(b.st, c, "accepted") THEN "accepted" ELSE "running"
<1>5. v \in Status /\ v \in {"accepted", "running"}
  BY Statuses
<1>6. RunChildren(below, a, s) = Rewrite(b, s, v)
  BY DEF RunChildren, Gather, b
<1> HIDE DEF v
<1>7. CASE ~b.raised
  <2> DEFINE d == Rewrite(b, s, v)
  <2>1. /\ d \in Passes /\ d.st = [b.st EXCEPT ![s] = v] /\ d.launched = b.launched \cup {}
        /\ d.rewritten \subseteq b.rewritten \cup {s} /\ d.mishap = b.mishap
        /\ d.present = b.present
    BY <1>2, <1>5, <1>7, <1>k, Changes
  <2> HIDE DEF d
  <2>2. b.st[s] \notin Final \cup {"absent"} /\ v \notin Fresh /\ v \notin Ripe /\ {} \in SUBSET {s}
    BY <1>4, <1>5 DEF Fresh, Ripe
  <2>3. Runs(b, d, Span(s))
    BY <1>2, <1>5, <2>1, <2>2, ScriptWrites
  <2>4. Runs(a, d, Span(s))
    BY <1>2, <1>3, <1>k, <2>1, <2>3, RunsOn
  <2> QED
    BY <1>6, <2>4 DEF d
<1>8. CASE b.raised
  BY <1>3, <1>6, <1>8 DEF Rewrite
<1> QED
  BY <1>7, <1>8

LEMMA ScriptTakes ==
  ASSUME NEW s \in Scripts, NEW a \in Passes, NEW v \in Status,
         a.st[s] \notin Final \cup {"absent"},
         VerdictsEnd /\ s \in Works /\ a.st[s] \notin Fresh => v \notin Fresh,
         VerdictsEnd /\ s \in Works /\ v \in Ripe => a.st[s] \in Ripe \/ PrerequisitesDone(a.st, s)
  PROVE  Runs(a, Put(a, s, v), Span(s)) /\ Runs(a, Rewrite(a, s, v), Span(s))
<1>1. CASE a.raised
  BY <1>1, RaiseRuns DEF Put, Rewrite
<1>2. CASE ~a.raised
  <2> DEFINE p == Put(a, s, v)
             q == Rewrite(a, s, v)
  <2>1. s \in Rows
    BY ScriptSpans
  <2>2. /\ p \in Passes /\ p.st = [a.st EXCEPT ![s] = v] /\ p.launched = a.launched \cup {}
        /\ p.rewritten \subseteq a.rewritten \cup {s} /\ p.mishap = a.mishap
        /\ p.present = a.present
        /\ q \in Passes /\ q.st = [a.st EXCEPT ![s] = v] /\ q.launched = a.launched \cup {}
        /\ q.rewritten \subseteq a.rewritten \cup {s} /\ q.mishap = a.mishap
        /\ q.present = a.present
    BY <1>2, <2>1, Changes
  <2> HIDE DEF p, q
  <2>3. {} \in SUBSET {s}
    OBVIOUS
  <2>4. Runs(a, p, Span(s))
    BY <2>2, <2>3, ScriptWrites
  <2>5. Runs(a, q, Span(s))
    BY <2>2, <2>3, ScriptWrites
  <2> QED
    BY <2>4, <2>5 DEF p, q
<1> QED
  BY <1>1, <1>2

LEMMA RunsType ==
  ASSUME NEW a, NEW b, NEW X, Runs(a, b, X)
  PROVE  /\ b \in Passes
         /\ \A x \in Rows : /\ x \notin X => b.st[x] = a.st[x]
                            /\ a.st[x] \in Final => b.st[x] = a.st[x]
                            /\ Exists(a.st, x) => Exists(b.st, x)
BY DEF Runs, Grows

LEMMA LaunchRuns ==
  ASSUME NEW s \in Works, NEW a \in Passes,
         a.st[s] \in Ripe \/ (a.st[s] = "waiting" /\ PrerequisitesDone(a.st, s))
  PROVE  /\ Runs(a, Launch(a, s), Span(s))
         /\ Launch(a, s).st[s] \notin Final \cup {"absent"}
<1>0. s \in Scripts /\ s \in Rows
  BY ScriptSpans DEF Works
<1>1. "prepared" \in Status /\ "running" \in Status
  BY Statuses
<1>s. a.st[s] \in Fresh /\ a.st[s] \notin Final \cup {"absent"}
      /\ (a.st[s] \in Ripe \/ PrerequisitesDone(a.st, s))
  BY DEF Fresh, Ripe, Final
<1>2. CASE Suffers(a, "unlaunched", s)
  <2> DEFINE b == Put(a, s, "prepared")
  <2>1. b \in Passes /\ b.st[s] \notin Final \cup {"absent"}
    BY <1>0, <1>1, <1>s, PutType DEF Final
  <2>2. Runs(a, b, Span(s))
    BY <1>0, <1>1, <1>s, ScriptTakes
  <2> HIDE DEF b
  <2>3. Raise(b) \in Passes /\ Runs(b, Raise(b), Span(s)) /\ Raise(b).st = b.st
    BY <2>1, RaiseRuns DEF Raise, Passes
  <2>4. Runs(a, Raise(b), Span(s))
    BY <1>0, <2>1, <2>2, <2>3, RunsOn, ScriptSpans
  <2>5. Launch(a, s) = Raise(b)
    BY <1>2 DEF Launch, b
  <2> QED
    BY <2>1, <2>3, <2>4, <2>5
<1>3. CASE ~Suffers(a, "unlaunched", s)
  <2> DEFINE b == [a EXCEPT !.launched = @ \cup {s}, !.st[s] = "running"]
  <2>1. Launch(a, s) = b
    BY <1>3 DEF Launch
  <2>2. /\ b \in Passes /\ b.st = [a.st EXCEPT ![s] = "running"]
        /\ b.launched = a.launched \cup {s} /\ b.rewritten = a.rewritten
        /\ b.mishap = a.mishap /\ b.present = a.present
    BY <1>0, <1>1 DEF Passes
  <2>3. b.st[s] = "running" /\ "running" \notin Final \cup {"absent"}
    BY <1>0, <2>2, AcceptedRows DEF Final
  <2> HIDE DEF b
  <2>4. "running" \in Status /\ "running" \notin Fresh /\ "running" \notin Ripe
    BY <1>1 DEF Fresh, Ripe
  <2>5. Runs(a, b, Span(s))
    BY <1>0, <1>s, <2>2, <2>4, ScriptWrites, {s} \in SUBSET {s}
  <2> QED
    BY <2>1, <2>3, <2>5
<1> QED
  BY <1>2, <1>3

LEMMA WorkBegins ==
  ASSUME NEW s \in Works, NEW a \in Passes, Startable(a.st, s) \/ a.st[s] = "prepared"
  PROVE  Runs(a, BeginWork(a, s), Span(s))
<1>0. s \in Scripts /\ s \in Rows /\ Span(s) \in SUBSET Rows
  BY ScriptSpans DEF Works
<1>1. a.st[s] \in Ripe \/ (a.st[s] = "waiting" /\ PrerequisitesDone(a.st, s))
  BY DEF Startable, Ripe
<1>2. a.st[s] \in Fresh /\ a.st[s] \notin Final \cup {"absent"}
  BY <1>1 DEF Fresh, Ripe, Final
<1>3. "failed" \in Status /\ "failed" \notin Fresh /\ "failed" \notin Ripe
  BY Statuses DEF Fresh, Ripe
<1>4. Runs(a, Raise(a), Span(s))
  BY RaiseRuns
<1>5. Runs(a, Put(a, s, "failed"), Span(s))
  BY <1>0, <1>2, <1>3, ScriptTakes
<1> DEFINE b == Launch(a, s)
<1>6. Runs(a, b, Span(s)) /\ b.st[s] \notin Final \cup {"absent"}
  BY <1>1, LaunchRuns
<1> HIDE DEF b
<1>7. b \in Passes /\ b.st[s] \notin Final \cup {"absent"}
  BY <1>6, RunsType
<1>8. Runs(b, Put(b, s, "failed"), Span(s))
  BY <1>0, <1>3, <1>7, ScriptTakes
<1>9. Runs(a, Put(b, s, "failed"), Span(s))
  BY <1>0, <1>6, <1>7, <1>8, RunsOn, RunsType
<1>10. BeginWork(a, s) \in {Raise(a), Put(a, s, "failed"), Put(b, s, "failed"), b}
  BY DEF BeginWork, b
<1> QED
  BY <1>4, <1>5, <1>6, <1>9, <1>10

(* The rows a script inserts are children of the element it belongs to.    *)
LEMMA ChildrenInserted ==
  ASSUME NEW s \in Scripts, NEW a \in Passes, a.st[s] # "absent",
         NEW S \in SUBSET Kids({Owner(s)})
  PROVE  /\ Runs(a, Insert(a, S), Span(s)) /\ Insert(a, S) \in Passes
         /\ Insert(a, S).st[s] = a.st[s]
<1>1. /\ Span(s) \in SUBSET Rows /\ S \in SUBSET Span(s) /\ s \in Rows
      /\ \A e \in Span(s) \cap Elements : S \cap Under(e) = {}
  BY ScriptSpans
<1>2. \A x \in S, e \in Steps : x \in Under(e) => \E z \in Under(e) : Exists(a.st, z)
  BY ScriptSpans DEF Exists, Elements
<1>3. Exists(a.st, s)
  BY DEF Exists
<1>4. \A e \in Span(s) \cap Elements : a.st[e] \in Final => S \cap Under(e) = {}
  BY <1>1
<1>5. \A x \in S, e \in Steps : x \in Under(e) =>
        \/ \E z \in Under(e) : Exists(a.st, z)
        \/ PrerequisitesDone(a.st, e)
        \/ a.st[e] \in Ripe
  BY <1>2
<1> DEFINE b == Insert(a, S)
<1>6. /\ b \in Passes /\ Runs(a, b, Span(s))
      /\ \A y \in Rows : Exists(a.st, y) => b.st[y] = a.st[y]
  BY <1>1, <1>4, <1>5, InsertRuns
<1> HIDE DEF b
<1>7. b.st[s] = a.st[s]
  BY <1>1, <1>3, <1>6
<1> QED
  BY <1>6, <1>7 DEF b

LEMMA ScriptBegins ==
  ASSUME NEW below, NEW s \in Scripts, Good(below, Kids({Owner(s)})),
         NEW a \in Passes, Startable(a.st, s) \/ a.st[s] = "prepared"
  PROVE  Runs(a, Begin(below, a, s), Span(s))
<1>0. s \in Rows /\ Span(s) \in SUBSET Rows
  BY ScriptSpans
<1>1. a.st[s] \in Fresh /\ a.st[s] \notin Final \cup {"absent"}
  BY DEF Fresh, Final, Startable
<1>2. Kind[s] \in {"batch", "bash", "report", "steps", "groups", "jobs"}
  BY ScriptAssumption
<1>v. /\ "running" \in Status /\ "running" \notin Fresh /\ "running" \notin Ripe
      /\ "prepared" \in Status /\ "prepared" \notin Final \cup {"absent"}
  BY Statuses DEF Fresh, Ripe, Final
<1>3. CASE Kind[s] \in {"batch", "bash"}
  <2>1. s \in Works /\ Begin(below, a, s) = BeginWork(a, s)
    BY <1>3 DEF Works, Begin
  <2> QED
    BY <2>1, WorkBegins
<1>4. CASE Kind[s] = "report"
  <2>1. Begin(below, a, s) = Put(a, s, "running")
    BY <1>4 DEF Begin, BeginReport
  <2> QED
    BY <1>1, <1>v, <2>1, ScriptTakes
(* A script that is not work is prepared, and the children are processed.  *)
<1>p. ASSUME s \notin Works, NEW b \in Passes, b.st[s] \notin Final \cup {"absent"}
      PROVE  Runs(b, RunChildren(below, Put(b, s, "prepared"), s), Span(s))
  <2> DEFINE c == Put(b, s, "prepared")
  <2>1. c \in Passes /\ c.st[s] \notin Final \cup {"absent"} /\ Runs(b, c, Span(s))
    <3>1. c \in Passes /\ c.st[s] \notin Final \cup {"absent"}
      BY <1>0, <1>v, <1>p, PutType
    <3>2. Runs(b, c, Span(s))
      BY <1>v, <1>p, ScriptTakes
    <3> QED
      BY <3>1, <3>2
  <2> HIDE DEF c
  <2>2. Runs(c, RunChildren(below, c, s), Span(s))
    BY <2>1, ChildrenRun
  <2>3. Runs(b, RunChildren(below, c, s), Span(s))
    BY <1>0, <2>1, <2>2, RunsOn, RunsType
  <2> QED
    BY <2>3 DEF c
<1>5. CASE Kind[s] = "steps"
  <2>1. Begin(below, a, s) = RunChildren(below, Put(a, s, "prepared"), s) /\ s \notin Works
    BY <1>5 DEF Begin, BeginSteps, Works
  <2> QED
    BY <1>1, <1>p, <2>1
<1>6. CASE Kind[s] = "groups"
  <2> DEFINE K == Kids({Owner(s)})
             b == IF a.st[s] = "prepared" THEN a ELSE Insert(a, K)
  <2>1. Begin(below, a, s) = RunChildren(below, Put(b, s, "prepared"), s)
    <3>1. K = Seqs!ToSet(Children[Owner(s)])
      BY ScriptSpans
    <3> QED
      BY <1>6, <3>1 DEF Begin, BeginGroups, BeginSteps
  <2>2. Runs(a, b, Span(s)) /\ b \in Passes /\ b.st[s] = a.st[s]
    <3>1. Runs(a, a, Span(s))
      BY RaiseRuns
    <3>2. /\ Runs(a, Insert(a, K), Span(s)) /\ Insert(a, K) \in Passes
          /\ Insert(a, K).st[s] = a.st[s]
      BY <1>1, ChildrenInserted
    <3> HIDE DEF K
    <3> QED
      BY <3>1, <3>2
  <2> HIDE DEF b
  <2>3. Runs(b, RunChildren(below, Put(b, s, "prepared"), s), Span(s))
    BY <1>1, <1>6, <1>p, <2>2 DEF Works
  <2> QED
    BY <1>0, <2>1, <2>2, <2>3, RunsOn, RunsType
<1>7. CASE Kind[s] = "jobs"
  <2> DEFINE b == Insert(a, {Children[Owner(s)][1]})
  <2>1. Begin(below, a, s) = IF a.st[s] = "prepared" THEN RunChildren(below, a, s)
                             ELSE Put(b, s, "running")
    BY <1>7 DEF Begin, BeginJobs
  <2>2. Runs(a, RunChildren(below, a, s), Span(s))
    BY <1>1, ChildrenRun
  <2>3. {Children[Owner(s)][1]} \in SUBSET Kids({Owner(s)})
    <3>1. Owner(s) \in Elements /\ Kids({Owner(s)}) = Seqs!ToSet(Children[Owner(s)])
      BY ScriptSpans
    <3>2. Children[Owner(s)] \in Seq(Elements) /\ Children[Owner(s)] # <<>>
      BY <1>7, <3>1, TreeAssumption, ScriptAssumption
    <3>3. ASSUME NEW q \in Seq(Elements), q # <<>> PROVE q[1] \in Seqs!ToSet(q)
      <4>1. 1 \in DOMAIN q
        BY <3>3
      <4> QED
        BY <4>1 DEF Seqs!ToSet
    <3>4. Children[Owner(s)][1] \in Seqs!ToSet(Children[Owner(s)])
      BY <3>2, <3>3
    <3> QED
      BY <3>1, <3>4
  <2>4. Runs(a, b, Span(s)) /\ b \in Passes /\ b.st[s] = a.st[s]
    BY <1>1, <2>3, ChildrenInserted
  <2> HIDE DEF b
  <2>5. Runs(b, Put(b, s, "running"), Span(s))
    BY <1>1, <1>v, <2>4, ScriptTakes
  <2>6. Runs(a, Put(b, s, "running"), Span(s))
    BY <1>0, <2>4, <2>5, RunsOn, RunsType
  <2> QED
    BY <2>1, <2>2, <2>4, <2>6
<1> QED
  BY <1>2, <1>3, <1>4, <1>5, <1>6, <1>7

LEMMA ScriptChecked ==
  ASSUME NEW below, NEW s \in Scripts, Good(below, Kids({Owner(s)})), WmsOK,
         NEW a \in Passes, a.st[s] = "running"
  PROVE  Runs(a, CheckScript(below, a, s), Span(s))
<1>1. a.st[s] \notin Final \cup {"absent"}
  BY DEF Final
<1>2. CASE Kind[s] \in {"steps", "groups", "jobs"}
  BY <1>1, <1>2, ChildrenRun DEF CheckScript
<1>3. CASE Kind[s] \notin {"steps", "groups", "jobs"} /\ Outcome(a, s) = "missing"
  BY <1>3, RaiseRuns DEF CheckScript
<1>4. CASE Kind[s] \notin {"steps", "groups", "jobs"} /\ Outcome(a, s) # "missing"
  <2>1. Verdicts[s] \subseteq Status \cup {"missing"}
    BY ScriptAssumption
  <2>2. Outcome(a, s) \in {"accepted", "running"} \cup Verdicts[s]
    BY DEF Outcome, WmsOK
  <2>3. Outcome(a, s) \in Status
    BY <1>4, <2>1, <2>2, Statuses
  <2>4. VerdictsEnd /\ s \in Works => Outcome(a, s) \notin Fresh
    BY <2>2 DEF VerdictsEnd, Fresh
  <2>5. Ripe \subseteq Fresh
    BY DEF Ripe, Fresh
  <2>6. Runs(a, Rewrite(a, s, Outcome(a, s)), Span(s))
    BY <1>1, <2>3, <2>4, <2>5, ScriptTakes
  <2> QED
    BY <1>4, <2>6 DEF CheckScript
<1> QED
  BY <1>2, <1>3, <1>4

LEMMA ScriptRuns ==
  ASSUME NEW below, NEW s \in Scripts, Good(below, Kids({Owner(s)})), WmsOK, NEW r \in Passes
  PROVE  Runs(r, ScriptPass(below)[s][r], Span(s))
<1> DEFINE a == IF Startable(r.st, s) \/ r.st[s] = "prepared" THEN Begin(below, r, s) ELSE r
<1>1. ScriptPass(below)[s][r] = CheckScript(below, a, s)
  BY DEF ScriptPass
<1>2. Runs(r, a, Span(s))
  BY ScriptBegins, RaiseRuns
<1> HIDE DEF a
<1>3. a \in Passes
  BY <1>2, RunsType
<1>4. Runs(a, CheckScript(below, a, s), Span(s))
  <2>1. CASE a.st[s] = "running"
    BY <1>3, <2>1, ScriptChecked
  <2>2. CASE a.st[s] # "running"
    BY <1>3, <2>2, RaiseRuns DEF CheckScript
  <2> QED
    BY <2>1, <2>2
<1>5. Span(s) \in SUBSET Rows
  BY ScriptSpans
<1> QED
  BY <1>1, <1>2, <1>3, <1>4, <1>5, RunsOn, RunsType

-----------------------------------------------------------------------------
(* Elements                                                                *)

LEMMA ElementTrees ==
  ASSUME NEW e \in Elements
  PROVE  /\ e \in Rows /\ e \in Tree(e) /\ e \notin Scripts /\ e \notin Works
         /\ Tree(e) \in SUBSET Rows /\ Under(e) \in SUBSET Rows /\ Under(e) \subseteq Tree(e)
         /\ e \notin Under(e) /\ Tree(e) = {e} \cup Under(e)
         /\ ScriptsIn(e) \subseteq Scripts /\ ScriptsIn(e) \subseteq Under(e)
         /\ \A f \in Tree(e) \cap Elements : e \notin Under(f)
         /\ \A f \in Tree(e) \cap Elements : f # e => ScriptsIn(e) \cap Under(f) = {}
         /\ \A f \in Elements, s \in ScriptsIn(e) : s \in Under(f) => f = e \/ e \in Under(f)
<1>1. e \in Rows /\ e \in Tree(e)
  BY DEF Rows, Tree, Family
<1>2. e \notin Scripts /\ e \notin Works /\ ScriptsIn(e) \subseteq Scripts
  BY ScriptAssumption DEF Scripts, Works
<1>3. /\ Tree(e) \subseteq Rows /\ e \notin Under(e)
      /\ Under(e) = ScriptsIn(e) \cup UNION {Tree(k) : k \in Kids({e})}
  BY TreeSplits
<1>4. Under(e) \subseteq Tree(e) /\ Tree(e) = {e} \cup Under(e)
  BY <1>1 DEF Under
<1>5. ASSUME NEW f \in Tree(e) \cap Elements, f # e
      PROVE  e \notin Under(f) /\ ScriptsIn(e) \cap Under(f) = {}
  <2>1. f \in Family(e)
    BY <1>5, OwnersAndParents
  <2>2. e \notin Family(f)
    BY <1>5, <2>1, TreesNest
  <2>3. e \notin Tree(f)
    BY <1>5, <2>2, OwnersAndParents
  <2>4. ScriptsIn(e) \cap Under(f) = {}
    BY <1>5, <2>2, OwnersAndParents
  <2> QED
    BY <2>3, <2>4 DEF Under
<1>6. ASSUME NEW f \in Elements, NEW s \in ScriptsIn(e), s \in Under(f)
      PROVE  f = e \/ e \in Under(f)
  <2>1. e \in Family(f)
    BY <1>6, OwnersAndParents
  <2>2. e \in Tree(f)
    BY <2>1, OwnersAndParents
  <2> QED
    BY <2>2 DEF Under
<1>7. Tree(e) \in SUBSET Rows /\ Under(e) \in SUBSET Rows /\ ScriptsIn(e) \subseteq Under(e)
  BY <1>3, <1>4
<1>8. \A f \in Tree(e) \cap Elements : e \notin Under(f)
  BY <1>3, <1>5
<1> QED
  BY <1>1, <1>2, <1>3, <1>4, <1>5, <1>6, <1>7, <1>8

LEMMA ElementTakes ==
  ASSUME NEW e \in Elements, NEW a \in Passes, NEW v \in Status, v # "reviewable",
         a.st[e] \notin Final \cup {"absent"},
         v = "accepted" /\ a.st[e] # "reviewable" =>
           \A j \in JobsBelow(e) : a.st[j] \in Final \cup {"absent"},
         e \in Steps /\ v \in Ripe => a.st[e] \in Ripe \/ PrerequisitesDone(a.st, e)
  PROVE  Runs(a, Put(a, e, v), Tree(e)) /\ Runs(a, Rewrite(a, e, v), Tree(e))
<1>1. /\ Tree(e) \in SUBSET Rows /\ e \in Tree(e) /\ e \notin Works /\ e \in Rows
      /\ \A f \in Tree(e) \cap Elements : a.st[f] \in Final => e \notin Under(f)
      /\ {} \in SUBSET {e}
  BY ElementTrees
<1>2. CASE a.raised
  BY <1>2, RaiseRuns DEF Put, Rewrite
<1>3. CASE ~a.raised
  <2> DEFINE p == Put(a, e, v)
             q == Rewrite(a, e, v)
  <2>1. /\ p \in Passes /\ p.st = [a.st EXCEPT ![e] = v] /\ p.launched = a.launched \cup {}
        /\ p.rewritten \subseteq a.rewritten \cup {e} /\ p.mishap = a.mishap
        /\ p.present = a.present
        /\ q \in Passes /\ q.st = [a.st EXCEPT ![e] = v] /\ q.launched = a.launched \cup {}
        /\ q.rewritten \subseteq a.rewritten \cup {e} /\ q.mishap = a.mishap
        /\ q.present = a.present
    BY <1>1, <1>3, Changes
  <2> HIDE DEF p, q
  <2>2. e \in Works \cup Steps /\ v \in Ripe => a.st[e] \in Ripe \/ PrerequisitesDone(a.st, e)
    BY <1>1
  <2>3. Runs(a, p, Tree(e))
    BY <1>1, <2>1, <2>2, WriteRuns
  <2>4. Runs(a, q, Tree(e))
    BY <1>1, <2>1, <2>2, WriteRuns
  <2> QED
    BY <2>3, <2>4 DEF p, q
<1> QED
  BY <1>2, <1>3

LEMMA ContinueRuns ==
  ASSUME NEW below, NEW e \in Elements, Good(below, Kids({e})), WmsOK,
         NEW from \in {"prepared", "running"}, NEW a \in Passes, a.st[e] = from
  PROVE  Runs(a, Continue(below, a, e, from), Tree(e))
<1> DEFINE left == {s \in ScriptsIn(e) : Exists(a.st, s) /\ ~AtLeast(a.st, s, "reviewable")}
           b    == PassAll(ScriptPass(below), a, ScriptsOf[e], left)
<1>0. /\ Tree(e) \in SUBSET Rows /\ Under(e) \in SUBSET Rows /\ Under(e) \subseteq Tree(e)
      /\ e \notin Under(e) /\ Tree(e) = {e} \cup Under(e) /\ e \in Rows
      /\ ScriptsIn(e) \subseteq Scripts
  BY ElementTrees
<1>u. \A f \in Elements : Under(f) \subseteq Rows
  BY TreeSplits DEF Under
<1>1. ASSUME NEW r \in Passes, NEW s \in left PROVE Runs(r, ScriptPass(below)[s][r], Under(e))
  <2>1. s \in Scripts /\ s \in ScriptsIn(e)
    BY <1>0
  <2>2. Owner(s) = e
    BY <2>1, ScriptSpans, ScriptAssumption
  <2>3. Runs(r, ScriptPass(below)[s][r], Span(s))
    BY <2>1, <2>2, ScriptRuns
  <2>4. Span(s) \in SUBSET Rows /\ Span(s) \subseteq Under(e)
    BY <2>1, <2>2, ScriptSpans
  <2>5. (Under(e) \ Span(s)) \cap Elements = {}
    <3>1. Under(e) = ScriptsIn(e) \cup UNION {Tree(k) : k \in Kids({e})}
      BY TreeSplits
    <3>2. ScriptsIn(e) \cap Elements = {}
      BY <1>0, ScriptAssumption
    <3> QED
      BY <2>2, <3>1, <3>2 DEF Span
  <2> QED
    BY <1>0, <1>u, <2>3, <2>4, <2>5, Widens
<1>2. Len(ScriptsOf[e]) \in Nat
  BY ScriptAssumption
<1>3. b \in Passes /\ Runs(a, b, Under(e))
  <2> HIDE DEF left
  <2> QED
    BY <1>0, <1>1, <1>2, PassAllRuns
<1>4. Continue(below, a, e, from) = Rewrite(b, e, "running")
  BY DEF Continue
<1> HIDE DEF b
<1>5. Runs(a, b, Tree(e))
  <2>1. \A f \in (Tree(e) \ Under(e)) \cap Elements : a.st[f] \notin Final
    BY <1>0 DEF Final
  <2> QED
    BY <1>0, <1>3, <1>u, <2>1, Widens
<1>6. b.st[e] = a.st[e]
  BY <1>0, <1>3, RunsType
<1>7. b.st[e] \notin Final \cup {"absent"}
  BY <1>6 DEF Final
<1>8. "running" \in Status /\ "running" \notin Ripe
  BY Statuses DEF Ripe
<1>9. Runs(b, Rewrite(b, e, "running"), Tree(e))
  BY <1>3, <1>7, <1>8, ElementTakes
<1> QED
  BY <1>0, <1>3, <1>4, <1>5, <1>9, RunsOn, RunsType

LEMMA ElementChecked ==
  ASSUME NEW e \in Elements, NEW a \in Passes, a.st[e] = "running"
  PROVE  Runs(a, CheckElement(a, e), Tree(e))
<1>1. a.st[e] \notin Final \cup {"absent"}
  BY DEF Final
<1>2. /\ "running" \in Status /\ "running" \notin Ripe
      /\ "failed" \in Status /\ "failed" \notin Ripe
      /\ "accepted" \in Status /\ "accepted" \notin Ripe
  BY Statuses DEF Ripe
<1>3. Runs(a, Put(a, e, "running"), Tree(e))
  BY <1>1, <1>2, ElementTakes
<1>4. Runs(a, Put(a, e, "failed"), Tree(e))
  BY <1>1, <1>2, ElementTakes
<1>5. ASSUME ~Remaining(a.st, e) PROVE Runs(a, Put(a, e, "accepted"), Tree(e))
  <2>1. \A j \in JobsBelow(e) : a.st[j] \in Final \cup {"absent"}
    <3>1. \A j \in JobsBelow(e) : j \in Rows
      BY DEF JobsBelow, JobsUnder, Rows, Elements
    <3>2. \A j \in JobsBelow(e) : ~Exists(a.st, j) \/ AtLeast(a.st, j, "accepted")
      BY <1>5 DEF Remaining
    <3>3. \A j \in JobsBelow(e) : a.st[j] \in Status \cup {"absent"}
      BY <3>1, AcceptedRows
    <3> QED
      BY <3>2, <3>3, Statuses DEF Exists
  <2> QED
    BY <1>1, <1>2, <2>1, ElementTakes
<1>6. CheckElement(a, e) \in {Put(a, e, "running"), Put(a, e, "failed"), Put(a, e, "accepted")}
      /\ (Remaining(a.st, e) => CheckElement(a, e) = Put(a, e, "running"))
  BY DEF CheckElement
<1> QED
  BY <1>3, <1>4, <1>5, <1>6

LEMMA ElementPrepares ==
  ASSUME NEW e \in Elements, NEW a \in Passes, Startable(a.st, e)
  PROVE  /\ Insert(a, ScriptsIn(e)) \in Passes /\ Runs(a, Insert(a, ScriptsIn(e)), Tree(e))
         /\ Runs(a, Put(Insert(a, ScriptsIn(e)), e, "prepared"), Tree(e))
<1> DEFINE S == ScriptsIn(e)
           b == Insert(a, S)
<1>0. /\ Tree(e) \in SUBSET Rows /\ S \in SUBSET Tree(e) /\ e \in Rows
  BY ElementTrees
<1>1. a.st[e] \notin Final \cup {"absent"} /\ Exists(a.st, e)
      /\ (a.st[e] \in Ripe \/ PrerequisitesDone(a.st, e))
  BY DEF Startable, Final, Ripe, Exists
<1>2. \A f \in Tree(e) \cap Elements : a.st[f] \in Final => S \cap Under(f) = {}
  BY <1>1, ElementTrees
<1>3. \A x \in S, f \in Steps : x \in Under(f) =>
        \/ \E z \in Under(f) : Exists(a.st, z)
        \/ PrerequisitesDone(a.st, f)
        \/ a.st[f] \in Ripe
  <2>1. SUFFICES ASSUME NEW x \in S, NEW f \in Steps, x \in Under(f)
                 PROVE  \/ \E z \in Under(f) : Exists(a.st, z)
                        \/ PrerequisitesDone(a.st, f)
                        \/ a.st[f] \in Ripe
    OBVIOUS
  <2>2. f = e \/ e \in Under(f)
    BY <2>1, ElementTrees DEF Elements
  <2> QED
    BY <1>1, <2>2
<1>4. /\ b \in Passes /\ Runs(a, b, Tree(e))
      /\ \A y \in Rows : Exists(a.st, y) => b.st[y] = a.st[y]
  <2> HIDE DEF S
  <2> QED
    BY <1>0, <1>2, <1>3, InsertRuns
<1> HIDE DEF b
<1>5. b.st[e] = a.st[e]
  BY <1>0, <1>1, <1>4
<1>6. PrerequisitesDone(a.st, e) => PrerequisitesDone(b.st, e)
  <2>1. Prereqs[e] \subseteq Rows
    BY <1>0, ScriptAssumption
  <2> QED
    BY <1>4, <2>1 DEF PrerequisitesDone, AtLeast, Exists
<1>7. b.st[e] \in Ripe \/ PrerequisitesDone(b.st, e)
  BY <1>1, <1>5, <1>6
<1>8. "prepared" \in Status
  BY Statuses
<1>9. Runs(b, Put(b, e, "prepared"), Tree(e))
  BY <1>1, <1>4, <1>5, <1>7, <1>8, ElementTakes
<1>10. Put(b, e, "prepared") \in Passes
  BY <1>9, RunsType
<1>11. Runs(a, Put(b, e, "prepared"), Tree(e))
  BY <1>0, <1>4, <1>9, <1>10, RunsOn
<1> QED
  BY <1>4, <1>11 DEF b

LEMMA ElementRuns ==
  ASSUME NEW below, NEW e \in Elements, Good(below, Kids({e})), WmsOK, NEW r \in Passes
  PROVE  Runs(r, ElementPass(below)[e][r], Tree(e))
<1> DEFINE ready == PrepareElement(r, e)
           begun == Continue(below, ready, e, "prepared")
           tried == CheckElement(begun, e)
           ended == Continue(below, tried, e, "running")
<1>0. Tree(e) \in SUBSET Rows
  BY ElementTrees
<1>1. ElementPass(below)[e][r] = ReviewElement(ended, e)
  BY DEF ElementPass
<1>2. Runs(r, ready, Tree(e)) /\ ready \in Passes
  <2>1. Runs(r, r, Tree(e))
    BY RaiseRuns
  <2>2. Startable(r.st, e) => Runs(r, Put(Insert(r, ScriptsIn(e)), e, "prepared"), Tree(e))
    BY ElementPrepares
  <2>3. Runs(r, ready, Tree(e))
    BY <2>1, <2>2 DEF PrepareElement
  <2> QED
    BY <2>3, RunsType
<1> HIDE DEF ready
<1>c. ASSUME NEW from \in {"prepared", "running"}, NEW a \in Passes
      PROVE  Runs(a, Continue(below, a, e, from), Tree(e))
  <2>1. CASE a.st[e] = from
    BY <2>1, ContinueRuns
  <2>2. CASE a.st[e] # from
    BY <2>2, RaiseRuns DEF Continue
  <2> QED
    BY <2>1, <2>2
<1>3. Runs(r, begun, Tree(e)) /\ begun \in Passes
  <2>1. Runs(ready, begun, Tree(e)) /\ begun \in Passes
    BY <1>2, <1>c, RunsType
  <2> QED
    BY <1>0, <1>2, <2>1, RunsOn
<1> HIDE DEF begun
<1>4. Runs(r, tried, Tree(e)) /\ tried \in Passes
  <2>1. CASE begun.st[e] = "running"
    <3>1. Runs(begun, tried, Tree(e)) /\ tried \in Passes
      BY <1>3, <2>1, ElementChecked, RunsType
    <3> QED
      BY <1>0, <1>3, <3>1, RunsOn
  <2>2. CASE begun.st[e] # "running"
    BY <1>3, <2>2 DEF CheckElement
  <2> QED
    BY <2>1, <2>2
<1> HIDE DEF tried
<1>5. Runs(r, ended, Tree(e)) /\ ended \in Passes
  <2>1. Runs(tried, ended, Tree(e)) /\ ended \in Passes
    BY <1>4, <1>c, RunsType
  <2> QED
    BY <1>0, <1>4, <2>1, RunsOn
<1> HIDE DEF ended
<1>6. Runs(ended, ReviewElement(ended, e), Tree(e))
  <2>1. "accepted" \in Status /\ "accepted" \notin Ripe
    BY Statuses DEF Ripe
  <2>2. CASE ended.st[e] = "reviewable"
    <3>1. ended.st[e] \notin Final \cup {"absent"}
      BY <2>2 DEF Final
    <3> QED
      BY <1>5, <2>1, <2>2, <3>1, ElementTakes DEF ReviewElement
  <2>3. CASE ended.st[e] # "reviewable"
    BY <1>5, <2>3, RaiseRuns DEF ReviewElement
  <2> QED
    BY <2>2, <2>3
<1> QED
  BY <1>0, <1>1, <1>5, <1>6, RunsOn, RunsType

(* A pass over a node does what a pass may do, whatever is below it.       *)
LEMMA PassRuns ==
  ASSUME WmsOK, NEW x \in Rows, NEW r \in Passes
  PROVE  /\ x \in Scripts => Runs(r, Pass(r, x), Span(x))
         /\ x \in Elements => Runs(r, Pass(r, x), Tree(x))
<1>s. ASSUME NEW below, NEW E \in SUBSET Elements, NEW K, \A e \in E : Kids({e}) \subseteq K,
             Good(below, K)
      PROVE  Good(ElementPass(below), E)
  <2>1. \A e \in E : Good(below, Kids({e}))
    BY <1>s DEF Good
  <2> QED
    BY <2>1, ElementRuns DEF Good
<1>k. \A e \in Elements : /\ e \in Jobs => Kids({e}) = {}
                          /\ e \in Groups => Kids({e}) \subseteq Jobs
                          /\ e \in Steps => Kids({e}) \subseteq Groups
                          /\ e = Campaign => Kids({e}) \subseteq Steps
  BY Levels
<1>e. Elements = {Campaign} \cup Steps \cup Groups \cup Jobs
  BY DEF Elements
<1>1. Good(JobPass, Jobs)
  <2>1. Good(NoPass, {})
    BY DEF Good
  <2>2. \A e \in Jobs : Kids({e}) \subseteq {}
    BY <1>k, <1>e
  <2> QED
    BY <1>e, <1>s, <2>1, <2>2 DEF JobPass
<1>2. Good(GroupPass, Jobs \cup Groups)
  <2>1. \A e \in Jobs \cup Groups : Kids({e}) \subseteq Jobs
    BY <1>k, <1>e
  <2> QED
    BY <1>e, <1>1, <1>s, <2>1 DEF GroupPass
<1>3. Good(StepPass, Jobs \cup Groups \cup Steps)
  <2>1. \A e \in Jobs \cup Groups \cup Steps : Kids({e}) \subseteq Jobs \cup Groups
    BY <1>k, <1>e
  <2> QED
    BY <1>e, <1>2, <1>s, <2>1 DEF StepPass
<1>4. \A e \in Elements : Kids({e}) \subseteq Jobs \cup Groups \cup Steps
  BY <1>k, <1>e
<1>5. Good(CampaignPass, Elements)
  BY <1>3, <1>4, <1>s DEF CampaignPass
<1>6. ASSUME x \in Scripts PROVE Runs(r, Pass(r, x), Span(x))
  <2>1. Owner(x) \in Elements
    BY <1>6, ScriptSpans
  <2>2. Good(StepPass, Kids({Owner(x)}))
    BY <1>3, <1>4, <2>1 DEF Good
  <2> QED
    BY <1>6, <2>2, ScriptRuns DEF Pass
<1>7. ASSUME x \in Elements PROVE Runs(r, Pass(r, x), Tree(x))
  <2>1. x \notin Scripts
    BY <1>7, ElementTrees
  <2> QED
    BY <1>5, <1>7, <2>1 DEF Pass, Good
<1> QED
  BY <1>6, <1>7

-----------------------------------------------------------------------------
(* What a pass makes of the statuses it has read                           *)

Known(w) == {x \in DOMAIN w : w[x] \in Final}

Full == [Rows -> Status \cup {"absent"}]

Partial(w) == DOMAIN w \subseteq Rows /\ \A x \in DOMAIN w : w[x] \in Status

LEMMA OverFull ==
  ASSUME NEW w, Partial(w), NEW st \in Full
  PROVE  /\ Over(w, st) \in Full /\ DOMAIN Over(w, st) = Rows
         /\ \A x \in Rows : Over(w, st)[x] = IF x \in DOMAIN w THEN w[x] ELSE st[x]
<1>1. DOMAIN st = Rows /\ DOMAIN w \cup Rows = Rows
  BY DEF Full, Partial
<1> DEFINE f == Over(w, st)
<1>2. f = [x \in Rows |-> IF x \in DOMAIN w THEN w[x] ELSE st[x]]
  BY <1>1 DEF Over
<1>3. \A x \in Rows : (IF x \in DOMAIN w THEN w[x] ELSE st[x]) \in Status \cup {"absent"}
  BY DEF Full, Partial
<1> HIDE DEF f
<1>4. f \in Full /\ DOMAIN f = Rows /\ \A x \in Rows : f[x] = IF x \in DOMAIN w THEN w[x] ELSE st[x]
  BY <1>2, <1>3 DEF Full
<1> QED
  BY <1>4 DEF f

LEMMA OverPartial ==
  ASSUME NEW w, Partial(w), NEW v, Partial(v)
  PROVE  /\ Partial(Over(w, v)) /\ DOMAIN Over(w, v) = DOMAIN w \cup DOMAIN v
         /\ \A x \in DOMAIN w \cup DOMAIN v :
              Over(w, v)[x] = IF x \in DOMAIN w THEN w[x] ELSE v[x]
<1> DEFINE f == Over(w, v)
<1>1. /\ DOMAIN f = DOMAIN w \cup DOMAIN v
      /\ \A x \in DOMAIN w \cup DOMAIN v : f[x] = IF x \in DOMAIN w THEN w[x] ELSE v[x]
  BY DEF Over
<1> HIDE DEF f
<1>2. Partial(f)
  BY <1>1 DEF Partial
<1> QED
  BY <1>1, <1>2 DEF f

LEMMA OverLegal ==
  ASSUME NEW w, NEW v, NEW known, Legal(w, known), Legal(v, known)
  PROVE  Legal(Over(w, v), known)
<1> DEFINE f == Over(w, v)
<1>1. /\ DOMAIN f = DOMAIN w \cup DOMAIN v
      /\ \A x \in DOMAIN w \cup DOMAIN v : f[x] = IF x \in DOMAIN w THEN w[x] ELSE v[x]
  BY DEF Over
<1> HIDE DEF f
<1>2. Legal(f, known)
  BY <1>1 DEF Legal
<1> QED
  BY <1>2 DEF f

LEMMA ProcessRuns ==
  ASSUME WmsOK, NEW st \in Full, NEW x \in Rows, NEW mishap \in Mishaps \cup {None},
         NEW r, r = Process(st, x, mishap)
  PROVE  /\ r \in Passes /\ r.launched \subseteq Works
         /\ \A y \in Rows : /\ Exists(st, y) => Exists(r.st, y)
                            /\ st[y] \in Final => r.st[y] = st[y]
                            /\ y \in r.rewritten => Exists(r.st, y)
                            /\ y \in Elements /\ st[y] # "reviewable" => r.st[y] # "reviewable"
         /\ \A e \in Elements :
              st[e] \notin Final \cup {"reviewable"} /\ r.st[e] = "accepted" =>
                \A j \in JobsBelow(e) : r.st[j] \in Final \cup {"absent"}
         /\ VerdictsEnd =>
              /\ \A s \in r.launched : st[s] \in Fresh /\ r.st[s] \notin Fresh
              /\ \A s \in Works : st[s] \notin Fresh => r.st[s] \notin Fresh
              /\ \A known \in SUBSET Rows : Legal(st, known) =>
                   /\ Legal(r.st, known \cup Accepted(r.st))
                   /\ \A s \in r.launched : Cleared(s, known \cup Accepted(r.st))
<1> DEFINE a == [st |-> st, launched |-> {}, rewritten |-> {}, raised |-> FALSE,
                 mishap |-> mishap, present |-> {y \in Rows : Exists(Over(written, status), y)}]
<1>1. a \in Passes /\ a.st = st /\ a.launched = {} /\ a.rewritten = {}
  BY DEF Passes, Full
<1>2. r = Pass(a, x)
  BY DEF Process
<1> HIDE DEF a
<1>3. \E X \in SUBSET Rows : Runs(a, r, X)
  <2>1. CASE x \in Scripts
    <3>1. Runs(a, r, Span(x))
      BY <1>1, <1>2, <2>1, PassRuns
    <3> QED
      BY <2>1, <3>1, ScriptSpans
  <2>2. CASE x \in Elements
    <3>1. Runs(a, r, Tree(x))
      BY <1>1, <1>2, <2>2, PassRuns
    <3> QED
      BY <2>2, <3>1, ElementTrees
  <2> QED
    BY <2>1, <2>2 DEF Rows
<1>4. PICK X \in SUBSET Rows : Runs(a, r, X)
  BY <1>3
<1>5. Grows(a, r, X) /\ Judges(a, r, X) /\ LaunchesOnce(a, r) /\ StaysLegal(a, r)
  BY <1>4 DEF Runs
<1>6. r \in Passes /\ r.launched \subseteq Works
  BY <1>1, <1>5 DEF Grows, LaunchesOnce
<1>7. \A y \in Rows : /\ y \notin X => r.st[y] = st[y]
                      /\ Exists(st, y) => Exists(r.st, y)
                      /\ st[y] \in Final => r.st[y] = st[y]
                      /\ y \in r.rewritten => Exists(r.st, y)
                      /\ y \in Elements /\ st[y] # "reviewable" => r.st[y] # "reviewable"
  BY <1>1, <1>5 DEF Grows
<1>8. ASSUME NEW e \in Elements, st[e] \notin Final \cup {"reviewable"}, r.st[e] = "accepted"
      PROVE  \A j \in JobsBelow(e) : r.st[j] \in Final \cup {"absent"}
  <2>1. e \in X
    BY <1>7, <1>8 DEF Rows, Final
  <2> QED
    BY <1>1, <1>5, <1>8, <2>1 DEF Judges
<1>9. ASSUME VerdictsEnd
      PROVE  /\ \A s \in r.launched : st[s] \in Fresh /\ r.st[s] \notin Fresh
             /\ \A s \in Works : st[s] \notin Fresh => r.st[s] \notin Fresh
  BY <1>1, <1>5, <1>9 DEF LaunchesOnce
<1>10. ASSUME VerdictsEnd, NEW known \in SUBSET Rows, Legal(st, known)
       PROVE  /\ Legal(r.st, known \cup Accepted(r.st))
              /\ \A s \in r.launched : Cleared(s, known \cup Accepted(r.st))
  <2>1. Legal(st, known \cup Accepted(st))
    BY <1>10 DEF Legal, LegalRow
  <2>2. LegalPass(a, known)
    BY <1>1, <2>1 DEF LegalPass
  <2>3. LegalPass(r, known)
    BY <1>5, <1>10, <2>2 DEF StaysLegal
  <2> QED
    BY <2>3 DEF LegalPass
<1> QED
  BY <1>6, <1>7, <1>8, <1>9, <1>10

LEMMA WritesOf ==
  ASSUME NEW st \in Full, status \in Full, NEW r \in Passes,
         \A y \in Rows : /\ Exists(st, y) => Exists(r.st, y)
                         /\ y \in r.rewritten => Exists(r.st, y)
  PROVE  /\ Partial(Writes(st, r))
         /\ \A x \in DOMAIN Writes(st, r) : Writes(st, r)[x] = r.st[x]
         /\ \A x \in Rows \ DOMAIN Writes(st, r) : r.st[x] = st[x]
<1>1. r.st \in Full
  BY AcceptedRows DEF Full
<1> DEFINE D == {y \in Rows : r.st[y] # st[y] \/ (y \in r.rewritten /\ r.st[y] # status[y])}
<1>2. Writes(st, r) = [x \in D |-> r.st[x]]
  BY DEF Writes
<1>3. \A x \in D : r.st[x] \in Status
  <2>1. SUFFICES ASSUME NEW x \in D PROVE r.st[x] # "absent"
    BY <1>1 DEF Full
  <2>2. st[x] = "absent" \/ r.st[x] # "absent"
    BY DEF Exists
  <2> QED
    BY <2>2 DEF Exists
<1>4. \A x \in Rows \ D : r.st[x] = st[x]
  OBVIOUS
<1> HIDE DEF D
<1>5. D \subseteq Rows
  BY DEF D
<1> QED
  BY <1>2, <1>3, <1>4, <1>5 DEF Partial

-----------------------------------------------------------------------------
(* What users ask for                                                      *)

(* Some requests give a row another status; of these some let a script be  *)
(* launched again, which is counted.                                       *)
Changing == {"reject", "accept", "reset", "update", "reset_script", "retry"}
Counting == {"reset", "update", "reset_script", "retry"}

LEMMA ShortSequences ==
  ASSUME NEW T, NEW q \in Seq(T), NEW S, S \subseteq Seqs!ToSet(q), S # Seqs!ToSet(q)
  PROVE  Cardinality(S) + 1 \in 1..Len(q)
<1> DEFINE D == 1..Len(q)
           f == [i \in D |-> q[i]]
<1>1. Len(q) \in Nat /\ DOMAIN q = D
  OBVIOUS
<1>2. Seqs!ToSet(q) = {q[i] : i \in D}
  BY <1>1 DEF Seqs!ToSet
<1>3. IsFiniteSet(D) /\ Cardinality(D) = Len(q)
  BY <1>1, FS_Interval
<1>4. f \in Surjection(D, Seqs!ToSet(q))
  BY <1>2 DEF Surjection
<1>5. IsFiniteSet(Seqs!ToSet(q)) /\ Cardinality(Seqs!ToSet(q)) <= Len(q)
  <2> HIDE DEF D, f
  <2> QED
    BY <1>3, <1>4, FS_Surjection
<1>6. /\ IsFiniteSet(S) /\ Cardinality(S) \in Nat /\ Cardinality(Seqs!ToSet(q)) \in Nat
      /\ Cardinality(S) < Cardinality(Seqs!ToSet(q))
  BY <1>5, FS_Subset, FS_CardinalityType
<1> QED
  BY <1>1, <1>5, <1>6

LEMMA NextAttempts ==
  ASSUME NEW g \in Groups, JobsOf(g) # Seqs!ToSet(Children[g])
  PROVE  NextAttempt(g) \in Kids({g})
<1>1. Children[g] \in Seq(Elements)
  BY TreeAssumption DEF Elements
<1>2. JobsOf(g) \subseteq Seqs!ToSet(Children[g])
  BY DEF JobsOf
<1>3. Cardinality(JobsOf(g)) + 1 \in 1..Len(Children[g])
  BY <1>1, <1>2, ShortSequences
<1>4. ASSUME NEW q \in Seq(Elements), NEW i \in 1..Len(q) PROVE q[i] \in Seqs!ToSet(q)
  <2>1. i \in DOMAIN q
    OBVIOUS
  <2> QED
    BY <2>1 DEF Seqs!ToSet
<1>5. Kids({g}) = Seqs!ToSet(Children[g])
  BY DEF Kids
<1> QED
  BY <1>1, <1>3, <1>4, <1>5 DEF NextAttempt

(* What a request is when a user has sent it.                              *)
LEMMA Asked ==
  ASSUME LegacyTypeOK, NEW rq \in UNION Seqs!ToSet(Requests), UserAsks(rq)
  PROVE  /\ request'.rq = rq
         /\ rq.op \in Changing \cup {"rescue", "rescued", "mark_rescued", "process", "toggle", "enqueue"}
         /\ rq.op = "process" => request'.seen = status
         /\ rq.op \in {"toggle", "enqueue"} =>
              DOMAIN request'.writes = {rq.row} /\ request'.writes[rq.row] \in {"active", "paused"}
         /\ rq.op \in Changing =>
              /\ rq.row \in Rows /\ Exists(status, rq.row)
              /\ DOMAIN request'.writes = {rq.row} /\ request'.writes[rq.row] \in Status
              /\ rq.op = "reject" => request'.writes[rq.row] = "rejected"
              /\ rq.op = "accept" => request'.writes[rq.row] = "accepted"
              /\ rq.op \in {"reset", "retry"} => request'.writes[rq.row] = "waiting"
              /\ rq.op \in {"update", "reset_script"} => request'.writes[rq.row] = rq.to
         /\ rq.op \in {"rescue", "rescued", "mark_rescued"} =>
              /\ rq.row \in Groups /\ DOMAIN request'.writes \subseteq Kids({rq.row})
              /\ \A x \in DOMAIN request'.writes : request'.writes[x] \in {"waiting", "rescued"}
              /\ DOMAIN request'.writes # {} => \E j \in Kids({rq.row}) : Exists(status, j)
<1>d. \A writes : Decides(rq, writes) => request'.rq = rq /\ request'.writes = writes
  BY DEF Decides
<1>t. Scripts \subseteq Rows
  BY DEF Rows
<1>s. "absent" \notin Status /\ {"rejected", "accepted", "waiting", "ready", "prepared"} \subseteq Status
  BY Statuses
<1> DEFINE v == request'.writes[rq.row]
<1>r. ASSUME NEW statuses \in SUBSET Status, NEW to \in Status, Sets(rq, statuses, to)
      PROVE  /\ request'.rq = rq /\ Exists(status, rq.row)
             /\ DOMAIN request'.writes = {rq.row} /\ v = to
  <2>1. request'.rq = rq /\ request'.writes = [x \in {rq.row} |-> to]
    BY <1>d, <1>r DEF Sets
  <2>2. status[rq.row] \in Status
    BY <1>r DEF Sets
  <2> QED
    BY <1>s, <2>1, <2>2 DEF Exists
<1>k. /\ \A g \in Groups : Kids({g}) = Seqs!ToSet(Children[g])
      /\ \A g \in Groups : JobsOf(g) \subseteq Kids({g}) /\ Rescuable(g) \subseteq JobsOf(g)
                           /\ \A j \in JobsOf(g) : Exists(status, j)
  BY DEF Kids, JobsOf, Rescuable
<1>1. CASE rq.op = "reject" /\ Reject(rq)
  BY <1>1, <1>r, <1>s, RequestAssumption DEF Reject, Changing
<1>2. CASE rq.op = "accept" /\ Accept(rq)
  <2>1. {"blocked", "running", "reviewable", "rescuable"} \in SUBSET Status
    BY Statuses
  <2> QED
    BY <1>2, <1>r, <1>s, <2>1, RequestAssumption DEF Accept, Changing
<1>3. CASE rq.op = "reset" /\ Reset(rq)
  <2>1. {"blocked", "rejected", "failed", "ready"} \in SUBSET Status
    BY Statuses
  <2> QED
    BY <1>3, <1>r, <1>s, <2>1, RequestAssumption DEF Reset, Changing
<1>4. CASE rq.op = "update" /\ Update(rq)
  <2>1. rq.to \in Status /\ rq.row \in Rows
    BY <1>4, RequestAssumption
  <2> QED
    BY <1>4, <1>r, <2>1 DEF Update, Changing
<1>5. CASE rq.op = "reset_script" /\ ResetScript(rq)
  <2>1. rq.row \in Rows /\ rq.to \in {"waiting", "ready", "prepared"} /\ rq.to \in Status
    BY <1>5, <1>s, <1>t, RequestAssumption DEF ResetScript
  <2>2. MayGoBackTo(rq.to) \in SUBSET Status
    BY DEF MayGoBackTo
  <2> QED
    BY <1>5, <1>r, <2>1, <2>2 DEF ResetScript, Changing
<1>6. CASE rq.op = "retry" /\ RetryScript(rq)
  <2>1. rq.row \in Rows
    BY <1>6, <1>t, RequestAssumption
  <2>2. {s \in Status : IsBad(s)} \in SUBSET Status
    OBVIOUS
  <2> QED
    BY <1>6, <1>r, <1>s, <2>1, <2>2 DEF RetryScript, Changing
<1>7. CASE rq.op = "rescue" /\ RescueJob(rq)
  <2>1. rq.row \in Groups
    BY <1>7, RequestAssumption
  <2>2. NextAttempt(rq.row) \in Kids({rq.row})
    BY <1>7, <2>1, NextAttempts DEF RescueJob
  <2>3. request'.rq = rq /\ request'.writes = [j \in {NextAttempt(rq.row)} |-> "waiting"]
    BY <1>7, <1>d DEF RescueJob
  <2>4. \E j \in Kids({rq.row}) : Exists(status, j)
    BY <1>7, <1>k, <2>1 DEF RescueJob
  <2> QED
    BY <1>7, <2>1, <2>2, <2>3, <2>4 DEF Changing
<1>8. CASE rq.op = "rescued" /\ MarkJobRescued(rq)
  <2>1. rq.row \in Groups
    BY <1>8, RequestAssumption
  <2>2. request'.rq = rq /\ request'.writes = [j \in Rescuable(rq.row) |-> "rescued"]
    BY <1>8, <1>d DEF MarkJobRescued
  <2>3. DOMAIN request'.writes = Rescuable(rq.row)
        /\ \A x \in Rescuable(rq.row) : request'.writes[x] = "rescued"
    BY <2>2
  <2> QED
    BY <1>8, <1>k, <2>1, <2>2, <2>3 DEF Changing
<1>9. CASE rq.op = "mark_rescued" /\ MarkRescuedOfGroup(rq)
  <2>1. rq.row \in Groups
    BY <1>9, RequestAssumption
  <2>2. request'.rq = rq /\ request'.writes = <<>>
    BY <1>9, <1>d DEF MarkRescuedOfGroup
  <2> QED
    BY <1>9, <2>1, <2>2 DEF Changing
<1>10. CASE rq.op = "enqueue" /\ Enqueue(rq)
  <2>1. rq.to \in {"active", "paused"}
    BY <1>10, RequestAssumption
  <2>2. request'.rq = rq /\ request'.writes = [q \in {rq.row} |-> rq.to]
    BY <1>10, <1>d DEF Enqueue
  <2> QED
    BY <1>10, <2>1, <2>2 DEF Changing
<1>11. CASE rq.op = "toggle" /\ ToggleActive(rq)
  <2>2. /\ request'.rq = rq
        /\ request'.writes = [q \in {rq.row} |-> IF queue[q] = "active" THEN "paused" ELSE "active"]
    BY <1>11, <1>d DEF ToggleActive
  <2> QED
    BY <1>11, <2>2 DEF Changing
<1>12. CASE rq.op = "process" /\ ProcessNode(rq)
  <2>1. request'.rq = rq /\ request'.seen = status
    BY <1>12 DEF ProcessNode
  <2> QED
    BY <1>12, <2>1 DEF Changing
<1> QED
  BY <1>1, <1>2, <1>3, <1>4, <1>5, <1>6, <1>7, <1>8, <1>9, <1>10, <1>11, <1>12 DEF UserAsks

-----------------------------------------------------------------------------
(* Types                                                                   *)

RequestOK ==
  request # None =>
    /\ request.rq \in UNION Seqs!ToSet(Requests)
    /\ request.rq.op = "process" => request.seen \in Full
    /\ request.rq.op \in {"toggle", "enqueue"} =>
         /\ DOMAIN request.writes = {request.rq.row}
         /\ request.writes[request.rq.row] \in {"active", "paused"}
    /\ request.rq.op \notin {"process", "toggle", "enqueue"} =>
         /\ Partial(request.writes)
         /\ request.rq.op \in Counting => DOMAIN request.writes = {request.rq.row}
         /\ request.rq.op \notin Counting =>
              \A x \in DOMAIN request.writes \cap Scripts : request.writes[x] \notin Fresh

LegacyInv == LegacyTypeOK /\ RequestOK /\ (entry # None => seen \in Full)

LEMMA TypedParts ==
  ASSUME LegacyInv
  PROVE  /\ status \in Full /\ WmsOK /\ Partial(written) /\ done \subseteq Rows
         /\ launches \in [Scripts -> Nat] /\ again \in [Scripts -> Nat]
         /\ entry # None => /\ seen \in Full /\ entry \in Entries
                            /\ NodeOf[entry] \in Rows
BY QueueAssumption DEF LegacyInv, LegacyTypeOK, Full, Partial, WmsOK

LEMMA PassTypes ==
  ASSUME LegacyInv, NEW st \in Full, NEW x \in Rows, NEW mishap \in Suffered,
         NEW r, r = Process(st, x, mishap)
  PROVE  /\ r \in Passes /\ r.launched \subseteq Works /\ Works \subseteq Scripts
         /\ r.st \in Full /\ Accepted(r.st) \subseteq Rows
         /\ Accepted(r.st) = {y \in Rows : r.st[y] \in Final}
         /\ Partial(Writes(st, r))
         /\ \A y \in DOMAIN Writes(st, r) : Writes(st, r)[y] = r.st[y]
         /\ \A y \in Rows \ DOMAIN Writes(st, r) : r.st[y] = st[y]
<1>1. mishap \in Mishaps \cup {None}
  BY DEF Suffered
<1>2. WmsOK /\ status \in Full
  BY TypedParts
<1>3. /\ r \in Passes /\ r.launched \subseteq Works
      /\ \A y \in Rows : /\ Exists(st, y) => Exists(r.st, y)
                         /\ y \in r.rewritten => Exists(r.st, y)
  BY <1>1, <1>2, ProcessRuns
<1>4. /\ Partial(Writes(st, r))
      /\ \A y \in DOMAIN Writes(st, r) : Writes(st, r)[y] = r.st[y]
      /\ \A y \in Rows \ DOMAIN Writes(st, r) : r.st[y] = st[y]
  BY <1>2, <1>3, WritesOf
<1>5. Works \subseteq Scripts
  BY DEF Works
<1> QED
  BY <1>3, <1>4, <1>5, AcceptedRows DEF Full

LEMMA LaunchedTypes ==
  ASSUME LegacyInv, NEW r, Launched(r)
  PROVE  /\ launches' \in [Scripts -> Nat]
         /\ DOMAIN wms' = Scripts
         /\ \A s \in Scripts : wms'[s] \in {"idle", "accepted"} \cup Verdicts[s]
         /\ \A s \in Scripts : launches'[s] = launches[s] + IF s \in r.launched THEN 1 ELSE 0
<1>1. launches \in [Scripts -> Nat] /\ WmsOK
  BY TypedParts
<1>2. launches' = [s \in Scripts |-> launches[s] + IF s \in r.launched THEN 1 ELSE 0]
  BY DEF Launched
<1>3. \A s \in Scripts : launches[s] + (IF s \in r.launched THEN 1 ELSE 0) \in Nat
  BY <1>1
<1>4. /\ DOMAIN wms' = Scripts
      /\ \A s \in Scripts : wms'[s] \in {"idle", "accepted"} \cup Verdicts[s]
  BY <1>1 DEF Launched, WmsOK
<1> QED
  BY <1>2, <1>3, <1>4

LEMMA InitTyped == Init => LegacyInv
<1> SUFFICES ASSUME Init PROVE LegacyInv
  OBVIOUS
<1>1. status \in [Rows -> Status \cup {"absent"}]
  BY Statuses DEF Init
<1>2. DOMAIN written = {}
  BY DEF Init
<1>3. LegacyTypeOK
  BY <1>1, <1>2 DEF Init, LegacyTypeOK
<1> QED
  BY <1>3 DEF Init, LegacyInv, RequestOK

LEMMA EntryEndsTyped ==
  ASSUME LegacyInv, EntryEnds
  PROVE  LegacyInv'
<1>1. entry \in Entries /\ seen \in Full /\ NodeOf[entry] \in Rows /\ status \in Full
      /\ Partial(written) /\ done \subseteq Rows
  BY TypedParts DEF EntryEnds
<1>2. PICK mishap \in Suffered : \E r \in {Process(seen, NodeOf[entry], mishap)} :
         /\ written' = Over(Writes(seen, r), written)
         /\ closed' = IF Closes(entry, r) THEN closed \cup {entry} ELSE closed
         /\ Launched(r)
         /\ Spend(mishap)
         /\ done' = done \cup Accepted(r.st)
  BY DEF EntryEnds
<1>3. PICK r : /\ r = Process(seen, NodeOf[entry], mishap)
               /\ written' = Over(Writes(seen, r), written)
               /\ closed' = IF Closes(entry, r) THEN closed \cup {entry} ELSE closed
               /\ Launched(r)
               /\ Spend(mishap)
               /\ done' = done \cup Accepted(r.st)
  BY <1>2
<1>4. Partial(Writes(seen, r)) /\ Accepted(r.st) \subseteq Rows
  BY <1>1, <1>3, PassTypes
<1>5. Partial(written')
  BY <1>1, <1>3, <1>4, OverPartial
<1>6. /\ launches' \in [Scripts -> Nat] /\ DOMAIN wms' = Scripts
      /\ \A s \in Scripts : wms'[s] \in {"idle", "accepted"} \cup Verdicts[s]
  BY <1>3, LaunchedTypes
<1>7. /\ status' = status /\ queue' = queue /\ todo' = todo /\ request' = request
      /\ requests' = requests /\ crashes' = crashes /\ again' = again /\ entry' = None
  BY DEF EntryEnds, rows
<1>8. mishaps' \in Nat
  BY <1>3 DEF Spend, LegacyInv, LegacyTypeOK
<1>9. DOMAIN written' \subseteq Rows /\ \A x \in DOMAIN written' : written'[x] \in Status
  BY <1>5 DEF Partial
<1>10. closed' \subseteq Entries
  BY <1>1, <1>3 DEF LegacyInv, LegacyTypeOK
<1>11. done' \subseteq Rows
  BY <1>1, <1>3, <1>4
<1>12. LegacyTypeOK'
  <2>1. LegacyTypeOK
    BY DEF LegacyInv
  <2> QED
    BY <1>6, <1>7, <1>8, <1>9, <1>10, <1>11, <2>1 DEF LegacyTypeOK
<1>13. RequestOK'
  BY <1>7 DEF LegacyInv, RequestOK
<1> QED
  BY <1>7, <1>12, <1>13 DEF LegacyInv

(* What a user's pass commits: w, and what it counts.                      *)
LEMMA UserPasses ==
  ASSUME LegacyInv, UserProcesses
  PROVE  \E node \in Rows, mishap \in Suffered, skip \in BOOLEAN : \E r, w :
           /\ request # None /\ request.seen \in Full
           /\ r = Process(request.seen, node, mishap)
           /\ w = IF skip \/ r.raised THEN <<>> ELSE Writes(request.seen, r)
           /\ Partial(w) /\ DOMAIN w \cap DOMAIN written = {}
           /\ status' = Over(w, status)
           /\ (skip /\ UNCHANGED outside) \/ (~skip /\ Launched(r))
           /\ Spend(mishap)
           /\ done' = IF skip THEN done ELSE done \cup Accepted(r.st)
<1> DEFINE x    == request.rq.row
           node == IF x \in Entries THEN NodeOf[x] ELSE x
<1>1. request # None /\ request.rq.op = "process"
  BY DEF UserProcesses
<1>2. request.seen \in Full /\ x \in Rows \cup Entries
  BY <1>1, RequestAssumption DEF LegacyInv, RequestOK
<1>3. node \in Rows
  BY <1>2, QueueAssumption
<1> HIDE DEF node
<1> DEFINE skip == x \in Entries /\ ~IsProcessable(node, request.seen[node])
           W(r) == IF skip \/ r.raised THEN <<>> ELSE Writes(request.seen, r)
<1>m. PICK mishap \in Suffered : \E r \in {Process(request.seen, node, mishap)} :
         /\ Unlocked(DOMAIN W(r) \cup {x})
         /\ status' = Over(W(r), status)
         /\ IF skip THEN UNCHANGED outside ELSE Launched(r)
         /\ Spend(mishap)
         /\ done' = IF skip THEN done ELSE done \cup Accepted(r.st)
  BY DEF UserProcesses, node
<1>4. PICK r : /\ r = Process(request.seen, node, mishap)
               /\ Unlocked(DOMAIN W(r) \cup {x})
               /\ status' = Over(W(r), status)
               /\ IF skip THEN UNCHANGED outside ELSE Launched(r)
               /\ Spend(mishap)
               /\ done' = IF skip THEN done ELSE done \cup Accepted(r.st)
  BY <1>m
<1> DEFINE w == W(r)
<1>5. /\ Unlocked(DOMAIN w \cup {x}) /\ status' = Over(w, status)
      /\ (skip /\ UNCHANGED outside) \/ (~skip /\ Launched(r))
      /\ Spend(mishap)
      /\ done' = IF skip THEN done ELSE done \cup Accepted(r.st)
      /\ skip \in BOOLEAN
  BY <1>4
<1> HIDE DEF skip
<1>6. Partial(w) /\ DOMAIN w \cap DOMAIN written = {}
  <2>1. Partial(Writes(request.seen, r))
    BY <1>2, <1>3, <1>4, PassTypes
  <2>2. Partial(<<>>)
    BY DEF Partial
  <2>3. Partial(w)
    BY <2>1, <2>2
  <2> HIDE DEF w
  <2> QED
    BY <1>5, <2>3 DEF Unlocked
<1>7. w = IF skip \/ r.raised THEN <<>> ELSE Writes(request.seen, r)
  OBVIOUS
<1> HIDE DEF w
<1> QED
  BY <1>1, <1>2, <1>3, <1>4, <1>5, <1>6, <1>7

LEMMA UserProcessesTyped ==
  ASSUME LegacyInv, UserProcesses
  PROVE  LegacyInv'
<1>p. PICK node \in Rows, mishap \in Suffered, skip \in BOOLEAN : \E r, w :
         /\ request # None /\ request.seen \in Full
         /\ r = Process(request.seen, node, mishap)
         /\ Partial(w)
         /\ status' = Over(w, status)
         /\ (skip /\ UNCHANGED outside) \/ (~skip /\ Launched(r))
         /\ Spend(mishap)
         /\ done' = IF skip THEN done ELSE done \cup Accepted(r.st)
  BY UserPasses
<1>1. PICK r, w :
         /\ request # None /\ request.seen \in Full
         /\ r = Process(request.seen, node, mishap)
         /\ Partial(w)
         /\ status' = Over(w, status)
         /\ (skip /\ UNCHANGED outside) \/ (~skip /\ Launched(r))
         /\ Spend(mishap)
         /\ done' = IF skip THEN done ELSE done \cup Accepted(r.st)
  BY <1>p
<1>0. LegacyTypeOK /\ status \in Full /\ done \subseteq Rows
  BY TypedParts DEF LegacyInv
<1>2. Accepted(r.st) \subseteq Rows
  BY <1>1, PassTypes
<1>3. status' \in [Rows -> Status \cup {"absent"}]
  BY <1>0, <1>1, OverFull DEF Full
<1>4. /\ launches' \in [Scripts -> Nat] /\ DOMAIN wms' = Scripts
      /\ \A s \in Scripts : wms'[s] \in {"idle", "accepted"} \cup Verdicts[s]
  <2>1. CASE skip /\ UNCHANGED outside
    BY <1>0, <2>1 DEF outside, LegacyTypeOK
  <2>2. CASE ~skip /\ Launched(r)
    BY <2>2, LaunchedTypes
  <2> QED
    BY <1>1, <2>1, <2>2
<1>5. again' \in [Scripts -> Nat]
  <2>1. again' = [s \in Scripts |-> again[s] + 1]
    BY DEF UserProcesses
  <2> QED
    BY <1>0, <2>1 DEF LegacyTypeOK
<1>6. mishaps' \in Nat
  BY <1>0, <1>1 DEF Spend, LegacyTypeOK
<1>7. done' \subseteq Rows
  BY <1>0, <1>1, <1>2
<1>8. /\ queue' \in [Entries -> {"absent", "active", "paused", "finished"}]
      /\ \A q \in Entries : queue[q] # "absent" => queue'[q] # "absent"
  <2>1. queue' = queue \/ queue' = [queue EXCEPT ![request.rq.row] = "finished"]
    BY DEF UserProcesses
  <2> QED
    BY <1>0, <2>1 DEF LegacyTypeOK
<1>9. /\ request' = None /\ requests' = requests /\ crashes' = crashes
      /\ UNCHANGED <<todo, entry, seen, written, closed>>
  BY DEF UserProcesses, iteration
<1>10. LegacyTypeOK'
  BY <1>0, <1>3, <1>4, <1>5, <1>6, <1>7, <1>8, <1>9 DEF LegacyTypeOK
<1> QED
  BY <1>9, <1>10 DEF LegacyInv, RequestOK

LEMMA UserAsksTyped ==
  ASSUME LegacyInv, NEW rq \in UNION Seqs!ToSet(Requests), UserAsks(rq)
  PROVE  LegacyInv'
<1>0. LegacyTypeOK
  BY DEF LegacyInv
<1>1. /\ UNCHANGED <<rows, outside, iteration, mishaps, crashes, again, done>>
      /\ requests' = requests + 1
  BY DEF UserAsks
<1>2. LegacyTypeOK'
  BY <1>0, <1>1 DEF LegacyTypeOK, rows, outside, iteration
<1>3. RequestOK'
  <2>1. /\ request'.rq = rq
        /\ rq.op \in Changing \cup {"rescue", "rescued", "mark_rescued", "process", "toggle", "enqueue"}
        /\ rq.op = "process" => request'.seen = status
        /\ rq.op \in {"toggle", "enqueue"} =>
             DOMAIN request'.writes = {rq.row} /\ request'.writes[rq.row] \in {"active", "paused"}
    BY <1>0, Asked
  <2>2. status \in Full
    BY TypedParts
  <2>3. ASSUME rq.op \in Changing
        PROVE  /\ Partial(request'.writes) /\ DOMAIN request'.writes = {rq.row}
               /\ rq.op \notin Counting =>
                    \A x \in DOMAIN request'.writes \cap Scripts : request'.writes[x] \notin Fresh
    <3>1. /\ rq.row \in Rows /\ DOMAIN request'.writes = {rq.row}
          /\ request'.writes[rq.row] \in Status
          /\ rq.op = "reject" => request'.writes[rq.row] = "rejected"
          /\ rq.op = "accept" => request'.writes[rq.row] = "accepted"
      BY <1>0, <2>3, Asked
    <3>2. rq.op \notin Counting => rq.op \in {"reject", "accept"}
      BY <2>3 DEF Changing, Counting
    <3> QED
      BY <3>1, <3>2 DEF Partial, Fresh
  <2>4. ASSUME rq.op \in {"rescue", "rescued", "mark_rescued"}
        PROVE  Partial(request'.writes) /\ DOMAIN request'.writes \cap Scripts = {}
    <3>1. /\ rq.row \in Groups /\ DOMAIN request'.writes \subseteq Kids({rq.row})
          /\ \A x \in DOMAIN request'.writes : request'.writes[x] \in {"waiting", "rescued"}
      BY <1>0, <2>4, Asked
    <3>2. Kids({rq.row}) \subseteq Elements /\ Elements \subseteq Rows /\ Elements \cap Scripts = {}
      BY <3>1, Levels, ScriptAssumption DEF Elements, Rows
    <3>3. "waiting" \in Status /\ "rescued" \in Status
      BY Statuses
    <3> QED
      BY <3>1, <3>2, <3>3 DEF Partial
  <2>5. {"rescue", "rescued", "mark_rescued"} \cap Counting = {} /\ Counting \subseteq Changing
    BY DEF Counting, Changing
  <2> QED
    BY <2>1, <2>2, <2>3, <2>4, <2>5 DEF RequestOK
<1> QED
  BY <1>1, <1>2, <1>3 DEF LegacyInv, iteration

LEMMA UserCommitsTyped ==
  ASSUME LegacyInv, UserCommits
  PROVE  LegacyInv'
<1>0. LegacyTypeOK /\ status \in Full /\ done \subseteq Rows
  BY TypedParts DEF LegacyInv
<1>1. /\ request # None /\ request.rq.op \notin {"process", "toggle", "enqueue"}
      /\ status' = Over(request.writes, status) /\ done' = done \cup Accepted(status')
      /\ request' = None
      /\ UNCHANGED <<queue, launches, iteration, requests, mishaps, crashes>>
  BY DEF UserCommits
<1>2. Partial(request.writes) /\ request.rq \in UNION Seqs!ToSet(Requests)
  BY <1>1 DEF LegacyInv, RequestOK
<1>3. status' \in [Rows -> Status \cup {"absent"}]
  BY <1>0, <1>1, <1>2, OverFull DEF Full
<1>4. done' \subseteq Rows
  BY <1>0, <1>1 DEF Accepted
<1>5. again' \in [Scripts -> Nat]
  BY <1>0 DEF UserCommits, LegacyTypeOK
<1>6. /\ DOMAIN wms' = Scripts
      /\ \A s \in Scripts : wms'[s] \in {"idle", "accepted"} \cup Verdicts[s]
  <2>1. wms' = wms \/ /\ wms' = [wms EXCEPT ![request.rq.row] = "idle"]
    BY DEF UserCommits
  <2> QED
    BY <1>0, <2>1 DEF LegacyTypeOK
<1>7. LegacyTypeOK'
  BY <1>0, <1>1, <1>3, <1>4, <1>5, <1>6 DEF LegacyTypeOK, iteration
<1> QED
  BY <1>1, <1>7 DEF LegacyInv, RequestOK, iteration

LEMMA UserQueuesTyped ==
  ASSUME LegacyInv, UserQueues
  PROVE  LegacyInv'
<1>0. LegacyTypeOK
  BY DEF LegacyInv
<1> DEFINE x == request.rq.row
<1>1. /\ request # None /\ request.rq.op \in {"toggle", "enqueue"}
      /\ queue' = IF queue[x] = "finished" THEN queue ELSE Over(request.writes, queue)
      /\ request' = None /\ UNCHANGED <<status, outside, iteration, spent, done>>
  BY DEF UserQueues
<1>2. x \in Entries
  BY <1>1, RequestAssumption DEF LegacyInv, RequestOK
<1>3. DOMAIN request.writes = {x} /\ request.writes[x] \in {"active", "paused"}
  BY <1>1 DEF LegacyInv, RequestOK
<1>4. Over(request.writes, queue) = [q \in Entries |-> IF q = x THEN request.writes[x] ELSE queue[q]]
  <2>1. DOMAIN queue = Entries /\ {x} \cup Entries = Entries
    BY <1>0, <1>2 DEF LegacyTypeOK
  <2> QED
    BY <1>3, <2>1 DEF Over
<1>5. /\ queue' \in [Entries -> {"absent", "active", "paused", "finished"}]
      /\ \A q \in Entries : queue[q] # "absent" => queue'[q] # "absent"
  BY <1>0, <1>1, <1>3, <1>4 DEF LegacyTypeOK
<1>6. LegacyTypeOK'
  BY <1>0, <1>1, <1>5 DEF LegacyTypeOK, outside, iteration, spent
<1> QED
  BY <1>1, <1>6 DEF LegacyInv, RequestOK, iteration

LEMMA DaemonTyped ==
  ASSUME LegacyInv
  PROVE  /\ IterationBegins => LegacyInv'
         /\ \A q \in Entries : EntryBegins(q) => LegacyInv'
         /\ IterationCommits => LegacyInv'
         /\ Crash => LegacyInv'
         /\ \A s \in Scripts : Finishes(s) => LegacyInv'
         /\ UNCHANGED vars => LegacyInv'
<1>0. LegacyTypeOK /\ status \in Full /\ Partial(written) /\ RequestOK /\ (entry # None => seen \in Full)
  BY TypedParts DEF LegacyInv
<1>1. ASSUME IterationBegins PROVE LegacyInv'
  <2>1. LegacyTypeOK'
    BY <1>0, <1>1 DEF IterationBegins, LegacyTypeOK, Selectable, rows, outside, spent
  <2> QED
    BY <1>0, <1>1, <2>1 DEF IterationBegins, LegacyInv, RequestOK, spent
<1>2. ASSUME NEW q \in Entries, EntryBegins(q) PROVE LegacyInv'
  <2>1. /\ todo' = todo \ {q} /\ entry' \in Entries \cup {None}
        /\ entry' # None => seen' = Over(written, status)
        /\ UNCHANGED <<rows, outside, written, closed, request, spent, done>>
    BY <1>2 DEF EntryBegins
  <2>2. Over(written, status) \in Full
    BY <1>0, OverFull
  <2>3. LegacyTypeOK'
    BY <1>0, <2>1, <2>2 DEF LegacyTypeOK, rows, outside, spent, Full
  <2> QED
    BY <1>0, <2>1, <2>2, <2>3 DEF LegacyInv, RequestOK
<1>3. ASSUME IterationCommits PROVE LegacyInv'
  <2>1. /\ status' = Over(written, status)
        /\ queue' = [q \in Entries |-> IF q \in closed THEN "finished" ELSE queue[q]]
        /\ written' = <<>> /\ closed' = {}
        /\ UNCHANGED <<outside, todo, entry, seen, request, spent, done>>
    BY <1>3 DEF IterationCommits
  <2>2. status' \in [Rows -> Status \cup {"absent"}]
    BY <1>0, <2>1, OverFull DEF Full
  <2>3. /\ queue' \in [Entries -> {"absent", "active", "paused", "finished"}]
        /\ \A q \in Entries : queue[q] # "absent" => queue'[q] # "absent"
    BY <1>0, <2>1 DEF LegacyTypeOK
  <2>4. DOMAIN written' = {}
    BY <2>1
  <2>5. LegacyTypeOK'
    BY <1>0, <2>1, <2>2, <2>3, <2>4 DEF LegacyTypeOK, outside, spent
  <2> QED
    BY <1>0, <2>1, <2>5 DEF LegacyInv, RequestOK
<1>4. ASSUME Crash PROVE LegacyInv'
  <2>1. DOMAIN written' = {}
    BY <1>4 DEF Crash
  <2>2. LegacyTypeOK'
    BY <1>0, <1>4, <2>1 DEF Crash, LegacyTypeOK, rows, outside
  <2> QED
    BY <1>0, <1>4, <2>2 DEF Crash, LegacyInv, RequestOK
<1>5. ASSUME NEW s \in Scripts, Finishes(s) PROVE LegacyInv'
  <2>1. PICK v \in Verdicts[s] : wms' = [wms EXCEPT ![s] = v]
    BY <1>5 DEF Finishes
  <2>2. UNCHANGED <<rows, launches, iteration, request, spent, done>>
    BY <1>5 DEF Finishes
  <2>3. /\ DOMAIN wms' = Scripts
        /\ \A t \in Scripts : wms'[t] \in {"idle", "accepted"} \cup Verdicts[t]
    BY <1>0, <2>1 DEF LegacyTypeOK
  <2>4. LegacyTypeOK'
    BY <1>0, <2>2, <2>3 DEF LegacyTypeOK, rows, iteration, spent
  <2> QED
    BY <1>0, <2>2, <2>4 DEF LegacyInv, RequestOK, iteration
<1>6. ASSUME UNCHANGED vars PROVE LegacyInv'
  <2>1. LegacyTypeOK'
    BY <1>0, <1>6 DEF LegacyTypeOK, vars, rows, outside, iteration, spent
  <2> QED
    BY <1>0, <1>6, <2>1 DEF vars, iteration, LegacyInv, RequestOK
<1> QED
  BY <1>1, <1>2, <1>3, <1>4, <1>5, <1>6

LEMMA StepTyped == LegacyInv /\ [Next]_vars => LegacyInv'
<1> SUFFICES ASSUME LegacyInv, [Next]_vars PROVE LegacyInv'
  OBVIOUS
<1>1. CASE Daemon
  BY <1>1, DaemonTyped, EntryEndsTyped DEF Daemon
<1>2. CASE Users
  BY <1>2, UserAsksTyped, UserCommitsTyped, UserQueuesTyped, UserProcessesTyped DEF Users
<1>3. CASE Crash \/ (\E s \in Scripts : Finishes(s)) \/ UNCHANGED vars
  BY <1>3, DaemonTyped
<1> QED
  BY <1>1, <1>2, <1>3 DEF Next

(* Type correctness of the first generation: what a pass leaves behind,    *)
(* however deep it goes and wherever it raises, are statuses of rows.      *)
THEOREM LegacyTypeCorrect == Spec => []LegacyTypeOK
<1>1. LegacyInv => LegacyTypeOK
  BY DEF LegacyInv
<1> QED
  BY <1>1, InitTyped, StepTyped, PTL DEF Spec

-----------------------------------------------------------------------------
(* Work is launched once                                                   *)

(* What a reader finds who sees what the daemon has written.               *)
Standing(x) == IF x \in DOMAIN written THEN written[x] ELSE status[x]

(* A script that is fresh, for a reader or for the pass in hand, has not   *)
(* been launched but for the crashes and the requests that count.          *)
Counted(s) ==
  /\ launches[s] <= 1 + crashes + again[s]
  /\ Standing(s) \in Fresh => launches[s] <= crashes + again[s]
  /\ entry # None /\ seen[s] \in Fresh => launches[s] <= crashes + again[s]

CountInv == (\A s \in Scripts \ Works : launches[s] = 0) /\ \A s \in Works : Counted(s)

LEMMA CountParts ==
  ASSUME LegacyInv
  PROVE  /\ crashes \in Nat /\ Works \subseteq Scripts /\ Scripts \subseteq Rows
         /\ \A s \in Scripts : launches[s] \in Nat /\ again[s] \in Nat
         /\ "absent" \in Fresh
BY DEF LegacyInv, LegacyTypeOK, Works, Rows, Fresh

LEMMA EntryEndsCounted ==
  ASSUME LegacyInv, CountInv, VerdictsEnd, EntryEnds
  PROVE  CountInv'
<1>1. entry \in Entries /\ seen \in Full /\ NodeOf[entry] \in Rows /\ Partial(written)
      /\ entry # None /\ WmsOK
  BY TypedParts DEF EntryEnds
<1>2. PICK mishap \in Suffered : \E r \in {Process(seen, NodeOf[entry], mishap)} :
         written' = Over(Writes(seen, r), written) /\ Launched(r)
  BY DEF EntryEnds
<1>3. PICK r : /\ r = Process(seen, NodeOf[entry], mishap)
               /\ written' = Over(Writes(seen, r), written) /\ Launched(r)
  BY <1>2
<1>4. mishap \in Mishaps \cup {None}
  BY DEF Suffered
<1>5. /\ r.launched \subseteq Works
      /\ \A s \in r.launched : seen[s] \in Fresh /\ r.st[s] \notin Fresh
      /\ \A s \in Works : seen[s] \notin Fresh => r.st[s] \notin Fresh
  BY <1>1, <1>3, <1>4, ProcessRuns
<1> DEFINE w == Writes(seen, r)
<1>6. /\ Partial(w) /\ \A y \in DOMAIN w : w[y] = r.st[y]
      /\ \A y \in Rows \ DOMAIN w : r.st[y] = seen[y]
  BY <1>1, <1>3, PassTypes
<1>w. written' = Over(w, written)
  BY <1>3
<1> HIDE DEF w
<1>7. /\ DOMAIN written' = DOMAIN w \cup DOMAIN written
      /\ \A x \in DOMAIN w \cup DOMAIN written :
           written'[x] = IF x \in DOMAIN w THEN w[x] ELSE written[x]
  <2>1. Partial(w) /\ Partial(written)
    BY <1>1, <1>6
  <2> QED
    BY <1>w, <2>1 DEF Over
<1>8. /\ entry' = None /\ status' = status /\ crashes' = crashes /\ again' = again
  BY DEF EntryEnds, rows
<1>9. \A s \in Scripts : launches'[s] = launches[s] + IF s \in r.launched THEN 1 ELSE 0
  BY <1>3, LaunchedTypes
<1>10. ASSUME NEW s \in Scripts \ Works PROVE launches'[s] = 0
  BY <1>5, <1>9 DEF CountInv
<1>11. ASSUME NEW s \in Works PROVE Counted(s)'
  <2>0. Counted(s) /\ s \in Scripts /\ s \in Rows /\ launches[s] \in Nat /\ again[s] \in Nat
        /\ crashes \in Nat
    BY CountParts DEF CountInv
  <2>1. Standing(s)' = IF s \in DOMAIN w THEN r.st[s] ELSE Standing(s)
    BY <1>6, <1>7, <1>8 DEF Standing
  <2>2. CASE s \in r.launched
    <3>1. Standing(s)' \notin Fresh
      BY <1>5, <1>6, <2>0, <2>1, <2>2
    <3>2. launches'[s] <= 1 + crashes + again[s]
      <4>1. launches[s] <= crashes + again[s]
        BY <1>1, <1>5, <2>0, <2>2 DEF Counted
      <4> QED
        BY <1>9, <2>0, <2>2, <4>1
    <3> QED
      BY <1>8, <3>1, <3>2 DEF Counted
  <2>3. CASE s \notin r.launched
    <3>1. launches'[s] = launches[s]
      BY <1>9, <2>0, <2>3
    <3>2. Standing(s)' \in Fresh => Standing(s) \in Fresh \/ seen[s] \in Fresh
      BY <1>5, <1>6, <2>0, <2>1
    <3> QED
      BY <1>1, <1>8, <2>0, <3>1, <3>2 DEF Counted
  <2> QED
    BY <2>2, <2>3
<1> QED
  BY <1>10, <1>11 DEF CountInv

LEMMA UserProcessesCounted ==
  ASSUME LegacyInv, CountInv, VerdictsEnd, UserProcesses
  PROVE  CountInv'
<1>p. PICK node \in Rows, mishap \in Suffered, skip \in BOOLEAN : \E r, w :
         /\ request.seen \in Full
         /\ r = Process(request.seen, node, mishap)
         /\ w = IF skip \/ r.raised THEN <<>> ELSE Writes(request.seen, r)
         /\ Partial(w) /\ DOMAIN w \cap DOMAIN written = {}
         /\ status' = Over(w, status)
         /\ (skip /\ UNCHANGED outside) \/ (~skip /\ Launched(r))
  BY UserPasses
<1>1. PICK r, w :
         /\ request.seen \in Full
         /\ r = Process(request.seen, node, mishap)
         /\ w = IF skip \/ r.raised THEN <<>> ELSE Writes(request.seen, r)
         /\ Partial(w) /\ DOMAIN w \cap DOMAIN written = {}
         /\ status' = Over(w, status)
         /\ (skip /\ UNCHANGED outside) \/ (~skip /\ Launched(r))
  BY <1>p
<1>2. mishap \in Mishaps \cup {None} /\ WmsOK /\ status \in Full
  BY TypedParts DEF Suffered
<1>3. /\ r.launched \subseteq Works
      /\ \A s \in r.launched : request.seen[s] \in Fresh /\ r.st[s] \notin Fresh
      /\ \A s \in Works : request.seen[s] \notin Fresh => r.st[s] \notin Fresh
  BY <1>1, <1>2, ProcessRuns
<1>4. ~(skip \/ r.raised) =>
        /\ \A y \in DOMAIN w : w[y] = r.st[y]
        /\ \A y \in Rows \ DOMAIN w : r.st[y] = request.seen[y]
  BY <1>1, PassTypes
<1>5. \A x \in Rows : status'[x] = IF x \in DOMAIN w THEN w[x] ELSE status[x]
  BY <1>1, <1>2, OverFull
<1>6. /\ again' = [s \in Scripts |-> again[s] + 1] /\ crashes' = crashes
      /\ UNCHANGED <<entry, seen, written>>
  BY DEF UserProcesses, iteration
<1>7. \A s \in Scripts :
        launches'[s] = launches[s] + IF ~skip /\ s \in r.launched THEN 1 ELSE 0
  <2>1. CASE skip /\ UNCHANGED outside
    <3>1. launches' = launches
      BY <2>1 DEF outside
    <3> QED
      BY <2>1, <3>1, CountParts
  <2>2. CASE ~skip /\ Launched(r)
    BY <2>2, LaunchedTypes
  <2> QED
    BY <1>1, <2>1, <2>2
<1>8. ASSUME NEW s \in Scripts \ Works PROVE launches'[s] = 0
  BY <1>3, <1>7 DEF CountInv
<1>9. ASSUME NEW s \in Works PROVE Counted(s)'
  <2>0. Counted(s) /\ s \in Scripts /\ s \in Rows /\ launches[s] \in Nat /\ again[s] \in Nat
        /\ crashes \in Nat
    BY CountParts DEF CountInv
  <2>1. again'[s] = again[s] + 1
    BY <1>6, <2>0
  <2>2. launches'[s] = launches[s] \/ launches'[s] = launches[s] + 1
    BY <1>7, <2>0
  <2>3. launches'[s] <= 1 + crashes + again'[s]
    BY <2>0, <2>1, <2>2 DEF Counted
  <2>4. entry # None /\ seen[s] \in Fresh => launches'[s] <= crashes + again'[s]
    BY <2>0, <2>1, <2>2 DEF Counted
  <2>5. Standing(s)' \in Fresh => launches'[s] <= crashes + again'[s]
    <3>1. CASE launches'[s] = launches[s]
      BY <2>0, <2>1, <3>1 DEF Counted
    <3>2. CASE launches'[s] # launches[s]
      <4>1. ~skip /\ s \in r.launched
        BY <1>7, <2>0, <3>2
      <4>2. CASE r.raised
        <5>1. Standing(s)' = Standing(s)
          BY <1>1, <1>5, <1>6, <2>0, <4>2 DEF Standing
        <5> QED
          BY <2>0, <2>1, <2>2, <5>1 DEF Counted
      <4>3. CASE ~r.raised
        <5>1. s \in DOMAIN w /\ w[s] \notin Fresh
          BY <1>3, <1>4, <2>0, <4>1, <4>3
        <5>2. Standing(s)' = w[s]
          BY <1>1, <1>5, <1>6, <2>0, <5>1 DEF Standing
        <5> QED
          BY <5>1, <5>2
      <4> QED
        BY <4>2, <4>3
    <3> QED
      BY <3>1, <3>2
  <2> QED
    BY <1>6, <2>3, <2>4, <2>5 DEF Counted
<1> QED
  BY <1>8, <1>9 DEF CountInv

LEMMA UserCommitsCounted ==
  ASSUME LegacyInv, CountInv, UserCommits
  PROVE  CountInv'
<1> DEFINE w == request.writes
           x == request.rq.row
<1>1. /\ request # None /\ request.rq.op \notin {"process", "toggle", "enqueue"}
      /\ Unlocked(DOMAIN w) /\ status' = Over(w, status)
      /\ again' = IF request.rq.op \in Counting /\ x \in Scripts
                  THEN [again EXCEPT ![x] = @ + 1] ELSE again
      /\ UNCHANGED <<queue, launches, iteration, requests, mishaps, crashes>>
  BY DEF UserCommits, Counting
<1>2. /\ Partial(w) /\ status \in Full
      /\ request.rq.op \in Counting => DOMAIN w = {x}
      /\ request.rq.op \notin Counting => \A y \in DOMAIN w \cap Scripts : w[y] \notin Fresh
  BY <1>1, TypedParts DEF LegacyInv, RequestOK
<1> HIDE DEF w, x
<1>3. /\ DOMAIN w \cap DOMAIN written = {}
      /\ \A y \in Rows : status'[y] = IF y \in DOMAIN w THEN w[y] ELSE status[y]
  BY <1>1, <1>2, OverFull DEF Unlocked
<1>4. UNCHANGED <<launches, entry, seen, written, crashes>>
  BY <1>1 DEF iteration
<1>5. ASSUME NEW s \in Works PROVE Counted(s)'
  <2>0. Counted(s) /\ s \in Scripts /\ s \in Rows /\ launches[s] \in Nat /\ again[s] \in Nat
        /\ crashes \in Nat /\ again \in [Scripts -> Nat]
    BY CountParts, TypedParts DEF CountInv
  <2>1. CASE request.rq.op \in Counting /\ x = s
    <3>1. again'[s] = again[s] + 1
      BY <1>1, <2>0, <2>1
    <3> QED
      BY <1>4, <2>0, <3>1 DEF Counted
  <2>2. CASE ~(request.rq.op \in Counting /\ x = s)
    <3>1. again'[s] = again[s]
      BY <1>1, <2>0, <2>2
    <3>2. s \in DOMAIN w => w[s] \notin Fresh
      BY <1>2, <2>0, <2>2
    <3>3. Standing(s)' \in Fresh => Standing(s) \in Fresh
      BY <1>3, <1>4, <2>0, <3>2 DEF Standing
    <3> QED
      BY <1>4, <2>0, <3>1, <3>3 DEF Counted
  <2> QED
    BY <2>1, <2>2
<1>6. \A s \in Scripts \ Works : launches'[s] = 0
  BY <1>4 DEF CountInv
<1> QED
  BY <1>5, <1>6 DEF CountInv

LEMMA DaemonCounted ==
  ASSUME LegacyInv, CountInv
  PROVE  /\ IterationBegins => CountInv'
         /\ \A q \in Entries : EntryBegins(q) => CountInv'
         /\ IterationCommits => CountInv'
         /\ Crash => CountInv'
         /\ \A s \in Scripts : Finishes(s) => CountInv'
         /\ \A rq \in UNION Seqs!ToSet(Requests) : UserAsks(rq) => CountInv'
         /\ UserQueues => CountInv'
         /\ UNCHANGED vars => CountInv'
<1>0. status \in Full /\ Partial(written) /\ Works \subseteq Rows
  BY TypedParts, CountParts
<1>a. ASSUME UNCHANGED <<status, launches, entry, seen, written, crashes, again>> PROVE CountInv'
  BY <1>a DEF CountInv, Counted, Standing
<1>1. IterationBegins => CountInv'
  BY <1>a DEF IterationBegins, rows, outside, spent
<1>2. ASSUME NEW q \in Entries, EntryBegins(q) PROVE CountInv'
  <2>1. /\ entry' # None => seen' = Over(written, status)
        /\ UNCHANGED <<status, launches, written, crashes, again>>
    BY <1>2 DEF EntryBegins, rows, outside, spent
  <2>2. \A s \in Works : entry' # None => seen'[s] = Standing(s)
    BY <1>0, <2>1, OverFull DEF Standing
  <2> QED
    BY <2>1, <2>2 DEF CountInv, Counted, Standing
<1>3. ASSUME IterationCommits PROVE CountInv'
  <2>1. /\ status' = Over(written, status) /\ written' = <<>>
        /\ UNCHANGED <<launches, entry, seen, crashes, again>>
    BY <1>3 DEF IterationCommits, outside, spent
  <2>2. \A s \in Works : Standing(s)' = Standing(s)
    BY <1>0, <2>1, OverFull DEF Standing
  <2> QED
    BY <2>1, <2>2 DEF CountInv, Counted
<1>4. ASSUME Crash PROVE CountInv'
  <2>1. entry' = None /\ crashes' = crashes + 1 /\ UNCHANGED <<launches, again>>
    BY <1>4 DEF Crash, rows, outside
  <2>2. ASSUME NEW s \in Works PROVE Counted(s)'
    <3>1. launches[s] <= 1 + crashes + again[s] /\ launches[s] \in Nat /\ again[s] \in Nat
          /\ crashes \in Nat
      BY CountParts DEF CountInv, Counted
    <3> QED
      BY <2>1, <3>1 DEF Counted
  <2> QED
    BY <2>1, <2>2 DEF CountInv
<1>5. \A s \in Scripts : Finishes(s) => CountInv'
  BY <1>a DEF Finishes, rows, iteration, spent
<1>6. \A rq \in UNION Seqs!ToSet(Requests) : UserAsks(rq) => CountInv'
  BY <1>a DEF UserAsks, rows, outside, iteration
<1>7. UserQueues => CountInv'
  BY <1>a DEF UserQueues, outside, iteration, spent
<1>8. UNCHANGED vars => CountInv'
  BY <1>a DEF vars, rows, outside, iteration, spent
<1> QED
  BY <1>1, <1>2, <1>3, <1>4, <1>5, <1>6, <1>7, <1>8

(* A script is handed out once, and once more for each crash of the daemon *)
(* and each time users asked for it, if the batch system reports no state  *)
(* from which a script would be handed out again.                          *)
THEOREM LaunchesAccountedFor ==
  ASSUME VerdictsEnd
  PROVE  Spec => []LaunchesAreAccounted
<1>1. Init => LegacyInv /\ CountInv
  <2>1. ASSUME Init PROVE CountInv
    BY <2>1 DEF Init, CountInv, Counted, Works
  <2> QED
    BY <2>1, InitTyped
<1>2. LegacyInv /\ CountInv /\ [Next]_vars => (LegacyInv /\ CountInv)'
  <2> SUFFICES ASSUME LegacyInv, CountInv, [Next]_vars PROVE LegacyInv' /\ CountInv'
    OBVIOUS
  <2>1. LegacyInv'
    BY StepTyped
  <2>2. CASE Daemon
    BY <2>1, <2>2, DaemonCounted, EntryEndsCounted DEF Daemon
  <2>3. CASE Users
    BY <2>1, <2>3, DaemonCounted, UserCommitsCounted, UserProcessesCounted DEF Users
  <2>4. CASE Crash \/ (\E s \in Scripts : Finishes(s)) \/ UNCHANGED vars
    BY <2>1, <2>4, DaemonCounted
  <2> QED
    BY <2>1, <2>2, <2>3, <2>4 DEF Next
<1>3. LegacyInv /\ CountInv => LaunchesAreAccounted
  <2> SUFFICES ASSUME LegacyInv, CountInv, NEW s \in Scripts
               PROVE  launches[s] <= 1 + crashes + again[s]
    BY DEF LaunchesAreAccounted
  <2> QED
    BY CountParts DEF CountInv, Counted
<1> QED
  BY <1>1, <1>2, <1>3, PTL DEF Spec

-----------------------------------------------------------------------------
(* Work waits                                                              *)

(* Whoever reads statuses, at whatever time: what they say was allowed by  *)
(* what had been accepted.                                                 *)
LegalInv ==
  /\ Legal(status, done) /\ Legal(written, done)
  /\ entry # None => Legal(seen, done)
  /\ request # None /\ request.rq.op = "process" => Legal(request.seen, done)
  /\ request # None /\ request.rq.op \notin {"process", "toggle", "enqueue"} =>
       Legal(request.writes, done \cup Known(request.writes))
  /\ \A s \in Scripts : launches[s] > 0 => Cleared(s, done)

LEMMA MoreKnown ==
  ASSUME NEW known, NEW more, known \subseteq more
  PROVE  /\ \A st : Legal(st, known) => Legal(st, more)
         /\ \A s : Cleared(s, known) => Cleared(s, more)
BY DEF Legal, LegalRow, Cleared

(* What is not read or written stays legal as more is accepted.            *)
LEMMA LegalKept ==
  ASSUME LegalInv, done \subseteq done',
         status' = status \/ Legal(status', done'),
         written' = written \/ Legal(written', done'),
         entry' = None \/ UNCHANGED <<entry, seen>>,
         request' = None \/ request' = request,
         \A s \in Scripts : launches'[s] > 0 => launches[s] > 0 \/ Cleared(s, done')
  PROVE  LegalInv'
<1>1. /\ \A st : Legal(st, done) => Legal(st, done')
      /\ \A s : Cleared(s, done) => Cleared(s, done')
  BY MoreKnown
<1>2. Legal(status', done') /\ Legal(written', done')
  BY <1>1 DEF LegalInv
<1>3. entry' # None => Legal(seen', done')
  BY <1>1 DEF LegalInv
<1>4. \A s \in Scripts : launches'[s] > 0 => Cleared(s, done')
  BY <1>1 DEF LegalInv
<1>5. CASE request' = None
  BY <1>2, <1>3, <1>4, <1>5 DEF LegalInv
<1>6. CASE request' = request /\ request # None
  <2>1. request.rq.op = "process" => Legal(request.seen, done')
    BY <1>1, <1>6 DEF LegalInv
  <2>2. ASSUME request.rq.op \notin {"process", "toggle", "enqueue"}
        PROVE  Legal(request.writes, done' \cup Known(request.writes))
    <3>1. Legal(request.writes, done \cup Known(request.writes))
      BY <1>6, <2>2 DEF LegalInv
    <3>2. done \cup Known(request.writes) \subseteq done' \cup Known(request.writes)
      OBVIOUS
    <3> QED
      BY <3>1, <3>2, MoreKnown
  <2>3. /\ request'.rq.op = "process" => Legal(request'.seen, done')
        /\ request'.rq.op \notin {"process", "toggle", "enqueue"} =>
             Legal(request'.writes, done' \cup Known(request'.writes))
    BY <1>6, <2>1, <2>2
  <2> QED
    BY <1>2, <1>3, <1>4, <2>3 DEF LegalInv
<1> QED
  BY <1>5, <1>6

LEMMA InitLegal == LegacyTypeOK /\ Init => LegalInv
<1> SUFFICES ASSUME LegacyTypeOK, Init PROVE LegalInv
  OBVIOUS
<1>1. ASSUME NEW e \in Steps, NEW x \in {Campaign} \cup Steps PROVE x \notin Under(e)
  <2>1. e \in Elements /\ x \in Elements
    BY DEF Elements
  <2>2. Kids({e}) \subseteq Groups /\ Kids(Kids({e})) \subseteq Jobs /\ Kids(Kids(Kids({e}))) = {}
    BY <2>1, Levels
  <2>3. x \in Under(e) => x \in Family(e) /\ x # e
    BY <2>1, OwnersAndParents DEF Under
  <2> QED
    BY <2>2, <2>3, TreeAssumption DEF Family
<1>2. ASSUME NEW x \in Rows PROVE LegalRow(x, status[x], done)
  <2>1. status[x] = IF x \in {Campaign} \cup Steps THEN "waiting" ELSE "absent"
    BY DEF Init
  <2> QED
    BY <1>1, <2>1 DEF LegalRow, Final, Ripe
<1>3. DOMAIN status = Rows /\ DOMAIN written = {}
  BY DEF Init
<1>4. Legal(status, done) /\ Legal(written, done)
  BY <1>2, <1>3 DEF Legal
<1>5. \A s \in Scripts : ~(launches[s] > 0)
  BY DEF Init
<1> QED
  BY <1>4, <1>5 DEF Init, LegalInv

(* A pass over legal statuses leaves legal ones, and launches what may be. *)
LEMMA PassLegal ==
  ASSUME LegacyInv, VerdictsEnd, NEW st \in Full, Legal(st, done), NEW x \in Rows,
         NEW mishap \in Suffered, NEW r, r = Process(st, x, mishap)
  PROVE  /\ Legal(Writes(st, r), done \cup Accepted(r.st))
         /\ \A s \in r.launched : Cleared(s, done \cup Accepted(r.st))
<1>1. mishap \in Mishaps \cup {None} /\ WmsOK /\ done \in SUBSET Rows
  BY TypedParts DEF Suffered
<1>2. /\ Legal(r.st, done \cup Accepted(r.st))
      /\ \A s \in r.launched : Cleared(s, done \cup Accepted(r.st))
  BY <1>1, ProcessRuns
<1>3. /\ DOMAIN Writes(st, r) \subseteq Rows /\ DOMAIN r.st = Rows
      /\ \A y \in DOMAIN Writes(st, r) : Writes(st, r)[y] = r.st[y]
  BY PassTypes DEF Partial, Full
<1> QED
  BY <1>2, <1>3 DEF Legal

LEMMA EntryEndsLegal ==
  ASSUME LegacyInv, LegalInv, VerdictsEnd, EntryEnds
  PROVE  LegalInv'
<1>1. /\ entry # None /\ seen \in Full /\ NodeOf[entry] \in Rows
      /\ Legal(seen, done) /\ Legal(written, done)
  BY TypedParts DEF EntryEnds, LegalInv
<1>2. PICK mishap \in Suffered : \E r \in {Process(seen, NodeOf[entry], mishap)} :
         /\ written' = Over(Writes(seen, r), written) /\ Launched(r)
         /\ done' = done \cup Accepted(r.st)
  BY DEF EntryEnds
<1>3. PICK r : /\ r = Process(seen, NodeOf[entry], mishap)
               /\ written' = Over(Writes(seen, r), written) /\ Launched(r)
               /\ done' = done \cup Accepted(r.st)
  BY <1>2
<1>4. Legal(Writes(seen, r), done') /\ \A s \in r.launched : Cleared(s, done')
  BY <1>1, <1>3, PassLegal
<1>5. done \subseteq done' /\ Legal(written, done')
  BY <1>1, <1>3, MoreKnown
<1>6. Legal(written', done')
  BY <1>3, <1>4, <1>5, OverLegal
<1>7. \A s \in Scripts : launches'[s] > 0 => launches[s] > 0 \/ s \in r.launched
  BY <1>3, LaunchedTypes, CountParts
<1>8. entry' = None /\ status' = status /\ request' = request
  BY DEF EntryEnds, rows
<1> QED
  BY <1>4, <1>5, <1>6, <1>7, <1>8, LegalKept

LEMMA UserProcessesLegal ==
  ASSUME LegacyInv, LegalInv, VerdictsEnd, UserProcesses
  PROVE  LegalInv'
<1>p. PICK node \in Rows, mishap \in Suffered, skip \in BOOLEAN : \E r, w :
         /\ request.seen \in Full
         /\ r = Process(request.seen, node, mishap)
         /\ w = IF skip \/ r.raised THEN <<>> ELSE Writes(request.seen, r)
         /\ status' = Over(w, status)
         /\ (skip /\ UNCHANGED outside) \/ (~skip /\ Launched(r))
         /\ done' = IF skip THEN done ELSE done \cup Accepted(r.st)
  BY UserPasses
<1>1. PICK r, w :
         /\ request.seen \in Full
         /\ r = Process(request.seen, node, mishap)
         /\ w = IF skip \/ r.raised THEN <<>> ELSE Writes(request.seen, r)
         /\ status' = Over(w, status)
         /\ (skip /\ UNCHANGED outside) \/ (~skip /\ Launched(r))
         /\ done' = IF skip THEN done ELSE done \cup Accepted(r.st)
  BY <1>p
<1>2. Legal(request.seen, done) /\ Legal(status, done)
  BY DEF UserProcesses, LegalInv
<1>3. /\ Legal(Writes(request.seen, r), done \cup Accepted(r.st))
      /\ \A s \in r.launched : Cleared(s, done \cup Accepted(r.st))
  BY <1>1, <1>2, PassLegal
<1>4. done \subseteq done' /\ Legal(status, done')
  BY <1>1, <1>2, MoreKnown
<1>5. Legal(w, done')
  <2>1. CASE skip \/ r.raised
    <3>1. DOMAIN w = {}
      BY <1>1, <2>1
    <3> QED
      BY <3>1 DEF Legal
  <2>2. CASE ~(skip \/ r.raised)
    BY <1>1, <1>3, <2>2
  <2> QED
    BY <2>1, <2>2
<1>6. Legal(status', done')
  BY <1>1, <1>4, <1>5, OverLegal
<1>7. \A s \in Scripts : launches'[s] > 0 => launches[s] > 0 \/ Cleared(s, done')
  <2>1. CASE skip /\ UNCHANGED outside
    BY <2>1 DEF outside
  <2>2. CASE ~skip /\ Launched(r)
    <3>1. \A s \in Scripts : launches'[s] > 0 => launches[s] > 0 \/ s \in r.launched
      BY <2>2, LaunchedTypes, CountParts
    <3>2. done' = done \cup Accepted(r.st)
      BY <1>1, <2>2
    <3> QED
      BY <1>3, <3>1, <3>2
  <2> QED
    BY <1>1, <2>1, <2>2
<1>8. request' = None /\ UNCHANGED <<entry, seen, written>>
  BY DEF UserProcesses, iteration
<1> QED
  BY <1>4, <1>6, <1>7, <1>8, LegalKept

LEMMA UserCommitsLegal ==
  ASSUME LegacyInv, LegalInv, UserCommits
  PROVE  LegalInv'
<1> DEFINE w == request.writes
<1>1. /\ request # None /\ request.rq.op \notin {"process", "toggle", "enqueue"}
      /\ status' = Over(w, status) /\ done' = done \cup Accepted(status')
      /\ request' = None /\ UNCHANGED <<launches, iteration>>
  BY DEF UserCommits
<1>2. /\ Partial(w) /\ status \in Full
      /\ Legal(w, done \cup Known(w)) /\ Legal(status, done)
  BY <1>1, TypedParts DEF LegacyInv, RequestOK, LegalInv
<1> HIDE DEF w
<1>3. \A y \in Rows : status'[y] = IF y \in DOMAIN w THEN w[y] ELSE status[y]
  BY <1>1, <1>2, OverFull
<1>4. \A y \in Known(w) : y \in Rows /\ status'[y] \in Final
  BY <1>2, <1>3 DEF Known, Partial
<1>5. Known(w) \subseteq Accepted(status')
  <2>1. \A y \in Rows : status'[y] \in Final => AtLeast(status', y, "accepted")
    BY Statuses DEF Final
  <2> QED
    BY <1>4, <2>1 DEF Accepted
<1>6. Legal(w, done') /\ Legal(status, done') /\ done \subseteq done'
  BY <1>1, <1>2, <1>5, MoreKnown
<1>7. Legal(status', done')
  BY <1>1, <1>6, OverLegal
<1> QED
  BY <1>1, <1>6, <1>7, LegalKept DEF iteration

LEMMA UserAsksLegal ==
  ASSUME LegacyInv, LegalInv, NoSkips, NEW rq \in UNION Seqs!ToSet(Requests), UserAsks(rq)
  PROVE  LegalInv'
<1>0. LegacyTypeOK /\ Legal(status, done) /\ DOMAIN status = Rows
  BY DEF LegacyInv, LegacyTypeOK, LegalInv
<1>1. UNCHANGED <<status, launches, entry, seen, written, done>>
  BY DEF UserAsks, rows, outside, iteration
<1>2. /\ request'.rq = rq
      /\ rq.op \in Changing \cup {"rescue", "rescued", "mark_rescued", "process", "toggle", "enqueue"}
      /\ rq.op = "process" => request'.seen = status
  BY <1>0, Asked
<1> DEFINE w == request'.writes
<1>3. ASSUME rq.op \in Changing PROVE Legal(w, done \cup Known(w))
  <2>1. /\ rq.row \in Rows /\ Exists(status, rq.row)
        /\ DOMAIN w = {rq.row} /\ w[rq.row] \in Status
        /\ rq.op = "reject" => w[rq.row] = "rejected"
        /\ rq.op = "accept" => w[rq.row] = "accepted"
        /\ rq.op \in {"reset", "retry"} => w[rq.row] = "waiting"
        /\ rq.op \in {"update", "reset_script"} => w[rq.row] = rq.to
    BY <1>0, <1>3, Asked
  <2>2. LegalRow(rq.row, status[rq.row], done)
    BY <1>0, <2>1 DEF Legal
  <2> HIDE DEF w
  <2>3. w[rq.row] \in Ripe /\ rq.row \in Works \cup Steps => Prereqs[rq.row] = {}
    <3>1. w[rq.row] \in Ripe => rq.op \in {"update", "reset_script"}
      BY <1>3, <2>1 DEF Changing, Ripe
    <3> QED
      BY <2>1, <3>1 DEF NoSkips
  <2>4. w[rq.row] \in Final => rq.row \in Known(w)
    BY <2>1 DEF Known
  <2> QED
    BY <2>1, <2>2, <2>3, <2>4 DEF Legal, LegalRow, Exists
<1>4. ASSUME rq.op \in {"rescue", "rescued", "mark_rescued"} PROVE Legal(w, done \cup Known(w))
  <2>1. /\ rq.row \in Groups /\ DOMAIN w \subseteq Kids({rq.row})
        /\ \A x \in DOMAIN w : w[x] \in {"waiting", "rescued"}
        /\ DOMAIN w # {} => \E j \in Kids({rq.row}) : Exists(status, j)
    BY <1>0, <1>4, Asked
  <2> HIDE DEF w
  <2> DEFINE g == rq.row
  <2>2. g \in Elements /\ Kids({g}) \subseteq Jobs /\ Kids({g}) \subseteq Rows
    BY <2>1, Levels DEF Elements, Rows
  <2>3. ASSUME NEW x \in DOMAIN w, NEW e \in Steps, x \in Under(e)
        PROVE  Prereqs[e] \subseteq done
    <3>1. e \in Elements /\ x \in Kids({g})
      BY <2>1 DEF Elements
    <3>2. g \in Family(e)
      BY <2>2, <2>3, <3>1, OwnersAndParents
    <3>3. Kids({g}) \subseteq Family(g) /\ Family(g) \subseteq Family(e)
      BY <3>1, <3>2, TreesNest DEF Family
    <3>4. PICK j \in Kids({g}) : Exists(status, j)
      BY <2>1
    <3>5. j \in Under(e)
      BY <2>2, <3>3, TreeAssumption DEF Under, Tree
    <3>6. LegalRow(j, status[j], done)
      BY <1>0, <2>2 DEF Legal
    <3> QED
      BY <3>4, <3>5, <3>6 DEF LegalRow, Exists
  <2>4. ASSUME NEW x \in DOMAIN w PROVE LegalRow(x, w[x], done \cup Known(w))
    <3>1. w[x] \notin Ripe /\ (w[x] \in Final => x \in Known(w))
      BY <2>1 DEF Ripe, Known
    <3> QED
      BY <2>3, <3>1 DEF LegalRow
  <2> QED
    BY <2>4 DEF Legal
<1>5. /\ request'.rq.op = "process" => Legal(request'.seen, done)
      /\ request'.rq.op \notin {"process", "toggle", "enqueue"} => Legal(w, done \cup Known(w))
  BY <1>0, <1>2, <1>3, <1>4
<1> QED
  BY <1>1, <1>5 DEF LegalInv

LEMMA DaemonLegal ==
  ASSUME LegacyInv, LegalInv
  PROVE  /\ IterationBegins => LegalInv'
         /\ \A q \in Entries : EntryBegins(q) => LegalInv'
         /\ IterationCommits => LegalInv'
         /\ Crash => LegalInv'
         /\ \A s \in Scripts : Finishes(s) => LegalInv'
         /\ UserQueues => LegalInv'
         /\ UNCHANGED vars => LegalInv'
<1>0. Legal(Over(written, status), done)
  BY OverLegal DEF LegalInv
<1>1. ASSUME UNCHANGED <<status, launches, entry, seen, written, done>>,
             request' = None \/ request' = request
      PROVE  LegalInv'
  BY <1>1, LegalKept
<1>2. ASSUME NEW q \in Entries, EntryBegins(q) PROVE LegalInv'
  <2>1. /\ entry' # None => seen' = Over(written, status)
        /\ UNCHANGED <<status, launches, written, request, done>>
    BY <1>2 DEF EntryBegins, rows, outside
  <2> QED
    BY <1>0, <2>1 DEF LegalInv
<1>3. ASSUME IterationCommits PROVE LegalInv'
  <2>1. /\ status' = Over(written, status) /\ written' = <<>>
        /\ UNCHANGED <<launches, entry, seen, request, done>>
    BY <1>3 DEF IterationCommits, outside
  <2>2. Legal(<<>>, done)
    BY DEF Legal
  <2> QED
    BY <1>0, <2>1, <2>2, LegalKept
<1>4. ASSUME Crash PROVE LegalInv'
  <2>1. written' = <<>> /\ entry' = None /\ UNCHANGED <<status, launches, request, done>>
    BY <1>4 DEF Crash, rows, outside
  <2>2. Legal(<<>>, done)
    BY DEF Legal
  <2> QED
    BY <2>1, <2>2, LegalKept
<1>5. IterationBegins => LegalInv'
  BY <1>1 DEF IterationBegins, rows, outside
<1>6. \A s \in Scripts : Finishes(s) => LegalInv'
  BY <1>1 DEF Finishes, rows, iteration
<1>7. UserQueues => LegalInv'
  BY <1>1 DEF UserQueues, outside, iteration
<1>8. UNCHANGED vars => LegalInv'
  BY <1>1 DEF vars, rows, outside, iteration
<1> QED
  BY <1>2, <1>3, <1>4, <1>5, <1>6, <1>7, <1>8

(* Nothing is launched before the scripts before it, and the steps before  *)
(* its step, have been accepted, whoever processes what and on whatever    *)
(* rows: unless users hand a script or a step on over what it waits for.   *)
THEOREM WorkIsHeldBack ==
  ASSUME VerdictsEnd, NoSkips
  PROVE  Spec => []WorkWaits
<1>1. Init => LegacyInv /\ LegalInv
  BY InitTyped, InitLegal DEF LegacyInv
<1>2. LegacyInv /\ LegalInv /\ [Next]_vars => (LegacyInv /\ LegalInv)'
  <2> SUFFICES ASSUME LegacyInv, LegalInv, [Next]_vars PROVE LegacyInv' /\ LegalInv'
    OBVIOUS
  <2>1. LegacyInv'
    BY StepTyped
  <2>2. CASE Daemon
    BY <2>1, <2>2, DaemonLegal, EntryEndsLegal DEF Daemon
  <2>3. CASE Users
    BY <2>1, <2>3, DaemonLegal, UserAsksLegal, UserCommitsLegal, UserProcessesLegal DEF Users
  <2>4. CASE Crash \/ (\E s \in Scripts : Finishes(s)) \/ UNCHANGED vars
    BY <2>1, <2>4, DaemonLegal
  <2> QED
    BY <2>1, <2>2, <2>3, <2>4 DEF Next
<1>3. LegalInv => WorkWaits
  <2> SUFFICES ASSUME LegalInv, NEW s \in Scripts, launches[s] > 0
               PROVE  Prereqs[s] \subseteq done /\ \A e \in StepOf(s) : Prereqs[e] \subseteq done
    BY DEF WorkWaits
  <2>1. Cleared(s, done)
    BY DEF LegalInv
  <2>2. ASSUME NEW e \in StepOf(s) PROVE e \in Steps /\ s \in Under(e)
    <3>1. e \in Steps /\ e \in Elements
      BY DEF StepOf, Elements
    <3>2. PICK x \in {e} \cup Kids({e}) \cup Kids(Kids({e})) : s \in ScriptsIn(x)
      BY DEF StepOf
    <3>3. x \in Family(e)
      BY <3>2 DEF Family
    <3>4. s # e
      BY <3>1, ScriptAssumption
    <3> QED
      BY <3>1, <3>2, <3>3, <3>4 DEF Under, Tree
  <2> QED
    BY <2>1, <2>2 DEF Cleared
<1> QED
  BY <1>1, <1>2, <1>3, PTL DEF Spec

-----------------------------------------------------------------------------
(* Accepted means done                                                     *)

Unreviewed(st) == \A e \in Elements \cap DOMAIN st : st[e] # "reviewable"

(* No pass leaves an element for the next one to review, and the daemon    *)
(* goes on with what it has written.                                       *)
ReviewInv ==
  /\ Unreviewed(status) /\ Unreviewed(written)
  /\ entry # None => Unreviewed(seen) /\ \A x \in DOMAIN written : seen[x] = written[x]
  /\ request # None /\ request.rq.op = "process" => Unreviewed(request.seen)
  /\ request # None /\ request.rq.op \notin {"process", "toggle", "enqueue"} =>
       Unreviewed(request.writes)

LEMMA OverUnreviewed ==
  ASSUME NEW w, NEW v, Unreviewed(w), Unreviewed(v)
  PROVE  Unreviewed(Over(w, v))
BY DEF Unreviewed, Over

LEMMA PassUnreviewed ==
  ASSUME LegacyInv, NEW st \in Full, Unreviewed(st), NEW x \in Rows,
         NEW mishap \in Suffered, NEW r, r = Process(st, x, mishap)
  PROVE  Unreviewed(Writes(st, r))
<1>1. mishap \in Mishaps \cup {None} /\ WmsOK
  BY TypedParts DEF Suffered
<1>2. \A y \in Rows : y \in Elements /\ st[y] # "reviewable" => r.st[y] # "reviewable"
  BY <1>1, ProcessRuns
<1>3. /\ DOMAIN Writes(st, r) \subseteq Rows /\ DOMAIN st = Rows
      /\ \A y \in DOMAIN Writes(st, r) : Writes(st, r)[y] = r.st[y]
  BY PassTypes DEF Partial, Full
<1> QED
  BY <1>2, <1>3 DEF Unreviewed

LEMMA EntryEndsReviewed ==
  ASSUME LegacyInv, ReviewInv, EntryEnds
  PROVE  ReviewInv'
<1>1. /\ entry # None /\ seen \in Full /\ NodeOf[entry] \in Rows
      /\ Unreviewed(seen) /\ Unreviewed(written)
  BY TypedParts DEF EntryEnds, ReviewInv
<1>2. PICK mishap \in Suffered : \E r \in {Process(seen, NodeOf[entry], mishap)} :
         written' = Over(Writes(seen, r), written)
  BY DEF EntryEnds
<1>3. PICK r : r = Process(seen, NodeOf[entry], mishap) /\ written' = Over(Writes(seen, r), written)
  BY <1>2
<1>4. Unreviewed(Writes(seen, r))
  BY <1>1, <1>3, PassUnreviewed
<1>5. Unreviewed(written')
  BY <1>1, <1>3, <1>4, OverUnreviewed
<1>6. entry' = None /\ status' = status /\ request' = request
  BY DEF EntryEnds, rows
<1> QED
  BY <1>5, <1>6 DEF ReviewInv

LEMMA UsersReviewed ==
  ASSUME LegacyInv, ReviewInv
  PROVE  /\ UserProcesses => ReviewInv'
         /\ UserCommits => ReviewInv'
         /\ NoReviews => \A rq \in UNION Seqs!ToSet(Requests) : UserAsks(rq) => ReviewInv'
<1>1. ASSUME UserProcesses PROVE ReviewInv'
  <2>p. PICK node \in Rows, mishap \in Suffered, skip \in BOOLEAN : \E r, w :
           /\ request.seen \in Full
           /\ r = Process(request.seen, node, mishap)
           /\ w = IF skip \/ r.raised THEN <<>> ELSE Writes(request.seen, r)
           /\ status' = Over(w, status)
    BY <1>1, UserPasses
  <2>1. PICK r, w :
           /\ request.seen \in Full
           /\ r = Process(request.seen, node, mishap)
           /\ w = IF skip \/ r.raised THEN <<>> ELSE Writes(request.seen, r)
           /\ status' = Over(w, status)
    BY <2>p
  <2>2. Unreviewed(request.seen) /\ Unreviewed(status)
    BY <1>1 DEF UserProcesses, ReviewInv
  <2>3. Unreviewed(Writes(request.seen, r)) /\ Unreviewed(<<>>)
    BY <2>1, <2>2, PassUnreviewed DEF Unreviewed
  <2>4. Unreviewed(w)
    BY <2>1, <2>3
  <2>5. Unreviewed(status')
    BY <2>1, <2>2, <2>4, OverUnreviewed
  <2>6. request' = None /\ UNCHANGED <<entry, seen, written>>
    BY <1>1 DEF UserProcesses, iteration
  <2> QED
    BY <2>5, <2>6 DEF ReviewInv
<1>2. ASSUME UserCommits PROVE ReviewInv'
  <2>1. /\ request # None /\ request.rq.op \notin {"process", "toggle", "enqueue"}
        /\ status' = Over(request.writes, status) /\ request' = None
        /\ UNCHANGED <<entry, seen, written>>
    BY <1>2 DEF UserCommits, iteration
  <2>2. Unreviewed(request.writes) /\ Unreviewed(status)
    BY <2>1 DEF ReviewInv
  <2>3. Unreviewed(status')
    BY <2>1, <2>2, OverUnreviewed
  <2> QED
    BY <2>1, <2>3 DEF ReviewInv
<1>3. ASSUME NoReviews, NEW rq \in UNION Seqs!ToSet(Requests), UserAsks(rq) PROVE ReviewInv'
  <2>0. LegacyTypeOK /\ Unreviewed(status)
    BY DEF LegacyInv, ReviewInv
  <2>1. UNCHANGED <<status, entry, seen, written>>
    BY <1>3 DEF UserAsks, rows, iteration
  <2>2. /\ request'.rq = rq
        /\ rq.op \in Changing \cup {"rescue", "rescued", "mark_rescued", "process", "toggle", "enqueue"}
        /\ rq.op = "process" => request'.seen = status
    BY <1>3, <2>0, Asked
  <2> DEFINE w == request'.writes
  <2>3. ASSUME rq.op \in Changing PROVE Unreviewed(w)
    <3>1. /\ DOMAIN w = {rq.row}
          /\ rq.op = "reject" => w[rq.row] = "rejected"
          /\ rq.op = "accept" => w[rq.row] = "accepted"
          /\ rq.op \in {"reset", "retry"} => w[rq.row] = "waiting"
          /\ rq.op \in {"update", "reset_script"} => w[rq.row] = rq.to
      BY <1>3, <2>0, <2>3, Asked
    <3> HIDE DEF w
    <3>2. ASSUME rq.row \in Elements, rq.op = "reset_script" PROVE FALSE
      BY <3>2, RequestAssumption, ScriptAssumption
    <3>3. ASSUME rq.row \in Elements PROVE w[rq.row] # "reviewable"
      BY <1>3, <2>3, <3>1, <3>2, <3>3 DEF NoReviews, Changing
    <3> QED
      BY <3>1, <3>3 DEF Unreviewed
  <2>4. ASSUME rq.op \in {"rescue", "rescued", "mark_rescued"} PROVE Unreviewed(w)
    <3>1. \A x \in DOMAIN w : w[x] \in {"waiting", "rescued"}
      BY <1>3, <2>0, <2>4, Asked
    <3> HIDE DEF w
    <3> QED
      BY <3>1 DEF Unreviewed
  <2>5. /\ request'.rq.op = "process" => Unreviewed(request'.seen)
        /\ request'.rq.op \notin {"process", "toggle", "enqueue"} => Unreviewed(w)
    BY <2>0, <2>2, <2>3, <2>4
  <2> QED
    BY <2>1, <2>5 DEF ReviewInv
<1> QED
  BY <1>1, <1>2, <1>3

LEMMA DaemonReviewed ==
  ASSUME LegacyInv, ReviewInv
  PROVE  /\ IterationBegins => ReviewInv'
         /\ \A q \in Entries : EntryBegins(q) => ReviewInv'
         /\ IterationCommits => ReviewInv'
         /\ Crash => ReviewInv'
         /\ \A s \in Scripts : Finishes(s) => ReviewInv'
         /\ UserQueues => ReviewInv'
         /\ UNCHANGED vars => ReviewInv'
<1>0. /\ Unreviewed(Over(written, status)) /\ Unreviewed(<<>>)
      /\ \A x \in DOMAIN written : Over(written, status)[x] = written[x]
  BY OverUnreviewed DEF ReviewInv, Over, Unreviewed
<1>1. ASSUME UNCHANGED <<status, entry, seen, written>>, request' = None \/ request' = request
      PROVE  ReviewInv'
  BY <1>1 DEF ReviewInv
<1>2. ASSUME NEW q \in Entries, EntryBegins(q) PROVE ReviewInv'
  <2>1. /\ entry' # None => seen' = Over(written, status)
        /\ UNCHANGED <<status, written, request>>
    BY <1>2 DEF EntryBegins, rows
  <2> QED
    BY <1>0, <2>1 DEF ReviewInv
<1>3. ASSUME IterationCommits PROVE ReviewInv'
  <2>1. /\ status' = Over(written, status) /\ written' = <<>> /\ DOMAIN written' = {}
        /\ UNCHANGED <<entry, seen, request>>
    BY <1>3 DEF IterationCommits
  <2> QED
    BY <1>0, <2>1 DEF ReviewInv
<1>4. ASSUME Crash PROVE ReviewInv'
  <2>1. written' = <<>> /\ entry' = None /\ UNCHANGED <<status, request>>
    BY <1>4 DEF Crash, rows
  <2> QED
    BY <1>0, <2>1 DEF ReviewInv
<1>5. IterationBegins => ReviewInv'
  BY <1>1 DEF IterationBegins, rows
<1>6. \A s \in Scripts : Finishes(s) => ReviewInv'
  BY <1>1 DEF Finishes, rows, iteration
<1>7. UserQueues => ReviewInv'
  BY <1>1 DEF UserQueues, iteration
<1>8. UNCHANGED vars => ReviewInv'
  BY <1>1 DEF vars, rows, iteration
<1> QED
  BY <1>2, <1>3, <1>4, <1>5, <1>6, <1>7, <1>8

(* What the property says of one step.                                     *)
AcceptsWhatIsDone ==
  \A e \in Elements :
    entry # None /\ entry' = None /\ ~AtLeast(seen, e, "accepted")
      /\ e \in DOMAIN written' /\ written'[e] = "accepted" =>
    \A j \in JobsBelow(e) : LET st == Over(written', seen)
                            IN  Exists(st, j) => AtLeast(st, j, "accepted")

LEMMA EntryEndsAccepts ==
  ASSUME LegacyInv, ReviewInv, EntryEnds
  PROVE  AcceptsWhatIsDone
<1>1. /\ entry # None /\ seen \in Full /\ NodeOf[entry] \in Rows /\ WmsOK /\ Partial(written)
      /\ Unreviewed(seen) /\ \A x \in DOMAIN written : seen[x] = written[x]
  BY TypedParts DEF EntryEnds, ReviewInv
<1>2. PICK mishap \in Suffered : \E r \in {Process(seen, NodeOf[entry], mishap)} :
         written' = Over(Writes(seen, r), written)
  BY DEF EntryEnds
<1>3. PICK r : r = Process(seen, NodeOf[entry], mishap) /\ written' = Over(Writes(seen, r), written)
  BY <1>2
<1>4. mishap \in Mishaps \cup {None}
  BY DEF Suffered
<1>5. \A e \in Elements :
        seen[e] \notin Final \cup {"reviewable"} /\ r.st[e] = "accepted" =>
          \A j \in JobsBelow(e) : r.st[j] \in Final \cup {"absent"}
  BY <1>1, <1>3, <1>4, ProcessRuns
<1> DEFINE w == Writes(seen, r)
           st == Over(written', seen)
<1>6. /\ Partial(w) /\ \A y \in DOMAIN w : w[y] = r.st[y]
      /\ \A y \in Rows \ DOMAIN w : r.st[y] = seen[y]
      /\ r.st \in Full
  BY <1>1, <1>3, PassTypes
<1>w. written' = Over(w, written)
  BY <1>3
<1> HIDE DEF w
<1>7. /\ DOMAIN written' = DOMAIN w \cup DOMAIN written
      /\ \A x \in DOMAIN w \cup DOMAIN written :
           written'[x] = IF x \in DOMAIN w THEN w[x] ELSE written[x]
  BY <1>w DEF Over
<1>8. \A x \in DOMAIN written' : written'[x] = r.st[x]
  <2>1. ASSUME NEW x \in DOMAIN written \ DOMAIN w PROVE written[x] = r.st[x]
    BY <1>1, <1>6 DEF Partial
  <2> QED
    BY <1>6, <1>7, <2>1
<1>9. \A x \in Rows : x \in DOMAIN written' \/ r.st[x] = seen[x]
  BY <1>6, <1>7
<1>10. DOMAIN written' \cup DOMAIN seen = Rows
  BY <1>1, <1>6, <1>7 DEF Partial, Full
<1>11. \A x \in Rows : st[x] = r.st[x]
  BY <1>8, <1>9, <1>10 DEF Over
<1> HIDE DEF st
<1>12. SUFFICES ASSUME NEW e \in Elements, ~AtLeast(seen, e, "accepted"),
                       e \in DOMAIN written', written'[e] = "accepted",
                       NEW j \in JobsBelow(e), Exists(st, j)
                PROVE  AtLeast(st, j, "accepted")
  BY DEF AcceptsWhatIsDone, st
<1>13. e \in Rows /\ j \in Rows
  <2>1. JobsBelow(e) \subseteq Under(e) /\ Tree(e) \subseteq Rows
    BY TreeSplits
  <2> QED
    BY <1>12, <2>1 DEF Rows, Under
<1>14. seen[e] \notin Final \cup {"reviewable"}
  <2>1. seen[e] \in Status \cup {"absent"} /\ e \in DOMAIN seen
    BY <1>1, <1>13 DEF Full
  <2> QED
    BY <1>1, <1>12, <2>1, Statuses DEF Unreviewed
<1>15. r.st[j] \in Final \cup {"absent"}
  BY <1>5, <1>8, <1>12, <1>14
<1>16. st[j] \in Status \cup {"absent"} /\ st[j] \in Final
  BY <1>6, <1>11, <1>12, <1>13, <1>15 DEF Exists, Full
<1> QED
  BY <1>16, Statuses

(* An element that a pass of the daemon accepts has no job below it that   *)
(* is not accepted or rescued, whatever users do to either in between, if  *)
(* they put no element up for review themselves.                           *)
THEOREM AcceptedIsDone ==
  ASSUME NoReviews
  PROVE  Spec => AcceptedMeansDone
<1>1. Init => LegacyInv /\ ReviewInv
  <2>1. ASSUME Init PROVE ReviewInv
    <3>1. \A x \in Rows : status[x] \in {"waiting", "absent"}
      BY <2>1 DEF Init
    <3>2. DOMAIN status = Rows /\ DOMAIN written = {}
      BY <2>1 DEF Init
    <3> QED
      BY <2>1, <3>1, <3>2 DEF Init, ReviewInv, Unreviewed
  <2> QED
    BY <2>1, InitTyped
<1>2. LegacyInv /\ ReviewInv /\ [Next]_vars => (LegacyInv /\ ReviewInv)'
  <2> SUFFICES ASSUME LegacyInv, ReviewInv, [Next]_vars PROVE LegacyInv' /\ ReviewInv'
    OBVIOUS
  <2>1. LegacyInv'
    BY StepTyped
  <2>2. CASE Daemon
    BY <2>1, <2>2, DaemonReviewed, EntryEndsReviewed DEF Daemon
  <2>3. CASE Users
    BY <2>1, <2>3, DaemonReviewed, UsersReviewed DEF Users
  <2>4. CASE Crash \/ (\E s \in Scripts : Finishes(s)) \/ UNCHANGED vars
    BY <2>1, <2>4, DaemonReviewed
  <2> QED
    BY <2>1, <2>2, <2>3, <2>4 DEF Next
<1>3. LegacyInv /\ ReviewInv /\ [Next]_vars => [AcceptsWhatIsDone]_vars
  <2> SUFFICES ASSUME LegacyInv, ReviewInv, [Next]_vars PROVE AcceptsWhatIsDone
    OBVIOUS
  <2>k. ASSUME entry' = entry \/ entry = None \/ DOMAIN written' = {} PROVE AcceptsWhatIsDone
    BY <2>k DEF AcceptsWhatIsDone
  <2>1. CASE Daemon
    BY <2>1, <2>k, EntryEndsAccepts DEF Daemon, IterationBegins, EntryBegins, IterationCommits
  <2>2. CASE Users
    BY <2>2, <2>k DEF Users, UserAsks, UserCommits, UserQueues, UserProcesses, iteration
  <2>3. CASE Crash
    <3>1. DOMAIN written' = {}
      BY <2>3 DEF Crash
    <3> QED
      BY <2>k, <3>1
  <2>4. CASE (\E s \in Scripts : Finishes(s)) \/ UNCHANGED vars
    BY <2>4, <2>k DEF Finishes, vars, iteration
  <2> QED
    BY <2>1, <2>2, <2>3, <2>4 DEF Next
<1>4. AcceptedMeansDone <=> [][AcceptsWhatIsDone]_vars
  BY DEF AcceptedMeansDone, AcceptsWhatIsDone
<1> QED
  BY <1>1, <1>2, <1>3, <1>4, PTL DEF Spec

=============================================================================
