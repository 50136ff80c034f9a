-------------------------- MODULE RevisionsProofs --------------------------
(***************************************************************************)
(* Proofs about Revisions for every set of documents and patches and any   *)
(* number of requests at once.                                             *)
(***************************************************************************)
EXTENDS Revisions, FiniteSetTheorems, SequenceTheorems, FunctionTheorems,
        WellFoundedInduction, TLAPS

(* Absence is not a row.                                                   *)
NoneIsNoRow ==
  \A k, version, id, doc, from, ops, born :
    None # [key |-> k, version |-> version, id |-> id, doc |-> doc,
            from |-> from, ops |-> ops, born |-> born]

(* No patch renames what it patches.                                       *)
NamesAreKept == \A r \in rows \cup edits : r.from # None => r.key = r.from.key

-----------------------------------------------------------------------------
(* The invariant                                                           *)

Shape(r) == r = [key |-> r.key, version |-> r.version, id |-> r.id, doc |-> r.doc,
                 from |-> r.from, ops |-> r.ops, born |-> r.born]

(* The keys whose versions begin with 1 and whose rows are never deleted.  *)
Kept == {k \in Keys : k.ns # Library /\ k \notin given}

Typed ==
  /\ clock \in Nat
  /\ \A r \in rows : /\ Shape(r) /\ r.key \in Keys /\ r.born \in Nat /\ r.born < clock
                     /\ r.key \in Kept => r.version \in Nat
  /\ \A e \in edits : Shape(e) /\ e.key \in Keys /\ (e.key \in Kept => e.version \in Nat)

Versions(k) == {r.version : r \in Of(k)}

Numbered(k) == IsFiniteSet(Of(k)) /\ Versions(k) = 1..Cardinality(Of(k))

Ordered(k) == \A a, b \in Of(k) : a.version < b.version => a.born < b.born

Derived(k) ==
  \A b \in Of(k) : b.from # None => \E a \in Of(k) : a = b.from /\ a.version + 1 = b.version

(* What a request is about to add follows a version that is there.         *)
Follows(e) ==
  e.key \in Kept =>
    /\ e.version = 1 \/ \E r \in Of(e.key) : r.version + 1 = e.version
    /\ e.from # None => e.from \in Of(e.key) /\ e.from.version + 1 = e.version

IInv ==
  /\ Typed
  /\ \A k \in Kept : Numbered(k) /\ Ordered(k) /\ Derived(k)
  /\ \A e \in edits : Follows(e)

LEMMA InitInv == Init => IInv
<1> SUFFICES ASSUME Init PROVE IInv
  OBVIOUS
<1>1. \A k : Of(k) = {} /\ Versions(k) = {}
  BY DEF Init, Of, Versions
<1>2. 1..0 = {}
  OBVIOUS
<1>3. \A k : Numbered(k)
  BY <1>1, <1>2, FS_EmptySet DEF Numbered
<1> QED
  BY <1>1, <1>3 DEF Init, IInv, Typed, Ordered, Derived

(* A kept key has versions from 1 on.                                      *)
LEMMA KeptVersions ==
  ASSUME IInv, NEW r \in rows, r.key \in Kept
  PROVE  /\ r \in Of(r.key) /\ Cardinality(Of(r.key)) \in Nat
         /\ r.version \in 1..Cardinality(Of(r.key)) /\ r.version # 0
<1>1. r \in Of(r.key)
  BY DEF Of
<1>2. Cardinality(Of(r.key)) \in Nat
  BY FS_CardinalityType DEF IInv, Numbered
<1>3. r.version \in 1..Cardinality(Of(r.key))
  BY <1>1 DEF IInv, Numbered, Versions
<1> QED
  BY <1>1, <1>2, <1>3

(* A new request leaves the rows alone and follows them, unless it says    *)
(* where to begin.                                                         *)
LEMMA BeginsInv ==
  ASSUME IInv, NEW e, edits' = edits \cup {e}, UNCHANGED <<rows, clock>>, given \subseteq given',
         Shape(e), e.key \in Keys, e.key \in Kept' => e.version \in Nat /\ Follows(e)
  PROVE  IInv'
<1>0. Kept' \subseteq Kept
  BY DEF Kept, Keys
<1>1. Typed'
  BY <1>0 DEF IInv, Typed, Shape
<1>2. \A k : Of(k)' = Of(k)
  BY DEF Of
<1>3. \A k \in Kept' : (Numbered(k) /\ Ordered(k) /\ Derived(k))'
  BY <1>0, <1>2 DEF IInv, Numbered, Versions, Ordered, Derived
<1>4. \A x \in edits' : Follows(x)'
  BY <1>0, <1>2 DEF IInv, Follows
<1> QED
  BY <1>1, <1>3, <1>4 DEF IInv

LEMMA PostInv ==
  ASSUME IInv, NEW k \in Keys, Post(k)
  PROVE  IInv'
<1>1. PICK d \in Documents, first \in FirstVersions :
        /\ Begins(Row("post", k, NextVersion(k, first), d, None, << >>))
        /\ given' = given \cup (IF IsFirst(k) /\ first # 0 THEN {k} ELSE {})
  BY DEF Post
<1> DEFINE e == Row("post", k, NextVersion(k, first), d, None, << >>)
<1>2. e.key = k /\ e.version = NextVersion(k, first) /\ e.from = None /\ Shape(e)
  BY DEF Row, Shape
<1>3. ASSUME k \in Kept' PROVE e.version \in Nat /\ Follows(e)
  <2>0. k \in Kept /\ k.ns # Library /\ ~(IsFirst(k) /\ first # 0)
    BY <1>1, <1>3 DEF Kept
  <2>1. CASE Of(k) = {}
    <3>1. NextVersion(k, first) = 1
      BY <2>0, <2>1 DEF NextVersion, IsFirst
    <3> QED
      BY <1>2, <3>1 DEF Follows
  <2>2. CASE Of(k) # {}
    <3>1. /\ IsFiniteSet(Of(k)) /\ Versions(k) = 1..Cardinality(Of(k))
          /\ Cardinality(Of(k)) \in Nat /\ Cardinality(Of(k)) # 0
      BY <2>0, <2>2, FS_CardinalityType, FS_EmptySet DEF IInv, Numbered
    <3>2. \A r \in Of(k) : r.version \in 1..Cardinality(Of(k))
      BY <3>1 DEF Versions
    <3>3. PICK newest \in Of(k) : newest.version = Cardinality(Of(k))
      <4>1. Cardinality(Of(k)) \in Versions(k)
        BY <3>1
      <4> QED
        BY <4>1 DEF Versions
    <3>4. newest \in Newest(Of(k))
      BY <3>2, <3>3 DEF Newest
    <3>5. PICK r \in Newest(Of(k)) : NextVersion(k, first) = r.version + 1
      BY <2>0, <2>2, <3>4 DEF NextVersion, IsFirst
    <3>6. r \in Of(k) /\ r.version \in Nat
      BY <3>2, <3>1, <3>5 DEF Newest
    <3> QED
      BY <1>2, <3>5, <3>6 DEF Follows
  <2> QED
    BY <2>1, <2>2
<1>4. edits' = edits \cup {e} /\ UNCHANGED <<rows, clock>> /\ given \subseteq given'
  BY <1>1 DEF Begins
<1> HIDE DEF e
<1> QED
  BY <1>2, <1>3, <1>4, BeginsInv

LEMMA PatchInv ==
  ASSUME NoneIsNoRow, IInv, NamesAreKept', NEW r \in rows, Patch(r)
  PROVE  IInv'
<1>1. PICK ops \in Patches : \E k, d :
        Begins([Row("patch", r.key, r.version + 1, d, r, ops) EXCEPT !.key = k])
  BY DEF Patch
<1>2. PICK k, d : Begins([Row("patch", r.key, r.version + 1, d, r, ops) EXCEPT !.key = k])
  BY <1>1
<1> DEFINE e == [Row("patch", r.key, r.version + 1, d, r, ops) EXCEPT !.key = k]
<1>3. e.key = k /\ e.version = r.version + 1 /\ e.from = r /\ Shape(e)
  BY DEF Row, Shape
<1>4. r # None /\ r.key \in Keys /\ (r.key \in Kept => r.version \in Nat)
  BY DEF NoneIsNoRow, IInv, Typed, Shape
<1>5. edits' = edits \cup {e} /\ UNCHANGED <<rows, clock, given>>
  BY <1>2 DEF Begins, Patch
<1>6. e.key = r.key
  BY <1>3, <1>4, <1>5 DEF NamesAreKept
<1>7. Follows(e)
  BY <1>3, <1>6 DEF Follows, Of
<1>8. e.key \in Kept' => e.version \in Nat /\ Follows(e)
  BY <1>3, <1>4, <1>5, <1>6, <1>7 DEF Kept
<1> HIDE DEF e
<1> QED
  BY <1>3, <1>4, <1>5, <1>6, <1>8, BeginsInv

LEMMA CopyInv ==
  ASSUME IInv, NEW r \in rows, NEW ns \in Campaigns, NEW name \in Names, CopyTo(r, ns, name)
  PROVE  IInv'
<1> DEFINE k == [r.key EXCEPT !.ns = ns, !.name = name]
           e == Row("copy", k, 1, r.doc, None, << >>)
<1>1. e.key = k /\ e.version = 1 /\ e.from = None /\ Shape(e)
  BY DEF Row, Shape
<1>2. k \in Keys
  <2>1. r.key \in Keys /\ r.key.kind # Node
    BY DEF IInv, Typed, CopyTo
  <2>2. r.key \in [ns : Campaigns \cup {Library}, kind : Kinds, name : Names]
    BY <2>1 DEF Keys
  <2> QED
    BY <2>2 DEF Keys
<1>3. Follows(e)
  BY <1>1 DEF Follows
<1>4. edits' = edits \cup {e} /\ UNCHANGED <<rows, clock, given>>
  BY DEF CopyTo, Begins
<1> HIDE DEF e, k
<1> QED
  BY <1>1, <1>2, <1>3, <1>4, BeginsInv

LEMMA DeleteInv ==
  ASSUME IInv, NEW r \in rows, Delete(r)
  PROVE  IInv'
<1>1. rows' = rows \ {r} /\ UNCHANGED <<edits, clock, given>> /\ ~(r.version > 0) /\ Kept' = Kept
  BY DEF Delete, Deletable, Kept
<1>2. r.key \notin Kept
  BY <1>1, KeptVersions
<1>3. \A k \in Kept : Of(k)' = Of(k)
  BY <1>1, <1>2 DEF Of
<1>4. Typed'
  BY <1>1 DEF IInv, Typed, Shape
<1>5. \A k \in Kept : (Numbered(k) /\ Ordered(k) /\ Derived(k))'
  BY <1>3 DEF IInv, Numbered, Versions, Ordered, Derived
<1>6. \A e \in edits' : Follows(e)'
  BY <1>1, <1>3 DEF IInv, Follows
<1> QED
  BY <1>1, <1>4, <1>5, <1>6 DEF IInv

(* What is committed under a kept key is the version after the last.       *)
LEMMA CommitInv ==
  ASSUME IInv, NEW e \in edits, Commit(e)
  PROVE  IInv'
<1>1. CASE Collides(e)
  <2>1. UNCHANGED <<rows, clock>> /\ edits' \subseteq edits /\ Kept' = Kept
    BY <1>1 DEF Commit, Kept
  <2>2. \A k : Of(k)' = Of(k)
    BY <2>1 DEF Of
  <2>3. Typed'
    BY <2>1 DEF IInv, Typed, Shape
  <2> QED
    BY <2>1, <2>2, <2>3 DEF IInv, Numbered, Versions, Ordered, Derived, Follows
<1>2. CASE ~Collides(e)
  <2> DEFINE new == [e EXCEPT !.born = clock]
  <2>1. rows' = rows \cup {new} /\ clock' = clock + 1 /\ edits' \subseteq edits /\ Kept' = Kept
    BY <1>2 DEF Commit, Kept
  <2>2. /\ Shape(new) /\ new.key = e.key /\ new.version = e.version /\ new.from = e.from
        /\ new.born = clock
    <3>1. Shape(e)
      BY DEF IInv, Typed
    <3> QED
      BY <3>1 DEF Shape
  <2>3. clock \in Nat /\ e.key \in Keys /\ (e.key \in Kept => e.version \in Nat)
    BY DEF IInv, Typed
  <2> HIDE DEF new
  <2>4. Typed'
    BY <2>1, <2>2, <2>3 DEF IInv, Typed, Shape
  <2>5. \A k : k # e.key => Of(k)' = Of(k)
    BY <2>1, <2>2 DEF Of
  <2>6. Of(e.key)' = Of(e.key) \cup {new}
    BY <2>1, <2>2 DEF Of
  <2>7. \A x \in edits' : Follows(x)'
    <3>1. \A k : Of(k) \subseteq Of(k)'
      BY <2>1 DEF Of
    <3> QED
      BY <2>1, <3>1 DEF IInv, Follows
  <2>8. ASSUME NEW k \in Kept, k # e.key PROVE (Numbered(k) /\ Ordered(k) /\ Derived(k))'
    BY <2>5, <2>8 DEF IInv, Numbered, Versions, Ordered, Derived
  <2>9. ASSUME e.key \in Kept PROVE (Numbered(e.key) /\ Ordered(e.key) /\ Derived(e.key))'
    <3> DEFINE k == e.key
               n == Cardinality(Of(k))
    <3>1. IsFiniteSet(Of(k)) /\ n \in Nat /\ Versions(k) = 1..n
      BY <2>9, FS_CardinalityType DEF IInv, Numbered
    <3>2. \A r \in Of(k) : r.version \in 1..n /\ r.version # e.version /\ r.born \in Nat /\ r.born < clock
      BY <1>2, <3>1 DEF Versions, Collides, InTableOf, Of, IInv, Typed
    <3>3. e.version = n + 1
      <4>1. e.version \notin 1..n
        BY <3>1, <3>2 DEF Versions
      <4>2. e.version = 1 \/ \E r \in Of(k) : r.version + 1 = e.version
        BY <2>9 DEF IInv, Follows
      <4>3. e.version \in 1..(n + 1)
        BY <2>3, <2>9, <3>1, <3>2, <4>2
      <4> QED
        BY <2>3, <2>9, <3>1, <4>1, <4>3
    <3>4. new \notin Of(k)
      BY <2>2, <3>2
    <3>5. IsFiniteSet(Of(k)') /\ Cardinality(Of(k)') = n + 1
      BY <2>6, <3>1, <3>4, FS_AddElement
    <3>6. Versions(k)' = 1..(n + 1)
      <4>1. Versions(k)' = Versions(k) \cup {new.version}
        BY <2>6 DEF Versions
      <4> QED
        BY <2>2, <3>1, <3>3, <4>1
    <3>7. Numbered(k)'
      BY <3>5, <3>6 DEF Numbered
    <3>8. Ordered(k)'
      <4>1. ASSUME NEW a \in Of(k)', NEW b \in Of(k)', a.version < b.version
            PROVE  a.born < b.born
        <5>1. CASE a \in Of(k) /\ b \in Of(k)
          BY <2>9, <4>1, <5>1 DEF IInv, Ordered
        <5>2. CASE a \in Of(k) /\ b = new
          BY <2>2, <3>2, <5>2
        <5>3. CASE a = new
          <6>1. b.version \in 1..(n + 1)
            BY <2>2, <2>6, <3>1, <3>2, <3>3
          <6> QED
            BY <2>2, <3>1, <3>3, <4>1, <5>3, <6>1
        <5> QED
          BY <2>6, <5>1, <5>2, <5>3
      <4> QED
        BY <4>1 DEF Ordered
    <3>9. Derived(k)'
      <4>1. e.from # None => e.from \in Of(k) /\ e.from.version + 1 = e.version
        BY <2>9 DEF IInv, Follows
      <4> QED
        BY <2>2, <2>6, <2>9, <4>1 DEF IInv, Derived
    <3> QED
      BY <3>7, <3>8, <3>9
  <2> QED
    BY <2>1, <2>4, <2>7, <2>8, <2>9 DEF IInv
<1> QED
  BY <1>1, <1>2

LEMMA StutterInv ==
  ASSUME IInv, UNCHANGED vars
  PROVE  IInv'
<1>1. rows' = rows /\ edits' = edits /\ clock' = clock /\ Kept' = Kept
  BY DEF vars, Kept
<1>2. \A k : Of(k)' = Of(k)
  BY <1>1 DEF Of
<1>3. Typed'
  BY <1>1 DEF IInv, Typed, Shape
<1> QED
  BY <1>1, <1>2, <1>3 DEF IInv, Numbered, Versions, Ordered, Derived, Follows

LEMMA Invariance ==
  ASSUME NoneIsNoRow
  PROVE  Spec /\ []NamesAreKept => []IInv
<1>1. IInv /\ NamesAreKept' /\ [Next]_vars => IInv'
  BY PostInv, PatchInv, CopyInv, DeleteInv, CommitInv, StutterInv DEF Next
<1> QED
  BY InitInv, <1>1, PTL DEF Spec

(* However many requests overlap, the versions of a manifest of a campaign *)
(* or of a node are 1, 2, 3 ... in the order of their commits, and each    *)
(* patched one was made from the one before it, as long as no patch        *)
(* renames anything and no POST said that they begin elsewhere.            *)
THEOREM LinearHistory ==
  ASSUME NoneIsNoRow
  PROVE  Spec /\ []NamesAreKept => []HistoryIsLinear
<1>1. IInv => HistoryIsLinear
  BY DEF IInv, HistoryIsLinear, Kept, Numbered, Versions, Ordered, Derived
<1> QED
  BY Invariance, <1>1, PTL

(* Under the same condition both ways of looking for a manifest find the   *)
(* campaign's, if there is one, and else the library's, until a library    *)
(* manifest is patched or a POST says where the campaign's begin.          *)
THEOREM SameConfiguration ==
  ASSUME NoneIsNoRow
  PROVE  Spec /\ []NamesAreKept => []ConfigurationsAgree
<1>1. ASSUME IInv, NEW c \in Campaigns, NEW kind \in Kinds,
             \A r \in OfKind(Library, kind) : r.version = 0,
             \A k \in given : k.ns # c \/ k.kind # kind
      PROVE  ManifestFor(c, kind) = ChainManifest(c, kind)
  <2>1. \A r \in OfKind(c, kind) : r.version \in Nat /\ r.version > 0
    <3>1. ASSUME NEW r \in OfKind(c, kind) PROVE r.version \in Nat /\ r.version > 0
      <4>1. r \in rows /\ r.key \in Kept /\ r.version \in Nat
        BY <1>1, RevisionAssumption DEF OfKind, Kept, IInv, Typed
      <4> QED
        BY <1>1, <4>1, KeptVersions
    <3> QED
      BY <3>1
  <2>2. CASE OfKind(c, kind) # {}
    BY <1>1, <2>1, <2>2 DEF ManifestFor, ChainManifest, Newest
  <2>3. CASE OfKind(c, kind) = {}
    BY <1>1, <2>3 DEF ManifestFor, ChainManifest, Newest
  <2> QED
    BY <2>2, <2>3
<1>2. IInv => ConfigurationsAgree
  BY <1>1 DEF ConfigurationsAgree
<1> QED
  BY Invariance, <1>2, PTL

-----------------------------------------------------------------------------
(* Paths                                                                   *)

(* q begins with p.                                                        *)
Below(p, q) == Len(p) <= Len(q) /\ \A i \in 1..Len(p) : p[i] = q[i]

Rest(p, q) == SubSeq(q, Len(p) + 1, Len(q))

(* The library's prefix, for sequences of tokens.                          *)
LEMMA PrefixIs ==
  ASSUME NEW K, NEW p \in Seq(K), NEW q \in Seq(K)
  PROVE  IsPrefix(p, q) <=> Below(p, q)
<1>1. Len(p) \in Nat /\ Len(q) \in Nat
  BY LenProperties
<1>2. CASE Len(p) <= Len(q)
  <2> DEFINE a == SubSeq(p, 1, Len(p))
             b == SubSeq(q, 1, Len(p))
  <2>1. /\ \A i \in 1..Len(p) : p[i] \in K
        /\ \A i \in 1..Len(p) : q[i] \in K
    BY <1>1, <1>2, ElementOfSeq
  <2>2. a \in Seq(K) /\ Len(a) = Len(p) /\ \A i \in 1..Len(p) : a[i] = p[i]
    BY <1>1, <2>1, SubSeqProperties
  <2>3. b \in Seq(K) /\ Len(b) = Len(p) /\ \A i \in 1..Len(p) : b[i] = q[i]
    BY <1>1, <2>1, SubSeqProperties
  <2> HIDE DEF a, b
  <2>4. a = b <=> \A i \in 1..Len(p) : p[i] = q[i]
    BY <2>2, <2>3, SeqEqual
  <2> QED
    BY <1>2, <2>4 DEF IsPrefix, Below, a, b
<1>3. CASE ~(Len(p) <= Len(q))
  BY <1>3 DEF IsPrefix, Below
<1> QED
  BY <1>2, <1>3

(* A path is a beginning of it and the rest.                               *)
LEMMA RestIs ==
  ASSUME NEW K, NEW p \in Seq(K), NEW q \in Seq(K), Below(p, q)
  PROVE  /\ Rest(p, q) \in Seq(K) /\ p \o Rest(p, q) = q
         /\ Len(Rest(p, q)) = Len(q) - Len(p)
         /\ \A i \in 1..(Len(q) - Len(p)) : Rest(p, q)[i] = q[Len(p) + i]
<1> DEFINE m == Len(p)
           n == Len(q)
           r == Rest(p, q)
<1>1. m \in Nat /\ n \in Nat /\ m <= n
  BY LenProperties DEF Below
<1>2. \A i \in (m + 1)..n : q[i] \in K
  BY <1>1, ElementOfSeq
<1>3. /\ r \in Seq(K) /\ Len(r) = n - m
      /\ \A i \in 1..(n - m) : r[i] = q[m + i]
  <2>1. /\ r \in Seq(K)
        /\ Len(r) = IF m + 1 <= n THEN n - (m + 1) + 1 ELSE 0
        /\ \A i \in 1..(n - (m + 1) + 1) : r[i] = q[(m + 1) + i - 1]
    BY <1>1, <1>2, SubSeqProperties DEF Rest
  <2>2. \A i \in 1..(n - m) : i \in 1..(n - (m + 1) + 1) /\ (m + 1) + i - 1 = m + i
    BY <1>1
  <2> QED
    BY <1>1, <2>1, <2>2
<1> HIDE DEF r
<1>4. /\ p \o r \in Seq(K) /\ Len(p \o r) = n
      /\ \A i \in 1..n : (p \o r)[i] = IF i <= m THEN p[i] ELSE r[i - m]
  <2>1. m + (n - m) = n
    BY <1>1
  <2> QED
    BY <1>3, <2>1, ConcatProperties
<1>5. \A i \in 1..n : (p \o r)[i] = q[i]
  <2>1. ASSUME NEW i \in 1..n PROVE (p \o r)[i] = q[i]
    <3>1. CASE i <= m
      BY <1>1, <1>4, <3>1 DEF Below
    <3>2. CASE ~(i <= m)
      <4>1. i - m \in 1..(n - m) /\ m + (i - m) = i
        BY <1>1, <3>2
      <4> QED
        BY <1>3, <1>4, <3>2, <4>1
    <3> QED
      BY <3>1, <3>2
  <2> QED
    BY <2>1
<1>6. p \o r = q
  BY <1>4, <1>5, SeqEqual
<1> QED
  BY <1>3, <1>6 DEF r

(* A path put behind another begins with it and has itself as the rest.    *)
LEMMA Joined ==
  ASSUME NEW K, NEW p \in Seq(K), NEW s \in Seq(K)
  PROVE  /\ p \o s \in Seq(K) /\ Below(p, p \o s) /\ Rest(p, p \o s) = s
         /\ Len(p \o s) = Len(p) + Len(s)
         /\ \A i \in 1..Len(s) : (p \o s)[Len(p) + i] = s[i]
<1> DEFINE q == p \o s
<1>0. Len(p) \in Nat /\ Len(s) \in Nat
  BY LenProperties
<1>1. /\ q \in Seq(K) /\ Len(q) = Len(p) + Len(s)
      /\ \A i \in 1..(Len(p) + Len(s)) : q[i] = IF i <= Len(p) THEN p[i] ELSE s[i - Len(p)]
  BY ConcatProperties
<1> HIDE DEF q
<1>2. Below(p, q)
  BY <1>0, <1>1 DEF Below
<1>3. \A i \in 1..Len(s) : q[Len(p) + i] = s[i]
  <2>1. ASSUME NEW i \in 1..Len(s) PROVE q[Len(p) + i] = s[i]
    <3>1. Len(p) + i \in 1..(Len(p) + Len(s)) /\ ~(Len(p) + i <= Len(p)) /\ (Len(p) + i) - Len(p) = i
      BY <1>0
    <3> QED
      BY <1>1, <3>1
  <2> QED
    BY <2>1
<1>4. /\ Rest(p, q) \in Seq(K) /\ Len(Rest(p, q)) = Len(s)
      /\ \A i \in 1..Len(s) : Rest(p, q)[i] = q[Len(p) + i]
  <2>1. Len(q) - Len(p) = Len(s)
    BY <1>0, <1>1
  <2> QED
    BY <1>1, <1>2, <2>1, RestIs
<1>5. Rest(p, q) = s
  <2>1. \A i \in 1..Len(Rest(p, q)) : Rest(p, q)[i] = s[i]
    BY <1>3, <1>4
  <2> QED
    BY <1>4, <2>1, SeqEqual
<1> QED
  BY <1>1, <1>2, <1>3, <1>5 DEF q

(* The path of an entry.                                                   *)
LEMMA Entry ==
  ASSUME NEW K, NEW p \in Seq(K), NEW t \in K
  PROVE  /\ Append(p, t) \in Seq(K) /\ Len(Append(p, t)) = Len(p) + 1 /\ Len(p) \in Nat
         /\ Append(p, t)[Len(p) + 1] = t /\ Below(p, Append(p, t)) /\ Append(p, t) # p
         /\ \A i \in 1..Len(p) : Append(p, t)[i] = p[i]
<1>1. Len(p) \in Nat
  BY LenProperties
<1>2. /\ Append(p, t) \in Seq(K) /\ Len(Append(p, t)) = Len(p) + 1
      /\ \A i \in 1..Len(p) : Append(p, t)[i] = p[i]
      /\ Append(p, t)[Len(p) + 1] = t
  BY AppendProperties
<1> QED
  BY <1>1, <1>2 DEF Below

(* Beginnings of the same path are beginnings of each other.               *)
LEMMA Beginnings ==
  ASSUME NEW K, NEW p \in Seq(K), NEW q \in Seq(K), NEW r \in Seq(K)
  PROVE  /\ Below(p, p)
         /\ Below(p, q) /\ Below(q, r) => Below(p, r)
         /\ Below(p, r) /\ Below(q, r) => Below(p, q) \/ Below(q, p)
         /\ Below(p, q) /\ Below(q, p) => p = q
         /\ Below(p, q) /\ p # q => Len(p) < Len(q)
         /\ Below(p, q) /\ Below(q, r) /\ p # q => p # r /\ q[Len(p) + 1] = r[Len(p) + 1]
<1>1. Len(p) \in Nat /\ Len(q) \in Nat /\ Len(r) \in Nat
  BY LenProperties
<1>2. Below(p, q) /\ Below(q, r) => Below(p, r)
  BY <1>1 DEF Below
<1>3. Below(p, r) /\ Below(q, r) => Below(p, q) \/ Below(q, p)
  BY <1>1 DEF Below
<1>4. Below(p, q) /\ Len(p) = Len(q) => p = q
  BY SeqEqual DEF Below
<1>5. Below(p, q) /\ p # q => Len(p) < Len(q)
  BY <1>1, <1>4 DEF Below
<1>6. Below(p, q) /\ Below(q, p) => p = q
  BY <1>1, <1>4 DEF Below
<1>7. Below(p, q) /\ Below(q, r) /\ p # q => p # r /\ q[Len(p) + 1] = r[Len(p) + 1]
  <2>1. ASSUME Below(p, q), Below(q, r), p # q PROVE p # r /\ q[Len(p) + 1] = r[Len(p) + 1]
    <3>1. Len(p) + 1 \in 1..Len(q) /\ Len(q) <= Len(r)
      BY <1>1, <1>5, <2>1 DEF Below
    <3> QED
      BY <1>1, <2>1, <3>1 DEF Below
  <2> QED
    BY <2>1
<1> QED
  BY <1>1, <1>2, <1>3, <1>5, <1>6, <1>7 DEF Below

-----------------------------------------------------------------------------
(* Documents                                                               *)

(* The image of a finite set is finite.                                    *)
LEMMA ImageFinite ==
  ASSUME NEW S, IsFiniteSet(S), NEW f
  PROVE  IsFiniteSet({f[x] : x \in S})
<1> DEFINE T == {f[x] : x \in S}
<1>1. PICK n \in Nat : ExistsSurjection(1..n, S)
  BY FS_NatSurjection
<1>2. PICK g \in Surjection(1..n, S) : TRUE
  BY <1>1 DEF ExistsSurjection
<1>3. g \in [1..n -> S] /\ \A x \in S : \E i \in 1..n : g[i] = x
  BY <1>2 DEF Surjection
<1> DEFINE h == [i \in 1..n |-> f[g[i]]]
<1>4. h \in [1..n -> T] /\ \A t \in T : \E i \in 1..n : h[i] = t
  BY <1>3
<1>5. h \in Surjection(1..n, T)
  BY <1>4 DEF Surjection
<1>6. ExistsSurjection(1..n, T)
  BY <1>5 DEF ExistsSurjection
<1> QED
  BY <1>6, FS_NatSurjection

(* What is below a list is in one of its entries, and these have numbers.  *)
ListsHaveEntries(d) ==
  \A p, q \in DOMAIN d : d[p] = List /\ Below(p, q) /\ p # q => q[Len(p) + 1] \in Nat

(* A document, in these terms.                                             *)
IsDoc(d, K) ==
  /\ d = [q \in DOMAIN d |-> d[q]]
  /\ DOMAIN d \subseteq Seq(K) /\ IsFiniteSet(DOMAIN d)
  /\ ListsHaveEntries(d)

(* Some paths of a document make a document.                               *)
LEMMA PartIsDoc ==
  ASSUME NEW K, NEW d, IsDoc(d, K), NEW S \in SUBSET DOMAIN d
  PROVE  IsDoc(Restrict(d, S), K)
<1> DEFINE e == Restrict(d, S)
<1>1. DOMAIN e = S /\ e = [q \in DOMAIN e |-> e[q]] /\ \A q \in S : e[q] = d[q]
  BY DEF Restrict
<1> HIDE DEF e
<1>2. IsFiniteSet(S)
  BY FS_Subset DEF IsDoc
<1>3. ListsHaveEntries(e)
  BY <1>1 DEF IsDoc, ListsHaveEntries
<1> QED
  BY <1>1, <1>2, <1>3 DEF IsDoc, e

(* Under, Without, Value and Assign, path by path; the first three yield   *)
(* documents.                                                              *)
LEMMA UnderIs ==
  ASSUME NEW K, NEW d, IsDoc(d, K), NEW p \in Seq(K)
  PROVE  Under(d, p) = {q \in DOMAIN d : Below(p, q)}
BY PrefixIs DEF Under, IsDoc

LEMMA WithoutIs ==
  ASSUME NEW K, NEW d, IsDoc(d, K), NEW p \in Seq(K)
  PROVE  /\ IsDoc(Without(d, p), K)
         /\ \A q : q \in DOMAIN Without(d, p) <=> q \in DOMAIN d /\ ~Below(p, q)
         /\ \A q \in DOMAIN Without(d, p) : Without(d, p)[q] = d[q]
<1> DEFINE S == DOMAIN d \ Under(d, p)
<1>1. S = {q \in DOMAIN d : ~Below(p, q)}
  BY UnderIs
<1>2. Without(d, p) = Restrict(d, S) /\ S \in SUBSET DOMAIN d
  BY DEF Without
<1>3. IsDoc(Without(d, p), K)
  BY <1>2, PartIsDoc
<1>4. DOMAIN Restrict(d, S) = S /\ \A q \in S : Restrict(d, S)[q] = d[q]
  BY DEF Restrict
<1> QED
  BY <1>1, <1>2, <1>3, <1>4

LEMMA ValueIs ==
  ASSUME NEW K, NEW d, IsDoc(d, K), NEW p \in Seq(K)
  PROVE  /\ IsDoc(Value(d, p), K)
         /\ \A s : s \in DOMAIN Value(d, p) <=> s \in Seq(K) /\ p \o s \in DOMAIN d
         /\ \A s \in DOMAIN Value(d, p) : Value(d, p)[s] = d[p \o s]
<1> DEFINE U == Under(d, p)
           R == {Rest(p, q) : q \in U}
           v == Value(d, p)
<1>1. v = [s \in R |-> d[p \o s]]
  BY DEF Value, Rest
<1>2. U = {q \in DOMAIN d : Below(p, q)} /\ U \subseteq Seq(K)
  BY UnderIs DEF IsDoc
<1>3. ASSUME NEW q \in U PROVE Rest(p, q) \in Seq(K) /\ p \o Rest(p, q) = q
  BY <1>2, <1>3, RestIs
<1>4. \A s : s \in R <=> s \in Seq(K) /\ p \o s \in DOMAIN d
  <2>1. ASSUME NEW s \in R PROVE s \in Seq(K) /\ p \o s \in DOMAIN d
    <3>1. PICK q \in U : s = Rest(p, q)
      BY <2>1
    <3> QED
      BY <1>2, <1>3, <3>1
  <2>2. ASSUME NEW s \in Seq(K), p \o s \in DOMAIN d PROVE s \in R
    <3>1. Below(p, p \o s) /\ Rest(p, p \o s) = s
      BY Joined
    <3>2. p \o s \in U
      BY <1>2, <2>2, <3>1
    <3> QED
      BY <3>1, <3>2
  <2> QED
    BY <2>1, <2>2
<1>5. IsFiniteSet(R)
  <2> DEFINE f == [q \in U |-> Rest(p, q)]
  <2>1. IsFiniteSet(U)
    BY <1>2, FS_Subset DEF IsDoc
  <2>2. IsFiniteSet({f[q] : q \in U})
    BY <2>1, ImageFinite
  <2>3. R = {f[q] : q \in U}
    OBVIOUS
  <2> QED
    BY <2>2, <2>3
<1> HIDE DEF R, U
<1>6. DOMAIN v = R /\ v = [s \in DOMAIN v |-> v[s]] /\ \A s \in R : v[s] = d[p \o s]
  BY <1>1
<1> HIDE DEF v
<1>7. ListsHaveEntries(v)
  <2>1. SUFFICES ASSUME NEW s \in R, NEW t \in R, v[s] = List, Below(s, t), s # t
                 PROVE  t[Len(s) + 1] \in Nat
    BY <1>6 DEF ListsHaveEntries
  <2>2. s \in Seq(K) /\ t \in Seq(K) /\ p \o s \in DOMAIN d /\ p \o t \in DOMAIN d
    BY <1>4, <2>1
  <2>3. /\ Len(p \o s) = Len(p) + Len(s) /\ Len(p \o t) = Len(p) + Len(t)
        /\ \A i \in 1..Len(s) : (p \o s)[Len(p) + i] = s[i]
        /\ \A i \in 1..Len(t) : (p \o t)[Len(p) + i] = t[i]
        /\ Below(p, p \o s) /\ Below(p, p \o t)
    BY <2>2, Joined
  <2>4. Len(p) \in Nat /\ Len(s) \in Nat /\ Len(t) \in Nat /\ Len(s) < Len(t)
    BY <2>1, <2>2, Beginnings, LenProperties
  <2>5. Below(p \o s, p \o t)
    <3>1. ASSUME NEW i \in 1..Len(p \o s) PROVE (p \o s)[i] = (p \o t)[i]
      <4>1. CASE i <= Len(p)
        BY <2>3, <2>4, <4>1 DEF Below
      <4>2. CASE ~(i <= Len(p))
        <5>1. i - Len(p) \in 1..Len(s) /\ i - Len(p) \in 1..Len(t) /\ Len(p) + (i - Len(p)) = i
          BY <2>3, <2>4, <4>2
        <5>2. s[i - Len(p)] = t[i - Len(p)]
          BY <2>1, <5>1 DEF Below
        <5> QED
          BY <2>3, <5>1, <5>2
      <4> QED
        BY <4>1, <4>2
    <3> QED
      BY <2>3, <2>4, <3>1 DEF Below
  <2>6. p \o s # p \o t
    BY <2>3, <2>4
  <2>7. d[p \o s] = List
    BY <1>6, <2>1
  <2>8. (p \o t)[Len(p \o s) + 1] \in Nat
    BY <2>2, <2>5, <2>6, <2>7 DEF IsDoc, ListsHaveEntries
  <2>9. Len(s) + 1 \in 1..Len(t) /\ Len(p \o s) + 1 = Len(p) + (Len(s) + 1)
    BY <2>3, <2>4
  <2> QED
    BY <2>3, <2>8, <2>9
<1> QED
  BY <1>4, <1>5, <1>6, <1>7 DEF IsDoc, v

LEMMA AssignIs ==
  ASSUME NEW K, NEW d, IsDoc(d, K), NEW p \in Seq(K), NEW v, IsDoc(v, K)
  PROVE  /\ \A q : q \in DOMAIN Assign(d, p, v) <=>
                     /\ q \in Seq(K)
                     /\ IF Below(p, q) THEN Rest(p, q) \in DOMAIN v ELSE q \in DOMAIN d
         /\ \A q \in DOMAIN Assign(d, p, v) :
              Assign(d, p, v)[q] = IF Below(p, q) THEN v[Rest(p, q)] ELSE d[q]
         /\ Assign(d, p, v) = [q \in DOMAIN Assign(d, p, v) |-> Assign(d, p, v)[q]]
         /\ IsFiniteSet(DOMAIN Assign(d, p, v))
<1> DEFINE G == {p \o s : s \in DOMAIN v}
           D == G \cup (DOMAIN d \ Under(d, p))
           a == Assign(d, p, v)
<1>1. a = [q \in D |-> IF IsPrefix(p, q) THEN v[Rest(p, q)] ELSE d[q]]
  BY DEF Assign, Rest
<1>2. DOMAIN d \ Under(d, p) = {q \in DOMAIN d : ~Below(p, q)}
  BY UnderIs
<1>3. \A q : q \in D <=> /\ q \in Seq(K)
                         /\ IF Below(p, q) THEN Rest(p, q) \in DOMAIN v ELSE q \in DOMAIN d
  <2>1. ASSUME NEW s \in DOMAIN v
        PROVE  p \o s \in Seq(K) /\ Below(p, p \o s) /\ Rest(p, p \o s) \in DOMAIN v
    BY Joined DEF IsDoc
  <2>2. ASSUME NEW q \in Seq(K), Below(p, q), Rest(p, q) \in DOMAIN v PROVE q \in G
    BY <2>2, RestIs
  <2>3. \A q \in DOMAIN d : q \in Seq(K)
    BY DEF IsDoc
  <2>4. \A q \in G : q \in Seq(K) /\ Below(p, q) /\ Rest(p, q) \in DOMAIN v
    BY <2>1
  <2> HIDE DEF G
  <2> QED
    BY <1>2, <2>2, <2>3, <2>4
<1>4. IsFiniteSet(D)
  <2> DEFINE f == [s \in DOMAIN v |-> p \o s]
  <2>1. IsFiniteSet({f[s] : s \in DOMAIN v})
    <3>1. IsFiniteSet(DOMAIN v)
      BY DEF IsDoc
    <3> HIDE DEF f
    <3> QED
      BY <3>1, ImageFinite
  <2>2. G = {f[s] : s \in DOMAIN v}
    OBVIOUS
  <2>3. IsFiniteSet(DOMAIN d \ Under(d, p))
    BY FS_Subset DEF IsDoc
  <2> HIDE DEF G, f
  <2> QED
    BY <2>1, <2>2, <2>3, FS_Union
<1> HIDE DEF D
<1>5. DOMAIN a = D /\ a = [q \in DOMAIN a |-> a[q]]
  BY <1>1
<1>6. \A q \in D : a[q] = IF Below(p, q) THEN v[Rest(p, q)] ELSE d[q]
  <2>1. \A q \in D : IsPrefix(p, q) <=> Below(p, q)
    BY <1>3, PrefixIs
  <2> QED
    BY <1>1, <2>1
<1> QED
  BY <1>3, <1>4, <1>5, <1>6 DEF a

(* A value may go where no list is above it, or the entry is a number.     *)
LEMMA AssignIsDoc ==
  ASSUME NEW K, NEW d, IsDoc(d, K), NEW p \in Seq(K), NEW v, IsDoc(v, K),
         \A q \in DOMAIN d : d[q] = List /\ Below(q, p) /\ q # p => p[Len(q) + 1] \in Nat
  PROVE  IsDoc(Assign(d, p, v), K)
<1> DEFINE a == Assign(d, p, v)
<1>1. /\ \A q : q \in DOMAIN a <=>
                  /\ q \in Seq(K)
                  /\ IF Below(p, q) THEN Rest(p, q) \in DOMAIN v ELSE q \in DOMAIN d
      /\ \A q \in DOMAIN a : a[q] = IF Below(p, q) THEN v[Rest(p, q)] ELSE d[q]
      /\ a = [q \in DOMAIN a |-> a[q]]
      /\ IsFiniteSet(DOMAIN a)
  BY AssignIs
<1> HIDE DEF a
<1>2. ListsHaveEntries(a)
  <2>1. SUFFICES ASSUME NEW q \in DOMAIN a, NEW r \in DOMAIN a, a[q] = List, Below(q, r), q # r
                 PROVE  r[Len(q) + 1] \in Nat
    BY DEF ListsHaveEntries
  <2>2. q \in Seq(K) /\ r \in Seq(K)
    BY <1>1
  <2>3. CASE Below(p, q)
    <3>1. Below(p, r)
      BY <2>1, <2>2, <2>3, Beginnings
    <3> DEFINE s == Rest(p, q)
               t == Rest(p, r)
    <3>2. /\ s \in Seq(K) /\ p \o s = q /\ Len(s) = Len(q) - Len(p)
          /\ \A i \in 1..(Len(q) - Len(p)) : s[i] = q[Len(p) + i]
      BY <2>2, <2>3, RestIs
    <3>3. /\ t \in Seq(K) /\ p \o t = r /\ Len(t) = Len(r) - Len(p)
          /\ \A i \in 1..(Len(r) - Len(p)) : t[i] = r[Len(p) + i]
      BY <2>2, <3>1, RestIs
    <3>4. s \in DOMAIN v /\ t \in DOMAIN v /\ v[s] = List
      BY <1>1, <2>1, <2>3, <3>1
    <3> HIDE DEF s, t
    <3>5. s # t
      BY <2>1, <3>2, <3>3
    <3>6. /\ Len(p) \in Nat /\ Len(q) \in Nat /\ Len(r) \in Nat
          /\ Len(p) <= Len(q) /\ Len(q) < Len(r)
      BY <2>1, <2>2, <2>3, Beginnings, LenProperties DEF Below
    <3>7. Below(s, t)
      <4>1. ASSUME NEW i \in 1..Len(s) PROVE s[i] = t[i]
        <5>1. i \in 1..(Len(q) - Len(p)) /\ i \in 1..(Len(r) - Len(p)) /\ Len(p) + i \in 1..Len(q)
          BY <3>2, <3>6
        <5>2. q[Len(p) + i] = r[Len(p) + i]
          BY <2>1, <5>1 DEF Below
        <5> QED
          BY <3>2, <3>3, <5>1, <5>2
      <4> QED
        BY <3>2, <3>3, <3>6, <4>1 DEF Below
    <3>8. t[Len(s) + 1] \in Nat
      BY <3>4, <3>5, <3>7 DEF IsDoc, ListsHaveEntries
    <3>9. Len(s) + 1 \in 1..(Len(r) - Len(p)) /\ Len(p) + (Len(s) + 1) = Len(q) + 1
      BY <3>2, <3>6
    <3> QED
      BY <3>3, <3>8, <3>9
  <2>4. CASE ~Below(p, q) /\ Below(p, r)
    <3>1. Below(q, p) /\ q # p
      BY <2>1, <2>2, <2>4, Beginnings
    <3>2. q \in DOMAIN d /\ d[q] = List
      BY <1>1, <2>1, <2>4
    <3>3. p[Len(q) + 1] \in Nat
      BY <3>1, <3>2
    <3> QED
      BY <2>2, <2>4, <3>1, <3>3, Beginnings
  <2>5. CASE ~Below(p, q) /\ ~Below(p, r)
    BY <1>1, <2>1, <2>5 DEF IsDoc, ListsHaveEntries
  <2> QED
    BY <2>3, <2>4, <2>5
<1> QED
  BY <1>1, <1>2 DEF IsDoc, a

-----------------------------------------------------------------------------
(* Lists                                                                   *)

(* What is in an entry of the list at p.                                   *)
InEntry(p, q) == Below(p, q) /\ p # q

(* Where Shifted moves a path to.                                          *)
Moved(p, i, add, less, q) ==
  IF IsStrictPrefix(p, q) /\ q[Len(p) + 1] >= i
  THEN [q EXCEPT ![Len(p) + 1] = @ + add - less] ELSE q

(* The numbers from i on are free to move: up, or down to an unused one.   *)
Shiftable(d, p, i, add, less) ==
  /\ p \in DOMAIN d /\ d[p] = List /\ i \in Nat
  /\ \/ add = 1 /\ less = 0
     \/ /\ add = 0 /\ less = 1 /\ i # 0
        /\ \A q \in DOMAIN d : InEntry(p, q) => q[Len(p) + 1] # i - 1

(* A path in an entry of the list stays in one, and the others stay where  *)
(* they are.                                                               *)
LEMMA MovedIs ==
  ASSUME NEW K, Nat \subseteq K, NEW d, IsDoc(d, K), NEW p, NEW i, NEW add, NEW less,
         Shiftable(d, p, i, add, less), NEW q \in DOMAIN d
  PROVE  /\ Moved(p, i, add, less, q) \in Seq(K) /\ Len(Moved(p, i, add, less, q)) = Len(q)
         /\ \A j \in 1..Len(q) : j # Len(p) + 1 => Moved(p, i, add, less, q)[j] = q[j]
         /\ InEntry(p, q) =>
              /\ Len(p) + 1 \in 1..Len(q) /\ q[Len(p) + 1] \in Nat
              /\ Moved(p, i, add, less, q)[Len(p) + 1]
                   = IF q[Len(p) + 1] >= i THEN q[Len(p) + 1] + add - less ELSE q[Len(p) + 1]
              /\ Moved(p, i, add, less, q)[Len(p) + 1] \in Nat
              /\ InEntry(p, Moved(p, i, add, less, q))
         /\ ~InEntry(p, q) => Moved(p, i, add, less, q) = q
<1> DEFINE m == Moved(p, i, add, less, q)
           at == Len(p) + 1
<1>1. /\ p \in Seq(K) /\ q \in Seq(K) /\ Len(p) \in Nat /\ Len(q) \in Nat
      /\ p \in DOMAIN d /\ d[p] = List /\ i \in Nat
  <2>1. p \in DOMAIN d /\ d[p] = List /\ i \in Nat
    BY DEF Shiftable
  <2>2. p \in Seq(K) /\ q \in Seq(K)
    BY <2>1 DEF IsDoc
  <2> QED
    BY <2>1, <2>2, LenProperties
<1>2. IsStrictPrefix(p, q) <=> InEntry(p, q)
  BY <1>1, PrefixIs DEF IsStrictPrefix, InEntry
<1>3. CASE ~InEntry(p, q)
  <2>1. m = q
    BY <1>2, <1>3 DEF Moved
  <2> QED
    BY <1>1, <1>3, <2>1
<1>4. CASE InEntry(p, q)
  <2>1. at \in 1..Len(q) /\ q[at] \in Nat
    <3>1. Len(p) < Len(q)
      BY <1>1, <1>4, Beginnings DEF InEntry
    <3>2. q[at] \in Nat
      BY <1>1, <1>4 DEF IsDoc, ListsHaveEntries, InEntry
    <3> QED
      BY <1>1, <3>1, <3>2
  <2>2. q[at] >= i => q[at] + add - less \in Nat
    BY <1>1, <2>1 DEF Shiftable
  <2>3. CASE q[at] >= i
    <3> DEFINE n == q[at] + add - less
    <3>1. n \in K
      BY <2>2, <2>3
    <3>2. m = [q EXCEPT ![at] = n]
      BY <1>2, <1>4, <2>3 DEF Moved
    <3> HIDE DEF n, m
    <3>3. /\ m \in Seq(K) /\ Len(m) = Len(q)
          /\ \A j \in 1..Len(q) : m[j] = IF j = at THEN n ELSE q[j]
      <4> HIDE DEF at
      <4> QED
        BY <1>1, <2>1, <3>1, <3>2, ExceptSeq
    <3>4. InEntry(p, m)
      <4>1. Below(p, m)
        BY <1>1, <1>4, <3>3 DEF InEntry, Below
      <4>2. p # m
        BY <1>1, <2>1, <3>3
      <4> QED
        BY <4>1, <4>2 DEF InEntry
    <3>5. m[at] = n /\ n \in Nat
      BY <2>1, <2>2, <2>3, <3>3 DEF n
    <3>6. m[at] = IF q[at] >= i THEN q[at] + add - less ELSE q[at]
      BY <2>3, <3>5 DEF n
    <3> QED
      BY <1>4, <2>1, <3>3, <3>4, <3>5, <3>6 DEF m
  <2>4. CASE ~(q[at] >= i)
    <3>1. m = q
      BY <2>4 DEF Moved
    <3> QED
      BY <1>1, <1>4, <2>1, <2>4, <3>1
  <2> QED
    BY <2>3, <2>4
<1> QED
  BY <1>3, <1>4

(* Moving keeps paths apart, and does not bring one below another.         *)
LEMMA MovedApart ==
  ASSUME NEW K, Nat \subseteq K, NEW d, IsDoc(d, K), NEW p, NEW i, NEW add, NEW less,
         Shiftable(d, p, i, add, less)
  PROVE  \A q, r \in DOMAIN d :
           Below(Moved(p, i, add, less, q), Moved(p, i, add, less, r)) => Below(q, r)
<1> DEFINE To(x) == Moved(p, i, add, less, x)
           at == Len(p) + 1
<1>m. \A x \in DOMAIN d :
        /\ x \in Seq(K) /\ To(x) \in Seq(K) /\ Len(To(x)) = Len(x)
        /\ \A j \in 1..Len(x) : j # at => To(x)[j] = x[j]
        /\ InEntry(p, x) => /\ at \in 1..Len(x) /\ x[at] \in Nat
                            /\ To(x)[at] = IF x[at] >= i THEN x[at] + add - less ELSE x[at]
        /\ ~InEntry(p, x) => To(x) = x
  BY MovedIs DEF IsDoc
<1> SUFFICES ASSUME NEW q \in DOMAIN d, NEW r \in DOMAIN d, Below(To(q), To(r))
             PROVE  Below(q, r)
  OBVIOUS
<1> DEFINE a == To(q)
           b == To(r)
<1>b. Below(a, b)
  OBVIOUS
<1> HIDE DEF To
<1>1. /\ a \in Seq(K) /\ Len(a) = Len(q) /\ \A j \in 1..Len(q) : j # at => a[j] = q[j]
      /\ InEntry(p, q) => /\ at \in 1..Len(q) /\ q[at] \in Nat
                          /\ a[at] = IF q[at] >= i THEN q[at] + add - less ELSE q[at]
      /\ ~InEntry(p, q) => a = q
  BY <1>m
<1>2. /\ b \in Seq(K) /\ Len(b) = Len(r) /\ \A j \in 1..Len(r) : j # at => b[j] = r[j]
      /\ InEntry(p, r) => /\ at \in 1..Len(r) /\ r[at] \in Nat
                          /\ b[at] = IF r[at] >= i THEN r[at] + add - less ELSE r[at]
      /\ ~InEntry(p, r) => b = r
  BY <1>m
<1> HIDE DEF a, b
<1>3. /\ p \in Seq(K) /\ q \in Seq(K) /\ r \in Seq(K) /\ i \in Nat
      /\ Len(p) \in Nat /\ Len(q) \in Nat /\ Len(r) \in Nat
  <2>1. p \in DOMAIN d /\ i \in Nat
    BY DEF Shiftable
  <2>2. p \in Seq(K) /\ q \in Seq(K) /\ r \in Seq(K)
    BY <2>1 DEF IsDoc
  <2> QED
    BY <2>1, <2>2, LenProperties
<1>4. /\ Len(q) <= Len(r)
      /\ \A j \in 1..Len(q) : a[j] = b[j]
  BY <1>1, <1>2, <1>b DEF Below
<1>5. \A j \in 1..Len(q) : j # at => q[j] = r[j]
  BY <1>1, <1>2, <1>3, <1>4
<1>6. SUFFICES ASSUME at \in 1..Len(q) PROVE q[at] = r[at]
  BY <1>3, <1>4, <1>5 DEF Below
<1>7. InEntry(p, q) <=> InEntry(p, r)
  <2>1. Len(p) < Len(q) /\ Len(p) < Len(r)
    BY <1>3, <1>4, <1>6
  <2>2. \A j \in 1..Len(p) : j \in 1..Len(q) /\ j # at
    BY <1>3, <2>1
  <2>3. p # q /\ p # r
    BY <1>3, <2>1
  <2> QED
    BY <1>3, <1>5, <2>1, <2>2, <2>3 DEF InEntry, Below
<1>8. CASE ~InEntry(p, q)
  BY <1>1, <1>2, <1>4, <1>6, <1>7, <1>8
<1>9. CASE InEntry(p, q)
  <2>1. /\ q[at] \in Nat /\ r[at] \in Nat
        /\ a[at] = IF q[at] >= i THEN q[at] + add - less ELSE q[at]
        /\ b[at] = IF r[at] >= i THEN r[at] + add - less ELSE r[at]
    BY <1>1, <1>2, <1>7, <1>9
  <2>2. a[at] = b[at]
    BY <1>4, <1>6
  <2>3. CASE add = 1 /\ less = 0
    BY <1>3, <2>1, <2>2, <2>3
  <2>4. CASE add = 0 /\ less = 1 /\ q[at] # i - 1 /\ r[at] # i - 1
    BY <1>3, <2>1, <2>2, <2>4
  <2> QED
    BY <1>7, <1>9, <2>3, <2>4 DEF Shiftable
<1> QED
  BY <1>8, <1>9

(* The same for all paths of a document.                                   *)
LEMMA EntriesMove ==
  ASSUME NEW K, Nat \subseteq K, NEW d, IsDoc(d, K), NEW p, NEW i, NEW add, NEW less,
         Shiftable(d, p, i, add, less)
  PROVE  \A q \in DOMAIN d :
           /\ q \in Seq(K)
           /\ InEntry(p, q) => InEntry(p, Moved(p, i, add, less, q))
           /\ ~InEntry(p, q) => Moved(p, i, add, less, q) = q
BY MovedIs DEF IsDoc

(* The document with the elements renumbered, path by path.                *)
LEMMA ShiftedIs ==
  ASSUME NEW K, Nat \subseteq K, NEW d, IsDoc(d, K), NEW p, NEW i, NEW add, NEW less,
         Shiftable(d, p, i, add, less)
  PROVE  /\ IsDoc(Shifted(d, p, i, add, less), K)
         /\ \A q \in Seq(K) : ~InEntry(p, q) =>
              /\ q \in DOMAIN Shifted(d, p, i, add, less) <=> q \in DOMAIN d
              /\ q \in DOMAIN d => Shifted(d, p, i, add, less)[q] = d[q]
         /\ \A q \in DOMAIN Shifted(d, p, i, add, less) :
              \E r \in DOMAIN d : q = Moved(p, i, add, less, r)
         /\ \A r \in DOMAIN d :
              /\ Moved(p, i, add, less, r) \in DOMAIN Shifted(d, p, i, add, less)
              /\ Shifted(d, p, i, add, less)[Moved(p, i, add, less, r)] = d[r]
<1> DEFINE To(q) == Moved(p, i, add, less, q)
           S == Shifted(d, p, i, add, less)
           D == {To(r) : r \in DOMAIN d}
           at == Len(p) + 1
<1>1. S = [q \in D |-> d[CHOOSE r \in DOMAIN d : To(r) = q]]
  BY DEF Shifted, Moved
<1>2. \A q \in DOMAIN d :
        /\ q \in Seq(K) /\ To(q) \in Seq(K) /\ Len(To(q)) = Len(q)
        /\ \A j \in 1..Len(q) : j # at => To(q)[j] = q[j]
        /\ InEntry(p, q) => To(q)[at] \in Nat /\ InEntry(p, To(q))
        /\ ~InEntry(p, q) => To(q) = q
  BY MovedIs DEF IsDoc
<1>3. \A q, r \in DOMAIN d : Below(To(q), To(r)) => Below(q, r)
  BY MovedApart
<1>4. \A q, r \in DOMAIN d : To(q) = To(r) => q = r
  <2>1. ASSUME NEW q \in DOMAIN d, NEW r \in DOMAIN d, To(q) = To(r) PROVE q = r
    <3>1. Below(To(q), To(r)) /\ Below(To(r), To(q))
      BY <1>2, <2>1, Beginnings
    <3> QED
      BY <1>2, <1>3, <3>1, Beginnings
  <2> QED
    BY <2>1
<1>5. IsFiniteSet(D)
  <2> DEFINE f == [r \in DOMAIN d |-> To(r)]
  <2>1. IsFiniteSet({f[r] : r \in DOMAIN d})
    <3>1. IsFiniteSet(DOMAIN d)
      BY DEF IsDoc
    <3> HIDE DEF f
    <3> QED
      BY <3>1, ImageFinite
  <2>2. D = {f[r] : r \in DOMAIN d}
    OBVIOUS
  <2> QED
    BY <2>1, <2>2
<1> HIDE DEF To
<1>6. \A q \in DOMAIN d : To(q) \in D /\ S[To(q)] = d[q]
  <2>1. ASSUME NEW q \in DOMAIN d PROVE S[To(q)] = d[q]
    <3>1. (CHOOSE r \in DOMAIN d : To(r) = To(q)) = q
      BY <1>4
    <3> QED
      BY <1>1, <3>1
  <2> QED
    BY <2>1
<1>7. DOMAIN S = D /\ S = [q \in DOMAIN S |-> S[q]] /\ D \subseteq Seq(K)
  BY <1>1, <1>2
<1>8. \A q \in D : \E r \in DOMAIN d : q = To(r)
  OBVIOUS
<1> HIDE DEF D, S
<1>9. ListsHaveEntries(S)
  <2>1. SUFFICES ASSUME NEW x \in D, NEW y \in D, S[x] = List, Below(x, y), x # y
                 PROVE  y[Len(x) + 1] \in Nat
    BY <1>7 DEF ListsHaveEntries
  <2>2. PICK q \in DOMAIN d, r \in DOMAIN d : x = To(q) /\ y = To(r)
    BY <1>8
  <2>3. Below(q, r) /\ q # r /\ d[q] = List
    BY <1>3, <1>6, <2>1, <2>2
  <2>4. r[Len(q) + 1] \in Nat
    BY <2>3 DEF IsDoc, ListsHaveEntries
  <2>5. Len(q) + 1 \in 1..Len(r)
    <3>1. Len(q) < Len(r) /\ Len(q) \in Nat /\ Len(r) \in Nat
      BY <1>2, <2>3, Beginnings, LenProperties
    <3> QED
      BY <3>1
  <2>6. CASE Len(q) + 1 # at
    BY <1>2, <2>2, <2>4, <2>5, <2>6
  <2>7. CASE Len(q) + 1 = at
    BY <1>2, <2>2, <2>4, <2>7
  <2> QED
    BY <2>6, <2>7
<1>10. ASSUME NEW q \in Seq(K), ~InEntry(p, q)
       PROVE  (q \in D <=> q \in DOMAIN d) /\ (q \in DOMAIN d => S[q] = d[q])
  <2>1. q \in DOMAIN d => q \in D /\ S[q] = d[q]
    BY <1>2, <1>6, <1>10
  <2>2. ASSUME q \in D PROVE q \in DOMAIN d
    <3>1. PICK r \in DOMAIN d : q = To(r)
      BY <1>8, <2>2
    <3>2. ~InEntry(p, r)
      BY <1>2, <1>10, <3>1
    <3> QED
      BY <1>2, <3>1, <3>2
  <2> QED
    BY <2>1, <2>2
<1>11. IsDoc(S, K)
  BY <1>5, <1>7, <1>9 DEF IsDoc
<1>12. /\ \A q \in DOMAIN S : \E r \in DOMAIN d : q = To(r)
       /\ \A r \in DOMAIN d : To(r) \in DOMAIN S /\ S[To(r)] = d[r]
  BY <1>6, <1>7, <1>8
<1>13. \A q \in Seq(K) : ~InEntry(p, q) =>
         (q \in DOMAIN S <=> q \in DOMAIN d) /\ (q \in DOMAIN d => S[q] = d[q])
  BY <1>7, <1>10
<1> QED
  BY <1>11, <1>12, <1>13 DEF S, To

(* Which entry of the list at p a path is in.                              *)
LEMMA EntryOf ==
  ASSUME NEW K, NEW p \in Seq(K), NEW t \in K, NEW q \in Seq(K)
  PROVE  Below(Append(p, t), q) <=> InEntry(p, q) /\ q[Len(p) + 1] = t
<1>1. /\ Append(p, t) \in Seq(K) /\ Len(Append(p, t)) = Len(p) + 1 /\ Len(p) \in Nat
      /\ Append(p, t)[Len(p) + 1] = t
      /\ \A i \in 1..Len(p) : Append(p, t)[i] = p[i]
  BY Entry
<1>2. Len(q) \in Nat
  BY LenProperties
<1> DEFINE a == Append(p, t)
<1> HIDE DEF a
<1>3. ASSUME Below(a, q) PROVE InEntry(p, q) /\ q[Len(p) + 1] = t
  BY <1>1, <1>2, <1>3 DEF InEntry, Below, a
<1>4. ASSUME InEntry(p, q), q[Len(p) + 1] = t PROVE Below(a, q)
  <2>1. Len(p) < Len(q)
    BY <1>4, Beginnings DEF InEntry
  <2>2. \A i \in 1..(Len(p) + 1) : i \in 1..Len(p) \/ i = Len(p) + 1
    BY <1>1
  <2> QED
    BY <1>1, <1>2, <1>4, <2>1, <2>2 DEF InEntry, Below, a
<1> QED
  BY <1>3, <1>4 DEF a

(* An entry of a list that is assigned to must have a number.              *)
LEMMA AssignAtEntry ==
  ASSUME NEW K, NEW d, IsDoc(d, K), NEW p \in DOMAIN d, NEW t \in K,
         d[p] = List => t \in Nat, NEW v, IsDoc(v, K)
  PROVE  IsDoc(Assign(d, Append(p, t), v), K)
<1> DEFINE a == Append(p, t)
<1>1. /\ p \in Seq(K) /\ a \in Seq(K) /\ Len(a) = Len(p) + 1 /\ Len(p) \in Nat
      /\ a[Len(p) + 1] = t /\ \A i \in 1..Len(p) : a[i] = p[i]
  BY Entry DEF IsDoc
<1>2. ASSUME NEW q \in DOMAIN d, d[q] = List, Below(q, a), q # a
      PROVE  a[Len(q) + 1] \in Nat
  <2>1. q \in Seq(K) /\ Len(q) < Len(a) /\ Len(q) \in Nat
    <3>1. q \in Seq(K)
      BY DEF IsDoc
    <3> HIDE DEF a
    <3> QED
      BY <1>1, <1>2, <3>1, Beginnings, LenProperties
  <2> HIDE DEF a
  <2>2. Below(q, p)
    BY <1>1, <1>2, <2>1 DEF Below
  <2>3. CASE q = p
    BY <1>1, <1>2, <2>3
  <2>4. CASE q # p
    <3>1. p[Len(q) + 1] \in Nat /\ Len(q) < Len(p)
      BY <1>1, <1>2, <2>1, <2>2, <2>4, Beginnings DEF IsDoc, ListsHaveEntries
    <3> QED
      BY <1>1, <2>1, <3>1
  <2> QED
    BY <2>3, <2>4
<1> HIDE DEF a
<1> QED
  BY <1>1, <1>2, AssignIsDoc DEF a

(* Inserting into a list makes a document.                                 *)
LEMMA InsertIsDoc ==
  ASSUME NEW K, Nat \subseteq K, NEW d, IsDoc(d, K), NEW p \in DOMAIN d, d[p] = List,
         NEW i \in Nat, NEW v, IsDoc(v, K)
  PROVE  IsDoc(Insert(d, p, i, v), K)
<1> DEFINE e == Shifted(d, p, i, 1, 0)
<1>1. p \in Seq(K) /\ ~InEntry(p, p)
  BY DEF IsDoc, InEntry
<1>2. Shiftable(d, p, i, 1, 0)
  BY DEF Shiftable
<1>3. IsDoc(e, K) /\ p \in DOMAIN e
  BY <1>1, <1>2, ShiftedIs
<1> HIDE DEF e
<1>4. IsDoc(Assign(e, Append(p, i), v), K)
  BY <1>3, AssignAtEntry
<1> QED
  BY <1>4 DEF Insert, e

(* Taking an element out of a list changes nothing outside of the list.    *)
LEMMA TakeOutIs ==
  ASSUME NEW K, Nat \subseteq K, NEW d, IsDoc(d, K), NEW p \in DOMAIN d, d[p] = List,
         NEW i \in Nat
  PROVE  /\ IsDoc(TakeOut(d, p, i), K)
         /\ \A q \in Seq(K) : ~InEntry(p, q) =>
              /\ q \in DOMAIN TakeOut(d, p, i) <=> q \in DOMAIN d
              /\ q \in DOMAIN d => TakeOut(d, p, i)[q] = d[q]
<1> DEFINE a == Append(p, i)
           e == Without(d, a)
<1>1. p \in Seq(K) /\ i \in K /\ a \in Seq(K)
  BY Entry DEF IsDoc
<1>2. \A q \in Seq(K) : Below(a, q) <=> InEntry(p, q) /\ q[Len(p) + 1] = i
  BY <1>1, EntryOf
<1> HIDE DEF a
<1>3. /\ IsDoc(e, K)
      /\ \A q : q \in DOMAIN e <=> q \in DOMAIN d /\ ~Below(a, q)
      /\ \A q \in DOMAIN e : e[q] = d[q]
  BY <1>1, WithoutIs
<1> HIDE DEF e
<1>4. \A q \in Seq(K) : ~InEntry(p, q) => (q \in DOMAIN e <=> q \in DOMAIN d)
                                          /\ (q \in DOMAIN d => e[q] = d[q])
  BY <1>2, <1>3
<1>5. Shiftable(e, p, i + 1, 0, 1)
  <2>1. p \in DOMAIN e /\ e[p] = List
    BY <1>1, <1>4 DEF InEntry
  <2>2. \A q \in DOMAIN e : InEntry(p, q) => q[Len(p) + 1] # i
    <3>1. \A q \in DOMAIN e : q \in Seq(K) /\ ~Below(a, q)
      BY <1>3 DEF IsDoc
    <3> QED
      BY <1>2, <3>1
  <2>3. i + 1 \in Nat /\ i + 1 # 0 /\ (i + 1) - 1 = i
    OBVIOUS
  <2> QED
    BY <2>1, <2>2, <2>3 DEF Shiftable
<1>6. /\ IsDoc(Shifted(e, p, i + 1, 0, 1), K)
      /\ \A q \in Seq(K) : ~InEntry(p, q) =>
           /\ q \in DOMAIN Shifted(e, p, i + 1, 0, 1) <=> q \in DOMAIN e
           /\ q \in DOMAIN e => Shifted(e, p, i + 1, 0, 1)[q] = e[q]
  <2> DEFINE j == i + 1
  <2> HIDE DEF j
  <2>1. Shiftable(e, p, j, 0, 1)
    BY <1>5 DEF j
  <2> QED
    BY <1>3, <2>1, ShiftedIs DEF j
<1>7. TakeOut(d, p, i) = Shifted(e, p, i + 1, 0, 1)
  BY DEF TakeOut, e, a
<1> HIDE DEF TakeOut
<1> QED
  BY <1>4, <1>6, <1>7

(* So does removing an entry of whatever it is.                            *)
LEMMA DiscardIsDoc ==
  ASSUME NEW K, Nat \subseteq K, NEW d, IsDoc(d, K), NEW p \in Seq(K), NEW t \in K
  PROVE  IsDoc(Discard(d, p, t), K)
<1>1. Append(p, t) \in Seq(K)
  BY Entry
<1>2. CASE Append(p, t) \notin DOMAIN d
  BY <1>2 DEF Discard
<1>3. CASE Append(p, t) \in DOMAIN d /\ Is(d, p, List)
  <2>1. p \in DOMAIN d /\ d[p] = List
    BY <1>3 DEF Is
  <2>2. t \in Nat
    <3>1. Below(p, Append(p, t)) /\ p # Append(p, t) /\ Append(p, t)[Len(p) + 1] = t
      BY Entry
    <3> QED
      BY <1>3, <2>1, <3>1 DEF IsDoc, ListsHaveEntries
  <2> QED
    BY <1>3, <2>1, <2>2, TakeOutIs DEF Discard
<1>4. CASE Append(p, t) \in DOMAIN d /\ ~Is(d, p, List)
  BY <1>1, <1>4, WithoutIs DEF Discard
<1> QED
  BY <1>2, <1>3, <1>4

-----------------------------------------------------------------------------
(* Operations                                                              *)

(* An operation, in the same terms.                                        *)
IsOp(o, K) ==
  /\ o.op \in {"add", "replace", "remove", "test", "move", "copy"}
  /\ o.path \in Seq(K) /\ o.token \in K
  /\ o.op \in {"add", "replace", "test"} => IsDoc(o.value, K)
  /\ o.op \in {"move", "copy"} => o.from \in Seq(K) /\ o.item \in K

(* Lists are finite.                                                       *)
LEMMA SizeIsNat ==
  ASSUME NEW K, NEW d, IsDoc(d, K), NEW p
  PROVE  Size(d, p) \in Nat
<1>1. IsFiniteSet({q \in Under(d, p) : Len(q) = Len(p) + 1})
  BY FS_Subset DEF IsDoc, Under
<1> QED
  BY <1>1, FS_CardinalityType DEF Size

(* What there is at an entry of a list has a number.                       *)
LEMMA EntriesOfLists ==
  ASSUME NEW K, NEW d, IsDoc(d, K), NEW p \in DOMAIN d, NEW t \in K, Append(p, t) \in DOMAIN d
  PROVE  d[p] = List => t \in Nat
<1>1. Below(p, Append(p, t)) /\ p # Append(p, t) /\ Append(p, t)[Len(p) + 1] = t
  BY Entry DEF IsDoc
<1> QED
  BY <1>1 DEF IsDoc, ListsHaveEntries

(* An operation that is not refused makes a document of a document.        *)
LEMMA CopyIsDoc ==
  ASSUME NEW K, Nat \subseteq K, NEW d, IsDoc(d, K), NEW o, IsOp(o, K),
         o.op \in {"move", "copy"}, Resolves(d, o.path)
  PROVE  Copy(d, o) = Refused \/ IsDoc(Copy(d, o), K)
<1>1. /\ o.path \in DOMAIN d /\ o.token \in K /\ Source(o) \in Seq(K)
  BY Entry DEF IsOp, Resolves, Source
<1>2. SUFFICES ASSUME Copy(d, o) # Refused PROVE IsDoc(Copy(d, o), K)
  OBVIOUS
<1>3. /\ Copy(d, o) = Assign(d, Target(o), Value(d, Source(o)))
      /\ Is(d, o.path, Map) \/ Target(o) \in DOMAIN d
  BY <1>2 DEF Copy
<1>4. d[o.path] = List => o.token \in Nat
  BY <1>1, <1>3, PatchAssumption, EntriesOfLists DEF Is, Target
<1>5. IsDoc(Value(d, Source(o)), K)
  BY <1>1, ValueIs
<1>6. IsDoc(Assign(d, Append(o.path, o.token), Value(d, Source(o))), K)
  BY <1>1, <1>4, <1>5, AssignAtEntry
<1> QED
  BY <1>3, <1>6 DEF Target

LEMMA AddIsDoc ==
  ASSUME NEW K, Nat \subseteq K, NEW d, IsDoc(d, K), NEW o, IsOp(o, K),
         o.op = "add", Resolves(d, o.path)
  PROVE  IsDoc(Add(d, o), K)
<1>1. o.path \in DOMAIN d /\ o.token \in K /\ IsDoc(o.value, K)
  BY DEF IsOp, Resolves
<1>2. Size(d, o.path) \in Nat
  BY SizeIsNat
<1>3. ASSUME NEW i \in Nat, Is(d, o.path, List) PROVE IsDoc(Insert(d, o.path, i, o.value), K)
  <2>1. d[o.path] = List
    BY <1>3 DEF Is
  <2> QED
    BY <1>1, <2>1, InsertIsDoc
<1>4. Is(d, o.path, Map) => IsDoc(Assign(d, Target(o), o.value), K)
  <2>1. Is(d, o.path, Map) => IsDoc(Assign(d, Append(o.path, o.token), o.value), K)
    BY <1>1, PatchAssumption, AssignAtEntry DEF Is
  <2> QED
    BY <2>1 DEF Target
<1>5. CASE Is(d, o.path, List) /\ o.token = Dash
  <2>1. Add(d, o) = Insert(d, o.path, Size(d, o.path), o.value)
    BY <1>5, PatchAssumption DEF Add, Is, IsNumber
  <2> QED
    BY <1>2, <1>3, <1>5, <2>1
<1>6. CASE Is(d, o.path, List) /\ o.token # Dash /\ IsNumber(o.token)
  <2> DEFINE i == IF o.token < Size(d, o.path) THEN o.token ELSE Size(d, o.path)
  <2>1. i \in Nat
    BY <1>2, <1>6 DEF IsNumber
  <2>2. Add(d, o) = Insert(d, o.path, i, o.value)
    BY <1>6, PatchAssumption DEF Add, Is, IsNumber
  <2> HIDE DEF i
  <2> QED
    BY <1>3, <1>6, <2>1, <2>2
<1>7. CASE Is(d, o.path, List) /\ o.token # Dash /\ ~IsNumber(o.token)
  BY <1>7, PatchAssumption DEF Add, Is, IsNumber
<1>8. CASE ~Is(d, o.path, List)
  BY <1>4, <1>8, PatchAssumption DEF Add, Is, IsNumber
<1> QED
  BY <1>5, <1>6, <1>7, <1>8

LEMMA OpIsDoc ==
  ASSUME NEW K, Nat \subseteq K, NEW d, IsDoc(d, K), NEW o, IsOp(o, K)
  PROVE  ApplyOp(d, o) = Refused \/ IsDoc(ApplyOp(d, o), K)
<1>1. SUFFICES ASSUME ApplyOp(d, o) # Refused PROVE IsDoc(ApplyOp(d, o), K)
  OBVIOUS
<1>2. /\ Resolves(d, o.path) /\ o.path \in DOMAIN d /\ o.path \in Seq(K) /\ o.token \in K
      /\ Target(o) = Append(o.path, o.token)
  BY <1>1 DEF ApplyOp, Resolves, IsOp, Target
<1>3. ASSUME o.op \in {"move", "copy"}
      PROVE  /\ Copy(d, o) = Refused \/ IsDoc(Copy(d, o), K)
             /\ \A e : IsDoc(e, K) => IsDoc(Discard(e, o.from, o.item), K)
  <2>1. o.from \in Seq(K) /\ o.item \in K
    BY <1>3 DEF IsOp
  <2> QED
    BY <1>2, <1>3, <2>1, CopyIsDoc, DiscardIsDoc
<1>4. CASE o.op = "add"
  BY <1>1, <1>2, <1>4, AddIsDoc DEF ApplyOp
<1>5. CASE o.op = "replace"
  <2>1. ApplyOp(d, o) = Assign(d, Target(o), o.value) /\ Target(o) \in DOMAIN d
    BY <1>1, <1>5 DEF ApplyOp, Replace
  <2>2. IsDoc(o.value, K) /\ (d[o.path] = List => o.token \in Nat)
    BY <1>2, <1>5, <2>1, EntriesOfLists DEF IsOp
  <2>3. IsDoc(Assign(d, Append(o.path, o.token), o.value), K)
    BY <1>2, <2>2, AssignAtEntry
  <2> QED
    BY <1>2, <2>1, <2>3
<1>6. CASE o.op = "remove"
  <2>1. ApplyOp(d, o) = Discard(d, o.path, o.token)
    BY <1>1, <1>6 DEF ApplyOp, Removal
  <2> QED
    BY <1>2, <2>1, DiscardIsDoc
<1>7. CASE o.op = "test"
  BY <1>1, <1>7 DEF ApplyOp, Test
<1>8. CASE o.op = "copy"
  BY <1>1, <1>3, <1>8 DEF ApplyOp
<1>9. CASE o.op = "move"
  <2>1. ApplyOp(d, o) = Move(d, o)
    BY <1>1, <1>9 DEF ApplyOp
  <2>2. CASE IsStrictPrefix(Source(o), Target(o))
    BY <1>1, <1>3, <1>9, <2>1, <2>2 DEF Move
  <2>3. CASE ~IsStrictPrefix(Source(o), Target(o))
    <3>1. Copy(d, o) # Refused
      BY <1>1, <2>1, <2>3 DEF Move
    <3> QED
      BY <1>3, <1>9, <2>1, <2>3, <3>1 DEF Move
  <2> QED
    BY <2>2, <2>3
<1> QED
  BY <1>4, <1>5, <1>6, <1>7, <1>8, <1>9 DEF IsOp

-----------------------------------------------------------------------------
(* The service and the standard                                            *)

(* Functions with the same values are the same.                            *)
LEMMA SameDoc ==
  ASSUME NEW f, NEW g, f = [x \in DOMAIN f |-> f[x]], g = [x \in DOMAIN g |-> g[x]],
         \A x : x \in DOMAIN f <=> x \in DOMAIN g, \A x \in DOMAIN f : f[x] = g[x]
  PROVE  f = g
<1>1. DOMAIN f = DOMAIN g
  OBVIOUS
<1> QED
  BY <1>1

(* Neither path begins with the other.                                     *)
Apart(K, p, q) == p \in Seq(K) /\ q \in Seq(K) /\ ~Below(p, q) /\ ~Below(q, p)

(* What is assigned apart from a path may be assigned before or after what *)
(* is there is removed.                                                    *)
LEMMA WithoutCommutes ==
  ASSUME NEW K, NEW d, IsDoc(d, K), NEW v, IsDoc(v, K), NEW p, NEW s, Apart(K, p, s),
         IsDoc(Assign(d, p, v), K)
  PROVE  Without(Assign(d, p, v), s) = Assign(Without(d, s), p, v)
<1> DEFINE a == Assign(d, p, v)
           w == Without(d, s)
           l == Without(a, s)
           r == Assign(w, p, v)
<1>1. /\ \A q : q \in DOMAIN a <=>
                  q \in Seq(K) /\ IF Below(p, q) THEN Rest(p, q) \in DOMAIN v ELSE q \in DOMAIN d
      /\ \A q \in DOMAIN a : a[q] = IF Below(p, q) THEN v[Rest(p, q)] ELSE d[q]
  BY AssignIs DEF Apart
<1>2. /\ IsDoc(w, K) /\ \A q : q \in DOMAIN w <=> q \in DOMAIN d /\ ~Below(s, q)
      /\ \A q \in DOMAIN w : w[q] = d[q]
  BY WithoutIs DEF Apart
<1> HIDE DEF a, w
<1>3. /\ IsDoc(l, K) /\ \A q : q \in DOMAIN l <=> q \in DOMAIN a /\ ~Below(s, q)
      /\ \A q \in DOMAIN l : l[q] = a[q]
  BY WithoutIs DEF Apart, a
<1>4. /\ \A q : q \in DOMAIN r <=>
                  q \in Seq(K) /\ IF Below(p, q) THEN Rest(p, q) \in DOMAIN v ELSE q \in DOMAIN w
      /\ \A q \in DOMAIN r : r[q] = IF Below(p, q) THEN v[Rest(p, q)] ELSE w[q]
      /\ r = [q \in DOMAIN r |-> r[q]]
  BY <1>2, AssignIs DEF Apart
<1> HIDE DEF l, r
<1>5. \A q \in Seq(K) : ~(Below(p, q) /\ Below(s, q))
  BY Beginnings DEF Apart
<1>6. \A q : q \in DOMAIN l <=> q \in DOMAIN r
  BY <1>1, <1>2, <1>3, <1>4, <1>5 DEF IsDoc
<1>7. \A q \in DOMAIN l : l[q] = r[q]
  BY <1>1, <1>2, <1>3, <1>4, <1>6
<1>8. l = [q \in DOMAIN l |-> l[q]]
  BY <1>3 DEF IsDoc
<1>9. l = r
  BY <1>4, <1>6, <1>7, <1>8, SameDoc
<1> QED
  BY <1>9 DEF l, r, a, w

(* So may it if the elements of a list move.                               *)
LEMMA ShiftCommutes ==
  ASSUME NEW K, Nat \subseteq K, NEW d, IsDoc(d, K), NEW v, IsDoc(v, K),
         NEW p, NEW t, Apart(K, p, t), IsDoc(Assign(d, t, v), K),
         NEW i, NEW add, NEW less, Shiftable(d, p, i, add, less)
  PROVE  Shifted(Assign(d, t, v), p, i, add, less) = Assign(Shifted(d, p, i, add, less), t, v)
<1> DEFINE a == Assign(d, t, v)
           w == Shifted(d, p, i, add, less)
           l == Shifted(a, p, i, add, less)
           r == Assign(w, t, v)
           To(x) == Moved(p, i, add, less, x)
<1>m. \A e : IsDoc(e, K) /\ Shiftable(e, p, i, add, less) =>
        \A x \in DOMAIN e : /\ x \in Seq(K) /\ (InEntry(p, x) => InEntry(p, To(x)))
                            /\ ~InEntry(p, x) => To(x) = x
  BY EntriesMove
<1>0. /\ p \in Seq(K) /\ t \in Seq(K) /\ ~Below(p, t) /\ ~Below(t, p) /\ p \in DOMAIN d
      /\ \A q \in Seq(K) : Below(t, q) => ~InEntry(p, q)
      /\ \A q \in Seq(K) : InEntry(p, q) => ~Below(t, q)
  <2>1. p \in Seq(K) /\ t \in Seq(K) /\ ~Below(p, t) /\ ~Below(t, p) /\ p \in DOMAIN d
    BY DEF Apart, Shiftable
  <2>2. \A q \in Seq(K) : ~(Below(t, q) /\ Below(p, q))
    BY <2>1, Beginnings
  <2> QED
    BY <2>1, <2>2 DEF InEntry
<1>1. /\ IsDoc(a, K)
      /\ \A q : q \in DOMAIN a <=>
                  q \in Seq(K) /\ IF Below(t, q) THEN Rest(t, q) \in DOMAIN v ELSE q \in DOMAIN d
      /\ \A q \in DOMAIN a : a[q] = IF Below(t, q) THEN v[Rest(t, q)] ELSE d[q]
  BY <1>0, AssignIs
<1> HIDE DEF a
<1>2. /\ IsDoc(w, K)
      /\ \A q \in DOMAIN w : \E x \in DOMAIN d : q = To(x)
      /\ \A x \in DOMAIN d : To(x) \in DOMAIN w /\ w[To(x)] = d[x]
      /\ \A q \in Seq(K) : ~InEntry(p, q) =>
           (q \in DOMAIN w <=> q \in DOMAIN d) /\ (q \in DOMAIN d => w[q] = d[q])
  BY ShiftedIs
<1>3. Shiftable(a, p, i, add, less)
  <2>1. p \in DOMAIN a /\ a[p] = List
    BY <1>0, <1>1 DEF Shiftable
  <2>2. \A q \in DOMAIN a : InEntry(p, q) => q \in DOMAIN d
    BY <1>0, <1>1
  <2> QED
    BY <2>1, <2>2 DEF Shiftable
<1>4. /\ IsDoc(l, K)
      /\ \A q \in DOMAIN l : \E x \in DOMAIN a : q = To(x)
      /\ \A x \in DOMAIN a : To(x) \in DOMAIN l /\ l[To(x)] = a[x]
      /\ \A q \in Seq(K) : ~InEntry(p, q) =>
           (q \in DOMAIN l <=> q \in DOMAIN a) /\ (q \in DOMAIN a => l[q] = a[q])
  BY <1>1, <1>3, ShiftedIs
<1> HIDE DEF w, To
<1>5. /\ \A q : q \in DOMAIN r <=>
                  q \in Seq(K) /\ IF Below(t, q) THEN Rest(t, q) \in DOMAIN v ELSE q \in DOMAIN w
      /\ \A q \in DOMAIN r : r[q] = IF Below(t, q) THEN v[Rest(t, q)] ELSE w[q]
      /\ r = [q \in DOMAIN r |-> r[q]]
  BY <1>0, <1>2, AssignIs
<1> HIDE DEF l, r
<1>6. \A q \in Seq(K) : ~InEntry(p, q) =>
        (q \in DOMAIN l <=> q \in DOMAIN r) /\ (q \in DOMAIN l => l[q] = r[q])
  BY <1>1, <1>2, <1>4, <1>5
<1>7. ASSUME NEW q \in Seq(K), InEntry(p, q), q \in DOMAIN l
      PROVE  q \in DOMAIN r /\ l[q] = r[q]
  <2>1. PICK x \in DOMAIN a : q = To(x)
    BY <1>4, <1>7
  <2>2. x \in Seq(K) /\ InEntry(p, x)
    BY <1>1, <1>3, <1>7, <1>m, <2>1
  <2>3. x \in DOMAIN d /\ a[x] = d[x]
    BY <1>0, <1>1, <2>2
  <2>4. q \in DOMAIN w /\ w[q] = d[x] /\ l[q] = a[x]
    BY <1>2, <1>4, <2>1, <2>3
  <2> QED
    BY <1>0, <1>5, <1>7, <2>3, <2>4
<1>8. ASSUME NEW q \in Seq(K), InEntry(p, q), q \in DOMAIN r
      PROVE  q \in DOMAIN l
  <2>1. q \in DOMAIN w
    BY <1>0, <1>5, <1>8
  <2>2. PICK x \in DOMAIN d : q = To(x)
    BY <1>2, <2>1
  <2>3. x \in Seq(K) /\ InEntry(p, x)
    BY <1>8, <1>m, <2>2
  <2>4. x \in DOMAIN a
    BY <1>0, <1>1, <2>3
  <2> QED
    BY <1>4, <2>2, <2>4
<1>9. DOMAIN l \subseteq Seq(K) /\ DOMAIN r \subseteq Seq(K) /\ l = [q \in DOMAIN l |-> l[q]]
  BY <1>4, <1>5 DEF IsDoc
<1>10. (\A q : q \in DOMAIN l <=> q \in DOMAIN r) /\ \A q \in DOMAIN l : l[q] = r[q]
  BY <1>6, <1>7, <1>8, <1>9
<1>11. l = r
  BY <1>5, <1>9, <1>10, SameDoc
<1> QED
  BY <1>11 DEF l, r, a, w

(* What is removed below the target of the assignment does not show.       *)
LEMMA Overwrites ==
  ASSUME NEW K, NEW d, IsDoc(d, K), NEW e, IsDoc(e, K), NEW v, IsDoc(v, K), NEW p \in Seq(K),
         \A q \in Seq(K) : ~Below(p, q) =>
           (q \in DOMAIN e <=> q \in DOMAIN d) /\ (q \in DOMAIN d => e[q] = d[q])
  PROVE  Assign(e, p, v) = Assign(d, p, v)
<1> DEFINE l == Assign(e, p, v)
           r == Assign(d, p, v)
<1>1. /\ \A q : q \in DOMAIN l <=>
                  q \in Seq(K) /\ IF Below(p, q) THEN Rest(p, q) \in DOMAIN v ELSE q \in DOMAIN e
      /\ \A q \in DOMAIN l : l[q] = IF Below(p, q) THEN v[Rest(p, q)] ELSE e[q]
      /\ l = [q \in DOMAIN l |-> l[q]]
  BY AssignIs
<1>2. /\ \A q : q \in DOMAIN r <=>
                  q \in Seq(K) /\ IF Below(p, q) THEN Rest(p, q) \in DOMAIN v ELSE q \in DOMAIN d
      /\ \A q \in DOMAIN r : r[q] = IF Below(p, q) THEN v[Rest(p, q)] ELSE d[q]
      /\ r = [q \in DOMAIN r |-> r[q]]
  BY AssignIs
<1> HIDE DEF l, r
<1>3. (\A q : q \in DOMAIN l <=> q \in DOMAIN r) /\ \A q \in DOMAIN l : l[q] = r[q]
  BY <1>1, <1>2
<1>4. l = r
  BY <1>1, <1>2, <1>3, SameDoc
<1> QED
  BY <1>4 DEF l, r

(* Removing and then assigning is assigning and then removing.             *)
LEMMA DiscardCommutes ==
  ASSUME NEW K, Nat \subseteq K, NEW d, IsDoc(d, K), NEW v, IsDoc(v, K),
         NEW f \in DOMAIN d, NEW t \in K, Append(f, t) \in DOMAIN d,
         NEW p, Apart(K, p, Append(f, t)), d[f] = List => ~InEntry(f, p),
         IsDoc(Assign(d, p, v), K)
  PROVE  Discard(Assign(d, p, v), f, t) = Assign(Discard(d, f, t), p, v)
<1> DEFINE s == Append(f, t)
           a == Assign(d, p, v)
<1>1. /\ f \in Seq(K) /\ s \in Seq(K) /\ p \in Seq(K) /\ Below(f, s)
      /\ ~Below(p, s) /\ ~Below(s, p)
  BY Entry DEF IsDoc, Apart
<1>2. ~Below(p, f)
  BY <1>1, Beginnings
<1>3. f \in DOMAIN a /\ a[f] = d[f] /\ s \in DOMAIN a
  <2>1. /\ \A q : q \in DOMAIN a <=>
                    q \in Seq(K) /\ IF Below(p, q) THEN Rest(p, q) \in DOMAIN v ELSE q \in DOMAIN d
        /\ \A q \in DOMAIN a : a[q] = IF Below(p, q) THEN v[Rest(p, q)] ELSE d[q]
    BY <1>1, AssignIs
  <2> HIDE DEF a
  <2> QED
    BY <1>1, <1>2, <2>1
<1>4. Without(a, s) = Assign(Without(d, s), p, v)
  BY WithoutCommutes
<1>5. CASE d[f] # List
  <2>1. Discard(d, f, t) = Without(d, s) /\ Discard(a, f, t) = Without(a, s)
    BY <1>3, <1>5 DEF Discard, Is
  <2> HIDE DEF a, s
  <2>2. Discard(a, f, t) = Assign(Discard(d, f, t), p, v)
    BY <1>4, <2>1
  <2> QED
    BY <2>2 DEF a
<1>6. CASE d[f] = List
  <2> DEFINE w == Without(d, s)
             j == t + 1
  <2>1. /\ Discard(d, f, t) = Shifted(w, f, j, 0, 1)
        /\ Discard(a, f, t) = Shifted(Without(a, s), f, j, 0, 1)
    <3> HIDE DEF a
    <3> QED
      BY <1>3, <1>6 DEF Discard, Is, TakeOut
  <2>2. t \in Nat
    BY <1>6, EntriesOfLists
  <2>3. /\ IsDoc(w, K) /\ \A q : q \in DOMAIN w <=> q \in DOMAIN d /\ ~Below(s, q)
        /\ \A q \in DOMAIN w : w[q] = d[q]
    <3> HIDE DEF s
    <3>1. IsDoc(w, K)
      BY <1>1, WithoutIs
    <3>2. \A q : q \in DOMAIN w <=> q \in DOMAIN d /\ ~Below(s, q)
      BY <1>1, WithoutIs
    <3>3. \A q \in DOMAIN w : w[q] = d[q]
      BY <1>1, WithoutIs
    <3> QED
      BY <3>1, <3>2, <3>3
  <2>4. \A q \in Seq(K) : Below(s, q) <=> InEntry(f, q) /\ q[Len(f) + 1] = t
    BY <1>1, EntryOf
  <2> HIDE DEF w, s
  <2>5. Shiftable(w, f, j, 0, 1)
    <3>1. f \in DOMAIN w /\ w[f] = List
      BY <1>1, <1>6, <2>3, <2>4 DEF InEntry
    <3>2. \A q \in DOMAIN w : InEntry(f, q) => q[Len(f) + 1] # t
      BY <2>3, <2>4 DEF IsDoc
    <3>3. j \in Nat /\ j # 0 /\ j - 1 = t
      BY <2>2
    <3> QED
      BY <3>1, <3>2, <3>3 DEF Shiftable
  <2>6. Apart(K, f, p)
    <3>1. ~Below(f, p)
      BY <1>1, <1>2, <1>6, Beginnings DEF InEntry
    <3> QED
      BY <1>1, <1>2, <3>1 DEF Apart
  <2>7. IsDoc(Assign(w, p, v), K)
    <3>1. IsDoc(Without(a, s), K)
      BY <1>1, WithoutIs
    <3> QED
      BY <1>4, <3>1 DEF w
  <2> HIDE DEF j
  <2>8. Shifted(Assign(w, p, v), f, j, 0, 1) = Assign(Shifted(w, f, j, 0, 1), p, v)
    BY <2>3, <2>5, <2>6, <2>7, ShiftCommutes
  <2> QED
    BY <1>4, <2>1, <2>8 DEF w
<1> QED
  BY <1>5, <1>6

(* To be strictly below is to be in an entry.                              *)
LEMMA StrictPrefixIs ==
  ASSUME NEW K, NEW p \in Seq(K), NEW q \in Seq(K)
  PROVE  IsStrictPrefix(p, q) <=> InEntry(p, q)
BY PrefixIs DEF IsStrictPrefix, InEntry

(* A move that both accept, of something to somewhere else, to an entry    *)
(* that is not one of a list.                                              *)
LEMMA MoveAgrees ==
  ASSUME NEW K, Nat \subseteq K, NEW d, IsDoc(d, K), NEW o, IsOp(o, K), o.op = "move",
         Resolves(d, o.path), ~IsNumber(o.token), o.token # Dash, Source(o) # Target(o),
         Move(d, o) # Refused, StandardTransfer(d, o) # Refused
  PROVE  Move(d, o) = StandardTransfer(d, o)
<1> DEFINE s == Source(o)
           t == Target(o)
           v == Value(d, s)
           e == Discard(d, o.from, o.item)
<1>1. /\ o.path \in Seq(K) /\ o.path \in DOMAIN d /\ o.token \in K /\ o.token \notin Nat
      /\ o.from \in Seq(K) /\ o.item \in K
      /\ s = Append(o.from, o.item) /\ t = Append(o.path, o.token)
  BY DEF IsOp, Resolves, IsNumber, Source, Target
<1>2. s \in Seq(K) /\ t \in Seq(K) /\ IsDoc(v, K) /\ IsDoc(e, K)
  <2>1. s \in Seq(K) /\ t \in Seq(K)
    BY <1>1, Entry
  <2> QED
    BY <1>1, <2>1, ValueIs, DiscardIsDoc
<1>3. s \in DOMAIN d /\ ~IsStrictPrefix(s, t) /\ StandardTransfer(d, o) = StandardAdd(e, o.path, o.token, v)
  BY DEF StandardTransfer
<1>4. StandardTransfer(d, o) = Assign(e, t, v)
  BY <1>1, <1>3 DEF StandardAdd, IsNumber
<1>5. /\ Copy(d, o) # Refused
      /\ Move(d, o) = IF IsStrictPrefix(t, s) THEN Copy(d, o)
                      ELSE Discard(Copy(d, o), o.from, o.item)
  BY <1>3 DEF Move
<1>6. /\ Resolves(d, o.from) /\ Copy(d, o) = Assign(d, t, v)
      /\ Is(d, o.path, Map) \/ (Is(d, o.path, List) /\ t \in DOMAIN d)
  <2>1. Resolves(d, o.from)
    BY <1>5 DEF Copy
  <2>2. Copy(d, o) = Assign(d, Target(o), Value(d, Source(o)))
    BY <1>5 DEF Copy
  <2>3. Is(d, o.path, Map) \/ (Is(d, o.path, List) /\ Target(o) \in DOMAIN d)
    BY <1>5 DEF Copy, Is
  <2> QED
    BY <2>1, <2>2, <2>3
<1>7. d[o.path] = Map
  BY <1>1, <1>6, EntriesOfLists DEF Is
<1>8. o.from \in DOMAIN d /\ \A i \in DOMAIN o.path : o.path[i] \notin Nat
  BY <1>6 DEF Resolves, IsNumber
<1> HIDE DEF s, t
<1>9. (IsStrictPrefix(t, s) <=> InEntry(t, s)) /\ ~InEntry(s, t)
  BY <1>2, <1>3, StrictPrefixIs
<1>10. CASE InEntry(t, s)
  <2>1. Below(t, o.from)
    <3>1. Len(t) < Len(s) /\ Len(t) \in Nat
      BY <1>2, <1>10, Beginnings, LenProperties DEF InEntry
    <3>2. Len(s) = Len(o.from) + 1 /\ Len(o.from) \in Nat /\ \A i \in 1..Len(o.from) : s[i] = o.from[i]
      BY <1>1, Entry
    <3> QED
      BY <1>10, <3>1, <3>2 DEF InEntry, Below
  <2>2. \A q \in Seq(K) : ~Below(t, q) => ~Below(s, q) /\ ~InEntry(o.from, q)
    <3>1. \A q \in Seq(K) : Below(s, q) => Below(t, q)
      BY <1>2, <1>10, Beginnings DEF InEntry
    <3>2. \A q \in Seq(K) : Below(o.from, q) => Below(t, q)
      <4> DEFINE f == o.from
      <4>1. f \in Seq(K) /\ Below(t, f)
        BY <1>1, <2>1
      <4> HIDE DEF f
      <4>2. \A q \in Seq(K) : Below(f, q) => Below(t, q)
        BY <1>2, <4>1, Beginnings
      <4> QED
        BY <4>2 DEF f
    <3> QED
      BY <3>1, <3>2 DEF InEntry
  <2>3. \A q \in Seq(K) : ~Below(t, q) =>
          (q \in DOMAIN e <=> q \in DOMAIN d) /\ (q \in DOMAIN d => e[q] = d[q])
    <3>1. CASE d[o.from] = List
      <4>1. e = TakeOut(d, o.from, o.item)
        BY <1>1, <1>3, <1>8, <3>1 DEF Discard, Is
      <4>2. o.item \in Nat
        BY <1>1, <1>3, <1>8, <3>1, EntriesOfLists
      <4>3. \A q \in Seq(K) : ~InEntry(o.from, q) =>
              /\ q \in DOMAIN TakeOut(d, o.from, o.item) <=> q \in DOMAIN d
              /\ q \in DOMAIN d => TakeOut(d, o.from, o.item)[q] = d[q]
        BY <1>8, <3>1, <4>2, TakeOutIs
      <4> QED
        BY <2>2, <4>1, <4>3
    <3>2. CASE d[o.from] # List
      <4>1. e = Without(d, s)
        BY <1>1, <1>3, <3>2 DEF Discard, Is
      <4>2. /\ \A q : q \in DOMAIN Without(d, s) <=> q \in DOMAIN d /\ ~Below(s, q)
            /\ \A q \in DOMAIN Without(d, s) : Without(d, s)[q] = d[q]
        BY <1>2, WithoutIs
      <4> QED
        BY <2>2, <4>1, <4>2
    <3> QED
      BY <3>1, <3>2
  <2> HIDE DEF e, v
  <2>4. Assign(e, t, v) = Assign(d, t, v)
    BY <1>2, <2>3, Overwrites
  <2> QED
    BY <1>4, <1>5, <1>6, <1>9, <1>10, <2>4
<1>11. CASE ~InEntry(t, s)
  <2>1. Apart(K, t, s)
    BY <1>2, <1>9, <1>11 DEF Apart, InEntry, s, t
  <2>2. d[o.from] = List => ~InEntry(o.from, t)
    <3>1. SUFFICES ASSUME d[o.from] = List, InEntry(o.from, t) PROVE FALSE
      OBVIOUS
    <3>2. Len(t) = Len(o.path) + 1 /\ Len(o.path) \in Nat /\ \A i \in 1..Len(o.path) : t[i] = o.path[i]
      BY <1>1, Entry
    <3>3. Len(o.from) < Len(t) /\ Len(o.from) \in Nat
      <4>1. o.from \in Seq(K) /\ t \in Seq(K) /\ Below(o.from, t) /\ o.from # t
        BY <1>1, <1>2, <3>1 DEF InEntry
      <4>2. \A x \in Seq(K) : Below(x, t) /\ x # t => Len(x) < Len(t)
        BY <4>1, Beginnings
      <4> QED
        BY <4>1, <4>2, LenProperties
    <3>4. Below(o.from, o.path) /\ o.from # o.path
      BY <1>7, <3>1, <3>2, <3>3, PatchAssumption DEF InEntry, Below
    <3>5. o.path[Len(o.from) + 1] \in Nat
      BY <1>1, <1>8, <3>1, <3>4 DEF IsDoc, ListsHaveEntries
    <3>6. Len(o.from) + 1 \in DOMAIN o.path
      <4>1. Len(o.from) < Len(o.path)
        BY <1>1, <3>4, Beginnings
      <4> QED
        BY <1>1, <3>2, <3>3, <4>1, LenProperties
    <3> QED
      BY <1>8, <3>5, <3>6
  <2>3. IsDoc(Assign(d, t, v), K)
    <3>1. IsDoc(Assign(d, Append(o.path, o.token), v), K)
      BY <1>1, <1>2, <1>7, PatchAssumption, AssignAtEntry
    <3> QED
      BY <1>1, <3>1
  <2> HIDE DEF v
  <2>4. Discard(Assign(d, t, v), o.from, o.item) = Assign(e, t, v)
    BY <1>1, <1>2, <1>3, <1>8, <2>1, <2>2, <2>3, DiscardCommutes
  <2> QED
    BY <1>4, <1>5, <1>6, <1>9, <1>11, <2>4
<1> QED
  BY <1>10, <1>11

(* What both accept they do alike, but for what Departs names.             *)
LEMMA OpsAgree ==
  ASSUME NEW K, Nat \subseteq K, NEW d, IsDoc(d, K), NEW o, IsOp(o, K), ~Departs(o),
         ApplyOp(d, o) # Refused, StandardOp(d, o) # Refused
  PROVE  ApplyOp(d, o) = StandardOp(d, o)
<1>1. d # Refused /\ Resolves(d, o.path)
  BY DEF ApplyOp
<1>2. CASE o.op = "add"
  <2>1. ApplyOp(d, o) = Add(d, o) /\ StandardOp(d, o) = StandardAdd(d, o.path, o.token, o.value)
    BY <1>1, <1>2 DEF ApplyOp, StandardOp
  <2>2. Size(d, o.path) \in Nat
    BY SizeIsNat
  <2> QED
    BY <2>1, <2>2, PatchAssumption DEF Add, StandardAdd, Is, IsNumber, Target
<1>3. CASE o.op = "replace"
  <2>1. ApplyOp(d, o) = Replace(d, o) /\ StandardOp(d, o) = StandardEdit(d, o)
    BY <1>1, <1>3 DEF ApplyOp, StandardOp
  <2> QED
    BY <1>3, <2>1 DEF Replace, StandardEdit
<1>4. CASE o.op = "remove"
  <2>1. ApplyOp(d, o) = Removal(d, o) /\ StandardOp(d, o) = StandardEdit(d, o)
    BY <1>1, <1>4 DEF ApplyOp, StandardOp
  <2> QED
    BY <1>4, <2>1 DEF Removal, StandardEdit
<1>5. CASE o.op = "test"
  <2>1. ApplyOp(d, o) = Test(d, o) /\ StandardOp(d, o) = StandardEdit(d, o)
    BY <1>1, <1>5 DEF ApplyOp, StandardOp
  <2> QED
    BY <1>5, <2>1 DEF Test, StandardEdit
<1>6. CASE o.op = "copy"
  <2>1. /\ ApplyOp(d, o) = Copy(d, o)
        /\ StandardOp(d, o) = StandardAdd(d, o.path, o.token, Value(d, Source(o)))
    BY <1>1, <1>6 DEF ApplyOp, StandardOp, StandardTransfer
  <2>2. o.token # Dash /\ ~IsNumber(o.token)
    BY <1>6 DEF Departs
  <2> QED
    BY <2>1, <2>2 DEF Copy, StandardAdd, Target
<1>7. CASE o.op = "move"
  <2>1. ApplyOp(d, o) = Move(d, o) /\ StandardOp(d, o) = StandardTransfer(d, o)
    BY <1>1, <1>7 DEF ApplyOp, StandardOp
  <2>2. o.token # Dash /\ ~IsNumber(o.token) /\ Source(o) # Target(o)
    BY <1>7 DEF Departs
  <2> QED
    BY <1>1, <1>7, <2>1, <2>2, MoveAgrees
<1> QED
  BY <1>2, <1>3, <1>4, <1>5, <1>6, <1>7 DEF IsOp

-----------------------------------------------------------------------------
(* Patches                                                                 *)

(* Induction up to n, over a set of indices.                               *)
LEMMA Leads ==
  ASSUME NEW n \in Nat, NEW S \in SUBSET (0..n), 0 \in S,
         \A i \in 1..n : i - 1 \in S => i \in S
  PROVE  S = 0..n
<1> DEFINE All == 0..n
           R == StrictSubsetOrdering(All)
           T == {0..i : i \in All \ S}
<1>1. SUFFICES ASSUME All \ S # {}
               PROVE  FALSE
  OBVIOUS
<1>2. IsFiniteSet(All)
  BY FS_Interval
<1>3. IsWellFoundedOn(R, SUBSET All)
  BY <1>2, FS_StrictSubsetOrderingWellFounded, FS_FiniteSubsetsOfFinite
<1>4. T \subseteq SUBSET All /\ T # {}
  BY <1>1
<1>5. PICK x \in T : \A y \in T : ~(<<y, x>> \in R)
  <2> HIDE DEF T, R, All
  <2>1. QED
    BY <1>3, <1>4, WFMin
<1>6. PICK i \in All \ S : x = 0..i
  BY <1>5
<1>7. i - 1 \in All \ S
  BY <1>6
<1>8. 0..(i - 1) \in T
  BY <1>7
<1>9. <<0..(i - 1), 0..i>> \in R
  <2>1. 0..(i - 1) \subseteq 0..i /\ 0..i \subseteq All /\ i \in 0..i /\ i \notin 0..(i - 1)
    BY <1>6
  <2>2. 0..(i - 1) \in SUBSET All
    BY <2>1
  <2>3. QED
    BY <2>1, <2>2 DEF StrictSubsetOrdering
<1>10. QED
  BY <1>5, <1>6, <1>8, <1>9

(* What an operation makes of a document, by the service or the standard.  *)
Made(std, d, o) == IF std THEN StandardOp(d, o) ELSE ApplyOp(d, o)

Unrolls(f, std, d, ops, n) ==
  /\ f = [i \in 0..n |-> f[i]]
  /\ \A i \in 0..n : f[i] = IF i = 0 THEN d ELSE Made(std, f[i - 1], ops[i])

(* There is a function that unrolls the recursion of ApplyPatch, or of     *)
(* Standard, and so theirs does.                                           *)
LEMMA UnrollsExist ==
  ASSUME NEW std \in BOOLEAN, NEW d, NEW ops, NEW n \in Nat
  PROVE  \E f : Unrolls(f, std, d, ops, n)
<1> DEFINE Good(f, k) == Unrolls(f, std, d, ops, k)
           S == {k \in 0..n : \E f : Good(f, k)}
<1>1. 0 \in S
  <2> DEFINE f == [i \in 0..0 |-> d]
  <2>1. Good(f, 0)
    BY DEF Unrolls
  <2> HIDE DEF f, Good
  <2> QED
    BY <2>1
<1>2. ASSUME NEW i \in 1..n, i - 1 \in S PROVE i \in S
  <2>1. PICK f : Good(f, i - 1)
    BY <1>2
  <2> DEFINE g == [j \in 0..i |-> IF j < i THEN f[j] ELSE Made(std, f[i - 1], ops[i])]
  <2>2. \A j \in 0..(i - 1) : f[j] = IF j = 0 THEN d ELSE Made(std, f[j - 1], ops[j])
    BY <2>1 DEF Unrolls
  <2>3. \A j \in 0..i : g[j] = IF j = 0 THEN d ELSE Made(std, g[j - 1], ops[j])
    BY <2>2
  <2>4. g = [j \in 0..i |-> g[j]]
    OBVIOUS
  <2> HIDE DEF g
  <2>5. Good(g, i)
    BY <2>3, <2>4 DEF Unrolls
  <2> HIDE DEF Good
  <2> QED
    BY <2>5
<1>3. n \in S
  <2> HIDE DEF S
  <2>1. S \in SUBSET (0..n)
    BY DEF S
  <2> QED
    BY <1>1, <1>2, <2>1, Leads
<1> HIDE DEF Good
<1>4. \E f : Good(f, n)
  BY <1>3
<1> QED
  BY <1>4 DEF Good

LEMMA ApplyPatchIs ==
  ASSUME NEW d, NEW ops, Len(ops) \in Nat
  PROVE  \E f : Unrolls(f, FALSE, d, ops, Len(ops)) /\ ApplyPatch(d, ops) = f[Len(ops)]
<1> DEFINE n == Len(ops)
           IsAfter(f) == f = [i \in 0..n |-> IF i = 0 THEN d ELSE ApplyOp(f[i - 1], ops[i])]
           after == CHOOSE f : IsAfter(f)
<1>1. ApplyPatch(d, ops) = after[n]
  BY DEF ApplyPatch
<1>2. PICK f : Unrolls(f, FALSE, d, ops, n)
  BY UnrollsExist
<1> HIDE DEF n
<1>3. \A i \in 0..n : f[i] = IF i = 0 THEN d ELSE ApplyOp(f[i - 1], ops[i])
  BY <1>2 DEF Unrolls, Made
<1>4. IsAfter(f)
  <2>1. f = [i \in 0..n |-> f[i]]
    BY <1>2 DEF Unrolls
  <2>2. [i \in 0..n |-> f[i]] = [i \in 0..n |-> IF i = 0 THEN d ELSE ApplyOp(f[i - 1], ops[i])]
    BY <1>3
  <2> QED
    BY <2>1, <2>2
<1>5. IsAfter(after)
  <2> HIDE DEF IsAfter
  <2> QED
    BY <1>4
<1> HIDE DEF after
<1>6. Unrolls(after, FALSE, d, ops, n)
  BY <1>5 DEF Unrolls, Made
<1> QED
  BY <1>1, <1>6 DEF n

LEMMA StandardIs ==
  ASSUME NEW d, NEW ops, Len(ops) \in Nat
  PROVE  \E f : Unrolls(f, TRUE, d, ops, Len(ops)) /\ Standard(d, ops) = f[Len(ops)]
<1> DEFINE n == Len(ops)
           IsAfter(f) == f = [i \in 0..n |-> IF i = 0 THEN d ELSE StandardOp(f[i - 1], ops[i])]
           after == CHOOSE f : IsAfter(f)
<1>1. Standard(d, ops) = after[n]
  BY DEF Standard
<1>2. PICK f : Unrolls(f, TRUE, d, ops, n)
  BY UnrollsExist
<1> HIDE DEF n
<1>3. \A i \in 0..n : f[i] = IF i = 0 THEN d ELSE StandardOp(f[i - 1], ops[i])
  BY <1>2 DEF Unrolls, Made
<1>4. IsAfter(f)
  <2>1. f = [i \in 0..n |-> f[i]]
    BY <1>2 DEF Unrolls
  <2>2. [i \in 0..n |-> f[i]] = [i \in 0..n |-> IF i = 0 THEN d ELSE StandardOp(f[i - 1], ops[i])]
    BY <1>3
  <2> QED
    BY <2>1, <2>2
<1>5. IsAfter(after)
  <2> HIDE DEF IsAfter
  <2> QED
    BY <1>4
<1> HIDE DEF after
<1>6. Unrolls(after, TRUE, d, ops, n)
  BY <1>5 DEF Unrolls, Made
<1> QED
  BY <1>1, <1>6 DEF n

Alike(ops, other, m) == \A i \in 1..m : ops[i] = other[i]

(* There is only one way to unroll.                                        *)
LEMMA UnrollsAlike ==
  ASSUME NEW std \in BOOLEAN, NEW d, NEW ops, NEW other, NEW n \in Nat, NEW m \in 0..n,
         NEW f, NEW g, Unrolls(f, std, d, ops, n), Unrolls(g, std, d, other, m),
         Alike(ops, other, m)
  PROVE  f[m] = g[m]
<1> DEFINE T == {i \in 0..m : f[i] = g[i]}
<1>1. /\ \A i \in 0..n : f[i] = IF i = 0 THEN d ELSE Made(std, f[i - 1], ops[i])
      /\ \A i \in 0..m : g[i] = IF i = 0 THEN d ELSE Made(std, g[i - 1], other[i])
  BY DEF Unrolls
<1>2. 0 \in T
  BY <1>1
<1>3. ASSUME NEW i \in 1..m, i - 1 \in T PROVE i \in T
  <2>1. i \in 0..n /\ i \in 0..m /\ i # 0
    OBVIOUS
  <2> QED
    BY <1>1, <1>3, <2>1 DEF Alike
<1> HIDE DEF T
<1>4. T \in SUBSET (0..m)
  BY DEF T
<1>5. T = 0..m
  BY <1>2, <1>3, <1>4, Leads
<1> QED
  BY <1>5 DEF T

(* What is refused stays refused, so no part of a patch was.               *)
LEMMA NeverRefused ==
  ASSUME NEW std \in BOOLEAN, NEW d, NEW ops, NEW n \in Nat, NEW f,
         Unrolls(f, std, d, ops, n), f[n] # Refused
  PROVE  \A i \in 0..n : f[i] # Refused
<1> DEFINE T == {i \in 0..n : f[n - i] # Refused}
<1>1. \A o : Made(std, Refused, o) = Refused
  BY DEF Made, StandardOp, ApplyOp
<1>2. 0 \in T
  OBVIOUS
<1>3. ASSUME NEW i \in 1..n, i - 1 \in T PROVE i \in T
  <2>1. n - (i - 1) \in 0..n /\ n - (i - 1) # 0 /\ (n - (i - 1)) - 1 = n - i
    OBVIOUS
  <2>2. f[n - (i - 1)] = Made(std, f[n - i], ops[n - (i - 1)])
    BY <2>1 DEF Unrolls
  <2>3. f[n - (i - 1)] # Refused
    BY <1>3
  <2> QED
    BY <1>1, <2>2, <2>3
<1> HIDE DEF T
<1>4. T \in SUBSET (0..n)
  BY DEF T
<1>5. T = 0..n
  BY <1>2, <1>3, <1>4, Leads
<1>6. ASSUME NEW i \in 0..n PROVE f[i] # Refused
  <2>1. n - i \in 0..n /\ n - (n - i) = i
    OBVIOUS
  <2> QED
    BY <1>5, <2>1 DEF T
<1> QED
  BY <1>6

AreOps(ops, K) ==
  /\ Len(ops) \in Nat /\ DOMAIN ops = 1..Len(ops)
  /\ \A i \in DOMAIN ops : IsOp(ops[i], K)

(* A patch that is not refused: what comes of it, of the operations before *)
(* each, and of the same patch by the standard.                            *)
LEMMA PatchIs ==
  ASSUME NEW K, Nat \subseteq K, NEW d, IsDoc(d, K), NEW ops, AreOps(ops, K),
         ApplyPatch(d, ops) # Refused
  PROVE  /\ IsDoc(ApplyPatch(d, ops), K)
         /\ \A i \in 1..Len(ops) : ApplyOp(ApplyPatch(d, SubSeq(ops, 1, i - 1)), ops[i]) # Refused
         /\ \/ \E i \in 1..Len(ops) : Departs(ops[i])
            \/ Standard(d, ops) = Refused
            \/ Standard(d, ops) = ApplyPatch(d, ops)
<1> DEFINE n == Len(ops)
<1>1. n \in Nat /\ \A i \in 1..n : IsOp(ops[i], K)
  BY DEF AreOps
<1>2. PICK f : Unrolls(f, FALSE, d, ops, n) /\ ApplyPatch(d, ops) = f[n]
  BY <1>1, ApplyPatchIs
<1>3. PICK g : Unrolls(g, TRUE, d, ops, n) /\ Standard(d, ops) = g[n]
  BY <1>1, StandardIs
<1> HIDE DEF n
<1>4. /\ f[0] = d /\ \A i \in 1..n : f[i] = ApplyOp(f[i - 1], ops[i])
      /\ g[0] = d /\ \A i \in 1..n : g[i] = StandardOp(g[i - 1], ops[i])
  <2>1. /\ \A i \in 0..n : f[i] = IF i = 0 THEN d ELSE ApplyOp(f[i - 1], ops[i])
        /\ \A i \in 0..n : g[i] = IF i = 0 THEN d ELSE StandardOp(g[i - 1], ops[i])
    BY <1>2, <1>3 DEF Unrolls, Made
  <2> QED
    BY <1>1, <2>1
<1>5. \A i \in 0..n : f[i] # Refused
  BY <1>1, <1>2, NeverRefused
<1>6. \A i \in 0..n : IsDoc(f[i], K)
  <2> DEFINE T == {i \in 0..n : IsDoc(f[i], K)}
  <2>1. 0 \in T
    BY <1>1, <1>4
  <2>2. ASSUME NEW i \in 1..n, i - 1 \in T PROVE i \in T
    <3>1. IsDoc(f[i - 1], K) /\ IsOp(ops[i], K) /\ ApplyOp(f[i - 1], ops[i]) # Refused
      BY <1>1, <1>4, <1>5, <2>2
    <3>2. IsDoc(ApplyOp(f[i - 1], ops[i]), K)
      BY <3>1, OpIsDoc
    <3> QED
      BY <1>1, <1>4, <3>2
  <2> HIDE DEF T
  <2>3. T \in SUBSET (0..n)
    BY DEF T
  <2>4. T = 0..n
    BY <1>1, <2>1, <2>2, <2>3, Leads
  <2> QED
    BY <2>4 DEF T
<1>7. ASSUME NEW i \in 1..n PROVE ApplyPatch(d, SubSeq(ops, 1, i - 1)) = f[i - 1]
  <2> DEFINE m == i - 1
             before == SubSeq(ops, 1, m)
             S == {ops[j] : j \in 1..n}
  <2>2. m \in 0..n /\ m \in Nat
    BY <1>1
  <2>1. \A j \in 1..m : ops[j] \in S
    BY <1>1
  <2> HIDE DEF S, m
  <2>3. /\ Len(before) = IF 1 <= m THEN m - 1 + 1 ELSE 0
        /\ \A j \in 1..(m - 1 + 1) : before[j] = ops[1 + j - 1]
    BY <2>1, <2>2, SubSeqProperties
  <2> HIDE DEF before
  <2>4. Len(before) = m /\ \A j \in 1..m : before[j] = ops[j]
    BY <2>2, <2>3
  <2>5. PICK h : Unrolls(h, FALSE, d, before, m) /\ ApplyPatch(d, before) = h[m]
    <3>1. \E h : Unrolls(h, FALSE, d, before, Len(before)) /\ ApplyPatch(d, before) = h[Len(before)]
      BY <2>2, <2>4, ApplyPatchIs
    <3> QED
      BY <2>4, <3>1
  <2>6. f[m] = h[m]
    <3>1. Unrolls(f, FALSE, d, ops, n) /\ Unrolls(h, FALSE, d, before, m)
      BY <1>2, <2>5
    <3>2. n \in Nat /\ m \in 0..n /\ Alike(ops, before, m)
      BY <1>1, <2>2, <2>4 DEF Alike
    <3>3. ASSUME NEW std \in BOOLEAN, Unrolls(f, std, d, ops, n), Unrolls(h, std, d, before, m)
          PROVE  f[m] = h[m]
      BY <3>2, <3>3, UnrollsAlike
    <3> QED
      BY <3>1, <3>3
  <2> QED
    BY <2>5, <2>6 DEF before, m
<1>8. ASSUME NEW i \in 1..n PROVE ApplyOp(ApplyPatch(d, SubSeq(ops, 1, i - 1)), ops[i]) # Refused
  BY <1>1, <1>4, <1>5, <1>7
<1>9. ASSUME \A i \in 1..n : ~Departs(ops[i]), Standard(d, ops) # Refused
      PROVE  Standard(d, ops) = ApplyPatch(d, ops)
  <2>1. \A i \in 0..n : g[i] # Refused
    BY <1>1, <1>3, <1>9, NeverRefused
  <2> DEFINE T == {i \in 0..n : g[i] = f[i]}
  <2>2. 0 \in T
    BY <1>1, <1>4
  <2>3. ASSUME NEW i \in 1..n, i - 1 \in T PROVE i \in T
    <3> DEFINE x == f[i - 1]
               o == ops[i]
    <3>1. g[i - 1] = x /\ f[i] = ApplyOp(x, o) /\ g[i] = StandardOp(x, o)
      BY <1>4, <2>3
    <3>2. IsDoc(x, K) /\ IsOp(o, K) /\ ~Departs(o) /\ f[i] # Refused /\ g[i] # Refused
      BY <1>1, <1>5, <1>6, <1>9, <2>1
    <3> HIDE DEF x, o
    <3>3. f[i] = g[i]
      BY <3>1, <3>2, OpsAgree
    <3> QED
      BY <3>3
  <2> HIDE DEF T
  <2>4. T \in SUBSET (0..n)
    BY DEF T
  <2>5. T = 0..n
    BY <1>1, <2>2, <2>3, <2>4, Leads
  <2> QED
    BY <1>1, <1>2, <1>3, <2>5 DEF T
<1>10. IsDoc(ApplyPatch(d, ops), K)
  BY <1>1, <1>2, <1>6
<1> QED
  BY <1>8, <1>9, <1>10 DEF n

-----------------------------------------------------------------------------
(* Rows                                                                    *)

(* What the model calls documents and patches are such.                    *)
LEMMA WellFormed ==
  ASSUME NEW K
  PROVE  /\ \A d : IsDocument(d, K) => IsDoc(d, K)
         /\ \A ops : IsPatch(ops, K) => AreOps(ops, K)
<1>1. ASSUME NEW d, IsDocument(d, K) PROVE IsDoc(d, K)
  <2>1. \A p, q \in DOMAIN d : Below(p, q) /\ p # q => IsStrictPrefix(p, q)
    BY <1>1, StrictPrefixIs DEF IsDocument, InEntry
  <2>2. ListsHaveEntries(d)
    BY <1>1, <2>1 DEF IsDocument, ListsHaveEntries, IsNumber
  <2> QED
    BY <1>1, <2>2 DEF IsDocument, IsDoc
<1>2. ASSUME NEW o, IsOperation(o, K) PROVE IsOp(o, K)
  BY <1>1, <1>2 DEF IsOperation, IsOp
<1> QED
  BY <1>1, <1>2 DEF IsPatch, AreOps

(* For any number of operations on any document, if nothing but tests      *)
(* follows a copy: if the service and RFC 6902 both accept the patch, and  *)
(* it does not use what Departs names, they make the same of it            *)
(* (apply_json_patch).                                                     *)
THEOREM ServiceFollowsStandard ==
  ASSUME NEW tokens, NEW d, IsDocument(d, Nat \cup tokens), NEW ops, IsPatch(ops, Nat \cup tokens),
         ApplyPatch(d, ops) # Refused, Standard(d, ops) # Refused,
         \A i \in DOMAIN ops : ~Departs(ops[i])
  PROVE  ApplyPatch(d, ops) = Standard(d, ops)
<1> DEFINE K == Nat \cup tokens
<1>1. Nat \subseteq K /\ IsDoc(d, K) /\ AreOps(ops, K) /\ DOMAIN ops = 1..Len(ops)
  BY WellFormed DEF AreOps
<1> HIDE DEF K
<1> QED
  BY <1>1, PatchIs

(* A row is what its patch makes of the row it was made from.              *)
MadeBy(r, K) ==
  /\ Shape(r) /\ IsDoc(r.doc, K)
  /\ r.from # None =>
       /\ IsDoc(r.from.doc, K) /\ AreOps(r.ops, K)
       /\ ApplyPatch(r.from.doc, r.ops) # Refused
       /\ r.doc = Without(ApplyPatch(r.from.doc, r.ops), <<Metadata, Name>>)

PatchInvariant(K) == \A r \in rows \cup edits : MadeBy(r, K)

Inputs(K) ==
  /\ Nat \subseteq K /\ <<Metadata, Name>> \in Seq(K)
  /\ \A d \in Documents : IsDoc(d, K)
  /\ \A ops \in Patches : AreOps(ops, K)

(* What a patch makes of a row.                                            *)
LEMMA MadeByPatch ==
  ASSUME NEW K, Inputs(K), NEW r, MadeBy(r, K), NEW ops \in Patches,
         Patched(r, ops) # Refused, NEW k
  PROVE  MadeBy([Row("patch", r.key, r.version + 1,
                     Without(Patched(r, ops), <<Metadata, Name>>), r, ops) EXCEPT !.key = k], K)
<1> DEFINE doc == ApplyPatch(r.doc, ops)
           new == Without(doc, <<Metadata, Name>>)
           e == [Row("patch", r.key, r.version + 1, new, r, ops) EXCEPT !.key = k]
<1>1. Nat \subseteq K /\ <<Metadata, Name>> \in Seq(K) /\ IsDoc(r.doc, K) /\ AreOps(ops, K)
  BY DEF Inputs, MadeBy
<1>2. IsDoc(doc, K)
  <2>1. ApplyPatch(r.doc, ops) # Refused
    BY DEF Patched
  <2> QED
    BY <1>1, <2>1, PatchIs
<1>3. IsDoc(new, K)
  BY <1>1, <1>2, WithoutIs
<1>4. Shape(e) /\ e.doc = new /\ e.from = r /\ e.ops = ops
  BY DEF Row, Shape
<1>5. MadeBy(e, K)
  <2> HIDE DEF e, new
  <2>1. ApplyPatch(r.doc, ops) # Refused /\ new = Without(ApplyPatch(r.doc, ops), <<Metadata, Name>>)
    BY DEF new, Patched
  <2> QED
    BY <1>1, <1>3, <1>4, <2>1 DEF MadeBy
<1> QED
  BY <1>5 DEF Patched

(* Every action keeps the invariant.                                       *)
LEMMA PatchInvariance ==
  ASSUME NEW K, Inputs(K), PatchInvariant(K), [Next]_vars
  PROVE  PatchInvariant(K)'
<1>b. ASSUME NEW e, Begins(e), MadeBy(e, K) PROVE PatchInvariant(K)'
  <2>1. rows' \cup edits' = (rows \cup edits) \cup {e}
    BY <1>b DEF Begins
  <2>2. \A r \in rows' \cup edits' : MadeBy(r, K)
    BY <1>b, <2>1 DEF PatchInvariant
  <2> QED
    BY <2>2 DEF PatchInvariant
<1>s. ASSUME rows' \cup edits' \subseteq rows \cup edits PROVE PatchInvariant(K)'
  BY <1>s DEF PatchInvariant
<1>1. ASSUME NEW k \in Keys, Post(k) PROVE PatchInvariant(K)'
  <2>1. PICK d \in Documents, first \in FirstVersions :
          Begins(Row("post", k, NextVersion(k, first), d, None, << >>))
    BY <1>1 DEF Post
  <2>2. IsDoc(d, K)
    BY DEF Inputs
  <2>3. MadeBy(Row("post", k, NextVersion(k, first), d, None, << >>), K)
    BY <2>2 DEF MadeBy, Row, Shape
  <2> QED
    BY <1>b, <2>1, <2>3
<1>2. ASSUME NEW r \in rows, Patch(r) PROVE PatchInvariant(K)'
  <2>1. PICK ops \in Patches :
          /\ Patched(r, ops) # Refused
          /\ Begins([Row("patch", r.key, r.version + 1,
                         Without(Patched(r, ops), <<Metadata, Name>>), r, ops)
                       EXCEPT !.key = Renamed(r.key, Patched(r, ops))])
    BY <1>2 DEF Patch
  <2>2. MadeBy(r, K)
    BY DEF PatchInvariant
  <2>3. MadeBy([Row("patch", r.key, r.version + 1,
                    Without(Patched(r, ops), <<Metadata, Name>>), r, ops)
                  EXCEPT !.key = Renamed(r.key, Patched(r, ops))], K)
    BY <2>1, <2>2, MadeByPatch
  <2> QED
    BY <1>b, <2>1, <2>3
<1>3. ASSUME NEW r \in rows, NEW ns, NEW name, CopyTo(r, ns, name) PROVE PatchInvariant(K)'
  <2> DEFINE e == Row("copy", [r.key EXCEPT !.ns = ns, !.name = name], 1, r.doc, None, << >>)
  <2>1. Begins(e)
    BY <1>3 DEF CopyTo
  <2>2. IsDoc(r.doc, K)
    BY DEF PatchInvariant, MadeBy
  <2>3. MadeBy(e, K)
    BY <2>2 DEF MadeBy, Row, Shape
  <2> QED
    BY <1>b, <2>1, <2>3
<1>4. ASSUME NEW r \in rows, Delete(r) PROVE PatchInvariant(K)'
  BY <1>4, <1>s DEF Delete
<1>5. ASSUME NEW e \in edits, Commit(e) PROVE PatchInvariant(K)'
  <2>1. CASE Collides(e)
    BY <1>5, <1>s, <2>1 DEF Commit
  <2>2. CASE ~Collides(e)
    <3> DEFINE new == [e EXCEPT !.born = clock]
    <3>1. rows' \cup edits' \subseteq (rows \cup edits) \cup {new}
      BY <1>5, <2>2 DEF Commit
    <3>2. MadeBy(e, K)
      BY <1>5 DEF PatchInvariant
    <3>3. /\ Shape(new) /\ new.doc = e.doc /\ new.from = e.from /\ new.ops = e.ops
      BY <3>2 DEF MadeBy, Shape
    <3> HIDE DEF new
    <3>4. MadeBy(new, K)
      BY <3>2, <3>3 DEF MadeBy
    <3>5. \A r \in rows' \cup edits' : MadeBy(r, K)
      BY <3>1, <3>4 DEF PatchInvariant
    <3> QED
      BY <3>5 DEF PatchInvariant
  <2> QED
    BY <2>1, <2>2
<1>6. CASE UNCHANGED vars
  BY <1>6, <1>s DEF vars
<1> QED
  BY <1>1, <1>2, <1>3, <1>4, <1>5, <1>6 DEF Next

(* The invariant implies the property.                                     *)
LEMMA MadeAsRequested ==
  ASSUME NEW K, Inputs(K), PatchInvariant(K)
  PROVE  PatchedAsRequested
<1> SUFFICES ASSUME NEW r \in rows, r.from # None
    PROVE  /\ \/ \E i \in DOMAIN r.ops : Departs(r.ops[i])
              \/ Standard(r.from.doc, r.ops) = Refused
              \/ Without(Standard(r.from.doc, r.ops), <<Metadata, Name>>) = r.doc
           /\ \A i \in DOMAIN r.ops : r.ops[i].op = "test" =>
                Value(ApplyPatch(r.from.doc, SubSeq(r.ops, 1, i - 1)), Target(r.ops[i]))
                  = r.ops[i].value
  BY DEF PatchedAsRequested
<1> DEFINE d == r.from.doc
           ops == r.ops
<1>1. /\ Nat \subseteq K /\ IsDoc(d, K) /\ AreOps(ops, K) /\ ApplyPatch(d, ops) # Refused
      /\ r.doc = Without(ApplyPatch(d, ops), <<Metadata, Name>>) /\ DOMAIN ops = 1..Len(ops)
  BY DEF Inputs, PatchInvariant, MadeBy, AreOps
<1> HIDE DEF d, ops
<1>2. /\ \A i \in 1..Len(ops) : ApplyOp(ApplyPatch(d, SubSeq(ops, 1, i - 1)), ops[i]) # Refused
      /\ \/ \E i \in 1..Len(ops) : Departs(ops[i])
         \/ Standard(d, ops) = Refused
         \/ Standard(d, ops) = ApplyPatch(d, ops)
  BY <1>1, PatchIs
<1>3. \A x, o : o.op = "test" /\ ApplyOp(x, o) # Refused => Value(x, Target(o)) = o.value
  BY DEF ApplyOp, Test
<1> QED
  BY <1>1, <1>2, <1>3 DEF d, ops

(* Whatever documents are posted and patches with nothing but tests after  *)
(* a copy are sent, however many requests overlap: a patched version is    *)
(* the one it was made from, patched as the standard says, if the standard *)
(* accepts the patch and it does not use what Departs names; and every     *)
(* test in it held.                                                        *)
THEOREM PatchesApply ==
  ASSUME NEW tokens, InputsAreWellFormed(tokens)
  PROVE  Spec => []PatchedAsRequested
<1> DEFINE K == Nat \cup tokens
<1>1. Inputs(K)
  <2>1. Nat \subseteq K /\ Metadata \in K /\ Name \in K
    BY DEF InputsAreWellFormed
  <2> QED
    BY <2>1, WellFormed DEF InputsAreWellFormed, Inputs
<1> HIDE DEF K
<1>2. Init => PatchInvariant(K)
  BY DEF Init, PatchInvariant
<1>3. PatchInvariant(K) /\ [Next]_vars => PatchInvariant(K)'
  BY <1>1, PatchInvariance
<1>4. PatchInvariant(K) => PatchedAsRequested
  BY <1>1, MadeAsRequested
<1> QED
  BY <1>2, <1>3, <1>4, PTL DEF Spec
=============================================================================
