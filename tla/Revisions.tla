------------------------------ MODULE Revisions ------------------------------
(***************************************************************************)
(* Manifests and nodes are never changed in place: an edit makes a new     *)
(* version.  A POST reads the latest version and adds one; a PATCH locks   *)
(* the version it was given and applies a JSON patch to a copy; a PUT      *)
(* copies a manifest into another namespace as version 1; library          *)
(* manifests (the default namespace) have version 0 and may be deleted.    *)
(* The first version is one more than what the POST says it is, 0 if it    *)
(* says nothing.                                                           *)
(* Requests are served at the same time; only the keys of the tables keep  *)
(* two of them from making the same version.                               *)
(***************************************************************************)
EXTENDS JsonPatch, FiniteSets, Integers

CONSTANTS
  Library,         \* the default namespace
  Campaigns,       \* the others
  Kinds, Node,     \* the kinds of manifests, and that of nodes
  Names,
  Documents,       \* what is posted
  Patches,         \* sequences of operations
  FirstVersions,   \* versions that the metadata of a POST may give
  Metadata, Name,  \* keys of documents
  None,
  MaxInFlight, MaxVersions

ASSUME RevisionAssumption ==
  /\ Library \notin Campaigns /\ Node \notin Kinds
  /\ \A ops \in Patches : CopiesLast(ops)
  /\ FirstVersions \subseteq Int
  /\ MaxInFlight \in Nat /\ MaxVersions \in Nat

Keys == [ns : Campaigns \cup {Library}, kind : Kinds, name : Names]
        \cup [ns : Campaigns, kind : {Node}, name : Names]

VARIABLES
  rows,  \* manifests_v2 and nodes_v2: key, version, id, document; and, as history,
         \* the version and patch a row was made from and when it was committed
  edits, \* requests that have read and not yet committed: the rows they will add
  clock, \* commits so far
  given  \* history: keys whose first version was to be another than 1

vars == <<rows, edits, clock, given>>

Of(k)     == {r \in rows : r.key = k}
Newest(S) == {r \in S : \A o \in S : o.version <= r.version}

Init == rows = {} /\ edits = {} /\ clock = 0 /\ given = {}

-----------------------------------------------------------------------------
(* The id of a row is a hash of what names it, but each route has its own  *)
(* way to name it; that of a copy leaves out the kind.                     *)
Id(route, k, version) ==
  CASE k.kind = Node   -> <<k.ns, k.name, version>>
    [] k.kind # Node /\ route = "copy" -> <<k.ns, k.name, 1>>
    [] k.kind # Node /\ route # "copy" -> <<route, k.ns, k.kind, k.name, version>>

Row(route, k, version, doc, from, ops) ==
  [key |-> k, version |-> version, id |-> Id(route, k, version), doc |-> doc,
   from |-> from, ops |-> ops, born |-> None]

(* Of two requests that would add the same row one is enough.              *)
Begins(e) ==
  /\ Cardinality(edits) < MaxInFlight /\ clock + Cardinality(edits) < MaxVersions
  /\ edits' = edits \cup {e}
  /\ UNCHANGED <<rows, clock>>

IsFirst(k) == k.ns # Library /\ Of(k) = {}

WrongNextVersion(k, first) ==
  IF k.ns = Library THEN 0
  ELSE IF Of(k) = {} THEN first
  ELSE (CHOOSE r \in Newest(Of(k)) : TRUE).version + 1

(* A library manifest is version 0, another the successor of the latest    *)
(* or, the first, of what its metadata say.                                *)
NextVersion(k, first) ==
  CASE k.ns = Library -> 0
    [] IsFirst(k) -> first + 1
    [] k.ns # Library /\ Of(k) # {} -> (CHOOSE r \in Newest(Of(k)) : TRUE).version + 1

Post(k) ==
  \E d \in Documents, first \in FirstVersions :
    /\ Begins(Row("post", k, NextVersion(k, first), d, None, << >>))
    /\ given' = given \cup (IF IsFirst(k) /\ first # 0 THEN {k} ELSE {})

(* A row that is being patched is locked, and with a node its campaign.    *)
Locked(r) ==
  \E e \in edits : e.from # None
    /\ \/ e.from = r
       \/ r.key.kind = Node /\ e.from.key.kind = Node /\ e.from.key.ns = r.key.ns

(* A name among the metadata becomes the name of the row.                  *)
Renamed(k, d) ==
  LET p == <<Metadata, Name>>
  IN  IF p \in DOMAIN d THEN [k EXCEPT !.name = d[p]] ELSE k

WrongPatched(r, ops) ==
  FoldLeft(LAMBDA d, o : IF ApplyOp(d, o) = Refused THEN d ELSE ApplyOp(d, o), r.doc, ops)

(* One operation that is refused is the end of the request.                *)
Patched(r, ops) == ApplyPatch(r.doc, ops)

Patch(r) ==
  /\ ~Locked(r)
  /\ \E ops \in Patches :
       LET doc == Patched(r, ops)
       IN  /\ doc # Refused
           /\ Begins([Row("patch", r.key, r.version + 1, Without(doc, <<Metadata, Name>>), r, ops)
                        EXCEPT !.key = Renamed(r.key, doc)])
  /\ UNCHANGED given

CopyTo(r, ns, name) ==
  /\ r.key.kind # Node
  /\ Begins(Row("copy", [r.key EXCEPT !.ns = ns, !.name = name], 1, r.doc, None, << >>))
  /\ UNCHANGED given

InTableOf(e) == {r \in rows : (r.key.kind = Node) <=> (e.key.kind = Node)}

WrongCollides(e) == \E r \in InTableOf(e) : r.id = e.id

(* The primary key, and the unique constraint on name, version, kind and   *)
(* namespace, of the table for manifests or that for nodes.                *)
Collides(e) ==
  \E r \in InTableOf(e) : r.id = e.id \/ (r.key = e.key /\ r.version = e.version)

(* A collision is answered with an error, of one kind or another.          *)
Commit(e) ==
  /\ edits' = edits \ {e} /\ UNCHANGED given
  /\ IF Collides(e)
     THEN UNCHANGED <<rows, clock>>
     ELSE rows' = rows \cup {[e EXCEPT !.born = clock]} /\ clock' = clock + 1

(* Only library manifests may be deleted, which is to say version 0; one   *)
(* that begins below is taken for such.                                    *)
Deletable(r) == ~(r.version > 0)

Delete(r) ==
  /\ r.key.kind # Node /\ Deletable(r) /\ ~Locked(r)
  /\ rows' = rows \ {r}
  /\ UNCHANGED <<edits, clock, given>>

Next ==
  \/ \E k \in Keys : Post(k)
  \/ \E r \in rows : Patch(r) \/ Delete(r)
  \/ \E r \in rows, ns \in Campaigns, name \in Names : CopyTo(r, ns, name)
  \/ \E e \in edits : Commit(e)

Spec == Init /\ [][Next]_vars

-----------------------------------------------------------------------------
(* What a node of campaign c is configured with.  Its configuration chain  *)
(* takes the campaign's newest manifest of a kind, and below it a library  *)
(* manifest of version 0; a node that asks for a manifest gets the newest  *)
(* of both namespaces.  Each is one of several if there are several names. *)
OfKind(ns, kind) == {r \in rows : r.key.ns = ns /\ r.key.kind = kind}

ChainManifest(c, kind) ==
  IF OfKind(c, kind) # {} THEN Newest(OfKind(c, kind))
  ELSE {r \in OfKind(Library, kind) : r.version = 0}

ManifestFor(c, kind) == Newest(OfKind(c, kind) \cup OfKind(Library, kind))

-----------------------------------------------------------------------------
(* What is posted and the patches that are sent are documents and patches, *)
(* with numbers and these tokens for keys.                                 *)
InputsAreWellFormed(tokens) ==
  /\ Metadata \in tokens /\ Name \in tokens
  /\ \A d \in Documents : IsDocument(d, Nat \cup tokens)
  /\ \A ops \in Patches : IsPatch(ops, Nat \cup tokens)

(* The versions of a manifest or node are 1, 2, 3 ... in the order in      *)
(* which they were committed, and a patched one was made from the version  *)
(* before it, which nothing else was made from: "a linear sequence of      *)
(* versions", says update_manifest_resource, though requests overlap.  The *)
(* code keeps this as long as no POST gives a first version of its own.    *)
HistoryIsLinear ==
  \A k \in Keys \ given : k.ns # Library =>
    /\ {r.version : r \in Of(k)} = 1..Cardinality(Of(k))
    /\ \A a, b \in Of(k) : a.version < b.version => a.born < b.born
    /\ \A b \in Of(k) : b.from # None => \E a \in Of(k) : a = b.from /\ a.version + 1 = b.version

(* A patched version is the one before it, patched as RFC 6902 says and    *)
(* without the name, which the row keeps apart (update_node_resource), but *)
(* for moves and copies that Departs names and for operations of which the *)
(* standard accepts less; and where an operation tests a value there is no *)
(* version if the test fails (apply_json_patch).  No more than tests       *)
(* follows a copy: see CopiesLast.                                         *)
PatchedAsRequested ==
  \A r \in rows : r.from # None =>
    /\ \/ \E i \in DOMAIN r.ops : Departs(r.ops[i])
       \/ Standard(r.from.doc, r.ops) = Refused
       \/ Without(Standard(r.from.doc, r.ops), <<Metadata, Name>>) = r.doc
    /\ \A i \in DOMAIN r.ops : r.ops[i].op = "test" =>
         LET before == ApplyPatch(r.from.doc, SubSeq(r.ops, 1, i - 1))
         IN  Value(before, Target(r.ops[i])) = r.ops[i].value

(* As long as no library manifest has been patched and no POST gave a      *)
(* first version, a node is configured from the same manifest both ways,   *)
(* its campaign's if there is one (get_manifest: "falling back to the      *)
(* default namespace").                                                    *)
ConfigurationsAgree ==
  \A c \in Campaigns, kind \in Kinds :
    /\ \A r \in OfKind(Library, kind) : r.version = 0
    /\ \A k \in given : k.ns # c \/ k.kind # kind
    => ManifestFor(c, kind) = ChainManifest(c, kind)

(* The same without the conditions.  The code does not keep it: a library   *)
(* manifest that was patched has a version that beats the campaign's.  No  *)
(* run asks for it.                                                        *)
CampaignManifestWins ==
  \A c \in Campaigns, kind \in Kinds :
    OfKind(c, kind) # {} => ManifestFor(c, kind) \subseteq OfKind(c, kind)

(* "A node's name, id, kind, or namespace may not be modified".  The code  *)
(* does not keep it either, if Patches holds one that adds /metadata/name. *)
PatchesKeepNames == \A r \in rows : r.from # None => r.key = r.from.key
=============================================================================
