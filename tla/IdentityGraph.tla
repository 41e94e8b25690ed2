---------------------------- MODULE IdentityGraph ----------------------------
(***************************************************************************)
(* Stage T03, build_identity_graph (harness/identity.py): the identifiers  *)
(* seen in the primary events become observations, observations that show  *)
(* the same thing are united by a union-find over the accepted edges, and  *)
(* each resulting group is published as one node: a subscriber, an access  *)
(* context, a PDU session, an SM context or a user-plane session.  T04     *)
(* reads the nodes of an event from the published graph.                   *)
(*                                                                         *)
(* An observation is named by its event and the kind of identifier: an     *)
(* event carries one value of a kind.  Events are numbered in the order of *)
(* their UUIDs, whatever their frames; the UUIDs of observations are       *)
(* hashes, of which only the order matters (rank).  Time stamps, masking,  *)
(* the index files and the revision hash are left out.                     *)
(***************************************************************************)
EXTENDS Integers, Sequences, FiniteSets, SequencesExt, Lists

CONSTANTS
  Event,       \* the primary events T02 may deliver: frame, src, dst, ids
  Orders,      \* the possible orders of the observations' UUIDs
  FirstFrame,  \* the capture's first frame
  MaxEvents,   \* bound: events of the capture
  Unknown      \* stands for an access identifier an event does not carry

VARIABLES
  events,  \* the primary events read so far
  rank,    \* the order of the observations' UUIDs
  phase,   \* reading events, uniting observations, published
  todo,    \* accepted edges the union-find has still to see
  parent,  \* the union-find
  nodes    \* nodes.jsonl, in the order of the file

vars == <<events, rank, phase, todo, parent, nodes>>

\* The identifier kinds, in the order in which Python sorts their names.
KindOrder ==
  <<"amf_ue_ngap_id", "charging_id", "gpsi", "guti", "http2_key", "pdu_session_id",
    "pei", "ran_ue_ngap_id", "sm_context_ref", "suci", "supi">>

NodeType(kind) ==
  CASE kind \in {"supi", "suci", "gpsi", "guti", "pei"} -> "UE"
    [] kind \in {"amf_ue_ngap_id", "ran_ue_ngap_id"} -> "ACCESS_CONTEXT"
    [] kind = "pdu_session_id" -> "PDU_SESSION"
    [] kind = "sm_context_ref" -> "SM_CONTEXT"
    [] OTHER -> "PFCP_SESSION"

\* The node types, in the order in which Python sorts their names.
TypeOrder == <<"ACCESS_CONTEXT", "PDU_SESSION", "PFCP_SESSION", "SM_CONTEXT", "UE">>

PositionIn(order, name) == CHOOSE i \in DOMAIN order : order[i] = name

\* s before t in the order of Python's tuples.
Before(s, t) ==
  \E k \in DOMAIN s : s[k] < t[k] /\ \A j \in 1 .. (k - 1) : s[j] = t[j]

\* sorted(S, key=key): keys are tuples of numbers, all different.
Sorted(S, key) ==
  [i \in 1 .. Cardinality(S) |->
     CHOOSE x \in S : Cardinality({y \in S : Before(key[y], key[x])}) = i - 1]

ASSUME IdentityAssumption ==
  /\ MaxEvents \in Nat /\ FirstFrame \in Nat
  /\ \A e \in Event :
       e.frame \in Nat /\ e.frame >= FirstFrame /\ DOMAIN e.ids \subseteq Range(KindOrder)
  /\ \A r \in Orders :
       /\ (1 .. MaxEvents) \X Range(KindOrder) \subseteq DOMAIN r
       /\ Range(r) \subseteq Nat /\ IsInjective(r)

-----------------------------------------------------------------------------
(* Observations.                                                           *)

ObservationsOf(n) == {n} \X DOMAIN events[n].ids

Observations == UNION {ObservationsOf(n) : n \in DOMAIN events}

Frame(o) == events[o[1]].frame

Value(o) == events[o[1]].ids[o[2]]

Type(o) == NodeType(o[2])

\* amf_ue_ngap_id, or else ran_ue_ngap_id.
AccessKey(ids) ==
  IF "amf_ue_ngap_id" \in DOMAIN ids THEN ids["amf_ue_ngap_id"]
  ELSE IF "ran_ue_ngap_id" \in DOMAIN ids THEN ids["ran_ue_ngap_id"] ELSE Unknown

Scope(n, kind) ==
  CASE NodeType(kind) = "UE" -> << >>
    [] NodeType(kind) = "ACCESS_CONTEXT" -> <<events[n].src, events[n].dst>>
    [] kind \in {"pdu_session_id", "sm_context_ref"} -> <<AccessKey(events[n].ids)>>
    [] OTHER -> <<events[n].frame>>

\* The observations with the kind, the value and the scope of o.
ExactGroup(o) ==
  {p \in Observations :
     p[2] = o[2] /\ Value(p) = Value(o) /\ Scope(p[1], p[2]) = Scope(o[1], o[2])}

SortedObservations ==
  Sorted(Observations, [o \in Observations |-> <<Frame(o), o[1], rank[o]>>])

-----------------------------------------------------------------------------
(* Edges and conflicts.                                                    *)

\* _make_edge: the ends of an edge are in the order of their UUIDs.
Edge(o, p, effect) ==
  IF rank[o] < rank[p] THEN [left |-> o, right |-> p, effect |-> effect]
  ELSE [left |-> p, right |-> o, effect |-> effect]

\* An exact group is a chain of edges from frame to frame.
Chain(group) ==
  LET s == Sorted(group, [o \in group |-> <<Frame(o), rank[o]>>])
  IN [i \in 1 .. (Len(s) - 1) |-> Edge(s[i], s[i + 1], "union")]

ExactEdges ==
  LET s == SortedObservations
      firsts == {i \in DOMAIN s : \A j \in 1 .. (i - 1) : s[j] \notin ExactGroup(s[i])}
  IN FlattenSeq([i \in DOMAIN s |-> IF i \in firsts THEN Chain(ExactGroup(s[i])) ELSE << >>])

\* Within one event: access identifiers are united, nodes of different types
\* are associated.
Cooccurring(n) ==
  LET place(o) == <<PositionIn(TypeOrder, Type(o)), PositionIn(KindOrder, o[2])>>
      pairs == {q \in ObservationsOf(n) \X ObservationsOf(n) :
                  /\ Before(place(q[1]), place(q[2]))
                  /\ Type(q[1]) = Type(q[2]) => Type(q[1]) = "ACCESS_CONTEXT"}
      sorted == Sorted(pairs, [q \in pairs |-> place(q[1]) \o place(q[2])])
  IN [i \in DOMAIN sorted |->
        Edge(sorted[i][1], sorted[i][2],
             IF Type(sorted[i][1]) = Type(sorted[i][2]) THEN "union" ELSE "associate")]

\* Every accepted edge; T03 rejects none.
Edges == ExactEdges \o FlattenSeq([n \in DOMAIN events |-> Cooccurring(n)])

\* An access identifier and a subscriber identifier of one event.
Bindings ==
  {q \in Observations \X Observations :
     q[1][1] = q[2][1] /\ Type(q[1]) = "ACCESS_CONTEXT" /\ Type(q[2]) = "UE"}

\* The bindings of one scoped access identifier to one kind of subscriber identifier.
BoundAlike(b) == {c \in Bindings : c[1] \in ExactGroup(b[1]) /\ c[2][2] = b[2][2]}

\* conflicts.jsonl: the observations of each conflict.
Conflicts ==
  {UNION {{c[1], c[2]} : c \in BoundAlike(b)} :
     b \in {d \in Bindings : Cardinality({Value(c[2]) : c \in BoundAlike(d)}) > 1}}

-----------------------------------------------------------------------------
(* The union-find.                                                         *)

\* find: every other node on the way to the root is hung one higher.
Halve(p, o) ==
  LET visited[x \in DOMAIN p] == IF p[x] = x THEN {} ELSE {x} \cup visited[p[p[x]]]
  IN [x \in DOMAIN p |-> IF x \in visited[o] THEN p[p[x]] ELSE p[x]]

Root(p, o) ==
  LET root[x \in DOMAIN p] == IF p[x] = x THEN x ELSE root[p[x]]
  IN root[o]

\* Fault-injection variant: the observation joins, not the root of its group.
UniteWithoutRoot(p, left, right) ==
  IF rank[left] < rank[right] THEN [p EXCEPT ![right] = Root(p, left)]
  ELSE [p EXCEPT ![left] = Root(p, right)]

Unite(p, left, right) ==
  LET q == Halve(Halve(p, left), right)
      a == Root(q, left)
      b == Root(q, right)
  IN IF a = b THEN q
     ELSE IF rank[a] < rank[b] THEN [q EXCEPT ![b] = a] ELSE [q EXCEPT ![a] = b]

-----------------------------------------------------------------------------
(* Nodes.                                                                  *)

Members(root) == {o \in Observations : Root(parent, o) = root}

\* Fault-injection variant: the frame is not part of a node's name.
NodeIdNoFrame(anchor) == <<Type(anchor), anchor[2], Value(anchor), 0>>

\* node_id: a hash of what the anchor shows, without its scope.
NodeId(anchor) == <<Type(anchor), anchor[2], Value(anchor), Frame(anchor)>>

\* The members of a node in the order of the code: the first is its anchor.
SortedMembers(root) ==
  Sorted(Members(root),
         [o \in Members(root) |-> <<Frame(o), PositionIn(KindOrder, o[2]), rank[o]>>])

\* One node per group.
Node(root) ==
  LET members == SortedMembers(root)
  IN [id |-> NodeId(members[1]), type |-> Type(members[1]), members |-> Members(root),
      first |-> Frame(members[1]), last |-> Frame(Last(members)),
      incomplete |-> Frame(members[1]) = FirstFrame]

\* In the order of type, first frame and node UUID, here that of the roots.
MaterializedNodes ==
  LET roots == {Root(parent, o) : o \in Observations}
      sorted == Sorted(roots,
                  [r \in roots |-> <<PositionIn(TypeOrder, Type(r)), Node(r).first, rank[r]>>])
  IN [i \in DOMAIN sorted |-> Node(sorted[i])]

Init ==
  /\ events = << >>
  /\ rank \in Orders
  /\ phase = "reading"
  /\ todo = << >>
  /\ parent = << >>
  /\ nodes = << >>

\* A frame holds one NGAP record, whose NAS event carries its endpoints and
\* inherits its access identifiers; HTTP/2 and PFCP events carry none.
OneRecord(e, f) ==
  \A kind \in {"amf_ue_ngap_id", "ran_ue_ngap_id"} :
    kind \in DOMAIN e.ids \cup DOMAIN f.ids =>
      /\ kind \in DOMAIN e.ids /\ kind \in DOMAIN f.ids
      /\ e.ids[kind] = f.ids[kind] /\ e.src = f.src /\ e.dst = f.dst

\* by_frame yields the next primary event, in the order of the file.
ReadEvent ==
  /\ phase = "reading" /\ Len(events) < MaxEvents
  /\ \E e \in Event :
       /\ \A n \in DOMAIN events : events[n].frame = e.frame => OneRecord(events[n], e)
       /\ events' = Append(events, e)
  /\ UNCHANGED <<rank, phase, todo, parent, nodes>>

\* Fault-injection variant: an observation without an edge has no root.
BuildEdgesLinkedOnly ==
  /\ phase = "reading"
  /\ phase' = "uniting"
  /\ todo' = Edges
  /\ parent' = [o \in UNION {{e.left, e.right} : e \in Range(Edges)} |-> o]
  /\ UNCHANGED <<events, rank, nodes>>

\* The reader is exhausted: the accepted edges, and every observation its own root.
BuildEdges ==
  /\ phase = "reading"
  /\ phase' = "uniting"
  /\ todo' = Edges
  /\ parent' = [o \in Observations |-> o]
  /\ UNCHANGED <<events, rank, nodes>>

\* Fault-injection variant: the effect of the edge is not looked at.
UniteAnyEdge ==
  /\ phase = "uniting" /\ todo # << >>
  /\ todo' = Tail(todo)
  /\ parent' = Unite(parent, Head(todo).left, Head(todo).right)
  /\ UNCHANGED <<events, rank, phase, nodes>>

UniteEdge ==
  /\ phase = "uniting" /\ todo # << >>
  /\ todo' = Tail(todo)
  /\ parent' = IF Head(todo).effect = "union"
               THEN Unite(parent, Head(todo).left, Head(todo).right) ELSE parent
  /\ UNCHANGED <<events, rank, phase, nodes>>

\* _materialize_nodes, then the states, the topology and the manifest.
Publish ==
  /\ phase = "uniting" /\ todo = << >>
  /\ phase' = "published"
  /\ nodes' = MaterializedNodes
  /\ UNCHANGED <<events, rank, todo, parent>>

Next == ReadEvent \/ BuildEdges \/ UniteEdge \/ Publish

Spec == Init /\ [][Next]_vars

-----------------------------------------------------------------------------
(* IdentityGraphReader: what later stages see of the published graph.      *)

Published == phase = "published"

HolderOf(o) == CHOOSE i \in DOMAIN nodes : o \in nodes[i].members

NodesForEvent(n) == {i \in DOMAIN nodes : nodes[i].members \cap ObservationsOf(n) # {}}

\* Node ids become nodes again through _nodes_by_id, whose last entry wins.
ById(id) == Last(Keep(nodes, {node \in Range(nodes) : node.id = id}))

UeByLookup(kind, value) ==
  {ById(nodes[i].id) : i \in {j \in DOMAIN nodes :
     nodes[j].type = "UE" /\ \E o \in nodes[j].members : o[2] = kind /\ Value(o) = value}}

\* One "registered" interval per access context.
RegistrationStates ==
  {[context |-> nodes[i].id, from |-> nodes[i].first, to |-> nodes[i].last] :
     i \in {j \in DOMAIN nodes : nodes[j].type = "ACCESS_CONTEXT"}}

RegisteredAt(id, frame) ==
  {s \in RegistrationStates : s.context = id /\ frame \in s.from .. s.to}

\* One interval of inconclusive topology, and one fault-domain map, per subscriber.
TopologyAt(id, frame) ==
  {i \in DOMAIN nodes :
     nodes[i].type = "UE" /\ nodes[i].id = id /\ frame \in nodes[i].first .. nodes[i].last}

-----------------------------------------------------------------------------
(* Properties.                                                             *)

TypeOK ==
  /\ \A n \in DOMAIN events : events[n] \in Event
  /\ rank \in Orders
  /\ phase \in {"reading", "uniting", "published"}
  /\ \A i \in DOMAIN todo : {todo[i].left, todo[i].right} \subseteq Observations
  /\ phase # "reading" => parent \in [Observations -> Observations]
  /\ \A i \in DOMAIN nodes : nodes[i].members \subseteq Observations

SeenUnions ==
  {e \in Range(SubSeq(Edges, 1, Len(Edges) - Len(todo))) : e.effect = "union"}

\* No edge of E leads out of S.
Closed(S, E) == \A e \in E : e.left \in S <=> e.right \in S

\* At every step the union-find's groups are the connected components of the
\* edges it has seen (no seen edge leaves a group, and no part of a group is
\* without an edge to the rest), and the root is the least UUID of its group:
\* neither the order of the edges nor path halving shows in the result.
GroupsAreComponents ==
  phase # "reading" =>
    LET seen == SeenUnions
    IN \A o \in DOMAIN parent :
         LET group == {p \in DOMAIN parent : Root(parent, p) = Root(parent, o)}
         IN /\ Closed(group, seen)
            /\ \A S \in SUBSET group : (o \in S /\ Closed(S, seen)) => S = group
            /\ \A p \in group : rank[Root(parent, o)] <= rank[p]

\* No two nodes of a revision share an id, although the id is a hash that
\* leaves out scope and event.
NodeIdsUnique ==
  \A i, j \in DOMAIN nodes : nodes[i].id = nodes[j].id => i = j

\* What T04 asks about an event is answered: each of its identifiers lies in
\* one node, which is alive in the event's frame; so are the registration
\* state of its access context and the topology of its subscriber.
EventsFindTheirNodes ==
  Published =>
    \A o \in Observations :
      LET n == o[1]
          mine == {i \in NodesForEvent(n) : o \in nodes[i].members}
      IN \E i \in mine :
           /\ mine = {i} /\ nodes[i].type = Type(o)
           /\ Frame(o) \in nodes[i].first .. nodes[i].last
           /\ Type(o) = "ACCESS_CONTEXT" => Cardinality(RegisteredAt(nodes[i].id, Frame(o))) = 1
           /\ Type(o) = "UE" => TopologyAt(nodes[i].id, Frame(o)) = {i}

\* An identifier that stays with its subscriber (one kind and one value) is
\* one node in the whole capture: a lookup by it returns one node, which spans
\* every event that shows it.  The kinds of one subscriber are nodes apart, and
\* a GUTI, which the network gives away again, is not claimed to be anyone's.
SubscriberFound ==
  Published =>
    \A o \in {p \in Observations : Type(p) = "UE" /\ p[2] # "guti"} :
      \E node \in UeByLookup(o[2], Value(o)) :
        /\ UeByLookup(o[2], Value(o)) = {node}
        /\ \A p \in Observations :
             (p[2] = o[2] /\ Value(p) = Value(o)) =>
               p \in node.members /\ Frame(p) \in node.first .. node.last

\* A lookup finds what it should and nothing else: by event
\* (EventsFindTheirNodes), by a subscriber's identifier (SubscriberFound) and
\* by id (NodeIdsUnique).
LookupsSound == EventsFindTheirNodes /\ SubscriberFound /\ NodeIdsUnique

\* However often an access identifier is used again and whatever the access
\* contexts joined by it, the chain takes nothing else with it: a node has one
\* type, and outside the access contexts one identifier in one scope; what is
\* associated stays two nodes; and the subscribers that a conflict names are
\* still nodes apart, none overwritten by another.
BoundariesKept ==
  Published =>
    /\ \A i \in DOMAIN nodes : \A o, p \in nodes[i].members :
         /\ Type(o) = Type(p)
         /\ Type(o) # "ACCESS_CONTEXT" => p \in ExactGroup(o)
    /\ \A e \in Range(Edges) : e.effect = "associate" => HolderOf(e.left) # HolderOf(e.right)
    /\ \A x \in Conflicts :
         \E o, p \in x : Type(o) = "UE" /\ Type(p) = "UE" /\ HolderOf(o) # HolderOf(p)
=============================================================================
