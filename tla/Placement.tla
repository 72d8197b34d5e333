------------------------------ MODULE Placement ------------------------------
(***************************************************************************)
(* Which node holds which group, and how a request gets there:             *)
(* node_contains_raft_group (src/base/utils.rs), LocalContext,             *)
(* LocalRaftGroupManager, RemoteRaftGroups (src/client/cluster_client.rs)  *)
(* and the first half of request_router.                                   *)
(*                                                                         *)
(* Every node computes the placement for itself, from its own id and its   *)
(* list of peers, so every operator takes the node that computes it. There *)
(* are as many groups as nodes. One request is followed from the node that *)
(* gets it to the node that handles it.                                    *)
(***************************************************************************)
EXTENDS Naturals, FiniteSets

CONSTANTS
    NodeIds,    \* the ids that node_id_from_address can give, all different
    MaxInode    \* bound on inodes

ASSUME PlacementAssumption ==
    /\ NodeIds \subseteq Nat \ {0}
    /\ IsFiniteSet(NodeIds)
    \* Group ids are u16, so there are never more nodes than u16::MAX.
    /\ Cardinality(NodeIds) < 65536
    /\ MaxInode \in Nat

VARIABLES
    peers,      \* for every node of the cluster the ids of the peers it was given
    replicas,   \* replicas_per_raft_group
    request,    \* what is asked: of an inode, or of a group (CreateInode)
    at,         \* the node the request is at
    hops,       \* how often it was forwarded
    stage       \* "coordinator", "arrived", "handled" or "panicked"

request_vars == <<peers, replicas, request, at, hops, stage>>

\* The nodes that run. No node looks at this set: each has its own list.
cluster == DOMAIN peers

\* LocalContext::total_nodes
TotalNodes(node) == Cardinality(peers[node]) + 1

\* Node::new: as many groups as nodes
Rgroups(node) == 0..(TotalNodes(node) - 1)

\* A bug to compare with: the node counts only its peers, and not itself.
NodeIndexAmongPeers(node, other) == Cardinality({id \in peers[node] : id < other})

\* LocalContext::node_index, when other is the node itself, and
\* peers_with_node_indices, when it is a peer: its position among the ids that
\* this node knows, sorted
NodeIndex(node, other) == Cardinality({id \in {node} \cup peers[node] : id < other})

\* node_contains_raft_group as this node calls it for another or for itself:
\* the nodes are cut into blocks of as many nodes as a group has replicas, and
\* the groups dealt out to the blocks in turn.
NodeContainsRaftGroup(node, other, group) ==
    LET node_groups == TotalNodes(node) \div replicas
    IN  NodeIndex(node, other) \div replicas = group % node_groups

\* LocalRaftGroupManager::new
LocalGroups(node) == {g \in Rgroups(node) : NodeContainsRaftGroup(node, node, g)}

GroupOfInode(node, inode) == inode % TotalNodes(node)

\* ConsensusNode::new: the members of the group as this member sees them
MembersSeenBy(node, group) ==
    {node} \cup {peer \in peers[node] : NodeContainsRaftGroup(node, peer, group)}

\* RemoteRaftGroups::new: itself, or the first of its peers that has the
\* group, in the order in which the peers were given to it
Addresses(node, group) ==
    IF NodeContainsRaftGroup(node, node, group)
    THEN {node}
    ELSE {peer \in peers[node] : NodeContainsRaftGroup(node, peer, group)}

GroupOfRequest(node, r) == IF r.kind = "group" THEN r.number ELSE GroupOfInode(node, r.number)

\* DistributionRequirement::RaftGroup
CanHandleLocally(node, r) ==
    IF r.kind = "group"
    THEN r.number \in LocalGroups(node)
    ELSE NodeContainsRaftGroup(node, node, GroupOfInode(node, r.number))

------------------------------------------------------------------------------
\* main gives every node the addresses of all the others, and
\* node_contains_raft_group refuses a cluster that cannot be cut into blocks.
\* Requests for an inode come from clients, which send them to any node, and
\* from coordinators; requests for a group only from coordinators.
RequestInit ==
    /\ \E nodes \in (SUBSET NodeIds) \ {{}} : peers = [n \in nodes |-> nodes \ {n}]
    /\ at \in cluster
    /\ replicas \in 1..Cardinality(cluster)
    /\ \A n \in cluster : TotalNodes(n) % replicas = 0
    /\ hops = 0
    /\ \/ request \in [kind : {"inode"}, number : 1..MaxInode] /\ stage \in {"arrived", "coordinator"}
       \/ request \in [kind : {"group"}, number : Rgroups(at)] /\ stage = "coordinator"

Handle ==
    /\ stage' = IF GroupOfRequest(at, request) \in LocalGroups(at) THEN "handled" ELSE "panicked"
    /\ UNCHANGED <<peers, replicas, request, at, hops>>

SendTo(node) ==
    /\ at' = node
    /\ hops' = hops + 1
    /\ stage' = "arrived"
    /\ UNCHANGED <<peers, replicas, request>>

\* A bug to compare with: a request that is not for this node goes to any peer.
ForwardToAnyone ==
    /\ stage = "arrived"
    /\ ~CanHandleLocally(at, request)
    /\ \E node \in peers[at] : SendTo(node)

\* forward_raw_request finds the group by the inode, and panics without one.
Forward ==
    /\ stage = "arrived"
    /\ ~CanHandleLocally(at, request)
    /\ IF request.kind = "group"
       THEN stage' = "panicked" /\ UNCHANGED <<peers, replicas, request, at, hops>>
       ELSE \E node \in Addresses(at, GroupOfRequest(at, request)) : SendTo(node)

\* lookup_by_inode asserts that the group is here.
HandleHere ==
    /\ stage = "arrived"
    /\ CanHandleLocally(at, request)
    /\ Handle

\* propose of the coordinator: its own group without a message
ProposeLocally ==
    /\ stage = "coordinator"
    /\ request.kind = "inode"
    /\ CanHandleLocally(at, request)
    /\ Handle

\* propose and propose_to_specific_group of RemoteRaftGroups
ProposeRemotely ==
    /\ stage = "coordinator"
    /\ request.kind = "inode" => ~CanHandleLocally(at, request)
    /\ \E node \in Addresses(at, GroupOfRequest(at, request)) : SendTo(node)

RequestDone == stage \in {"handled", "panicked"} /\ UNCHANGED request_vars

RequestNext == Forward \/ HandleHere \/ ProposeLocally \/ ProposeRemotely \/ RequestDone

RequestSpec == RequestInit /\ [][RequestNext]_request_vars

------------------------------------------------------------------------------
\* A request is forwarded at most once, and never panics: not in the lookups
\* by inode and by group, and not for want of an inode to forward it by.
OneHopIsEnough == hops <= 1 /\ stage # "panicked"

\* The nodes, each of which counts for itself, come to one placement. In the
\* eyes of every node "indices are zero-based and consecutive", as the comment
\* on LocalContext::node_index says. All members of a group see the same
\* members, as many as a group has replicas. Every node knows an address for
\* every group, and what it knows is a member, so the unwrap of
\* RemoteRaftGroups::new succeeds and its requests arrive.
MembersAgree ==
    /\ \A n \in cluster : {NodeIndex(n, m) : m \in cluster} = 0..(Cardinality(cluster) - 1)
    /\ \A g \in 0..(Cardinality(cluster) - 1) :
        LET members == {n \in cluster : g \in LocalGroups(n)}
        IN  /\ Cardinality(members) = replicas
            /\ \A n \in members : MembersSeenBy(n, g) = members
            /\ \A n \in cluster : Addresses(n, g) # {} /\ Addresses(n, g) \subseteq members
==============================================================================
