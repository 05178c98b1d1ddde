---------------------------- MODULE WebwayRegistry ----------------------------
(***************************************************************************)
(* The registry contract (src/contracts/src/WebwayRegistry.sol): what it   *)
(* stores and what a transaction makes of it.  A transaction that reverts  *)
(* changes nothing.  The contract has a state in every block of every fork *)
(* (ChainReads), so its state is a value here and not a variable.          *)
(*                                                                         *)
(* Names and licenses are of accepted lengths, a content stands for an     *)
(* infohash with its license, and the time of a record is left out.        *)
(***************************************************************************)
EXTENDS Naturals, Sequences

CONSTANTS
    Keys,      \* ed25519 keys of publishers
    Accounts,  \* Ethereum accounts
    Names,     \* names of models
    Contents,  \* infohashes, with their licenses
    Chains,    \* chains the contract may be deployed on
    Here,      \* the chain it is deployed on in this model
    Nodes,     \* strings setNodes takes: not empty, not too long
    BadNodes,  \* strings it does not take
    MaxNodes,  \* MAX_NODES
    MaxU64,    \* the largest uint64
    None

ASSUME HereAssumption == Here \in Chains
ASSUME LimitsAssumption == MaxU64 \in Nat /\ MaxNodes \in Nat
ASSUME NodesAssumption == Nodes \cap BadNodes = {}

Uint64 == 0..MaxU64
Owner == [addr : Accounts, epoch : Uint64]
Record == [ih : Contents, seq : Uint64 \ {0}]
NodeList == UNION {[1..n -> Nodes] : n \in 0..MaxNodes}
Registry == [owner : [Keys -> Owner \cup {None}],
             record : [Accounts -> [Names -> Record \cup {None}]],
             nodes : [Accounts -> NodeList]]
Signature == [key : Keys, chain : Chains, addr : Accounts, epoch : Uint64]

ASSUME NoneAssumption == None \notin Owner /\ None \notin Record

Deployed == [owner |-> [k \in Keys |-> None],
             record |-> [a \in Accounts |-> [n \in Names |-> None]],
             nodes |-> [a \in Accounts |-> <<>>]]

SeqOf(r) == IF r = None THEN 0 ELSE r.seq

-----------------------------------------------------------------------------
\* Fault: the message a key signs does not name the chain.
Verify_AnyChain(k, sig, addr, epoch) ==
    sig.key = k /\ sig.addr = addr /\ sig.epoch = epoch

\* The signature is the key's, over bindingMessage(addr, epoch) on this chain.
Verify(k, sig, addr, epoch) ==
    sig = [key |-> k, chain |-> Here, addr |-> addr, epoch |-> epoch]

\* Fault: an epoch that was used is taken again.
EpochAccepted_Again(o, epoch) == o = None \/ epoch >= o.epoch

EpochAccepted(o, epoch) == o = None \/ epoch > o.epoch

Bind(reg, sender, k, sig, epoch) ==
    IF EpochAccepted(reg.owner[k], epoch) /\ Verify(k, sig, sender, epoch)
    THEN [reg EXCEPT !.owner[k] = [addr |-> sender, epoch |-> epoch]]
    ELSE reg

Publish(reg, sender, n, ih, seq) ==
    IF seq > SeqOf(reg.record[sender][n])
    THEN [reg EXCEPT !.record[sender][n] = [ih |-> ih, seq |-> seq]]
    ELSE reg

\* One bad string reverts what has been pushed before it, and the deletion.
SetNodes(reg, sender, list) ==
    IF Len(list) <= MaxNodes /\ \A i \in DOMAIN list : list[i] \in Nodes
    THEN [reg EXCEPT !.nodes[sender] = list]
    ELSE reg

\* The views: ownerOf, resolve and nodesOf.
OwnerOf(reg, k) == reg.owner[k]
Resolve(reg, addr, n) == reg.record[addr][n]
NodesOf(reg, addr) == reg.nodes[addr]
=============================================================================
