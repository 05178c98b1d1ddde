------------------------------ MODULE ChainReads ------------------------------
(***************************************************************************)
(* Reads of the registry that trust no single server (src/src/chain.ts,    *)
(* ChainRegistry), over a chain that forks.                                *)
(*                                                                         *)
(* Blocks form a tree; a block is named by its number in the sequence      *)
(* blocks, which stands for its hash.  An endpoint is a service of many    *)
(* machines: a call may reach one that lags or is on another fork than the *)
(* call before.  A block that a server once had stays in the tree, so the  *)
(* answers of one round (Promise.allSettled) are all taken when the last   *)
(* of them arrives.  An endpoint that does not answer in time, or is on    *)
(* another chain, or cannot pin a call to a hash, is left out of its       *)
(* round.  A faulty endpoint answers anything.                             *)
(***************************************************************************)
EXTENDS WebwayRegistry, FiniteSets

CONSTANTS
    Endpoints,   \* the RPC endpoints
    Faulty,      \* those that may lie
    MinAgree,    \* minAgree
    SnapshotLag, \* SNAPSHOT_LAG
    MaxHeadLag,  \* MAX_HEAD_LAG
    BlocksMax,   \* bound on the blocks of all forks together
    SignedMax,   \* bound on the signatures that are made
    HeightMax    \* bound on the head a faulty endpoint claims

ASSUME QuorumAssumption == /\ IsFiniteSet(Endpoints)
                           /\ Faulty \subseteq Endpoints
                           /\ MinAgree \in Nat
                           /\ Cardinality(Faulty) < MinAgree
ASSUME LagAssumption == /\ SnapshotLag \in Nat /\ MaxHeadLag \in Nat /\ HeightMax \in Nat
                        /\ BlocksMax \in Nat \ {0} /\ SignedMax \in Nat

VARIABLES
    blocks,  \* blocks[b]: the parent, the height and the registry of block b
    signed,  \* the bindings keys have signed; anybody may use any of them
    pc,      \* where the client's read is
    query,   \* what it asks
    attempt, \* which of its two attempts it is at
    snap,    \* the snapshot: height, hash and endpoints
    owner,   \* the owner it has read
    record,  \* the record it answers
    nodes    \* the nodes it answers

chain == <<blocks, signed>>
client == <<pc, query, attempt, snap, owner, record, nodes>>
vars == <<chain, client>>

Block == [parent : Nat, height : Nat, reg : Registry]
Query == [fn : {"verified"}, key : Keys, name : Names] \cup [fn : {"nodesOf"}, addr : Accounts]
Snapshot == [height : Nat, hash : Nat, endpoints : SUBSET Endpoints]
NoSnapshot == [height |-> 0, hash |-> 0, endpoints |-> {}]
NoHash == 0  \* the hash of no block

-----------------------------------------------------------------------------
(***************************************************************************)
(* The chain.                                                              *)
(***************************************************************************)
\* bindChain: the key's holder signs a binding for the chain it is configured with;
\* the epoch is the one it chose, or follows the one its first endpoint answered.
Sign ==
    /\ Cardinality(signed) < SignedMax
    /\ \E sig \in Signature : signed' = signed \cup {sig}
    /\ UNCHANGED <<blocks, client>>

\* A block with one transaction extends any block.
Mine(parent, reg) ==
    /\ Len(blocks) < BlocksMax
    /\ blocks' = Append(blocks, [parent |-> parent, height |-> blocks[parent].height + 1,
                                 reg |-> reg])
    /\ UNCHANGED <<signed, client>>

MineBind == \E b \in DOMAIN blocks, sender \in Accounts, k \in Keys, sig \in signed, epoch \in Uint64 :
                Mine(b, Bind(blocks[b].reg, sender, k, sig, epoch))

MinePublish == \E b \in DOMAIN blocks, sender \in Accounts, n \in Names, ih \in Contents, seq \in Uint64 :
                   Mine(b, Publish(blocks[b].reg, sender, n, ih, seq))

MineNodes == \E b \in DOMAIN blocks, sender \in Accounts, n \in 0..MaxNodes + 1 :
                 \E list \in [1..n -> Nodes \cup BadNodes] :
                     Mine(b, SetNodes(blocks[b].reg, sender, list))

-----------------------------------------------------------------------------
(***************************************************************************)
(* A round of calls.                                                       *)
(***************************************************************************)
\* What some of the endpoints asked may answer: an honest one, something real.
Round(asked, real, claims) ==
    UNION {{a \in [who -> real \cup claims] : \A e \in who \ Faulty : a[e] \in real} :
              who \in SUBSET asked}

\* At least minAgree answered, and all answered the same.
Agreed(a) == /\ Cardinality(DOMAIN a) >= MinAgree
             /\ \A e, f \in DOMAIN a : a[e] = a[f]

\* What they agreed on.
Common(a) == CHOOSE v \in {a[e] : e \in DOMAIN a} : TRUE

-----------------------------------------------------------------------------
(***************************************************************************)
(* The choice of the height.                                               *)
(***************************************************************************)
\* The k-th largest of the heads.
Kth(h, k) == CHOOSE n \in {h[e] : e \in DOMAIN h} :
                 /\ Cardinality({e \in DOMAIN h : h[e] >= n}) >= k
                 /\ Cardinality({e \in DOMAIN h : h[e] > n}) < k

Median(h) == LET n == Cardinality(DOMAIN h) IN
             IF n % 2 = 1 THEN Kth(h, (n + 1) \div 2)
             ELSE (Kth(h, n \div 2) + Kth(h, n \div 2 + 1)) \div 2

Gap(m, n) == IF m > n THEN m - n ELSE n - m

\* The heads that are not far from the median.
Surviving(h) == LET median == Median(h) IN
                [e \in {f \in DOMAIN h : Gap(h[f], median) <= MaxHeadLag} |-> h[e]]

\* Fault: the lowest head of a fresh endpoint is the target.
Height_Lowest(h) ==
    LET target == Kth(h, Cardinality(DOMAIN h)) IN
    IF target > SnapshotLag THEN target - SnapshotLag ELSE 0

\* The height that minAgree of the fresh endpoints can serve.
Height(h) == LET target == Kth(h, MinAgree) IN
             IF target > SnapshotLag THEN target - SnapshotLag ELSE 0

-----------------------------------------------------------------------------
(***************************************************************************)
(* A read: a snapshot, and one or two calls at it.                         *)
(***************************************************************************)
Ask ==
    /\ pc \in {"done", "failed"}
    /\ query' \in Query
    /\ pc' = "probe"
    /\ attempt' = 1
    /\ snap' = NoSnapshot /\ owner' = None /\ record' = None /\ nodes' = <<>>
    /\ UNCHANGED chain

\* Heads an honest endpoint may have.  SnapshotLag blocks above any block need not
\* hold a transaction of the registry; those are not in blocks.
RealHeads == {blocks[b].height + d : b \in DOMAIN blocks, d \in 0..SnapshotLag}

\* Every endpoint is asked for its head.
Probe ==
    /\ pc = "probe"
    /\ \E h \in Round(Endpoints, RealHeads, 0..HeightMax) :
          /\ Cardinality(DOMAIN h) >= MinAgree
          /\ LET fresh == Surviving(h)
                 height == Height(fresh)
             IN /\ Cardinality(DOMAIN fresh) >= MinAgree
                /\ snap' = [height |-> height, hash |-> NoHash,
                            endpoints |-> {e \in DOMAIN fresh : fresh[e] >= height}]
    /\ pc' = "hash"
    /\ UNCHANGED <<chain, query, attempt, owner, record, nodes>>

\* Those that can serve the height are asked for the hash of its block.
ReadHash ==
    /\ pc = "hash"
    /\ \E a \in Round(snap.endpoints, {b \in DOMAIN blocks : blocks[b].height = snap.height},
                      {NoHash} \cup DOMAIN blocks) :
          /\ Agreed(a)
          /\ snap' = [snap EXCEPT !.hash = Common(a), !.endpoints = DOMAIN a]
    /\ pc' = "call"
    /\ UNCHANGED <<chain, query, attempt, owner, record, nodes>>

\* A call is pinned to the snapshot's hash: an honest endpoint answers it from the
\* registry of that block, if there is such a block.
Pinned == {blocks[b].reg : b \in DOMAIN blocks \cap {snap.hash}}

\* verified: the owner of the key,
ReadOwner ==
    /\ pc = "call" /\ query.fn = "verified"
    /\ \E a \in Round(snap.endpoints, {OwnerOf(reg, query.key) : reg \in Pinned}, Owner \cup {None}) :
          /\ Agreed(a)
          /\ owner' = Common(a)
          /\ pc' = IF Common(a) = None THEN "done" ELSE "record"
    /\ UNCHANGED <<chain, query, attempt, snap, record, nodes>>

\* Fault: the record is read at whatever block is the latest.
ReadRecord_Latest ==
    /\ pc = "record"
    /\ \E a \in Round(snap.endpoints, {Resolve(blocks[b].reg, owner.addr, query.name) : b \in DOMAIN blocks},
                      Record \cup {None}) :
          Agreed(a) /\ record' = Common(a)
    /\ pc' = "done"
    /\ UNCHANGED <<chain, query, attempt, snap, owner, nodes>>

\* and the record of that account.
ReadRecord ==
    /\ pc = "record"
    /\ \E a \in Round(snap.endpoints, {Resolve(reg, owner.addr, query.name) : reg \in Pinned},
                      Record \cup {None}) :
          Agreed(a) /\ record' = Common(a)
    /\ pc' = "done"
    /\ UNCHANGED <<chain, query, attempt, snap, owner, nodes>>

ReadNodes ==
    /\ pc = "call" /\ query.fn = "nodesOf"
    /\ \E a \in Round(snap.endpoints, {NodesOf(reg, query.addr) : reg \in Pinned}, NodeList) :
          Agreed(a) /\ nodes' = Common(a)
    /\ pc' = "done"
    /\ UNCHANGED <<chain, query, attempt, snap, owner, record>>

\* Too few answered, or they disagreed: the whole read is tried once more.
RoundFails ==
    /\ pc \in {"probe", "hash", "call", "record"}
    /\ IF attempt = 1 THEN attempt' = 2 /\ pc' = "probe"
                      ELSE pc' = "failed" /\ UNCHANGED attempt
    /\ snap' = NoSnapshot /\ owner' = None
    /\ UNCHANGED <<chain, query, record, nodes>>

-----------------------------------------------------------------------------
Init ==
    /\ blocks = <<[parent |-> 0, height |-> 0, reg |-> Deployed]>>
    /\ signed = {}
    /\ pc = "probe"
    /\ query \in Query
    /\ attempt = 1
    /\ snap = NoSnapshot /\ owner = None /\ record = None /\ nodes = <<>>

Next == \/ Sign \/ MineBind \/ MinePublish \/ MineNodes
        \/ Ask \/ Probe \/ ReadHash \/ ReadOwner \/ ReadRecord \/ ReadNodes \/ RoundFails

Spec == Init /\ [][Next]_vars

-----------------------------------------------------------------------------
(***************************************************************************)
(* Properties.                                                             *)
(***************************************************************************)
\* The variables have their types, and no account's list holds a string the
\* contract does not take.
TypeOK ==
    /\ blocks \in Seq(Block) /\ Len(blocks) \in 1..BlocksMax
    /\ signed \subseteq Signature
    /\ pc \in {"probe", "hash", "call", "record", "done", "failed"}
    /\ query \in Query
    /\ attempt \in 1..2
    /\ snap \in Snapshot
    /\ owner \in Owner \cup {None}
    /\ record \in Record \cup {None}
    /\ nodes \in NodeList

\* On every fork, the account a key is bound to is one that the key has signed for,
\* on this chain and at this epoch (bind; README, "only the key holder").
OwnerSigned ==
    \A b \in DOMAIN blocks, k \in Keys :
        LET o == OwnerOf(blocks[b].reg, k) IN
        o # None => [key |-> k, chain |-> Here, addr |-> o.addr, epoch |-> o.epoch] \in signed

\* Along every fork a binding changes only to a higher epoch, and a record only to
\* a higher version: what was replaced does not come back (bind, publish).
RisesAlongForks ==
    \A b \in DOMAIN blocks : blocks[b].parent # 0 =>
        LET old == blocks[blocks[b].parent].reg
            new == blocks[b].reg
        IN /\ \A k \in Keys : \/ OwnerOf(new, k) = OwnerOf(old, k)
                              \/ OwnerOf(old, k) = None
                              \/ OwnerOf(new, k) # None /\ OwnerOf(new, k).epoch > OwnerOf(old, k).epoch
           /\ \A a \in Accounts, n \in Names :
                 \/ Resolve(new, a, n) = Resolve(old, a, n)
                 \/ SeqOf(Resolve(new, a, n)) > SeqOf(Resolve(old, a, n))

\* Where enough honest endpoints answer, with heads that are close together, the
\* height of the snapshot is one they have, and fewer than minAgree of them are
\* more than the lag ahead of it, whatever heads the faulty ones claim (snapshot).
Heads == UNION {[who -> 0..HeightMax] : who \in SUBSET Endpoints}
HeightIsHonest ==
    \A h \in Heads :
        LET honest == DOMAIN h \ Faulty
            fresh == Surviving(h)
        IN (/\ Cardinality(honest) >= MinAgree
            /\ \A e, f \in honest : Gap(h[e], h[f]) <= MaxHeadLag)
           => /\ honest \subseteq DOMAIN fresh
              /\ \E e \in honest : h[e] >= Height(fresh)
              /\ Cardinality({e \in honest : h[e] > Height(fresh) + SnapshotLag}) < MinAgree
HonestHeight == pc = "probe" => HeightIsHonest

\* What a read answers is what the registry held in one block, the one its snapshot
\* names, whatever the faulty endpoints said and whichever forks the others were on
\* (readAll, verified).
AnswerIsTrue ==
    pc = "done" =>
        /\ snap.hash \in DOMAIN blocks
        /\ blocks[snap.hash].height = snap.height
        /\ LET reg == blocks[snap.hash].reg IN
           CASE query.fn = "nodesOf" -> nodes = NodesOf(reg, query.addr)
             [] query.fn = "verified" ->
                  /\ owner = OwnerOf(reg, query.key)
                  /\ record = IF owner = None THEN None ELSE Resolve(reg, owner.addr, query.name)
=============================================================================
