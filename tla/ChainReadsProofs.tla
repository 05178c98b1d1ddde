--------------------------- MODULE ChainReadsProofs ---------------------------
(***************************************************************************)
(* What ChainReads promises for any number of endpoints, blocks, keys and  *)
(* accounts: bindings are signed and only rise along every fork, the       *)
(* height a snapshot takes is one that honest endpoints have, and what a   *)
(* read answers is what the registry held in the block it names, as long   *)
(* as fewer than MinAgree endpoints lie.                                   *)
(***************************************************************************)
EXTENDS ChainReads, FiniteSetTheorems, TLAPS

-----------------------------------------------------------------------------
(***************************************************************************)
(* The contract.                                                           *)
(***************************************************************************)
\* A tuple given by its elements is a sequence of them.
LEMMA ListIsSeq ==
    ASSUME NEW S, NEW n \in Nat, NEW list \in [1..n -> S]
    PROVE  list \in Seq(S) /\ Len(list) = n /\ DOMAIN list = 1..n
OBVIOUS

\* No transaction leaves the states of the contract.
LEMMA BindType ==
    ASSUME NEW reg \in Registry, NEW sender \in Accounts, NEW k \in Keys, NEW sig,
           NEW epoch \in Uint64
    PROVE  Bind(reg, sender, k, sig, epoch) \in Registry
BY DEF Bind, Registry, Owner

LEMMA PublishType ==
    ASSUME NEW reg \in Registry, NEW sender \in Accounts, NEW n \in Names, NEW ih \in Contents,
           NEW seq \in Uint64
    PROVE  Publish(reg, sender, n, ih, seq) \in Registry
<1>1. reg.record[sender][n] \in Record \cup {None}
  BY DEF Registry
<1>2. SeqOf(reg.record[sender][n]) \in Nat
  BY <1>1, LimitsAssumption DEF SeqOf, Record, Uint64
<1>3. CASE seq > SeqOf(reg.record[sender][n])
  <2>1. [ih |-> ih, seq |-> seq] \in Record
    BY <1>2, <1>3, LimitsAssumption DEF Record, Uint64
  <2> QED
    BY <1>3, <2>1 DEF Publish, Registry
<1>4. CASE ~(seq > SeqOf(reg.record[sender][n]))
  BY <1>4 DEF Publish
<1> QED
  BY <1>3, <1>4

LEMMA SetNodesType ==
    ASSUME NEW reg \in Registry, NEW sender \in Accounts, NEW n \in Nat,
           NEW list \in [1..n -> Nodes \cup BadNodes]
    PROVE  SetNodes(reg, sender, list) \in Registry
<1>1. Len(list) = n /\ DOMAIN list = 1..n
  BY ListIsSeq
<1>2. CASE Len(list) <= MaxNodes /\ \A i \in DOMAIN list : list[i] \in Nodes
  <2>1. n \in 0..MaxNodes /\ list \in [1..n -> Nodes]
    BY <1>1, <1>2, LimitsAssumption
  <2>2. list \in NodeList
    BY <2>1 DEF NodeList
  <2> QED
    BY <1>2, <2>2 DEF SetNodes, Registry
<1>3. CASE ~(Len(list) <= MaxNodes /\ \A i \in DOMAIN list : list[i] \in Nodes)
  BY <1>3 DEF SetNodes
<1> QED
  BY <1>2, <1>3

\* A key's binding after a transaction is signed if it was signed before.
Signed(reg, sigs) ==
    \A k \in Keys :
        LET o == OwnerOf(reg, k) IN
        o # None => [key |-> k, chain |-> Here, addr |-> o.addr, epoch |-> o.epoch] \in sigs

LEMMA BindSigned ==
    ASSUME NEW reg \in Registry, NEW sender \in Accounts, NEW k \in Keys, NEW sigs, NEW sig \in sigs,
           NEW epoch \in Uint64, Signed(reg, sigs)
    PROVE  Signed(Bind(reg, sender, k, sig, epoch), sigs)
<1> DEFINE new == Bind(reg, sender, k, sig, epoch)
<1> SUFFICES ASSUME NEW j \in Keys, OwnerOf(new, j) # None
             PROVE  [key |-> j, chain |-> Here, addr |-> OwnerOf(new, j).addr,
                     epoch |-> OwnerOf(new, j).epoch] \in sigs
  BY DEF Signed
<1>1. CASE OwnerOf(new, j) = OwnerOf(reg, j)
  BY <1>1 DEF Signed
<1>2. CASE OwnerOf(new, j) # OwnerOf(reg, j)
  <2>1. Verify(k, sig, sender, epoch) /\ new = [reg EXCEPT !.owner[k] = [addr |-> sender, epoch |-> epoch]]
    BY <1>2 DEF Bind
  <2>2. j = k /\ OwnerOf(new, j) = [addr |-> sender, epoch |-> epoch]
    BY <1>2, <2>1 DEF OwnerOf, Registry
  <2> QED
    BY <2>1, <2>2 DEF Verify
<1> QED
  BY <1>1, <1>2

\* A transaction that is not a binding keeps the bindings.
LEMMA PublishKeepsOwners ==
    ASSUME NEW reg \in Registry, NEW sender \in Accounts, NEW n \in Names, NEW ih \in Contents,
           NEW seq \in Uint64
    PROVE  \A k \in Keys : OwnerOf(Publish(reg, sender, n, ih, seq), k) = OwnerOf(reg, k)
BY DEF OwnerOf, Publish, Registry

LEMMA SetNodesKeepsOwners ==
    ASSUME NEW reg \in Registry, NEW sender \in Accounts, NEW list
    PROVE  \A k \in Keys : OwnerOf(SetNodes(reg, sender, list), k) = OwnerOf(reg, k)
BY DEF OwnerOf, SetNodes, Registry

\* What may change between a block and the next one on its fork.
Rises(old, new) ==
    /\ \A k \in Keys : \/ OwnerOf(new, k) = OwnerOf(old, k)
                       \/ OwnerOf(old, k) = None
                       \/ OwnerOf(new, k) # None /\ OwnerOf(new, k).epoch > OwnerOf(old, k).epoch
    /\ \A a \in Accounts, n \in Names :
          \/ Resolve(new, a, n) = Resolve(old, a, n)
          \/ SeqOf(Resolve(new, a, n)) > SeqOf(Resolve(old, a, n))

LEMMA BindRises ==
    ASSUME NEW reg \in Registry, NEW sender \in Accounts, NEW k \in Keys, NEW sig,
           NEW epoch \in Uint64
    PROVE  Rises(reg, Bind(reg, sender, k, sig, epoch))
<1> DEFINE new == Bind(reg, sender, k, sig, epoch)
<1>1. CASE new = reg
  BY <1>1 DEF Rises
<1>2. CASE new # reg
  <2>1. /\ EpochAccepted(reg.owner[k], epoch)
        /\ new = [reg EXCEPT !.owner[k] = [addr |-> sender, epoch |-> epoch]]
    BY <1>2 DEF Bind
  <2>2. ASSUME NEW a \in Accounts, NEW n \in Names
        PROVE  Resolve(new, a, n) = Resolve(reg, a, n)
    BY <2>1 DEF Resolve, Registry
  <2>3. ASSUME NEW j \in Keys, j # k
        PROVE  OwnerOf(new, j) = OwnerOf(reg, j)
    BY <2>1, <2>3 DEF OwnerOf, Registry
  <2>4. OwnerOf(new, k) = [addr |-> sender, epoch |-> epoch]
    BY <2>1 DEF OwnerOf, Registry
  <2>5. OwnerOf(new, k) # None
    BY <2>4, NoneAssumption DEF Owner
  <2>6. OwnerOf(reg, k) = None \/ OwnerOf(new, k).epoch > OwnerOf(reg, k).epoch
    BY <2>1, <2>4 DEF EpochAccepted, OwnerOf
  <2> QED
    BY <2>2, <2>3, <2>5, <2>6 DEF Rises
<1> QED
  BY <1>1, <1>2

LEMMA PublishRises ==
    ASSUME NEW reg \in Registry, NEW sender \in Accounts, NEW n \in Names, NEW ih \in Contents,
           NEW seq \in Uint64
    PROVE  Rises(reg, Publish(reg, sender, n, ih, seq))
<1> DEFINE new == Publish(reg, sender, n, ih, seq)
<1>1. CASE new = reg
  BY <1>1 DEF Rises
<1>2. CASE new # reg
  <2>1. /\ seq > SeqOf(reg.record[sender][n])
        /\ new = [reg EXCEPT !.record[sender][n] = [ih |-> ih, seq |-> seq]]
    BY <1>2 DEF Publish
  <2>2. ASSUME NEW a \in Accounts, NEW m \in Names, a # sender \/ m # n
        PROVE  Resolve(new, a, m) = Resolve(reg, a, m)
    BY <2>1, <2>2 DEF Resolve, Registry
  <2>3. Resolve(new, sender, n) = [ih |-> ih, seq |-> seq]
    BY <2>1 DEF Resolve, Registry
  <2>4. new \in Registry
    BY PublishType
  <2>5. [ih |-> ih, seq |-> seq] # None
    <3>1. reg.record[sender][n] \in Record \cup {None}
      BY DEF Registry
    <3>2. seq # 0
      BY <2>1, <3>1, LimitsAssumption DEF SeqOf, Record, Uint64
    <3> QED
      BY <3>2, NoneAssumption DEF Record
  <2>6. SeqOf(Resolve(new, sender, n)) > SeqOf(Resolve(reg, sender, n))
    BY <2>1, <2>3, <2>5 DEF SeqOf, Resolve
  <2> QED
    BY <2>2, <2>6, PublishKeepsOwners DEF Rises
<1> QED
  BY <1>1, <1>2

LEMMA SetNodesRises ==
    ASSUME NEW reg \in Registry, NEW sender \in Accounts, NEW list
    PROVE  Rises(reg, SetNodes(reg, sender, list))
<1>1. ASSUME NEW a \in Accounts, NEW n \in Names
      PROVE  Resolve(SetNodes(reg, sender, list), a, n) = Resolve(reg, a, n)
  BY DEF Resolve, SetNodes, Registry
<1> QED
  BY <1>1, SetNodesKeepsOwners DEF Rises

-----------------------------------------------------------------------------
(***************************************************************************)
(* A round of calls.                                                       *)
(***************************************************************************)
LEMMA RoundAnswers ==
    ASSUME NEW asked \in SUBSET Endpoints, NEW real, NEW claims, NEW a \in Round(asked, real, claims)
    PROVE  /\ DOMAIN a \subseteq asked
           /\ IsFiniteSet(DOMAIN a)
           /\ Cardinality(DOMAIN a) \in Nat
           /\ a \in [DOMAIN a -> real \cup claims]
           /\ \A e \in DOMAIN a \ Faulty : a[e] \in real
<1>1. PICK who \in SUBSET asked : /\ a \in [who -> real \cup claims]
                                  /\ \A e \in who \ Faulty : a[e] \in real
  BY DEF Round
<1>2. DOMAIN a = who
  BY <1>1
<1>3. IsFiniteSet(who)
  BY QuorumAssumption, FS_Subset
<1>4. Cardinality(who) \in Nat
  BY <1>3, FS_CardinalityType
<1> QED
  BY <1>1, <1>2, <1>3, <1>4

\* A quorum has an honest endpoint.
LEMMA HonestMember ==
    ASSUME NEW who \in SUBSET Endpoints, Cardinality(who) >= MinAgree
    PROVE  \E e \in who : e \notin Faulty
<1> SUFFICES ASSUME who \subseteq Faulty PROVE FALSE
  OBVIOUS
<1>1. IsFiniteSet(Faulty)
  BY QuorumAssumption, FS_Subset
<1>2. Cardinality(who) <= Cardinality(Faulty) /\ IsFiniteSet(who)
  BY <1>1, FS_Subset
<1>3. Cardinality(who) \in Nat /\ Cardinality(Faulty) \in Nat
  BY <1>1, <1>2, FS_CardinalityType
<1> QED
  BY <1>2, <1>3, QuorumAssumption

\* What a quorum agrees on is real.
LEMMA AgreedIsReal ==
    ASSUME NEW asked \in SUBSET Endpoints, NEW real, NEW claims,
           NEW a \in Round(asked, real, claims), Agreed(a)
    PROVE  Common(a) \in real
<1>1. PICK e \in DOMAIN a : e \notin Faulty
  <2>1. DOMAIN a \in SUBSET Endpoints
    BY RoundAnswers
  <2> QED
    BY <2>1, HonestMember DEF Agreed
<1>2. a[e] \in real
  BY <1>1, RoundAnswers
<1>3. Common(a) \in {a[f] : f \in DOMAIN a}
  BY <1>1 DEF Common
<1>4. Common(a) = a[e]
  BY <1>1, <1>3 DEF Agreed
<1> QED
  BY <1>2, <1>4

-----------------------------------------------------------------------------
(***************************************************************************)
(* The invariant of the chain.                                             *)
(***************************************************************************)
ChainOK ==
    /\ blocks \in Seq(Block) /\ Len(blocks) \in Nat \ {0}
    /\ signed \subseteq Signature
    /\ \A b \in DOMAIN blocks : blocks[b].parent \in 0..b - 1
    /\ \A b \in DOMAIN blocks : Signed(blocks[b].reg, signed)
    /\ \A b \in DOMAIN blocks : blocks[b].parent # 0 =>
           Rises(blocks[blocks[b].parent].reg, blocks[b].reg)

\* Blocks are only added.
Grows == /\ DOMAIN blocks \subseteq DOMAIN blocks'
         /\ \A b \in DOMAIN blocks : blocks'[b] = blocks[b]

LEMMA MineGrows ==
    ASSUME ChainOK, NEW p \in DOMAIN blocks, NEW reg \in Registry, Mine(p, reg),
           Signed(reg, signed), Rises(blocks[p].reg, reg)
    PROVE  ChainOK' /\ Grows
<1> DEFINE new == [parent |-> p, height |-> blocks[p].height + 1, reg |-> reg]
           n == Len(blocks)
<1>1. /\ blocks' = Append(blocks, new) /\ signed' = signed
  BY DEF Mine
<1>2. n \in Nat /\ DOMAIN blocks = 1..n /\ \A b \in 1..n : blocks[b] \in Block
  BY DEF ChainOK
<1>3. new \in Block /\ p \in 1..n
  BY <1>2 DEF Block
<1>4. /\ blocks' \in Seq(Block) /\ Len(blocks') = n + 1 /\ DOMAIN blocks' = 1..n + 1
      /\ \A b \in 1..n : blocks'[b] = blocks[b]
      /\ blocks'[n + 1] = new
  BY <1>1, <1>2, <1>3 DEF ChainOK
<1>5. ASSUME NEW b \in DOMAIN blocks'
      PROVE  /\ blocks'[b].parent \in 0..b - 1
             /\ Signed(blocks'[b].reg, signed')
             /\ blocks'[b].parent # 0 => Rises(blocks'[blocks'[b].parent].reg, blocks'[b].reg)
  <2>1. CASE b \in 1..n
    <3>1. blocks'[b] = blocks[b] /\ blocks[b].parent \in 0..b - 1
      BY <2>1, <1>2, <1>4 DEF ChainOK
    <3>2. blocks[b].parent # 0 => blocks'[blocks[b].parent] = blocks[blocks[b].parent]
      BY <2>1, <3>1, <1>2, <1>4
    <3> QED
      BY <2>1, <3>1, <3>2, <1>1, <1>2 DEF ChainOK
  <2>2. CASE b = n + 1
    BY <2>2, <1>1, <1>2, <1>3, <1>4
  <2> QED
    BY <2>1, <2>2, <1>2, <1>4
<1> QED
  BY <1>1, <1>2, <1>4, <1>5 DEF ChainOK, Grows

LEMMA ChainInit == Init => ChainOK
<1> SUFFICES ASSUME Init PROVE ChainOK
  OBVIOUS
<1>1. Deployed \in Registry
  <2>1. <<>> \in NodeList
    <3>1. <<>> \in [1..0 -> Nodes] /\ 0 \in 0..MaxNodes
      BY LimitsAssumption
    <3> QED
      BY <3>1 DEF NodeList
  <2> QED
    BY <2>1 DEF Deployed, Registry
<1>2. Signed(Deployed, signed)
  BY DEF Signed, OwnerOf, Deployed
<1>3. [parent |-> 0, height |-> 0, reg |-> Deployed] \in Block
  BY <1>1 DEF Block
<1> QED
  BY <1>2, <1>3 DEF Init, ChainOK

LEMMA ChainNext == ASSUME ChainOK, [Next]_vars PROVE ChainOK' /\ Grows
<1> USE DEF ChainOK
<1>1. ASSUME NEW b \in DOMAIN blocks
      PROVE  blocks[b].reg \in Registry /\ Signed(blocks[b].reg, signed)
  <2>1. b \in 1..Len(blocks)
    OBVIOUS
  <2>2. blocks[b] \in Block
    BY <2>1
  <2> QED
    BY <2>2 DEF Block
<1>2. CASE Sign
  <2>1. blocks' = blocks /\ signed \subseteq signed' /\ signed' \subseteq Signature
    BY <1>2 DEF Sign
  <2>2. \A b \in DOMAIN blocks : Signed(blocks[b].reg, signed')
    BY <2>1 DEF Signed
  <2> QED
    BY <2>1, <2>2 DEF Grows
<1>3. CASE MineBind
  <2>1. PICK b \in DOMAIN blocks, sender \in Accounts, k \in Keys, sig \in signed, epoch \in Uint64 :
            Mine(b, Bind(blocks[b].reg, sender, k, sig, epoch))
    BY <1>3 DEF MineBind
  <2> QED
    BY <2>1, <1>1, BindType, BindSigned, BindRises, MineGrows
<1>4. CASE MinePublish
  <2>1. PICK b \in DOMAIN blocks, sender \in Accounts, n \in Names, ih \in Contents, seq \in Uint64 :
            Mine(b, Publish(blocks[b].reg, sender, n, ih, seq))
    BY <1>4 DEF MinePublish
  <2>2. Signed(Publish(blocks[b].reg, sender, n, ih, seq), signed)
    <3>1. \A k \in Keys : OwnerOf(Publish(blocks[b].reg, sender, n, ih, seq), k) = OwnerOf(blocks[b].reg, k)
      BY <1>1, PublishKeepsOwners
    <3> QED
      BY <1>1, <3>1 DEF Signed
  <2> QED
    BY <2>1, <2>2, <1>1, PublishType, PublishRises, MineGrows
<1>5. CASE MineNodes
  <2>1. PICK b \in DOMAIN blocks, sender \in Accounts, n \in 0..MaxNodes + 1 :
            \E list \in [1..n -> Nodes \cup BadNodes] : Mine(b, SetNodes(blocks[b].reg, sender, list))
    BY <1>5 DEF MineNodes
  <2>2. PICK list \in [1..n -> Nodes \cup BadNodes] : Mine(b, SetNodes(blocks[b].reg, sender, list))
    BY <2>1
  <2>3. n \in Nat
    BY LimitsAssumption
  <2>4. Signed(SetNodes(blocks[b].reg, sender, list), signed)
    <3>1. \A k \in Keys : OwnerOf(SetNodes(blocks[b].reg, sender, list), k) = OwnerOf(blocks[b].reg, k)
      BY <1>1, SetNodesKeepsOwners
    <3> QED
      BY <1>1, <3>1 DEF Signed
  <2> QED
    BY <2>2, <2>3, <2>4, <1>1, SetNodesType, SetNodesRises, MineGrows
<1>6. CASE UNCHANGED chain
  BY <1>6 DEF chain, Grows
<1>7. UNCHANGED chain \/ Sign \/ MineBind \/ MinePublish \/ MineNodes
  BY Zenon DEF Next, vars, Ask, Probe, ReadHash, ReadOwner, ReadRecord, ReadNodes, RoundFails
<1> QED
  BY <1>2, <1>3, <1>4, <1>5, <1>6, <1>7

\* On every fork, a key is bound only to accounts it has signed for (bind).
THEOREM BindingsSigned == Spec => []OwnerSigned
<1>1. ChainOK => OwnerSigned
  BY DEF ChainOK, OwnerSigned, Signed
<1> QED
  BY <1>1, ChainInit, ChainNext, PTL DEF Spec

\* Along every fork, bindings change to higher epochs only and records to higher
\* versions only, so nothing that was replaced comes back (bind, publish).
THEOREM ForksRise == Spec => []RisesAlongForks
<1>1. ChainOK => RisesAlongForks
  BY DEF ChainOK, RisesAlongForks, Rises
<1> QED
  BY <1>1, ChainInit, ChainNext, PTL DEF Spec

-----------------------------------------------------------------------------
(***************************************************************************)
(* The invariant of a read: what it has read so far is what the registry   *)
(* held in the block its snapshot names.                                   *)
(***************************************************************************)
SnapshotIsReal == snap.hash \in DOMAIN blocks /\ blocks[snap.hash].height = snap.height

ReadOK ==
    /\ query \in Query
    /\ snap.endpoints \subseteq Endpoints
    /\ snap = [height |-> snap.height, hash |-> snap.hash, endpoints |-> snap.endpoints]
    /\ pc \in {"probe", "hash", "call", "record", "done", "failed"}
    /\ pc # "done" => record = None
    /\ pc \in {"probe", "hash", "call"} => owner = None
    /\ pc \in {"call", "record", "done"} => SnapshotIsReal
    /\ pc = "record" => /\ query.fn = "verified"
                        /\ owner = OwnerOf(blocks[snap.hash].reg, query.key)
                        /\ owner # None
    /\ AnswerIsTrue

LEMMA ReadInit == Init => ReadOK
BY DEF Init, ReadOK, NoSnapshot, AnswerIsTrue

\* New blocks leave it alone.
LEMMA ReadUnchanged == ASSUME ReadOK, Grows, UNCHANGED client PROVE ReadOK'
<1> USE DEF client
<1>1. CASE pc \in {"call", "record", "done"}
  <2>1. snap.hash \in DOMAIN blocks /\ snap.hash \in DOMAIN blocks' /\ blocks'[snap.hash] = blocks[snap.hash]
    BY <1>1 DEF ReadOK, SnapshotIsReal, Grows
  <2> QED
    BY <2>1 DEF ReadOK, SnapshotIsReal, AnswerIsTrue
<1>2. CASE pc \notin {"call", "record", "done"}
  BY <1>2 DEF ReadOK, SnapshotIsReal, AnswerIsTrue
<1> QED
  BY <1>1, <1>2

\* Calls that are pinned to the hash of a real block can only be answered from it.
LEMMA PinnedIsOne == ASSUME SnapshotIsReal PROVE Pinned = {blocks[snap.hash].reg}
BY DEF SnapshotIsReal, Pinned

LEMMA ReadNext == ASSUME ReadOK, ChainOK, Grows, [Next]_vars PROVE ReadOK'
<1>1. CASE UNCHANGED client
  BY <1>1, ReadUnchanged
<1>2. CASE Ask
  BY <1>2 DEF Ask, ReadOK, NoSnapshot, AnswerIsTrue, chain
<1>3. CASE Probe
  <2>1. PICK h \in Round(Endpoints, RealHeads, 0..HeightMax) :
            LET fresh == Surviving(h)
                height == Height(fresh)
            IN snap' = [height |-> height, hash |-> NoHash,
                        endpoints |-> {e \in DOMAIN fresh : fresh[e] >= height}]
    BY <1>3 DEF Probe
  <2>2. DOMAIN h \subseteq Endpoints
    BY RoundAnswers
  <2>3. DOMAIN Surviving(h) \subseteq DOMAIN h
    BY DEF Surviving
  <2> DEFINE height == Height(Surviving(h))
             able == {e \in DOMAIN Surviving(h) : Surviving(h)[e] >= height}
  <2>4. snap' = [height |-> height, hash |-> NoHash, endpoints |-> able]
    BY <2>1
  <2>5. able \subseteq Endpoints
    BY <2>2, <2>3
  <2> HIDE DEF height, able
  <2>6. snap'.endpoints = able /\ snap' = [height |-> snap'.height, hash |-> snap'.hash,
                                            endpoints |-> snap'.endpoints]
    BY <2>4
  <2>7. pc = "probe" /\ pc' = "hash" /\ UNCHANGED <<query, owner, record>>
    BY <1>3 DEF Probe
  <2> QED
    BY <2>5, <2>6, <2>7 DEF ReadOK, AnswerIsTrue
<1>4. CASE ReadHash
  <2> DEFINE real == {b \in DOMAIN blocks : blocks[b].height = snap.height}
             claims == {NoHash} \cup DOMAIN blocks
  <2>1. PICK a \in Round(snap.endpoints, real, claims) :
            Agreed(a) /\ snap' = [snap EXCEPT !.hash = Common(a), !.endpoints = DOMAIN a]
    BY <1>4, Zenon DEF ReadHash
  <2>2. snap.endpoints \in SUBSET Endpoints
    BY DEF ReadOK
  <2>3. Common(a) \in real
    BY <2>1, <2>2, AgreedIsReal
  <2>4. DOMAIN a \subseteq Endpoints
    BY <2>2, RoundAnswers
  <2>5. snap' = [height |-> snap.height, hash |-> Common(a), endpoints |-> DOMAIN a]
    BY <2>1 DEF ReadOK
  <2>6. /\ pc = "hash" /\ pc' = "call" /\ UNCHANGED <<query, owner, record, blocks>>
    BY <1>4 DEF ReadHash, chain
  <2> QED
    BY <2>3, <2>4, <2>5, <2>6 DEF ReadOK, SnapshotIsReal, AnswerIsTrue
<1>5. CASE ReadOwner
  <2> DEFINE real == {OwnerOf(reg, query.key) : reg \in Pinned}
  <2>1. PICK a \in Round(snap.endpoints, real, Owner \cup {None}) :
            /\ Agreed(a)
            /\ owner' = Common(a)
            /\ pc' = IF Common(a) = None THEN "done" ELSE "record"
    BY <1>5 DEF ReadOwner
  <2>2. snap.endpoints \in SUBSET Endpoints /\ SnapshotIsReal
    BY <1>5 DEF ReadOK, ReadOwner
  <2>3. Common(a) \in real
    BY <2>1, <2>2, AgreedIsReal
  <2>4. owner' = OwnerOf(blocks[snap.hash].reg, query.key)
    BY <2>1, <2>2, <2>3, PinnedIsOne
  <2>5. pc = "call" /\ query.fn = "verified" /\ UNCHANGED <<query, snap, record, blocks>>
    BY <1>5 DEF ReadOwner, chain
  <2> QED
    BY <2>1, <2>2, <2>4, <2>5 DEF ReadOK, SnapshotIsReal, AnswerIsTrue
<1>6. CASE ReadRecord
  <2> DEFINE real == {Resolve(reg, owner.addr, query.name) : reg \in Pinned}
  <2>1. PICK a \in Round(snap.endpoints, real, Record \cup {None}) :
            Agreed(a) /\ record' = Common(a)
    BY <1>6 DEF ReadRecord
  <2>2. snap.endpoints \in SUBSET Endpoints /\ SnapshotIsReal
    BY <1>6 DEF ReadOK, ReadRecord
  <2>3. Common(a) \in real
    BY <2>1, <2>2, AgreedIsReal
  <2>4. record' = Resolve(blocks[snap.hash].reg, owner.addr, query.name)
    BY <2>1, <2>2, <2>3, PinnedIsOne
  <2>5. pc = "record" /\ pc' = "done" /\ UNCHANGED <<query, snap, owner, blocks>>
    BY <1>6 DEF ReadRecord, chain
  <2> QED
    BY <2>2, <2>4, <2>5 DEF ReadOK, SnapshotIsReal, AnswerIsTrue
<1>7. CASE ReadNodes
  <2> DEFINE real == {NodesOf(reg, query.addr) : reg \in Pinned}
  <2>1. PICK a \in Round(snap.endpoints, real, NodeList) : Agreed(a) /\ nodes' = Common(a)
    BY <1>7 DEF ReadNodes
  <2>2. snap.endpoints \in SUBSET Endpoints /\ SnapshotIsReal
    BY <1>7 DEF ReadOK, ReadNodes
  <2>3. Common(a) \in real
    BY <2>1, <2>2, AgreedIsReal
  <2>4. nodes' = NodesOf(blocks[snap.hash].reg, query.addr)
    BY <2>1, <2>2, <2>3, PinnedIsOne
  <2>5. /\ pc = "call" /\ pc' = "done" /\ query.fn = "nodesOf"
        /\ UNCHANGED <<query, snap, owner, record, blocks>>
    BY <1>7 DEF ReadNodes, chain
  <2> QED
    BY <2>2, <2>4, <2>5 DEF ReadOK, SnapshotIsReal, AnswerIsTrue
<1>8. CASE RoundFails
  <2>1. /\ pc \in {"probe", "hash", "call", "record"} /\ pc' \in {"probe", "failed"}
        /\ snap' = NoSnapshot /\ owner' = None /\ UNCHANGED <<query, record>>
    BY <1>8 DEF RoundFails
  <2> QED
    BY <2>1 DEF ReadOK, NoSnapshot, AnswerIsTrue
<1> QED
  BY <1>1, <1>2, <1>3, <1>4, <1>5, <1>6, <1>7, <1>8
     DEF Next, vars, Sign, MineBind, MinePublish, MineNodes, Mine

\* Fewer than MinAgree liars cannot make a read answer anything but what the registry
\* held in the block its snapshot names (readAll, verified, nodesOf).
THEOREM AnswersAreTrue == Spec => []AnswerIsTrue
<1>1. ReadOK => AnswerIsTrue
  BY DEF ReadOK
<1>2. Init => ChainOK /\ ReadOK
  BY ChainInit, ReadInit
<1>3. ChainOK /\ ReadOK /\ [Next]_vars => (ChainOK /\ ReadOK)'
  BY ChainNext, ReadNext
<1> QED
  BY <1>1, <1>2, <1>3, PTL DEF Spec

-----------------------------------------------------------------------------
(***************************************************************************)
(* The choice of the height.                                               *)
(***************************************************************************)
\* A finite family of sets, each given by a number, has a member within no other.
LEMMA SmallestExists ==
    ASSUME NEW D, IsFiniteSet(D), NEW T \in SUBSET SUBSET D, T # {}
    PROVE  \E x \in T : \A y \in T : ~(y \subseteq x /\ y # x)
<1>1. IsWellFoundedOn(StrictSubsetOrdering(D), FiniteSubsetsOf(D))
  BY FS_StrictSubsetOrderingWellFounded
<1>2. T \subseteq FiniteSubsetsOf(D)
  BY FS_FiniteSubsetsOfFinite
<1>3. PICK x \in T : \A y \in T : ~(<<y, x>> \in StrictSubsetOrdering(D))
  BY <1>1, <1>2, WFMin
<1> QED
  BY <1>3 DEF StrictSubsetOrdering

LEMMA LowestExists ==
    ASSUME NEW D, IsFiniteSet(D), D # {}, NEW h \in [D -> Nat]
    PROVE  \E e \in D : \A f \in D : h[e] <= h[f]
<1> DEFINE Below(e) == {f \in D : h[f] <= h[e]}
           T == {Below(e) : e \in D}
<1>1. PICK x \in T : \A y \in T : ~(y \subseteq x /\ y # x)
  <2>1. T \in SUBSET SUBSET D /\ T # {}
    <3>1. \A e \in D : Below(e) \in SUBSET D
      BY Zenon
    <3>2. PICK e \in D : TRUE
      BY Zenon
    <3>3. Below(e) \in T
      BY Zenon
    <3> HIDE DEF Below
    <3> QED
      BY <3>1, <3>3, Zenon
  <2> HIDE DEF T
  <2> QED
    BY <2>1, SmallestExists
<1>2. PICK e \in D : x = Below(e)
  BY <1>1
<1>3. ASSUME NEW f \in D, ~(h[e] <= h[f])
      PROVE  FALSE
  <2>1. Below(f) \subseteq Below(e) /\ e \in Below(e) /\ e \notin Below(f)
    BY <1>3
  <2> QED
    BY <1>1, <1>2, <2>1
<1> QED
  BY <1>3

\* The k-th largest exists.
LEMMA KthIs ==
    ASSUME NEW D, IsFiniteSet(D), NEW h \in [D -> Nat],
           NEW k \in Nat \ {0}, k <= Cardinality(D)
    PROVE  /\ Kth(h, k) \in Nat
           /\ Cardinality({e \in D : h[e] >= Kth(h, k)}) >= k
           /\ Cardinality({e \in D : h[e] > Kth(h, k)}) < k
<1> DEFINE AtLeast(n) == {f \in D : h[f] >= n}
           Above(n) == {f \in D : h[f] > n}
           T == {AtLeast(h[e]) : e \in {f \in D : Cardinality(AtLeast(h[f])) >= k}}
<1>0. D # {} /\ Cardinality(D) \in Nat
  BY FS_CardinalityType, FS_EmptySet
<1>1. T # {}
  <2>1. PICK e \in D : \A f \in D : h[e] <= h[f]
    BY <1>0, LowestExists
  <2>2. AtLeast(h[e]) = D
    BY <2>1
  <2> QED
    BY <2>2
<1>2. PICK x \in T : \A y \in T : ~(y \subseteq x /\ y # x)
  <2>1. T \in SUBSET SUBSET D
    OBVIOUS
  <2> HIDE DEF T
  <2> QED
    BY <1>1, <2>1, SmallestExists
<1>3. PICK e \in D : x = AtLeast(h[e]) /\ Cardinality(AtLeast(h[e])) >= k
  BY <1>2
<1>4. Cardinality(Above(h[e])) < k
  <2>1. IsFiniteSet(Above(h[e]))
    BY FS_Subset
  <2>2. Cardinality(Above(h[e])) \in Nat
    BY <2>1, FS_CardinalityType
  <2> SUFFICES ASSUME Cardinality(Above(h[e])) >= k PROVE FALSE
    BY <2>2
  <2>3. Above(h[e]) # {}
    BY <2>1, FS_EmptySet
  <2>4. PICK f \in Above(h[e]) : \A g \in Above(h[e]) : h[f] <= h[g]
    <3>1. [g \in Above(h[e]) |-> h[g]] \in [Above(h[e]) -> Nat]
      OBVIOUS
    <3>2. \E f \in Above(h[e]) : \A g \in Above(h[e]) :
              [d \in Above(h[e]) |-> h[d]][f] <= [d \in Above(h[e]) |-> h[d]][g]
      BY <2>1, <2>3, <3>1, LowestExists
    <3> QED
      BY <3>2
  <2>5. AtLeast(h[f]) = Above(h[e])
    BY <2>4
  <2>6. AtLeast(h[f]) \in T
    <3>1. f \in D /\ Cardinality(AtLeast(h[f])) >= k
      BY <2>5
    <3> QED
      BY <3>1
  <2>7a. e \in AtLeast(h[e]) /\ e \notin Above(h[e])
    OBVIOUS
  <2>7. Above(h[e]) \subseteq AtLeast(h[e])
    OBVIOUS
  <2> QED
    BY <1>2, <1>3, <2>5, <2>6, <2>7, <2>7a
<1>5. DOMAIN h = D
  OBVIOUS
<1> DEFINE Is(n) == Cardinality({f \in DOMAIN h : h[f] >= n}) >= k /\ Cardinality({f \in DOMAIN h : h[f] > n}) < k
           values == {h[f] : f \in DOMAIN h}
<1>6. \E n \in values : Is(n)
  BY <1>3, <1>4, <1>5
<1>7. Kth(h, k) = CHOOSE n \in values : Is(n)
  BY DEF Kth
<1>8. Kth(h, k) \in values /\ Is(Kth(h, k))
  BY <1>6, <1>7
<1> QED
  BY <1>5, <1>8

\* Of more members than there are faulty ones, one is honest.
LEMMA HonestAmong ==
    ASSUME NEW D \in SUBSET Endpoints, NEW S \in SUBSET D, Cardinality(S) > Cardinality(D \cap Faulty)
    PROVE  \E e \in S : e \in D \ Faulty
<1> SUFFICES ASSUME S \subseteq D \cap Faulty PROVE FALSE
  OBVIOUS
<1>1. IsFiniteSet(D \cap Faulty)
  BY QuorumAssumption, FS_Subset
<1>2. Cardinality(S) <= Cardinality(D \cap Faulty) /\ IsFiniteSet(S)
  BY <1>1, FS_Subset
<1>3. Cardinality(S) \in Nat /\ Cardinality(D \cap Faulty) \in Nat
  BY <1>1, <1>2, FS_CardinalityType
<1> QED
  BY <1>2, <1>3

\* The k-th largest head lies between two honest ones, unless k is so small, or so
\* large, that the faulty heads alone can be above, or below, it.
LEMMA KthBetween ==
    ASSUME NEW D \in SUBSET Endpoints, NEW h \in [D -> Nat], NEW k \in Nat,
           k > Cardinality(D \cap Faulty), Cardinality(D) - k + 1 > Cardinality(D \cap Faulty)
    PROVE  /\ Kth(h, k) \in Nat
           /\ \E e \in D \ Faulty : h[e] <= Kth(h, k)
           /\ \E e \in D \ Faulty : h[e] >= Kth(h, k)
<1> DEFINE AtLeast == {e \in D : h[e] >= Kth(h, k)}
           Above == {e \in D : h[e] > Kth(h, k)}
           AtMost == D \ Above
<1>1. IsFiniteSet(D) /\ IsFiniteSet(D \cap Faulty)
  BY QuorumAssumption, FS_Subset
<1>2. Cardinality(D) \in Nat /\ Cardinality(D \cap Faulty) \in Nat
  BY <1>1, FS_CardinalityType
<1>3. k \in Nat \ {0} /\ k <= Cardinality(D)
  BY <1>2
<1>4. Kth(h, k) \in Nat /\ Cardinality(AtLeast) >= k /\ Cardinality(Above) < k
  BY <1>1, <1>3, KthIs
<1>5. IsFiniteSet(AtLeast) /\ IsFiniteSet(Above) /\ IsFiniteSet(AtMost)
  BY <1>1, FS_Subset
<1>6. Cardinality(AtLeast) \in Nat /\ Cardinality(Above) \in Nat /\ Cardinality(AtMost) \in Nat
  BY <1>5, FS_CardinalityType
<1>7. \E e \in D \ Faulty : h[e] >= Kth(h, k)
  <2>1. Cardinality(AtLeast) > Cardinality(D \cap Faulty)
    BY <1>2, <1>4, <1>6
  <2>2. \E e \in AtLeast : e \in D \ Faulty
    BY <2>1, HonestAmong
  <2> QED
    BY <2>2
<1>8. Cardinality(D) = Cardinality(Above) + Cardinality(AtMost)
  <2>1. D = Above \cup AtMost /\ Above \cap AtMost = {}
    OBVIOUS
  <2>2. Cardinality(Above \cup AtMost) = Cardinality(Above) + Cardinality(AtMost) - Cardinality(Above \cap AtMost)
    BY <1>5, FS_Union
  <2>3. Cardinality(Above \cap AtMost) = 0
    BY <2>1, FS_EmptySet
  <2> HIDE DEF Above, AtMost
  <2> QED
    BY <2>1, <2>2, <2>3, <1>6
<1>9. \E e \in D \ Faulty : h[e] <= Kth(h, k)
  <2>1. Cardinality(AtMost) > Cardinality(D \cap Faulty)
    <3> HIDE DEF Above, AtMost
    <3> QED
      BY <1>2, <1>4, <1>6, <1>8
  <2>2. \E e \in AtMost : e \in D \ Faulty
    BY <2>1, HonestAmong
  <2> QED
    BY <2>2, <1>4
<1> QED
  BY <1>4, <1>7, <1>9

\* Where the honest heads are more than the faulty ones, the median lies between
\* two honest ones.
LEMMA MedianBetween ==
    ASSUME NEW D \in SUBSET Endpoints, NEW h \in [D -> Nat],
           Cardinality(D \ Faulty) > Cardinality(D \cap Faulty)
    PROVE  /\ Median(h) \in Nat
           /\ \E e \in D \ Faulty : h[e] <= Median(h)
           /\ \E e \in D \ Faulty : h[e] >= Median(h)
<1> DEFINE n == Cardinality(D)
           bad == Cardinality(D \cap Faulty)
           good == Cardinality(D \ Faulty)
<1>1. IsFiniteSet(D) /\ IsFiniteSet(D \cap Faulty) /\ IsFiniteSet(D \ Faulty)
  BY QuorumAssumption, FS_Subset
<1>2. n \in Nat /\ bad \in Nat /\ good \in Nat
  BY <1>1, FS_CardinalityType
<1>3. n = bad + good
  <2>1. D = (D \cap Faulty) \cup (D \ Faulty) /\ (D \cap Faulty) \cap (D \ Faulty) = {}
    OBVIOUS
  <2>2. Cardinality((D \cap Faulty) \cup (D \ Faulty)) =
           bad + good - Cardinality((D \cap Faulty) \cap (D \ Faulty))
    BY <1>1, FS_Union
  <2>3. Cardinality((D \cap Faulty) \cap (D \ Faulty)) = 0
    BY <2>1, FS_EmptySet
  <2> HIDE DEF bad, good
  <2> QED
    BY <2>1, <2>2, <2>3, <1>2, SMTT(60)
<1>4. DOMAIN h = D
  OBVIOUS
<1> HIDE DEF n, bad, good
<1>5. good > bad
  BY DEF good, bad
<1>6. CASE n % 2 = 1
  <2> DEFINE k == (n + 1) \div 2
  <2>1. k \in Nat /\ k > bad /\ n - k + 1 > bad
    BY <1>2, <1>3, <1>5, <1>6
  <2>2. Median(h) = Kth(h, k)
    BY <1>4, <1>6 DEF Median, n
  <2> HIDE DEF k
  <2> QED
    BY <2>1, <2>2, KthBetween DEF n, bad
<1>7. CASE n % 2 # 1
  <2> DEFINE j == n \div 2
  <2>1. /\ j \in Nat /\ j > bad /\ n - j + 1 > bad
        /\ j + 1 \in Nat /\ j + 1 > bad /\ n - (j + 1) + 1 > bad
    BY <1>2, <1>3, <1>5, <1>7
  <2>2. Median(h) = (Kth(h, j) + Kth(h, j + 1)) \div 2
    BY <1>4, <1>7 DEF Median, n
  <2> HIDE DEF j
  <2>3. /\ Kth(h, j) \in Nat
        /\ \E e \in D \ Faulty : h[e] <= Kth(h, j)
        /\ \E e \in D \ Faulty : h[e] >= Kth(h, j)
    BY <2>1, KthBetween DEF n, bad
  <2>4. /\ Kth(h, j + 1) \in Nat
        /\ \E e \in D \ Faulty : h[e] <= Kth(h, j + 1)
        /\ \E e \in D \ Faulty : h[e] >= Kth(h, j + 1)
    BY <2>1, KthBetween DEF n, bad
  <2> DEFINE x == Kth(h, j)
             y == Kth(h, j + 1)
  <2>5. Median(h) = (x + y) \div 2 /\ x \in Nat /\ y \in Nat
    BY <2>2, <2>3, <2>4
  <2>6. /\ \E e \in D \ Faulty : h[e] <= x
        /\ \E e \in D \ Faulty : h[e] >= x
        /\ \E e \in D \ Faulty : h[e] <= y
        /\ \E e \in D \ Faulty : h[e] >= y
    BY <2>3, <2>4
  <2> HIDE DEF x, y
  <2>7. Median(h) \in Nat /\ (x <= Median(h) \/ y <= Median(h)) /\ (x >= Median(h) \/ y >= Median(h))
    BY <2>5
  <2> QED
    BY <2>5, <2>6, <2>7
<1> QED
  BY <1>6, <1>7

\* The lemma behind HonestHeight, with its hypothesis on honest heads only.
LEMMA HeightBetween ==
    ASSUME NEW D \in SUBSET Endpoints, NEW h \in [D -> Nat],
           Cardinality(D \ Faulty) >= MinAgree,
           \A e, f \in D \ Faulty : Gap(h[e], h[f]) <= MaxHeadLag
    PROVE  LET honest == D \ Faulty
               fresh == Surviving(h)
           IN /\ honest \subseteq DOMAIN fresh
              /\ \E e \in honest : h[e] >= Height(fresh)
              /\ Cardinality({e \in honest : h[e] > Height(fresh) + SnapshotLag}) < MinAgree
<1> DEFINE honest == D \ Faulty
           fresh == Surviving(h)
           K == {f \in D : Gap(h[f], Median(h)) <= MaxHeadLag}
           t == Kth(fresh, MinAgree)
           ahead == {e \in honest : h[e] > Height(fresh) + SnapshotLag}
<1>1. /\ IsFiniteSet(D) /\ IsFiniteSet(Faulty) /\ IsFiniteSet(D \cap Faulty) /\ IsFiniteSet(honest)
      /\ IsFiniteSet(K)
  BY QuorumAssumption, FS_Subset
<1>2. /\ Cardinality(D \cap Faulty) \in Nat /\ Cardinality(Faulty) \in Nat
      /\ Cardinality(honest) \in Nat /\ Cardinality(K) \in Nat
  BY <1>1, FS_CardinalityType
<1>3. Cardinality(D \cap Faulty) <= Cardinality(Faulty)
  BY <1>1, FS_Subset
<1>4. MinAgree \in Nat \ {0} /\ Cardinality(D \cap Faulty) < MinAgree
  BY <1>2, <1>3, QuorumAssumption
<1>5. /\ Median(h) \in Nat
      /\ \E e \in honest : h[e] <= Median(h)
      /\ \E e \in honest : h[e] >= Median(h)
  <2>1. Cardinality(honest) > Cardinality(D \cap Faulty)
    BY <1>2, <1>4
  <2> QED
    BY <2>1, MedianBetween
<1>6. honest \subseteq K
  <2> SUFFICES ASSUME NEW g \in honest PROVE Gap(h[g], Median(h)) <= MaxHeadLag
    OBVIOUS
  <2>1. PICK e \in honest : h[e] <= Median(h)
    BY <1>5
  <2>2. PICK f \in honest : h[f] >= Median(h)
    BY <1>5
  <2>3. Gap(h[g], h[e]) <= MaxHeadLag /\ Gap(h[f], h[g]) <= MaxHeadLag
    OBVIOUS
  <2>4. h[e] \in Nat /\ h[f] \in Nat /\ h[g] \in Nat
    OBVIOUS
  <2> QED
    BY <1>5, <2>1, <2>2, <2>3, <2>4, LagAssumption DEF Gap
<1>7. DOMAIN h = D /\ fresh = [e \in K |-> h[e]]
  BY DEF Surviving
<1>8. fresh \in [K -> Nat] /\ DOMAIN fresh = K
  BY <1>7
<1>9. Cardinality(K) >= MinAgree
  <2>1. Cardinality(honest) <= Cardinality(K)
    BY <1>1, <1>6, FS_Subset
  <2> QED
    BY <2>1, <1>2, QuorumAssumption
<1>10. /\ t \in Nat
       /\ Cardinality({e \in K : fresh[e] >= t}) >= MinAgree
       /\ Cardinality({e \in K : fresh[e] > t}) < MinAgree
  BY <1>1, <1>4, <1>8, <1>9, KthIs
<1>11. Height(fresh) \in Nat /\ Height(fresh) <= t /\ Height(fresh) + SnapshotLag >= t
  BY <1>10, LagAssumption DEF Height
<1>12. \E e \in honest : h[e] >= Height(fresh)
  <2> DEFINE able == {e \in K : fresh[e] >= t}
  <2>1. able \in SUBSET Endpoints /\ Cardinality(able) >= MinAgree
    BY <1>10
  <2>2. PICK e \in able : e \notin Faulty
    BY <2>1, HonestMember
  <2>3. e \in honest /\ h[e] >= t /\ h[e] \in Nat
    BY <2>2, <1>7
  <2> QED
    BY <2>3, <1>10, <1>11
<1>13. Cardinality(ahead) < MinAgree
  <2> DEFINE above == {e \in K : fresh[e] > t}
  <2>1. ahead \subseteq above
    BY <1>6, <1>7, <1>10, <1>11, LagAssumption
  <2>2. IsFiniteSet(above)
    BY <1>1, FS_Subset
  <2>3. IsFiniteSet(ahead) /\ Cardinality(ahead) <= Cardinality(above)
    BY <2>1, <2>2, FS_Subset
  <2>4. Cardinality(ahead) \in Nat /\ Cardinality(above) \in Nat
    BY <2>2, <2>3, FS_CardinalityType
  <2> QED
    BY <2>3, <2>4, <1>10, <1>4
<1> QED
  BY <1>6, <1>8, <1>12, <1>13

\* Faulty heads do not move the height: while the honest heads are close together,
\* it is one that they have and that they are not much ahead of (snapshot).
THEOREM HeightsAreHonest == Spec => []HonestHeight
<1>1. HeightIsHonest
  <2> SUFFICES ASSUME NEW h \in Heads,
                      Cardinality(DOMAIN h \ Faulty) >= MinAgree,
                      \A e, f \in DOMAIN h \ Faulty : Gap(h[e], h[f]) <= MaxHeadLag
               PROVE  LET honest == DOMAIN h \ Faulty
                          fresh == Surviving(h)
                      IN /\ honest \subseteq DOMAIN fresh
                         /\ \E e \in honest : h[e] >= Height(fresh)
                         /\ Cardinality({e \in honest : h[e] > Height(fresh) + SnapshotLag}) < MinAgree
    BY DEF HeightIsHonest
  <2>1. DOMAIN h \in SUBSET Endpoints /\ h \in [DOMAIN h -> Nat]
    BY LagAssumption DEF Heads
  <2> QED
    BY <2>1, HeightBetween
<1> QED
  BY <1>1, PTL DEF HonestHeight

-----------------------------------------------------------------------------
(***************************************************************************)
(* Types.                                                                  *)
(***************************************************************************)
LEMMA TypeInit == Init => TypeOK
<1> SUFFICES ASSUME Init PROVE TypeOK
  OBVIOUS
<1>1. blocks \in Seq(Block) /\ Len(blocks) = 1
  <2>1. ChainOK
    BY ChainInit
  <2> QED
    BY <2>1 DEF ChainOK, Init
<1>2. <<>> \in NodeList
  <2>1. <<>> \in [1..0 -> Nodes] /\ 0 \in 0..MaxNodes
    BY LimitsAssumption
  <2> QED
    BY <2>1 DEF NodeList
<1> QED
  BY <1>1, <1>2, LagAssumption DEF Init, TypeOK, NoSnapshot, Snapshot

\* A step of the chain keeps the types.
LEMMA ChainTypes ==
    ASSUME ChainOK, [Next]_vars, TypeOK
    PROVE  /\ blocks' \in Seq(Block) /\ Len(blocks') \in 1..BlocksMax
           /\ signed' \subseteq Signature
<1>1. blocks' \in Seq(Block) /\ signed' \subseteq Signature /\ Len(blocks') \in Nat \ {0}
  BY ChainNext DEF ChainOK
<1>2. Len(blocks') <= BlocksMax
  <2>1. CASE blocks' = blocks
    BY <2>1, LagAssumption DEF TypeOK
  <2>2. ASSUME NEW p, NEW reg, Mine(p, reg)
        PROVE  Len(blocks') <= BlocksMax
    BY <2>2, LagAssumption DEF Mine, TypeOK
  <2>3. blocks' = blocks \/ \E p, reg : Mine(p, reg)
    BY Zenon DEF Next, vars, chain, client, Sign, MineBind, MinePublish, MineNodes, Ask, Probe,
           ReadHash, ReadOwner, ReadRecord, ReadNodes, RoundFails
  <2> QED
    BY <2>1, <2>2, <2>3
<1> QED
  BY <1>1, <1>2, LagAssumption

LEMMA TypeNext == ASSUME TypeOK, ChainOK, ReadOK, [Next]_vars PROVE TypeOK'
<1>0. /\ blocks' \in Seq(Block) /\ Len(blocks') \in 1..BlocksMax
      /\ signed' \subseteq Signature
  BY ChainTypes
<1>1. ASSUME NEW b \in DOMAIN blocks
      PROVE  b \in Nat /\ blocks[b].height \in Nat /\ blocks[b].reg \in Registry
  <2>1. b \in 1..Len(blocks) /\ Len(blocks) \in Nat
    BY DEF ChainOK
  <2>2. blocks[b] \in Block
    BY <2>1 DEF ChainOK
  <2> QED
    BY <2>1, <2>2 DEF Block
<1>2. CASE UNCHANGED client
  BY <1>0, <1>2 DEF TypeOK, client
<1>3. CASE Ask
  <2>1. <<>> \in NodeList
    <3>1. <<>> \in [1..0 -> Nodes] /\ 0 \in 0..MaxNodes
      BY LimitsAssumption
    <3> QED
      BY <3>1 DEF NodeList
  <2> QED
    BY <1>0, <1>3, <2>1 DEF Ask, TypeOK, NoSnapshot, Snapshot
<1>4. CASE Probe
  <2>1. PICK h \in Round(Endpoints, RealHeads, 0..HeightMax) :
            /\ Cardinality(DOMAIN Surviving(h)) >= MinAgree
            /\ snap' = [height |-> Height(Surviving(h)), hash |-> NoHash,
                        endpoints |-> {e \in DOMAIN Surviving(h) :
                                           Surviving(h)[e] >= Height(Surviving(h))}]
    BY <1>4 DEF Probe
  <2> DEFINE K == DOMAIN Surviving(h)
             height == Height(Surviving(h))
  <2>2. DOMAIN h \subseteq Endpoints /\ h \in [DOMAIN h -> RealHeads \cup 0..HeightMax]
    BY RoundAnswers
  <2>3. RealHeads \cup 0..HeightMax \subseteq Nat
    BY <1>1, LagAssumption DEF RealHeads
  <2>4. K \subseteq DOMAIN h /\ Surviving(h) \in [K -> Nat]
    BY <2>2, <2>3 DEF Surviving
  <2>5. IsFiniteSet(K) /\ K \subseteq Endpoints
    BY <2>2, <2>4, QuorumAssumption, FS_Subset
  <2>6. MinAgree \in Nat \ {0}
    <3>1. IsFiniteSet(Faulty)
      BY QuorumAssumption, FS_Subset
    <3>2. Cardinality(Faulty) \in Nat
      BY <3>1, FS_CardinalityType
    <3> QED
      BY <3>2, QuorumAssumption
  <2>7. Kth(Surviving(h), MinAgree) \in Nat
    BY <2>1, <2>4, <2>5, <2>6, KthIs
  <2>8. height \in Nat
    BY <2>7, LagAssumption DEF Height
  <2>9. {e \in K : Surviving(h)[e] >= height} \in SUBSET Endpoints
    BY <2>5
  <2> HIDE DEF K, height
  <2>10. snap' \in Snapshot
    BY <2>1, <2>8, <2>9 DEF Snapshot, NoHash, K, height
  <2> QED
    BY <1>0, <1>4, <2>10 DEF Probe, TypeOK
<1>5. CASE ReadHash
  <2> DEFINE real == {b \in DOMAIN blocks : blocks[b].height = snap.height}
  <2>1. PICK a \in Round(snap.endpoints, real, {NoHash} \cup DOMAIN blocks) :
            Agreed(a) /\ snap' = [snap EXCEPT !.hash = Common(a), !.endpoints = DOMAIN a]
    BY <1>5, Zenon DEF ReadHash
  <2>2. snap \in Snapshot /\ snap.endpoints \in SUBSET Endpoints
    BY DEF TypeOK, Snapshot
  <2>3. Common(a) \in real
    BY <2>1, <2>2, AgreedIsReal
  <2>4. Common(a) \in Nat
    BY <2>3, <1>1
  <2>5. DOMAIN a \subseteq snap.endpoints
    <3> DEFINE claims == {NoHash} \cup DOMAIN blocks
    <3>1. a \in Round(snap.endpoints, real, claims)
      BY <2>1
    <3> HIDE DEF real, claims
    <3> QED
      BY <2>2, <3>1, RoundAnswers
  <2>6. DOMAIN a \in SUBSET Endpoints
    BY <2>2, <2>5
  <2>7. snap' \in Snapshot
    BY <2>1, <2>2, <2>4, <2>6 DEF Snapshot
  <2> QED
    BY <1>0, <1>5, <2>7 DEF ReadHash, TypeOK
<1>6. CASE ReadOwner
  <2> DEFINE real == {OwnerOf(reg, query.key) : reg \in Pinned}
  <2>1. PICK a \in Round(snap.endpoints, real, Owner \cup {None}) :
            Agreed(a) /\ owner' = Common(a)
    BY <1>6 DEF ReadOwner
  <2>2. snap.endpoints \in SUBSET Endpoints
    BY DEF TypeOK, Snapshot
  <2>3. Common(a) \in real
    BY <2>1, <2>2, AgreedIsReal
  <2>4. query.key \in Keys
    BY <1>6 DEF ReadOwner, TypeOK, Query
  <2>5. real \subseteq Owner \cup {None}
    BY <1>1, <2>4 DEF Pinned, OwnerOf, Registry
  <2> HIDE DEF real
  <2> QED
    BY <1>0, <1>6, <2>1, <2>3, <2>5 DEF ReadOwner, TypeOK
<1>7. CASE ReadRecord
  <2> DEFINE real == {Resolve(reg, owner.addr, query.name) : reg \in Pinned}
  <2>1. PICK a \in Round(snap.endpoints, real, Record \cup {None}) :
            Agreed(a) /\ record' = Common(a)
    BY <1>7 DEF ReadRecord
  <2>2. snap.endpoints \in SUBSET Endpoints
    BY DEF TypeOK, Snapshot
  <2>3. Common(a) \in real
    BY <2>1, <2>2, AgreedIsReal
  <2>4. query.name \in Names /\ owner.addr \in Accounts
    BY <1>7 DEF ReadRecord, ReadOK, TypeOK, Query, Owner
  <2>5. real \subseteq Record \cup {None}
    BY <1>1, <2>4 DEF Pinned, Resolve, Registry
  <2> HIDE DEF real
  <2> QED
    BY <1>0, <1>7, <2>1, <2>3, <2>5 DEF ReadRecord, TypeOK
<1>8. CASE ReadNodes
  <2> DEFINE real == {NodesOf(reg, query.addr) : reg \in Pinned}
  <2>1. PICK a \in Round(snap.endpoints, real, NodeList) : Agreed(a) /\ nodes' = Common(a)
    BY <1>8 DEF ReadNodes
  <2>2. snap.endpoints \in SUBSET Endpoints
    BY DEF TypeOK, Snapshot
  <2>3. Common(a) \in real
    BY <2>1, <2>2, AgreedIsReal
  <2>4. query.addr \in Accounts
    BY <1>8 DEF ReadNodes, TypeOK, Query
  <2>5. real \subseteq NodeList
    BY <1>1, <2>4 DEF Pinned, NodesOf, Registry
  <2> HIDE DEF real
  <2> QED
    BY <1>0, <1>8, <2>1, <2>3, <2>5 DEF ReadNodes, TypeOK
<1>9. CASE RoundFails
  BY <1>0, <1>9 DEF RoundFails, TypeOK, NoSnapshot, Snapshot
<1> QED
  BY <1>2, <1>3, <1>4, <1>5, <1>6, <1>7, <1>8, <1>9
     DEF Next, vars, Sign, MineBind, MinePublish, MineNodes, Mine

\* Every variable keeps its type, and no account's list holds a string the contract
\* does not take (setNodes).
THEOREM TypeCorrect == Spec => []TypeOK
<1>1. Init => TypeOK /\ ChainOK /\ ReadOK
  BY TypeInit, ChainInit, ReadInit
<1>2. TypeOK /\ ChainOK /\ ReadOK /\ [Next]_vars => (TypeOK /\ ChainOK /\ ReadOK)'
  BY TypeNext, ChainNext, ReadNext
<1> QED
  BY <1>1, <1>2, PTL DEF Spec
=============================================================================
