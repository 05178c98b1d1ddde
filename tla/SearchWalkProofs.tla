--------------------------- MODULE SearchWalkProofs ---------------------------
(***************************************************************************)
(* What is proved of AdoptNodes and SearchWalk, for any publishers,        *)
(* catalogs, budgets, crashes and times: adoption stays within its budgets *)
(* and is never vouched for too early, the walk asks nobody twice and no   *)
(* more than its budget allows, and it is the breadth-first search it is   *)
(* meant to be.                                                            *)
(***************************************************************************)
EXTENDS SearchWalk, FiniteSetTheorems, WellFoundedInduction, TLAPS

FileType == [seen : [Pubs -> SUBSET Addrs], adopted : [Addrs -> Nat]]
TxType == [pc : {"queued", "loaded", "write", "hand", "done"}, pk : Pubs, nodes : Seq(Addrs \cup {Junk}),
           file : FileType, at : Nat, session : Nat, granted : SUBSET Addrs, handed : SUBSET Addrs]

AdoptTypes ==
    /\ file \in FileType
    /\ adopted \in [Addrs -> Nat]
    /\ session \in Nat
    /\ queue \in Seq(Nat)
    /\ tx \in Seq(TxType)
    /\ up \in {"running", "stopping", "down"}
    /\ clock \in 1..TimesMax /\ crashes \in 0..CrashesMax

\* Only the first call of the queue has a transaction, and none is left by a crash.
Active(t) == tx[t].pc \in {"loaded", "write", "hand"}

OneAtATime ==
    /\ \A t \in Txs : Active(t) => queue # <<>> /\ Head(queue) = t
    /\ up = "down" => queue = <<>>
    /\ \A i \in DOMAIN queue : queue[i] \in Txs
    /\ \A t \in Txs : /\ tx[t].session <= crashes
                      /\ tx[t].pc # "done" => tx[t].session = crashes

\* What a publisher may have been granted.
Modest(A) == /\ IsFiniteSet(A) /\ Cardinality(A) <= PerPublisher
             /\ \A s \in Addrs : Cardinality(InSubnet(A, SubnetOf[s])) <= PerSubnet

\* What is handed over is in the file, and the transaction that is under way adds to it.
Grants ==
    /\ \A p \in Pubs : Modest(file.seen[p])
    /\ \A t \in Txs : \A p \in Pubs : Modest(tx[t].file.seen[p])
    /\ \A t \in Txs :
        /\ tx[t].pc \in {"loaded", "write"} => \A p \in Pubs : file.seen[p] \subseteq tx[t].file.seen[p]
        /\ tx[t].pc = "write" => tx[t].granted \subseteq tx[t].file.seen[tx[t].pk]
        /\ tx[t].pc = "hand" => tx[t].granted \subseteq file.seen[tx[t].pk]
        /\ tx[t].handed \subseteq file.seen[tx[t].pk] /\ tx[t].handed \subseteq tx[t].granted
        /\ tx[t].pc # "done" => tx[t].handed = {}

\* The grants that a process has made, which its budget counts.
Given(n) == {x \in Txs \X Addrs : tx[x[1]].session = n /\ x[2] \in tx[x[1]].granted}

Spent ==
    /\ session <= PerSession
    /\ \A n \in Nat : IsFiniteSet(Given(n))
                      /\ Cardinality(Given(n)) <= IF n = crashes THEN session ELSE PerSession

\* A time of adoption is remembered until it is of no consequence.
Marked(times, a, at) == times[a] >= at \/ clock - at >= Ttl

Marks ==
    /\ \A a \in Addrs : adopted[a] <= clock /\ file.adopted[a] <= clock
    /\ \A t \in Txs : \A a \in Addrs : tx[t].file.adopted[a] <= clock
    /\ \A t \in Txs : tx[t].at <= clock /\ (tx[t].granted # {} => tx[t].at >= 1)
    /\ \A t \in Txs : \A a \in tx[t].granted :
        /\ tx[t].pc \in {"write", "hand"} => Marked(adopted, a, tx[t].at)
        /\ tx[t].pc = "write" => Marked(tx[t].file.adopted, a, tx[t].at)
        /\ tx[t].pc = "hand" => Marked(file.adopted, a, tx[t].at)
    /\ \A t \in Txs : \A a \in tx[t].handed :
        /\ up # "down" => Marked(adopted, a, tx[t].at)
        /\ Marked(file.adopted, a, tx[t].at)
        /\ \A u \in Txs : tx[u].pc = "write" => Marked(tx[u].file.adopted, a, tx[t].at)

AdoptInv == AdoptTypes /\ OneAtATime /\ Grants /\ Spent /\ Marks

AdoptNext ==
    \/ \E pk \in Pubs : \E nodes \in Lists[pk] : Adopt(pk, nodes)
    \/ \E t \in Txs : AdoptTx(t)
    \/ Stop \/ Crash \/ Start \/ TimePasses

-----------------------------------------------------------------------------
(***************************************************************************)
(* What the loop of adoptTx grants.                                        *)
(***************************************************************************)
LEMMA LeastExists ==
    ASSUME NEW T \in SUBSET Nat, T # {}
    PROVE  \E x \in T : \A y \in T : x <= y
<1>1. PICK x \in T : \A y \in T : ~(<<y, x>> \in OpToRel(<, Nat))
  BY NatLessThanWellFounded, WFMin, Zenon
<1>2. \A y \in T : ~(y < x)
  BY <1>1 DEF OpToRel
<1> QED  BY <1>2

\* The loop, up to position n of the list.
Loop(t, table, n, I) ==
    /\ I \in SUBSET (1..n)
    /\ \A i \in 1..n :
         i \in I <=> i <= Inspect /\ May(t, {tx[t].nodes[j] : j \in {k \in I : k < i}}, tx[t].nodes[i], table)

LEMMA LoopRuns ==
    ASSUME NEW t, NEW table, NEW n \in Nat
    PROVE  \E I : Loop(t, table, n, I)
<1> DEFINE T == {m \in Nat : ~\E I : Loop(t, table, m, I)}
<1> SUFFICES ASSUME T # {}  PROVE FALSE
  OBVIOUS
<1>1. PICK m \in T : \A k \in T : m <= k
  <2>1. T \in SUBSET Nat
    OBVIOUS
  <2> HIDE DEF T
  <2> QED  BY <2>1, LeastExists
<1>2. m # 0
  <2>1. Loop(t, table, 0, {})
    BY DEF Loop
  <2> QED  BY <2>1
<1>3. PICK I : Loop(t, table, m - 1, I)
  <2>1. m - 1 \in Nat /\ ~(m <= m - 1)
    BY <1>2
  <2> QED  BY <1>1, <2>1
<1> DEFINE ok == m <= Inspect /\ May(t, {tx[t].nodes[j] : j \in {k \in I : k < m}}, tx[t].nodes[m], table)
           J == IF ok THEN I \cup {m} ELSE I
<1>4. \A i \in 1..m : {k \in J : k < i} = {k \in I : k < i}
  OBVIOUS
<1>5. J \in SUBSET (1..m) /\ m \notin I
  BY <1>2, <1>3 DEF Loop
<1>6. m \in J <=> ok
  BY <1>5
<1>7. \A i \in 1..m - 1 : i \in J <=> i \in I
  OBVIOUS
<1>8. \A i \in 1..m - 1 :
        i \in J <=> i <= Inspect /\ May(t, {tx[t].nodes[j] : j \in {k \in J : k < i}}, tx[t].nodes[i], table)
  <2> HIDE DEF J
  <2> SUFFICES ASSUME NEW i \in 1..m - 1
               PROVE  i \in J <=> i <= Inspect /\ May(t, {tx[t].nodes[j] : j \in {k \in J : k < i}}, tx[t].nodes[i], table)
    OBVIOUS
  <2>1. {k \in J : k < i} = {k \in I : k < i}
    BY <1>4
  <2>2. i \in I <=> i <= Inspect /\ May(t, {tx[t].nodes[j] : j \in {k \in I : k < i}}, tx[t].nodes[i], table)
    BY <1>3 DEF Loop
  <2> QED  BY <1>7, <2>1, <2>2, Zenon
<1>9. m \in J <=> m <= Inspect /\ May(t, {tx[t].nodes[j] : j \in {k \in J : k < m}}, tx[t].nodes[m], table)
  <2>1. {k \in J : k < m} = {k \in I : k < m}
    BY <1>4
  <2> HIDE DEF J
  <2> QED  BY <1>6, <2>1, Zenon
<1>10. Loop(t, table, m, J)
  <2> HIDE DEF J
  <2>1. \A i \in 1..m : i = m \/ i \in 1..m - 1
    OBVIOUS
  <2> QED  BY <1>5, <1>8, <1>9, <2>1, Zenon DEF Loop
<1> QED  BY <1>10

LEMMA TakenIs ==
    ASSUME NEW t, NEW table, Len(tx[t].nodes) \in Nat
    PROVE  Loop(t, table, Len(tx[t].nodes), Taken(t, table))
<1>1. PICK I : Loop(t, table, Len(tx[t].nodes), I)
  BY LoopRuns
<1> QED  BY <1>1, Zenon DEF Loop, Taken

LEMMA GreatestExists ==
    ASSUME NEW n \in Nat, NEW T \in SUBSET (1..n), T # {}
    PROVE  \E x \in T : \A y \in T : y <= x
<1> DEFINE U == {m \in Nat : \A y \in T : y <= m}
<1>1. U \in SUBSET Nat /\ n \in U
  OBVIOUS
<1>2. PICK m \in U : \A k \in U : m <= k
  <2> HIDE DEF U
  <2> QED  BY <1>1, LeastExists
<1>3. m \in T
  <2> SUFFICES ASSUME m \notin T  PROVE FALSE
    OBVIOUS
  <2>1. \A y \in T : y <= m /\ y # m
    BY <1>2
  <2>2. m \in Nat /\ m # 0
    <3>1. PICK y \in T : TRUE
      OBVIOUS
    <3> QED  BY <1>2, <3>1
  <2>3. m - 1 \in U
    BY <2>1, <2>2
  <2> QED  BY <1>2, <2>2, <2>3
<1> QED  BY <1>2, <1>3

LEMMA PlusOne ==
    ASSUME NEW S, IsFiniteSet(S), NEW x, NEW k \in Nat, Cardinality(S) < k
    PROVE  IsFiniteSet(S \cup {x}) /\ Cardinality(S \cup {x}) <= k
<1>1. IsFiniteSet(S \cup {x}) /\ Cardinality(S \cup {x}) = IF x \in S THEN Cardinality(S) ELSE Cardinality(S) + 1
  BY FS_AddElement
<1>2. Cardinality(S) \in Nat
  BY FS_CardinalityType
<1> QED  BY <1>1, <1>2

\* The addresses the loop grants keep the publisher and the process within budget.
LEMMA TakenModest ==
    ASSUME NEW t, NEW table, tx[t].nodes \in Seq(Addrs \cup {Junk}), tx[t].pk \in Pubs,
           NEW seen, seen = tx[t].file.seen[tx[t].pk], Modest(seen),
           session \in Nat, session <= PerSession,
           NEW A, A = {tx[t].nodes[i] : i \in Taken(t, table)}
    PROVE  /\ A \subseteq Addrs /\ IsFiniteSet(A) /\ Modest(seen \cup A)
           /\ session + Cardinality(A) <= PerSession
<1> DEFINE s == tx[t].nodes
           n == Len(s)
           I == Taken(t, table)
           Up(i) == {s[j] : j \in {k \in I : k < i}}
<1>l. PerPublisher \in Nat /\ PerSession \in Nat /\ PerSubnet \in Nat
  BY LimitsAssumption
<1>1. n \in Nat /\ I \in SUBSET (1..n) /\ \A i \in I : i \in 1..n /\ May(t, Up(i), s[i], table)
  <2>1. n \in Nat
    OBVIOUS
  <2>2. Loop(t, table, n, I)
    BY <2>1, TakenIs
  <2>3. I \in SUBSET (1..n) /\ \A i \in 1..n : i \in I => May(t, Up(i), s[i], table)
    BY <2>2, Zenon DEF Loop
  <2> QED  BY <2>1, <2>3
<1> HIDE DEF I
<1>2. \A i \in I : /\ s[i] \in Addrs
                   /\ Cardinality(seen \cup Up(i)) < PerPublisher
                   /\ session + Cardinality(Up(i)) < PerSession
                   /\ Cardinality(InSubnet(seen \cup Up(i), SubnetOf[s[i]])) < PerSubnet
  BY <1>1 DEF May
<1>3. A = {s[i] : i \in I}
  BY DEF I
<1>4. A \subseteq Addrs
  BY <1>2, <1>3
<1>5. \A J : J \subseteq I => IsFiniteSet({s[i] : i \in J})
  <2>1. IsFiniteSet(I)
    <3>1. IsFiniteSet(1..n)
      <4>1. 1 \in Int /\ n \in Int
        BY <1>1
      <4> HIDE DEF n
      <4> QED  BY <4>1, FS_Interval, Zenon
    <3> QED  BY <1>1, <3>1, FS_Subset
  <2>2. ASSUME NEW J, J \subseteq I  PROVE IsFiniteSet({s[i] : i \in J})
    <3>1. IsFiniteSet(J)
      BY <2>1, <2>2, FS_Subset
    <3>2. [i \in J |-> s[i]] \in Surjection(J, {s[i] : i \in J})
      BY DEF Surjection
    <3> QED  BY <3>1, <3>2, FS_Surjection
  <2> QED  BY <2>2
<1>6. IsFiniteSet(A) /\ \A i : IsFiniteSet(Up(i))
  BY <1>3, <1>5
<1>7. IsFiniteSet(seen) /\ Cardinality(seen) <= PerPublisher
  BY DEF Modest
<1>8. IsFiniteSet(seen \cup A) /\ \A i : IsFiniteSet(seen \cup Up(i))
  BY <1>6, <1>7, FS_Union
<1>9. CASE I = {}
  <2>1. A = {}
    BY <1>3, <1>9
  <2>2. seen \cup A = seen
    BY <2>1
  <2>3. session + Cardinality(A) <= PerSession
    <3>1. Cardinality(A) = 0
      BY <2>1, FS_EmptySet, Zenon
    <3> QED  BY <3>1
  <2>4. Modest(seen \cup A)
    BY <2>2
  <2> QED  BY <1>4, <1>6, <2>3, <2>4
<1>10. CASE I # {}
  <2>1. PICK m \in I : \A j \in I : j <= m
    BY <1>1, <1>10, GreatestExists
  <2>2. \A j \in I : j = m \/ j < m
    BY <1>1, <2>1
  <2>3. A = Up(m) \cup {s[m]}
    BY <1>3, <2>1, <2>2
  <2>4. seen \cup A = (seen \cup Up(m)) \cup {s[m]}
    BY <2>3
  <2>5. Cardinality(seen \cup A) <= PerPublisher
    BY <1>2, <1>8, <1>l, <2>1, <2>4, PlusOne
  <2>6. session + Cardinality(A) <= PerSession
    <3>1. Cardinality(Up(m)) \in Nat
      BY <1>6, FS_CardinalityType
    <3>2. Cardinality(A) <= Cardinality(Up(m)) + 1
      <4>1. Cardinality(Up(m)) < Cardinality(Up(m)) + 1 /\ Cardinality(Up(m)) + 1 \in Nat
        BY <3>1
      <4> QED  BY <1>6, <2>3, <4>1, PlusOne
    <3>3. Cardinality(A) \in Nat
      BY <1>6, FS_CardinalityType
    <3>4. session + Cardinality(Up(m)) < PerSession
      BY <1>2, <2>1
    <3> DEFINE k == Cardinality(Up(m))
               c == Cardinality(A)
    <3> HIDE DEF k, c
    <3>5. k \in Nat /\ c \in Nat /\ c <= k + 1 /\ session + k < PerSession
      BY <3>1, <3>2, <3>3, <3>4 DEF k, c
    <3>6. session + c <= PerSession
      BY <1>l, <3>5
    <3> QED  BY <3>6 DEF c
  <2>7. ASSUME NEW a \in Addrs  PROVE Cardinality(InSubnet(seen \cup A, SubnetOf[a])) <= PerSubnet
    <3> DEFINE K == {i \in I : SubnetOf[s[i]] = SubnetOf[a]}
    <3>1. CASE K = {}
      <4>1. InSubnet(A, SubnetOf[a]) = {}
        BY <1>3, <3>1 DEF InSubnet
      <4>2. InSubnet(seen \cup A, SubnetOf[a]) = InSubnet(seen, SubnetOf[a])
        BY <4>1, Zenon DEF InSubnet
      <4> QED  BY <4>2 DEF Modest
    <3>2. CASE K # {}
      <4>1. PICK k \in K : \A j \in K : j <= k
        BY <1>1, <3>2, GreatestExists
      <4>2. \A j \in K : j = k \/ j < k
        BY <1>1, <4>1
      <4>3. InSubnet(A, SubnetOf[a]) \subseteq InSubnet(Up(k), SubnetOf[a]) \cup {s[k]}
        BY <1>3, <4>1, <4>2 DEF InSubnet
      <4>4. InSubnet(seen \cup A, SubnetOf[a]) \subseteq InSubnet(seen \cup Up(k), SubnetOf[a]) \cup {s[k]}
        BY <4>3, Zenon DEF InSubnet
      <4>5. Cardinality(InSubnet(seen \cup Up(k), SubnetOf[a])) < PerSubnet
        BY <1>2, <4>1
      <4>6. IsFiniteSet(InSubnet(seen \cup Up(k), SubnetOf[a]))
        <5>1. InSubnet(seen \cup Up(k), SubnetOf[a]) \subseteq seen \cup Up(k)
          BY Zenon DEF InSubnet
        <5> QED  BY <1>8, <5>1, FS_Subset, ZenonT(60)
      <4>7. /\ IsFiniteSet(InSubnet(seen \cup Up(k), SubnetOf[a]) \cup {s[k]})
            /\ Cardinality(InSubnet(seen \cup Up(k), SubnetOf[a]) \cup {s[k]}) <= PerSubnet
        BY <1>l, <4>5, <4>6, PlusOne
      <4>8. /\ IsFiniteSet(InSubnet(seen \cup A, SubnetOf[a]))
            /\ Cardinality(InSubnet(seen \cup A, SubnetOf[a]))
                 <= Cardinality(InSubnet(seen \cup Up(k), SubnetOf[a]) \cup {s[k]})
        BY <4>4, <4>7, FS_Subset
      <4>9. /\ Cardinality(InSubnet(seen \cup A, SubnetOf[a])) \in Nat
            /\ Cardinality(InSubnet(seen \cup Up(k), SubnetOf[a]) \cup {s[k]}) \in Nat
        BY <4>7, <4>8, FS_CardinalityType
      <4>10. PerSubnet \in Nat
        BY <1>l
      <4>11. Cardinality(InSubnet(seen \cup A, SubnetOf[a])) <= PerSubnet
        <5>1. PICK few \in Nat, most \in Nat :
                /\ few = Cardinality(InSubnet(seen \cup A, SubnetOf[a]))
                /\ most = Cardinality(InSubnet(seen \cup Up(k), SubnetOf[a]) \cup {s[k]})
          BY <4>9
        <5>2. few <= most /\ most <= PerSubnet
          BY <4>7, <4>8, <5>1
        <5>3. few <= PerSubnet
          BY <4>10, <5>2
        <5> QED  BY <5>1, <5>3
      <4> QED  BY <4>8, <4>11
    <3> QED  BY <3>1, <3>2
  <2> QED  BY <1>4, <1>6, <1>8, <2>5, <2>6, <2>7 DEF Modest
<1> QED  BY <1>9, <1>10

-----------------------------------------------------------------------------
(***************************************************************************)
(* The invariant of adoption, action by action.                            *)
(***************************************************************************)
\* One call changes.
LEMMA OneTx ==
    ASSUME tx \in Seq(TxType), NEW t \in Txs, NEW r \in TxType, tx' = [tx EXCEPT ![t] = r]
    PROVE  /\ tx' \in Seq(TxType) /\ Txs' = Txs /\ Len(tx') = Len(tx)
           /\ tx'[t] = r /\ \A u \in Txs \ {t} : tx'[u] = tx[u]
BY DEF Txs

LEMMA TxIs ==
    ASSUME tx \in Seq(TxType), NEW t \in Txs
    PROVE  /\ tx[t] \in TxType
           /\ tx[t].pc \in {"queued", "loaded", "write", "hand", "done"} /\ tx[t].pk \in Pubs
           /\ tx[t].nodes \in Seq(Addrs \cup {Junk}) /\ tx[t].file \in FileType
           /\ tx[t].at \in Nat /\ tx[t].session \in Nat
           /\ tx[t].granted \in SUBSET Addrs /\ tx[t].handed \in SUBSET Addrs
<1>1. tx[t] \in TxType
  BY DEF Txs
<1> QED  BY <1>1 DEF TxType

LEMMA NoFileIs ==
    /\ NoFile \in FileType
    /\ \A p \in Pubs : NoFile.seen[p] = {} /\ Modest(NoFile.seen[p])
    /\ \A a \in Addrs : NoFile.adopted[a] = 0
<1>1. NoFile \in FileType /\ \A p \in Pubs : NoFile.seen[p] = {}
  BY DEF NoFile, FileType, Never
<1>2. Modest({})
  <2>1. \A s : InSubnet({}, s) = {}
    BY DEF InSubnet
  <2>2. IsFiniteSet({}) /\ Cardinality({}) = 0
    BY FS_EmptySet, Zenon
  <2> QED  BY <2>1, <2>2, LimitsAssumption DEF Modest
<1> QED  BY <1>1, <1>2 DEF NoFile, Never

LEMMA DoneIs ==
    ASSUME tx \in Seq(TxType), NEW t \in Txs
    PROVE  /\ Done(t) \in TxType
           /\ Done(t).pc = "done" /\ Done(t).pk = tx[t].pk /\ Done(t).file = NoFile
           /\ Done(t).at = tx[t].at /\ Done(t).session = tx[t].session
           /\ Done(t).granted = tx[t].granted /\ Done(t).handed = tx[t].handed
<1>1. tx[t] \in TxType
  BY TxIs
<1>2. <<>> \in Seq(Addrs \cup {Junk})
  OBVIOUS
<1>3. Done(t) \in TxType
  BY <1>1, <1>2, NoFileIs, Zenon DEF TxType, Done
<1> QED  BY <1>1, <1>3 DEF TxType, Done

\* The pairs that count for a process, if the calls keep their process and grant no more.
LEMMA GivenShrinks ==
    ASSUME NEW n \in Nat, IsFiniteSet(Given(n)),
           \A u \in Txs' : \/ tx'[u].granted = {}
                           \/ u \in Txs /\ tx'[u].session = tx[u].session /\ tx'[u].granted \subseteq tx[u].granted
    PROVE  IsFiniteSet(Given(n)') /\ Cardinality(Given(n)') <= Cardinality(Given(n))
<1>1. Given(n)' \subseteq Given(n)
  BY Zenon DEF Given
<1> QED  BY <1>1, FS_Subset

LEMMA SpentKeeps ==
    ASSUME Spent, session \in Nat, session' = session, crashes' = crashes,
           \A u \in Txs' : \/ tx'[u].granted = {}
                           \/ u \in Txs /\ tx'[u].session = tx[u].session /\ tx'[u].granted \subseteq tx[u].granted
    PROVE  Spent'
<1>1. ASSUME NEW n \in Nat
      PROVE  /\ IsFiniteSet(Given(n)')
             /\ Cardinality(Given(n)') <= IF n = crashes THEN session ELSE PerSession
  <2>1. IsFiniteSet(Given(n)) /\ Cardinality(Given(n)) <= IF n = crashes THEN session ELSE PerSession
    BY DEF Spent
  <2>2. IsFiniteSet(Given(n)') /\ Cardinality(Given(n)') <= Cardinality(Given(n))
    BY <2>1, GivenShrinks
  <2>3. Cardinality(Given(n)) \in Nat /\ Cardinality(Given(n)') \in Nat
    BY <2>1, <2>2, FS_CardinalityType
  <2>4. (IF n = crashes THEN session ELSE PerSession) \in Nat
    BY LimitsAssumption
  <2> DEFINE g == Cardinality(Given(n))
             h == Cardinality(Given(n)')
             k == IF n = crashes THEN session ELSE PerSession
  <2>5. g \in Nat /\ h \in Nat /\ k \in Nat /\ g <= k /\ h <= g
    BY <2>1, <2>2, <2>3, <2>4
  <2> HIDE DEF g, h, k
  <2>6. h <= k
    BY <2>5
  <2> QED  BY <2>2, <2>6 DEF h, k
<1> QED  BY <1>1 DEF Spent

\* A call ends, and hands over what it has been granted or nothing.
LEMMA EndKeeps ==
    ASSUME AdoptInv, NEW t \in Txs, queue # <<>>, Head(queue) = t, queue' = Tail(queue),
           NEW r \in TxType, tx' = [tx EXCEPT ![t] = r],
           r.pc = "done", r.pk = tx[t].pk, r.file = NoFile, r.at = tx[t].at,
           r.session = tx[t].session, r.granted = tx[t].granted,
           \/ r.handed = tx[t].handed
           \/ tx[t].pc = "hand" /\ r.handed \subseteq tx[t].granted,
           UNCHANGED <<file, adopted, session, up, clock, crashes>>
    PROVE  AdoptInv'
<1>t. tx \in Seq(TxType) /\ queue \in Seq(Nat)
  BY DEF AdoptInv, AdoptTypes
<1>1. /\ tx' \in Seq(TxType) /\ Txs' = Txs
      /\ tx'[t] = r /\ \A u \in Txs \ {t} : tx'[u] = tx[u]
  BY <1>t, OneTx
<1>2. AdoptTypes'
  BY <1>t, <1>1 DEF AdoptInv, AdoptTypes
<1>3. \A u \in Txs : Active(u)' => Active(u) /\ u # t
  BY <1>1 DEF Active
<1>4. OneAtATime'
  <2>1. \A u \in Txs : ~Active(u)'
    BY <1>3 DEF AdoptInv, OneAtATime
  <2>2. up' # "down"
    BY DEF AdoptInv, OneAtATime
  <2>3. \A i \in DOMAIN queue' : queue'[i] \in Txs'
    BY <1>t, <1>1 DEF AdoptInv, OneAtATime
  <2>4. \A u \in Txs' : tx'[u].session <= crashes' /\ (tx'[u].pc # "done" => tx'[u].session = crashes')
    BY <1>1 DEF AdoptInv, OneAtATime
  <2> QED  BY <1>1, <2>1, <2>2, <2>3, <2>4 DEF OneAtATime
<1>5. Grants'
  <2>1. \A u \in Txs' : \A p \in Pubs : Modest(tx'[u].file.seen[p])
    BY <1>1, NoFileIs DEF AdoptInv, Grants
  <2>2. \A p \in Pubs : Modest(file'.seen[p])
    BY DEF AdoptInv, Grants
  <2>3. ASSUME NEW u \in Txs'
        PROVE  /\ tx'[u].pc \in {"loaded", "write"} => \A p \in Pubs : file'.seen[p] \subseteq tx'[u].file.seen[p]
               /\ tx'[u].pc = "write" => tx'[u].granted \subseteq tx'[u].file.seen[tx'[u].pk]
               /\ tx'[u].pc = "hand" => tx'[u].granted \subseteq file'.seen[tx'[u].pk]
               /\ tx'[u].handed \subseteq file'.seen[tx'[u].pk] /\ tx'[u].handed \subseteq tx'[u].granted
               /\ tx'[u].pc # "done" => tx'[u].handed = {}
    BY <1>1 DEF AdoptInv, Grants
  <2> QED  BY <2>1, <2>2, <2>3 DEF Grants, Modest
<1>6. Spent'
  BY <1>1, SpentKeeps DEF AdoptInv, AdoptTypes
<1>7. Marks'
  <2>1. /\ \A a \in Addrs : adopted'[a] <= clock' /\ file'.adopted[a] <= clock'
        /\ \A u \in Txs' : \A a \in Addrs : tx'[u].file.adopted[a] <= clock'
        /\ \A u \in Txs' : tx'[u].at <= clock' /\ (tx'[u].granted # {} => tx'[u].at >= 1)
    BY <1>1, NoFileIs DEF AdoptInv, AdoptTypes, Marks
  <2>2. \A u \in Txs' : tx'[u].pc \notin {"write", "hand"}
    BY <1>3, <1>1 DEF Active, AdoptInv, OneAtATime
  <2>3. \A u \in Txs' : \A a \in tx'[u].handed :
          /\ up' # "down" => Marked(adopted, a, tx[u].at)
          /\ Marked(file.adopted, a, tx[u].at)
          /\ tx'[u].at = tx[u].at
    BY <1>1 DEF AdoptInv, Marks, Grants
  <2> QED  BY <2>1, <2>2, <2>3 DEF Marks, Marked
<1> QED  BY <1>2, <1>4, <1>5, <1>6, <1>7 DEF AdoptInv

LEMMA AdoptKeeps ==
    ASSUME AdoptInv, NEW pk \in Pubs, NEW nodes \in Lists[pk], Adopt(pk, nodes)
    PROVE  AdoptInv'
<1> DEFINE r == Call(pk, nodes)
           m == Len(tx) + 1
<1>t. tx \in Seq(TxType) /\ queue \in Seq(Nat) /\ crashes \in Nat /\ clock \in Nat
  BY LimitsAssumption DEF AdoptInv, AdoptTypes
<1>r. /\ r \in TxType
      /\ r.pc = "queued" /\ r.pk = pk /\ r.file = NoFile /\ r.at = 0
      /\ r.session = crashes /\ r.granted = {} /\ r.handed = {}
  <2>1. nodes \in Seq(Addrs \cup {Junk})
    BY ListsAssumption
  <2> QED  BY <1>t, <2>1, NoFileIs DEF Call, TxType, Never
<1> HIDE DEF r
<1>a. /\ tx' = Append(tx, r) /\ queue' = Append(queue, m) /\ up # "down"
      /\ UNCHANGED <<file, adopted, session, up, clock, crashes>>
  BY DEF Adopt, r
<1>1. /\ tx' \in Seq(TxType) /\ Txs' = Txs \cup {m} /\ m \notin Txs
      /\ tx'[m] = r /\ \A u \in Txs : tx'[u] = tx[u]
  BY <1>t, <1>r, <1>a DEF Txs
<1>2. AdoptTypes'
  BY <1>t, <1>a, <1>1 DEF AdoptInv, AdoptTypes
<1>4. OneAtATime'
  <2>1. \A u \in Txs' : Active(u)' => u \in Txs /\ Active(u)
    BY <1>1, <1>r DEF Active
  <2>2. queue # <<>> => queue' # <<>> /\ Head(queue') = Head(queue)
    BY <1>t, <1>a, SMTT(60)
  <2>3. \A u \in Txs' : Active(u)' => queue' # <<>> /\ Head(queue') = u
    BY <2>1, <2>2 DEF AdoptInv, OneAtATime
  <2>4. \A i \in DOMAIN queue' : queue'[i] \in Txs'
    BY <1>t, <1>a, <1>1 DEF AdoptInv, OneAtATime
  <2>5. \A u \in Txs' : tx'[u].session <= crashes' /\ (tx'[u].pc # "done" => tx'[u].session = crashes')
    <3>1. \A u \in Txs : tx[u].session <= crashes /\ (tx[u].pc # "done" => tx[u].session = crashes)
      BY DEF AdoptInv, OneAtATime
    <3>2. tx'[m].session <= crashes /\ tx'[m].session = crashes
      BY <1>t, <1>r, <1>1
    <3> QED  BY <1>a, <1>1, <3>1, <3>2, Zenon
  <2> QED  BY <1>a, <2>3, <2>4, <2>5 DEF OneAtATime
<1>5. Grants'
  <2>1. \A u \in Txs' : \A p \in Pubs : Modest(tx'[u].file.seen[p])
    BY <1>1, <1>r, NoFileIs DEF AdoptInv, Grants
  <2>2. \A p \in Pubs : Modest(file'.seen[p])
    BY <1>a DEF AdoptInv, Grants
  <2>3. ASSUME NEW u \in Txs'
        PROVE  /\ tx'[u].pc \in {"loaded", "write"} => \A p \in Pubs : file'.seen[p] \subseteq tx'[u].file.seen[p]
               /\ tx'[u].pc = "write" => tx'[u].granted \subseteq tx'[u].file.seen[tx'[u].pk]
               /\ tx'[u].pc = "hand" => tx'[u].granted \subseteq file'.seen[tx'[u].pk]
               /\ tx'[u].handed \subseteq file'.seen[tx'[u].pk] /\ tx'[u].handed \subseteq tx'[u].granted
               /\ tx'[u].pc # "done" => tx'[u].handed = {}
    BY <1>1, <1>a, <1>r, ZenonT(60) DEF AdoptInv, Grants
  <2> QED  BY <2>1, <2>2, <2>3 DEF Grants, Modest
<1>6. Spent'
  BY <1>1, <1>a, <1>r, SpentKeeps DEF AdoptInv, AdoptTypes
<1>7. Marks'
  <2>1. /\ \A a \in Addrs : adopted'[a] <= clock' /\ file'.adopted[a] <= clock'
        /\ \A u \in Txs' : \A a \in Addrs : tx'[u].file.adopted[a] <= clock'
        /\ \A u \in Txs' : tx'[u].at <= clock' /\ (tx'[u].granted # {} => tx'[u].at >= 1)
    <3>1. /\ \A a \in Addrs : adopted[a] <= clock /\ file.adopted[a] <= clock
          /\ \A u \in Txs : \A a \in Addrs : tx[u].file.adopted[a] <= clock
          /\ \A u \in Txs : tx[u].at <= clock /\ (tx[u].granted # {} => tx[u].at >= 1)
      BY DEF AdoptInv, Marks
    <3>2. /\ \A a \in Addrs : tx'[m].file.adopted[a] <= clock
          /\ tx'[m].at <= clock /\ tx'[m].granted = {}
      BY <1>t, <1>r, <1>1, NoFileIs
    <3> QED  BY <1>a, <1>1, <3>1, <3>2, Zenon
  <2>2. \A u \in Txs' : \A a \in tx'[u].granted :
          /\ tx'[u].pc \in {"write", "hand"} => Marked(adopted, a, tx'[u].at)
          /\ tx'[u].pc = "write" => Marked(tx'[u].file.adopted, a, tx'[u].at)
          /\ tx'[u].pc = "hand" => Marked(file.adopted, a, tx'[u].at)
    BY <1>1, <1>r DEF AdoptInv, Marks
  <2>3. \A u \in Txs' : \A a \in tx'[u].handed :
          /\ up' # "down" => Marked(adopted, a, tx'[u].at)
          /\ Marked(file.adopted, a, tx'[u].at)
          /\ \A v \in Txs' : tx'[v].pc = "write" => Marked(tx'[v].file.adopted, a, tx'[u].at)
    <3>1. \A u \in Txs : \A a \in tx[u].handed :
            /\ up # "down" => Marked(adopted, a, tx[u].at)
            /\ Marked(file.adopted, a, tx[u].at)
            /\ \A v \in Txs : tx[v].pc = "write" => Marked(tx[v].file.adopted, a, tx[u].at)
      BY DEF AdoptInv, Marks
    <3>2. tx'[m].handed = {} /\ tx'[m].pc = "queued"
      BY <1>r, <1>1
    <3>3. \A v \in Txs' : tx'[v].pc = "write" => v \in Txs /\ tx'[v] = tx[v]
      BY <1>1, <3>2
    <3>4. \A u \in Txs' : \A a \in tx'[u].handed : u \in Txs /\ tx'[u] = tx[u]
      BY <1>1, <3>2
    <3> QED  BY <1>a, <3>1, <3>3, <3>4, Zenon
  <2> QED  BY <1>a, <2>1, <2>2, <2>3 DEF Marks, Marked
<1> QED  BY <1>2, <1>4, <1>5, <1>6, <1>7 DEF AdoptInv

LEMMA HeadIs ==
    ASSUME AdoptInv, NEW t, queue # <<>>, Head(queue) = t
    PROVE  t \in Txs /\ up # "down" /\ \A u \in Txs \ {t} : ~Active(u)
<1>1. queue \in Seq(Nat)
  BY DEF AdoptInv, AdoptTypes
<1>2. queue[1] = t /\ 1 \in DOMAIN queue
  BY <1>1
<1> QED  BY <1>2 DEF AdoptInv, OneAtATime

LEMMA SkipKeeps ==
    ASSUME AdoptInv, NEW t, Skip(t) \/ PersistFails(t)
    PROVE  AdoptInv'
<1>1. /\ queue # <<>> /\ Head(queue) = t /\ queue' = Tail(queue) /\ tx' = [tx EXCEPT ![t] = Done(t)]
      /\ UNCHANGED <<file, adopted, session, up, clock, crashes>>
  BY DEF Skip, PersistFails, Turn
<1>2. t \in Txs /\ tx \in Seq(TxType)
  BY <1>1, HeadIs DEF AdoptInv, AdoptTypes
<1> QED  BY <1>1, <1>2, DoneIs, EndKeeps

LEMMA HandKeeps ==
    ASSUME AdoptInv, NEW t, Hand(t)
    PROVE  AdoptInv'
<1> DEFINE given == IF up = "running" THEN tx[t].granted ELSE {}
           r == [Done(t) EXCEPT !.handed = given]
<1>1. /\ queue # <<>> /\ Head(queue) = t /\ queue' = Tail(queue) /\ tx' = [tx EXCEPT ![t] = r]
      /\ tx[t].pc = "hand"
      /\ UNCHANGED <<file, adopted, session, up, clock, crashes>>
  BY DEF Hand, MayHand
<1>2. t \in Txs /\ tx \in Seq(TxType)
  BY <1>1, HeadIs DEF AdoptInv, AdoptTypes
<1>3. given \in SUBSET Addrs /\ given \subseteq tx[t].granted
  BY <1>2, TxIs
<1> HIDE DEF given
<1>4. /\ r \in TxType /\ r.pc = "done" /\ r.pk = tx[t].pk /\ r.file = NoFile /\ r.at = tx[t].at
      /\ r.session = tx[t].session /\ r.granted = tx[t].granted /\ r.handed \subseteq tx[t].granted
  BY <1>2, <1>3, DoneIs, ZenonT(60) DEF TxType
<1> HIDE DEF r
<1> QED  BY <1>1, <1>2, <1>4, EndKeeps

LEMMA SanitizedIs ==
    ASSUME AdoptTypes
    PROVE  /\ Sanitized(file) \in FileType /\ Sanitized(file).seen = file.seen
           /\ \A a \in Addrs : Sanitized(file).adopted[a] = IF Fresh(file.adopted[a]) THEN file.adopted[a] ELSE 0
<1> DEFINE now == [a \in Addrs |-> IF Fresh(file.adopted[a]) THEN file.adopted[a] ELSE Never]
<1>1. file \in FileType /\ file.seen \in [Pubs -> SUBSET Addrs] /\ file.adopted \in [Addrs -> Nat]
  BY DEF AdoptTypes, FileType
<1>2. now \in [Addrs -> Nat] /\ \A a \in Addrs : now[a] = IF Fresh(file.adopted[a]) THEN file.adopted[a] ELSE 0
  BY <1>1 DEF Never
<1> HIDE DEF now
<1>3. Sanitized(file) = [file EXCEPT !.adopted = now]
  BY DEF Sanitized, now
<1> QED  BY <1>1, <1>2, <1>3 DEF FileType

LEMMA LoadKeeps ==
    ASSUME AdoptInv, NEW t, Load(t)
    PROVE  AdoptInv'
<1> DEFINE S == Sanitized(file)
           r == [tx[t] EXCEPT !.pc = "loaded", !.file = S]
<1>1. /\ queue # <<>> /\ Head(queue) = t /\ tx' = [tx EXCEPT ![t] = r] /\ tx[t].pc = "queued"
      /\ UNCHANGED <<file, adopted, session, queue, up, clock, crashes>>
  BY DEF Load, Turn
<1>2. t \in Txs /\ tx \in Seq(TxType) /\ up # "down" /\ \A u \in Txs \ {t} : ~Active(u)
  BY <1>1, HeadIs DEF AdoptInv, AdoptTypes
<1>s. /\ S \in FileType /\ S.seen = file.seen
      /\ \A a \in Addrs : S.adopted[a] = file.adopted[a] \/ S.adopted[a] = 0
  BY SanitizedIs DEF AdoptInv
<1> HIDE DEF S
<1>3. /\ r \in TxType /\ r.pc = "loaded" /\ r.pk = tx[t].pk /\ r.file = S /\ r.at = tx[t].at
      /\ r.session = tx[t].session /\ r.granted = tx[t].granted /\ r.handed = tx[t].handed
  BY <1>2, <1>s, TxIs DEF TxType
<1> HIDE DEF r
<1>4. /\ tx' \in Seq(TxType) /\ Txs' = Txs
      /\ tx'[t] = r /\ \A u \in Txs \ {t} : tx'[u] = tx[u]
  BY <1>1, <1>2, <1>3, OneTx
<1>5. AdoptTypes'
  BY <1>1, <1>4 DEF AdoptInv, AdoptTypes
<1>6. OneAtATime'
  <2>1. \A u \in Txs' : Active(u)' => u = t
    BY <1>2, <1>4 DEF Active
  <2>2. \A u \in Txs' : tx'[u].session <= crashes' /\ (tx'[u].pc # "done" => tx'[u].session = crashes')
    BY <1>1, <1>3, <1>4, <1>2 DEF AdoptInv, OneAtATime
  <2> QED  BY <1>1, <1>4, <2>1, <2>2 DEF AdoptInv, OneAtATime
<1>7. Grants'
  <2>1. \A u \in Txs' : \A p \in Pubs : Modest(tx'[u].file.seen[p])
    BY <1>3, <1>4, <1>s DEF AdoptInv, Grants
  <2>2. \A p \in Pubs : Modest(file'.seen[p])
    BY <1>1 DEF AdoptInv, Grants
  <2>3. ASSUME NEW u \in Txs'
        PROVE  /\ tx'[u].pc \in {"loaded", "write"} => \A p \in Pubs : file'.seen[p] \subseteq tx'[u].file.seen[p]
               /\ tx'[u].pc = "write" => tx'[u].granted \subseteq tx'[u].file.seen[tx'[u].pk]
               /\ tx'[u].pc = "hand" => tx'[u].granted \subseteq file'.seen[tx'[u].pk]
               /\ tx'[u].handed \subseteq file'.seen[tx'[u].pk] /\ tx'[u].handed \subseteq tx'[u].granted
               /\ tx'[u].pc # "done" => tx'[u].handed = {}
    BY <1>1, <1>2, <1>3, <1>4, <1>s DEF AdoptInv, Grants
  <2> QED  BY <2>1, <2>2, <2>3 DEF Grants, Modest
<1>8. Spent'
  BY <1>1, <1>3, <1>4, SpentKeeps DEF AdoptInv, AdoptTypes
<1>9. Marks'
  <2>1. /\ \A a \in Addrs : adopted'[a] <= clock' /\ file'.adopted[a] <= clock'
        /\ \A u \in Txs' : \A a \in Addrs : tx'[u].file.adopted[a] <= clock'
        /\ \A u \in Txs' : tx'[u].at <= clock' /\ (tx'[u].granted # {} => tx'[u].at >= 1)
    <3>1. /\ \A a \in Addrs : adopted[a] <= clock /\ file.adopted[a] <= clock
          /\ \A u \in Txs : \A a \in Addrs : tx[u].file.adopted[a] <= clock
          /\ \A u \in Txs : tx[u].at <= clock /\ (tx[u].granted # {} => tx[u].at >= 1)
      BY DEF AdoptInv, Marks
    <3>2. \A a \in Addrs : S.adopted[a] <= clock
      BY <1>s, <3>1 DEF AdoptInv, AdoptTypes
    <3> QED  BY <1>1, <1>3, <1>4, <3>1, <3>2
  <2>2. \A u \in Txs' : tx'[u].pc \notin {"write", "hand"}
    BY <1>2, <1>3, <1>4 DEF Active
  <2>3. \A u \in Txs' : \A a \in tx'[u].handed :
          /\ up' # "down" => Marked(adopted, a, tx[u].at)
          /\ Marked(file.adopted, a, tx[u].at)
          /\ tx'[u].at = tx[u].at
    BY <1>1, <1>3, <1>4 DEF AdoptInv, Marks
  <2> QED  BY <1>1, <2>1, <2>2, <2>3 DEF Marks, Marked
<1> QED  BY <1>5, <1>6, <1>7, <1>8, <1>9 DEF AdoptInv

LEMMA PersistKeeps ==
    ASSUME AdoptInv, NEW t, Persist(t)
    PROVE  AdoptInv'
<1> DEFINE r == [tx[t] EXCEPT !.pc = "hand"]
<1>1. /\ queue # <<>> /\ Head(queue) = t /\ tx' = [tx EXCEPT ![t] = r] /\ tx[t].pc = "write"
      /\ file' = tx[t].file
      /\ UNCHANGED <<adopted, session, queue, up, clock, crashes>>
  BY DEF Persist, Turn
<1>2. t \in Txs /\ tx \in Seq(TxType) /\ up # "down" /\ \A u \in Txs \ {t} : ~Active(u)
  BY <1>1, HeadIs DEF AdoptInv, AdoptTypes
<1>3. /\ r \in TxType /\ r.pc = "hand" /\ r.pk = tx[t].pk /\ r.file = tx[t].file /\ r.at = tx[t].at
      /\ r.session = tx[t].session /\ r.granted = tx[t].granted /\ r.handed = tx[t].handed
  BY <1>2, TxIs DEF TxType
<1> HIDE DEF r
<1>4. /\ tx' \in Seq(TxType) /\ Txs' = Txs
      /\ tx'[t] = r /\ \A u \in Txs \ {t} : tx'[u] = tx[u]
  BY <1>1, <1>2, <1>3, OneTx
<1>5. AdoptTypes'
  BY <1>1, <1>2, <1>4, TxIs DEF AdoptInv, AdoptTypes
<1>6. OneAtATime'
  <2>1. \A u \in Txs' : Active(u)' => u = t
    BY <1>2, <1>4 DEF Active
  <2>2. \A u \in Txs' : tx'[u].session <= crashes' /\ (tx'[u].pc # "done" => tx'[u].session = crashes')
    BY <1>1, <1>3, <1>4, <1>2 DEF AdoptInv, OneAtATime
  <2> QED  BY <1>1, <1>4, <2>1, <2>2 DEF AdoptInv, OneAtATime
<1>7. Grants'
  <2>1. \A u \in Txs' : \A p \in Pubs : Modest(tx'[u].file.seen[p])
    BY <1>3, <1>4 DEF AdoptInv, Grants
  <2>2. \A p \in Pubs : Modest(file'.seen[p])
    BY <1>1, <1>2 DEF AdoptInv, Grants
  <2>3. \A p \in Pubs : file.seen[p] \subseteq file'.seen[p]
    BY <1>1, <1>2 DEF AdoptInv, Grants
  <2>4. \A u \in Txs' : tx'[u].pc \notin {"loaded", "write"} /\ tx'[u].pk \in Pubs /\ tx'[u].pk = tx[u].pk
    BY <1>2, <1>3, <1>4, TxIs DEF Active
  <2>5. \A u \in Txs' : tx'[u].pc = "hand" => tx'[u].granted \subseteq file'.seen[tx'[u].pk]
    BY <1>1, <1>2, <1>3, <1>4 DEF AdoptInv, Grants, Active
  <2>6. \A u \in Txs' : tx'[u].handed = tx[u].handed /\ tx'[u].granted = tx[u].granted
    BY <1>3, <1>4
  <2>7. \A u \in Txs' : tx'[u].handed \subseteq file'.seen[tx'[u].pk] /\ tx'[u].handed \subseteq tx'[u].granted
    BY <1>4, <2>3, <2>4, <2>6 DEF AdoptInv, Grants
  <2>8. \A u \in Txs' : tx'[u].pc # "done" => tx'[u].handed = {}
    BY <1>1, <1>2, <1>4, <2>6 DEF AdoptInv, Grants
  <2> QED  BY <2>1, <2>2, <2>4, <2>5, <2>7, <2>8 DEF Grants, Modest
<1>8. Spent'
  BY <1>1, <1>3, <1>4, SpentKeeps DEF AdoptInv, AdoptTypes
<1>9. Marks'
  <2>1. /\ \A a \in Addrs : adopted'[a] <= clock' /\ file'.adopted[a] <= clock'
        /\ \A u \in Txs' : \A a \in Addrs : tx'[u].file.adopted[a] <= clock'
        /\ \A u \in Txs' : tx'[u].at <= clock' /\ (tx'[u].granted # {} => tx'[u].at >= 1)
    BY <1>1, <1>2, <1>3, <1>4 DEF AdoptInv, Marks
  <2>2. \A u \in Txs' : tx'[u].pc \notin {"write"} /\ (tx'[u].pc = "hand" => u = t)
    BY <1>2, <1>3, <1>4 DEF Active
  <2>3. \A a \in tx'[t].granted : Marked(adopted, a, tx'[t].at) /\ Marked(tx[t].file.adopted, a, tx'[t].at)
    BY <1>1, <1>2, <1>3, <1>4 DEF AdoptInv, Marks
  <2>4. \A u \in Txs' : \A a \in tx'[u].handed :
          /\ up # "down" => Marked(adopted, a, tx[u].at)
          /\ Marked(tx[t].file.adopted, a, tx[u].at)
          /\ tx'[u].at = tx[u].at
    BY <1>1, <1>2, <1>3, <1>4 DEF AdoptInv, Marks
  <2> QED  BY <1>1, <2>1, <2>2, <2>3, <2>4 DEF Marks, Marked
<1> QED  BY <1>5, <1>6, <1>7, <1>8, <1>9 DEF AdoptInv

\* The call is through with its list: nothing to grant, or a grant to be written.
LEMMA GrantKeeps ==
    ASSUME AdoptInv, NEW t, Grant(t)
    PROVE  AdoptInv'
<1> DEFINE seen == tx[t].file.seen[tx[t].pk]
<1>0. queue # <<>> /\ Head(queue) = t /\ tx[t].pc = "loaded" /\ UNCHANGED <<file, up, clock, crashes>>
  BY DEF Grant, Turn
<1>t. /\ t \in Txs /\ tx \in Seq(TxType) /\ up # "down" /\ \A u \in Txs \ {t} : ~Active(u)
      /\ adopted \in [Addrs -> Nat] /\ session \in Nat /\ clock \in Nat /\ clock >= 1 /\ PerSession \in Nat
  BY <1>0, HeadIs, LimitsAssumption, SMTT(60) DEF AdoptInv, AdoptTypes
<1>f. /\ tx[t] \in TxType /\ tx[t].pk \in Pubs /\ tx[t].nodes \in Seq(Addrs \cup {Junk})
      /\ tx[t].file.seen \in [Pubs -> SUBSET Addrs]
  BY <1>t, TxIs DEF FileType
<1>m. Modest(seen)
  BY <1>t, <1>f DEF AdoptInv, Grants
<1>1. PICK table \in SUBSET Addrs :
       LET A == {tx[t].nodes[i] : i \in Taken(t, table)}
           now == [a \in Addrs |-> IF a \in A THEN clock ELSE adopted[a]]
           new == [seen |-> [tx[t].file.seen EXCEPT ![tx[t].pk] = @ \cup A], adopted |-> now]
       IN  /\ adopted' = now
           /\ session' = session + Cardinality(A)
           /\ IF A = {}
              THEN tx' = [tx EXCEPT ![t] = Done(t)] /\ queue' = Tail(queue)
              ELSE /\ tx' = [tx EXCEPT ![t] = [@ EXCEPT !.pc = "write", !.file = new, !.at = clock, !.granted = A]]
                   /\ UNCHANGED queue
  BY Zenon DEF Grant
<1> DEFINE A == {tx[t].nodes[i] : i \in Taken(t, table)}
           now == [a \in Addrs |-> IF a \in A THEN clock ELSE adopted[a]]
           seen2 == [tx[t].file.seen EXCEPT ![tx[t].pk] = @ \cup A]
           new == [seen |-> seen2, adopted |-> now]
           r == [tx[t] EXCEPT !.pc = "write", !.file = new, !.at = clock, !.granted = A]
<1>2. /\ A \subseteq Addrs /\ IsFiniteSet(A) /\ Modest(seen \cup A)
      /\ session + Cardinality(A) <= PerSession
  BY <1>t, <1>f, <1>m, TakenModest DEF AdoptInv, Spent
<1>3. adopted' = now /\ session' = session + Cardinality(A)
  BY <1>1
<1>4. /\ A = {} => tx' = [tx EXCEPT ![t] = Done(t)] /\ queue' = Tail(queue)
      /\ A # {} => tx' = [tx EXCEPT ![t] = r] /\ queue' = queue
  BY <1>1, <1>f
<1> HIDE DEF A
<1>n. /\ now \in [Addrs -> Nat]
      /\ \A a \in Addrs : now[a] = IF a \in A THEN clock ELSE adopted[a]
  BY <1>t
<1> HIDE DEF now
<1>5. CASE A = {}
  <2>1. adopted' = adopted
    BY <1>t, <1>n, <1>3, <1>5
  <2>2. session' = session
    <3>1. Cardinality(A) = 0
      BY <1>5, FS_EmptySet, Zenon
    <3> QED  BY <1>t, <1>3, <3>1
  <2> QED  BY <1>0, <1>t, <1>4, <1>5, <2>1, <2>2, DoneIs, EndKeeps, SMTT(60)
<1>6. CASE A # {}
  <2>s. /\ seen2 \in [Pubs -> SUBSET Addrs] /\ seen2[tx[t].pk] = seen \cup A
        /\ \A p \in Pubs : p # tx[t].pk => seen2[p] = tx[t].file.seen[p]
    BY <1>f, <1>2
  <2> HIDE DEF seen2
  <2>1. new \in FileType /\ new.seen = seen2 /\ new.adopted = now
    BY <1>n, <2>s DEF FileType
  <2> HIDE DEF new
  <2>2. /\ r.pc = "write" /\ r.pk = tx[t].pk /\ r.file = new /\ r.at = clock
        /\ r.session = tx[t].session /\ r.granted = A /\ r.handed = tx[t].handed
    BY <1>f DEF TxType
  <2>3. r \in TxType
    BY <1>t, <1>f, <1>2, <2>1, Zenon DEF TxType
  <2> HIDE DEF r
  <2>4. /\ tx' \in Seq(TxType) /\ Txs' = Txs /\ queue' = queue
        /\ tx'[t] = r /\ \A u \in Txs \ {t} : tx'[u] = tx[u]
    BY <1>t, <1>4, <1>6, <2>3, OneTx
  <2>h. tx[t].handed = {}
    BY <1>0, <1>t DEF AdoptInv, Grants
  <2>5. AdoptTypes'
    <3>1. Cardinality(A) \in Nat
      BY <1>2, FS_CardinalityType
    <3>2. session' \in Nat
      BY <1>t, <1>3, <3>1
    <3> QED  BY <1>0, <1>n, <1>3, <2>4, <3>2 DEF AdoptInv, AdoptTypes
  <2>6. OneAtATime'
    <3>1. \A u \in Txs' : Active(u)' => u = t
      BY <1>t, <2>4 DEF Active
    <3>2. \A u \in Txs' : tx'[u].session <= crashes' /\ (tx'[u].pc # "done" => tx'[u].session = crashes')
      BY <1>0, <1>t, <2>2, <2>4 DEF AdoptInv, OneAtATime
    <3> QED  BY <1>0, <1>t, <2>4, <3>1, <3>2 DEF AdoptInv, OneAtATime
  <2>7. Grants'
    <3>1. \A u \in Txs' : \A p \in Pubs : Modest(tx'[u].file.seen[p])
      <4>1. \A p \in Pubs : Modest(seen2[p])
        BY <1>t, <1>2, <2>s DEF AdoptInv, Grants
      <4> QED  BY <2>1, <2>2, <2>4, <4>1 DEF AdoptInv, Grants
    <3>2. \A p \in Pubs : Modest(file'.seen[p])
      BY <1>0 DEF AdoptInv, Grants
    <3>3. \A p \in Pubs : file'.seen[p] \subseteq seen2[p]
      BY <1>0, <1>t, <2>s DEF AdoptInv, Grants
    <3>4. ASSUME NEW u \in Txs'
          PROVE  /\ tx'[u].pc \in {"loaded", "write"} => \A p \in Pubs : file'.seen[p] \subseteq tx'[u].file.seen[p]
                 /\ tx'[u].pc = "write" => tx'[u].granted \subseteq tx'[u].file.seen[tx'[u].pk]
                 /\ tx'[u].pc = "hand" => tx'[u].granted \subseteq file'.seen[tx'[u].pk]
                 /\ tx'[u].handed \subseteq file'.seen[tx'[u].pk] /\ tx'[u].handed \subseteq tx'[u].granted
                 /\ tx'[u].pc # "done" => tx'[u].handed = {}
      <4>1. CASE u = t
        BY <1>0, <2>1, <2>2, <2>4, <2>h, <2>s, <3>3, <4>1
      <4>2. CASE u # t
        BY <1>0, <1>t, <2>4, <4>2 DEF AdoptInv, Grants
      <4> QED  BY <4>1, <4>2
    <3> QED  BY <3>1, <3>2, <3>4 DEF Grants, Modest
  <2>8. Spent'
    <3> DEFINE c == Cardinality(A)
               pairs == {<<t, a>> : a \in A}
    <3>1. c \in Nat
      BY <1>2, FS_CardinalityType
    <3>2. IsFiniteSet(pairs) /\ Cardinality(pairs) <= c
      <4>1. [a \in A |-> <<t, a>>] \in Surjection(A, pairs)
        BY DEF Surjection
      <4> QED  BY <1>2, <4>1, FS_Surjection
    <3>3. tx[t].session = crashes
      BY <1>0, <1>t DEF AdoptInv, OneAtATime
    <3>4. \A n \in Nat : n # crashes => Given(n)' \subseteq Given(n)
      BY <2>2, <2>4, <3>3 DEF Given
    <3>5. Given(crashes)' \subseteq Given(crashes) \cup pairs
      <4>1. ASSUME NEW x \in Given(crashes)'  PROVE x \in Given(crashes) \cup pairs
        <5>1. /\ x \in Txs \X Addrs /\ tx'[x[1]].session = crashes
              /\ x[2] \in tx'[x[1]].granted
          BY <1>0, <2>4, Zenon DEF Given
        <5>2. CASE x[1] = t
          BY <2>2, <2>4, <5>1, <5>2
        <5>3. CASE x[1] # t
          BY <2>4, <5>1, <5>3 DEF Given
        <5> QED  BY <5>2, <5>3
      <4> QED  BY <4>1
    <3>6. ASSUME NEW n \in Nat
          PROVE  /\ IsFiniteSet(Given(n)')
                 /\ Cardinality(Given(n)') <= IF n = crashes THEN session' ELSE PerSession
      <4>1. IsFiniteSet(Given(n)) /\ Cardinality(Given(n)) <= IF n = crashes THEN session ELSE PerSession
        BY DEF AdoptInv, Spent
      <4>2. CASE n # crashes
        <5>1. IsFiniteSet(Given(n)') /\ Cardinality(Given(n)') <= Cardinality(Given(n))
          BY <3>4, <4>1, <4>2, FS_Subset
        <5>2. Cardinality(Given(n)) \in Nat /\ Cardinality(Given(n)') \in Nat
          BY <4>1, <5>1, FS_CardinalityType
        <5> DEFINE g == Cardinality(Given(n))
                   h == Cardinality(Given(n)')
        <5>3. g \in Nat /\ h \in Nat /\ g <= PerSession /\ h <= g
          BY <4>1, <4>2, <5>1, <5>2
        <5> HIDE DEF g, h
        <5>4. h <= PerSession
          BY <1>t, <5>3
        <5> QED  BY <4>2, <5>1, <5>4 DEF h
      <4>3. CASE n = crashes
        <5> DEFINE G == Given(n)
                   H == Given(n)'
        <5>1. IsFiniteSet(G \cup pairs) /\ Cardinality(G \cup pairs) <= Cardinality(G) + Cardinality(pairs)
          <6>1. IsFiniteSet(G)
            BY <4>1
          <6>2. /\ IsFiniteSet(G \cup pairs)
                /\ Cardinality(G \cup pairs) = Cardinality(G) + Cardinality(pairs) - Cardinality(G \cap pairs)
            BY <3>2, <6>1, FS_Union
          <6>3. IsFiniteSet(G \cap pairs)
            BY <6>1, FS_Intersection
          <6>4. /\ Cardinality(G \cap pairs) \in Nat /\ Cardinality(G) \in Nat
                /\ Cardinality(pairs) \in Nat /\ Cardinality(G \cup pairs) \in Nat
            BY <3>2, <6>1, <6>2, <6>3, FS_CardinalityType
          <6> HIDE DEF G, pairs
          <6> QED  BY <6>2, <6>4
        <5>2. H \subseteq G \cup pairs
          <6>1. Given(n)' \subseteq Given(n) \cup pairs
            <7>1. n' = crashes
              BY <4>3
            <7> QED  BY <1>0, <3>5, <4>3 DEF Given
          <6> QED  BY <6>1
        <5>3. IsFiniteSet(H) /\ Cardinality(H) <= Cardinality(G \cup pairs)
          <6> HIDE DEF G, H, pairs
          <6> QED  BY <5>1, <5>2, FS_Subset
        <5>4. /\ Cardinality(H) \in Nat /\ Cardinality(G \cup pairs) \in Nat
              /\ Cardinality(G) \in Nat /\ Cardinality(pairs) \in Nat
          <6>1. IsFiniteSet(G)
            BY <4>1
          <6> HIDE DEF G, H, pairs
          <6> QED  BY <3>2, <5>1, <5>3, <6>1, FS_CardinalityType
        <5>5. Cardinality(G) <= session
          BY <4>1, <4>3
        <5> DEFINE h == Cardinality(H)
                   u == Cardinality(G \cup pairs)
                   g == Cardinality(G)
                   p == Cardinality(pairs)
        <5>6. /\ h \in Nat /\ u \in Nat /\ g \in Nat /\ p \in Nat
              /\ h <= u /\ u <= g + p /\ g <= session /\ p <= c
          BY <3>2, <5>1, <5>3, <5>4, <5>5
        <5>7. session' = session + c
          BY <1>3
        <5> HIDE DEF h, u, g, p, c
        <5>8. h <= session'
          BY <1>t, <3>1, <5>6, <5>7
        <5>9. IsFiniteSet(Given(n)') /\ Cardinality(Given(n)') <= session'
          BY <5>3, <5>8 DEF h
        <5> QED  BY <4>3, <5>9
      <4> QED  BY <4>2, <4>3
    <3>7. session' <= PerSession
      BY <1>2, <1>3
    <3> QED  BY <1>0, <3>6, <3>7 DEF Spent
  <2>9. Marks'
    <3>0. \A a \in Addrs : now[a] <= clock /\ now[a] \in Nat /\ now[a] >= adopted[a]
      BY <1>t, <1>n DEF AdoptInv, Marks
    <3>1. /\ \A a \in Addrs : adopted'[a] <= clock' /\ file'.adopted[a] <= clock'
          /\ \A u \in Txs' : \A a \in Addrs : tx'[u].file.adopted[a] <= clock'
          /\ \A u \in Txs' : tx'[u].at <= clock' /\ (tx'[u].granted # {} => tx'[u].at >= 1)
      <4>1. \A a \in Addrs : adopted'[a] <= clock' /\ file'.adopted[a] <= clock'
        BY <1>0, <1>3, <3>0 DEF AdoptInv, Marks
      <4>2. \A u \in Txs' : \A a \in Addrs : tx'[u].file.adopted[a] <= clock'
        BY <1>0, <2>1, <2>2, <2>4, <3>0 DEF AdoptInv, Marks
      <4>3. \A u \in Txs' : tx'[u].at <= clock' /\ (tx'[u].granted # {} => tx'[u].at >= 1)
        BY <1>0, <1>t, <2>2, <2>4 DEF AdoptInv, Marks
      <4> QED  BY <4>1, <4>2, <4>3
    <3>2. \A u \in Txs' : tx'[u].pc \notin {"hand"} /\ (tx'[u].pc = "write" => u = t)
      BY <1>t, <2>2, <2>4 DEF Active
    <3>3. \A a \in tx'[t].granted : Marked(adopted', a, tx'[t].at) /\ Marked(tx'[t].file.adopted, a, tx'[t].at)
      BY <1>t, <1>2, <1>3, <1>n, <2>1, <2>2, <2>4 DEF Marked
    <3>4. \A u \in Txs' : \A a \in tx'[u].handed :
            /\ Marked(now, a, tx[u].at)
            /\ Marked(file.adopted, a, tx[u].at)
            /\ tx'[u].at = tx[u].at
      <4> SUFFICES ASSUME NEW u \in Txs', NEW a \in tx'[u].handed
                   PROVE  /\ Marked(now, a, tx[u].at)
                          /\ Marked(file.adopted, a, tx[u].at)
                          /\ tx'[u].at = tx[u].at
        OBVIOUS
      <4>1. u # t /\ u \in Txs /\ tx'[u] = tx[u]
        BY <2>2, <2>4, <2>h
      <4>2. a \in Addrs /\ tx[u].at \in Nat
        BY <1>t, <4>1, TxIs
      <4>3. Marked(adopted, a, tx[u].at) /\ Marked(file.adopted, a, tx[u].at)
        BY <1>t, <4>1 DEF AdoptInv, Marks
      <4>4. now[a] \in Nat /\ adopted[a] \in Nat /\ now[a] >= adopted[a]
        BY <1>t, <3>0, <4>2
      <4>5. Marked(now, a, tx[u].at)
        BY <4>2, <4>3, <4>4 DEF Marked
      <4> QED  BY <4>1, <4>3, <4>5
    <3> QED  BY <1>0, <1>3, <2>1, <2>2, <2>4, <3>1, <3>2, <3>3, <3>4 DEF Marks, Marked
  <2> QED  BY <2>5, <2>6, <2>7, <2>8, <2>9 DEF AdoptInv
<1> QED  BY <1>5, <1>6

LEMMA StopKeeps ==
    ASSUME AdoptInv, Stop
    PROVE  AdoptInv'
<1>1. /\ up = "running" /\ up' = "stopping"
      /\ UNCHANGED <<file, adopted, session, queue, tx, clock, crashes>> /\ Txs' = Txs
  BY DEF Stop, Txs
<1>2. AdoptTypes' /\ OneAtATime'
  BY <1>1 DEF AdoptInv, AdoptTypes, OneAtATime, Active
<1>3. Grants'
  BY <1>1 DEF AdoptInv, Grants, Modest
<1>4. Spent'
  BY <1>1, SpentKeeps DEF AdoptInv, AdoptTypes
<1>5. Marks'
  BY <1>1 DEF AdoptInv, Marks, Marked
<1> QED  BY <1>2, <1>3, <1>4, <1>5 DEF AdoptInv

LEMMA StartKeeps ==
    ASSUME AdoptInv, Start
    PROVE  AdoptInv'
<1> DEFINE S == Sanitized(file)
<1>1. /\ up = "down" /\ up' = "running" /\ adopted' = S.adopted
      /\ UNCHANGED <<file, session, queue, tx, clock, crashes>> /\ Txs' = Txs
  BY DEF Start, Restored, Txs
<1>t. tx \in Seq(TxType) /\ file \in FileType /\ clock \in Nat
  BY DEF AdoptInv, AdoptTypes
<1>s. /\ S \in FileType
      /\ \A a \in Addrs : S.adopted[a] = IF Fresh(file.adopted[a]) THEN file.adopted[a] ELSE 0
  BY SanitizedIs DEF AdoptInv
<1> HIDE DEF S
<1>f. S.adopted \in [Addrs -> Nat] /\ file.adopted \in [Addrs -> Nat]
  BY <1>t, <1>s DEF FileType
<1>2. AdoptTypes' /\ OneAtATime'
  BY <1>1, <1>f DEF AdoptInv, AdoptTypes, OneAtATime, Active
<1>3. Grants'
  BY <1>1 DEF AdoptInv, Grants, Modest
<1>4. Spent'
  BY <1>1, SpentKeeps DEF AdoptInv, AdoptTypes
<1>5. Marks'
  <2>1. \A a \in Addrs : adopted'[a] <= clock' /\ file'.adopted[a] <= clock'
    BY <1>1, <1>t, <1>s DEF AdoptInv, Marks
  <2>2. \A u \in Txs : tx[u].pc \notin {"write", "hand"}
    BY <1>1 DEF AdoptInv, OneAtATime, Active
  <2>3. ASSUME NEW u \in Txs, NEW a \in tx[u].handed
        PROVE  Marked(S.adopted, a, tx[u].at) /\ Marked(file.adopted, a, tx[u].at)
    <3>1. a \in Addrs /\ tx[u].at \in Nat /\ tx[u].granted # {}
      <4>1. a \in tx[u].granted
        BY DEF AdoptInv, Grants
      <4> QED  BY <1>t, <4>1, TxIs
    <3>2. tx[u].at >= 1 /\ Marked(file.adopted, a, tx[u].at)
      BY <3>1 DEF AdoptInv, Marks
    <3>3. file.adopted[a] \in Nat /\ S.adopted[a] \in Nat /\ Ttl \in Nat
      BY <1>f, <3>1, TimesAssumption
    <3>4. CASE Fresh(file.adopted[a])
      BY <1>s, <3>1, <3>2, <3>4 DEF Marked
    <3>5. CASE ~Fresh(file.adopted[a])
      <4>1. clock - tx[u].at >= Ttl
        BY <1>t, <3>1, <3>2, <3>3, <3>5, SMTT(60) DEF Marked, Fresh, Never
      <4> QED  BY <3>2, <4>1 DEF Marked
    <3> QED  BY <3>4, <3>5
  <2> QED  BY <1>1, <2>1, <2>2, <2>3 DEF AdoptInv, Marks, Marked
<1> QED  BY <1>2, <1>3, <1>4, <1>5 DEF AdoptInv

LEMMA TimeKeeps ==
    ASSUME AdoptInv, TimePasses
    PROVE  AdoptInv'
<1>1. /\ clock < TimesMax /\ clock' = clock + 1
      /\ UNCHANGED <<file, adopted, session, queue, tx, up, crashes>> /\ Txs' = Txs
  BY DEF TimePasses, Txs
<1>t. tx \in Seq(TxType) /\ file \in FileType /\ clock \in 1..TimesMax /\ TimesMax \in Nat /\ adopted \in [Addrs -> Nat]
  BY LimitsAssumption DEF AdoptInv, AdoptTypes
<1>2. AdoptTypes' /\ OneAtATime'
  BY <1>1, <1>t DEF AdoptInv, AdoptTypes, OneAtATime, Active
<1>3. Grants'
  BY <1>1 DEF AdoptInv, Grants, Modest
<1>4. Spent'
  BY <1>1, SpentKeeps DEF AdoptInv, AdoptTypes
<1>5. Marks'
  <2>1. \A times, a, at : at \in Nat /\ Marked(times, a, at) => Marked(times, a, at)'
    <3> SUFFICES ASSUME NEW times, NEW a, NEW at \in Nat, Marked(times, a, at)
                 PROVE  times[a] >= at \/ clock' - at >= Ttl
      BY DEF Marked
    <3> QED  BY <1>1, <1>t, TimesAssumption DEF Marked
  <2>2. \A u \in Txs : tx[u].at \in Nat /\ tx[u].granted \subseteq Addrs /\ tx[u].handed \subseteq Addrs
    BY <1>t, TxIs
  <2>3. \A a \in Addrs : adopted'[a] <= clock' /\ file'.adopted[a] <= clock'
    <3>1. \A a \in Addrs : adopted[a] \in Nat /\ file.adopted[a] \in Nat
      BY <1>t DEF FileType
    <3> QED  BY <1>1, <1>t, <3>1 DEF AdoptInv, Marks
  <2>4. \A u \in Txs' : \A a \in Addrs : tx'[u].file.adopted[a] <= clock'
    <3>1. \A u \in Txs : \A a \in Addrs : tx[u].file.adopted[a] \in Nat
      BY <1>t, TxIs DEF FileType
    <3> QED  BY <1>1, <1>t, <3>1 DEF AdoptInv, Marks
  <2>5. \A u \in Txs' : tx'[u].at <= clock' /\ (tx'[u].granted # {} => tx'[u].at >= 1)
    BY <1>1, <1>t, <2>2 DEF AdoptInv, Marks
  <2>6. \A u \in Txs' : \A a \in tx'[u].granted :
          /\ tx'[u].pc \in {"write", "hand"} => Marked(adopted, a, tx[u].at)'
          /\ tx'[u].pc = "write" => Marked(tx[u].file.adopted, a, tx[u].at)'
          /\ tx'[u].pc = "hand" => Marked(file.adopted, a, tx[u].at)'
    <3> SUFFICES ASSUME NEW u \in Txs, NEW a \in tx[u].granted
                 PROVE  /\ tx[u].pc \in {"write", "hand"} => Marked(adopted, a, tx[u].at)'
                        /\ tx[u].pc = "write" => Marked(tx[u].file.adopted, a, tx[u].at)'
                        /\ tx[u].pc = "hand" => Marked(file.adopted, a, tx[u].at)'
      BY <1>1
    <3>1. /\ tx[u].pc \in {"write", "hand"} => Marked(adopted, a, tx[u].at)
          /\ tx[u].pc = "write" => Marked(tx[u].file.adopted, a, tx[u].at)
          /\ tx[u].pc = "hand" => Marked(file.adopted, a, tx[u].at)
      BY DEF AdoptInv, Marks
    <3>2. UNCHANGED <<tx[u], file, adopted>> /\ tx[u].at \in Nat
      BY <1>1, <2>2
    <3> QED  BY <1>1, <1>t, <3>1, <3>2, TimesAssumption DEF Marked
  <2>7. \A u \in Txs' : \A a \in tx'[u].handed :
          /\ up' # "down" => Marked(adopted, a, tx[u].at)'
          /\ Marked(file.adopted, a, tx[u].at)'
          /\ \A v \in Txs' : tx'[v].pc = "write" => Marked(tx[v].file.adopted, a, tx[u].at)'
    <3> SUFFICES ASSUME NEW u \in Txs, NEW a \in tx[u].handed
                 PROVE  /\ up # "down" => Marked(adopted, a, tx[u].at)'
                        /\ Marked(file.adopted, a, tx[u].at)'
                        /\ \A v \in Txs : tx[v].pc = "write" => Marked(tx[v].file.adopted, a, tx[u].at)'
      BY <1>1
    <3>1. /\ up # "down" => Marked(adopted, a, tx[u].at)
          /\ Marked(file.adopted, a, tx[u].at)
          /\ \A v \in Txs : tx[v].pc = "write" => Marked(tx[v].file.adopted, a, tx[u].at)
      BY DEF AdoptInv, Marks
    <3>2. UNCHANGED <<tx, file, adopted>> /\ tx[u].at \in Nat
      BY <1>1, <2>2
    <3> QED  BY <1>1, <1>t, <3>1, <3>2, TimesAssumption DEF Marked
  <2> QED  BY <1>1, <2>3, <2>4, <2>5, <2>6, <2>7 DEF Marks
<1> QED  BY <1>2, <1>3, <1>4, <1>5 DEF AdoptInv

LEMMA CrashKeeps ==
    ASSUME AdoptInv, Crash
    PROVE  AdoptInv'
<1>1. /\ up # "down" /\ crashes < CrashesMax /\ up' = "down" /\ crashes' = crashes + 1
      /\ tx' = [t \in Txs |-> Done(t)] /\ queue' = <<>>
      /\ adopted' = NoFile.adopted /\ session' = 0 /\ UNCHANGED <<file, clock>>
  BY DEF Crash
<1>t. /\ tx \in Seq(TxType) /\ crashes \in 0..CrashesMax /\ CrashesMax \in Nat
      /\ PerSession \in Nat /\ clock \in Nat
  BY LimitsAssumption DEF AdoptInv, AdoptTypes
<1>2. \A t \in Txs : Done(t) \in TxType
  BY <1>t, DoneIs
<1>3. Txs' = Txs /\ tx' \in Seq(TxType)
  <2>1. Txs = 1..Len(tx) /\ Len(tx) \in Nat
    BY <1>t DEF Txs
  <2>2. tx' \in [1..Len(tx) -> TxType]
    BY <1>1, <1>2, <2>1, Zenon
  <2> QED  BY <2>1, <2>2 DEF Txs
<1>4. \A t \in Txs :
        /\ tx'[t].pc = "done" /\ tx'[t].pk = tx[t].pk /\ tx'[t].file = NoFile /\ tx'[t].at = tx[t].at
        /\ tx'[t].session = tx[t].session /\ tx'[t].granted = tx[t].granted /\ tx'[t].handed = tx[t].handed
  <2>1. \A t \in Txs : tx'[t] = Done(t)
    BY <1>1, Zenon
  <2> QED  BY <1>t, <2>1, DoneIs
<1>5. AdoptTypes'
  <2>1. NoFile.adopted \in [Addrs -> Nat]
    BY NoFileIs DEF FileType
  <2>2. up' \in {"running", "stopping", "down"} /\ session' \in Nat /\ queue' \in Seq(Nat) /\ crashes' \in 0..CrashesMax
    BY <1>1, <1>t
  <2> QED  BY <1>1, <1>3, <2>1, <2>2 DEF AdoptInv, AdoptTypes
<1>6. OneAtATime'
  <2>1. \A t \in Txs : tx[t].session <= crashes /\ tx[t].session \in Nat
    BY <1>t, TxIs DEF AdoptInv, OneAtATime
  <2>2. \A t \in Txs' : tx'[t].session <= crashes' /\ tx'[t].pc = "done"
    BY <1>1, <1>t, <1>3, <1>4, <2>1
  <2>3. DOMAIN queue' = {}
    BY <1>1
  <2> QED  BY <1>1, <2>2, <2>3 DEF OneAtATime, Active
<1>7. Grants'
  <2>1. \A u \in Txs' : \A p \in Pubs : Modest(tx'[u].file.seen[p])
    BY <1>3, <1>4, NoFileIs
  <2>2. \A p \in Pubs : Modest(file'.seen[p])
    BY <1>1 DEF AdoptInv, Grants
  <2>3. \A u \in Txs' : /\ tx'[u].pc = "done"
                        /\ tx'[u].handed \subseteq file'.seen[tx'[u].pk] /\ tx'[u].handed \subseteq tx'[u].granted
    BY <1>1, <1>3, <1>4 DEF AdoptInv, Grants
  <2> QED  BY <2>1, <2>2, <2>3 DEF Grants, Modest
<1>8. Spent'
  <2>1. ASSUME NEW n \in Nat
        PROVE  /\ IsFiniteSet(Given(n)')
               /\ Cardinality(Given(n)') <= IF n = crashes' THEN session' ELSE PerSession
    <3>1. \A u \in Txs' : u \in Txs /\ tx'[u].session = tx[u].session /\ tx'[u].granted \subseteq tx[u].granted
      BY <1>3, <1>4
    <3>2. IsFiniteSet(Given(n)) /\ Cardinality(Given(n)) <= IF n = crashes THEN session ELSE PerSession
      BY DEF AdoptInv, Spent
    <3>3. IsFiniteSet(Given(n)') /\ Cardinality(Given(n)') <= Cardinality(Given(n))
      BY <3>1, <3>2, GivenShrinks
    <3>4. CASE n = crashes'
      <4>1. \A u \in Txs' : tx'[u].session <= crashes /\ tx'[u].session \in Nat
        BY <1>t, <1>3, <1>4, TxIs DEF AdoptInv, OneAtATime
      <4>2. \A u \in Txs' : tx'[u].session # n
        <5>1. n = crashes + 1 /\ crashes \in Nat
          BY <1>1, <1>t, <3>4
        <5> QED  BY <4>1, <5>1
      <4>3. Given(n)' = {}
        BY <4>2, Zenon DEF Given
      <4>4. Cardinality(Given(n)') = 0
        BY <4>3, FS_EmptySet, Zenon
      <4> QED  BY <1>1, <3>3, <3>4, <4>4
    <3>5. CASE n # crashes'
      <4> DEFINE g == Cardinality(Given(n))
                 h == Cardinality(Given(n)')
                 k == IF n = crashes THEN session ELSE PerSession
      <4>1. g \in Nat /\ h \in Nat
        BY <3>2, <3>3, FS_CardinalityType
      <4>2. k \in Nat /\ k <= PerSession
        BY <1>t DEF AdoptInv, AdoptTypes, Spent
      <4>3. g <= k /\ h <= g
        BY <3>2, <3>3
      <4> HIDE DEF g, h, k
      <4>4. h <= PerSession
        BY <1>t, <4>1, <4>2, <4>3
      <4> QED  BY <3>3, <3>5, <4>4 DEF h
    <3> QED  BY <3>4, <3>5
  <2> QED  BY <1>1, <1>t, <2>1 DEF Spent
<1>9. Marks'
  <2>1. \A a \in Addrs : adopted'[a] <= clock' /\ file'.adopted[a] <= clock'
    BY <1>1, <1>t, NoFileIs DEF AdoptInv, Marks
  <2>2. \A u \in Txs' : \A a \in Addrs : tx'[u].file.adopted[a] <= clock'
    BY <1>1, <1>t, <1>3, <1>4, NoFileIs
  <2>3. \A u \in Txs' : /\ tx'[u].at <= clock' /\ (tx'[u].granted # {} => tx'[u].at >= 1)
                        /\ tx'[u].pc = "done" /\ \A a \in tx'[u].handed : Marked(file.adopted, a, tx'[u].at)
    BY <1>1, <1>3, <1>4 DEF AdoptInv, Marks
  <2> QED  BY <1>1, <2>1, <2>2, <2>3 DEF Marks, Marked
<1> QED  BY <1>5, <1>6, <1>7, <1>8, <1>9 DEF AdoptInv

LEMMA AdoptStep ==
    ASSUME AdoptInv, [AdoptNext]_adoptVars
    PROVE  AdoptInv'
<1>1. ASSUME UNCHANGED adoptVars  PROVE AdoptInv'
  <2>1. /\ UNCHANGED <<file, adopted, session, queue, tx, up, clock, crashes>>
        /\ Txs' = Txs
    BY <1>1 DEF adoptVars, Txs
  <2>2. AdoptTypes' /\ OneAtATime'
    BY <2>1 DEF AdoptInv, AdoptTypes, OneAtATime, Active
  <2>3. Grants'
    BY <2>1 DEF AdoptInv, Grants, Modest
  <2>4. Spent'
    BY <2>1, SpentKeeps DEF AdoptInv, AdoptTypes
  <2>5. Marks'
    BY <2>1 DEF AdoptInv, Marks, Marked
  <2> QED  BY <2>2, <2>3, <2>4, <2>5 DEF AdoptInv
<1>2. ASSUME NEW t \in Txs, AdoptTx(t)  PROVE AdoptInv'
  BY <1>2, SkipKeeps, LoadKeeps, GrantKeeps, PersistKeeps, HandKeeps, Zenon DEF AdoptTx
<1> QED  BY <1>1, <1>2, AdoptKeeps, StopKeeps, CrashKeeps, StartKeeps, TimeKeeps, Zenon DEF AdoptNext

LEMMA AdoptStarts ==
    ASSUME AdoptInit
    PROVE  AdoptInv
<1>1. /\ file = NoFile /\ adopted = NoFile.adopted /\ session = 0
      /\ queue = <<>> /\ tx = <<>> /\ up = "running" /\ clock = 1 /\ crashes = 0
  BY DEF AdoptInit
<1>2. Txs = {}
  BY <1>1 DEF Txs
<1>3. AdoptTypes
  <2>1. NoFile \in FileType /\ NoFile.adopted \in [Addrs -> Nat]
    BY NoFileIs DEF FileType
  <2>2. clock \in 1..TimesMax /\ crashes \in 0..CrashesMax
    BY <1>1, LimitsAssumption, TimesAssumption
  <2>3. queue \in Seq(Nat) /\ tx \in Seq(TxType)
    BY <1>1
  <2> QED  BY <1>1, <2>1, <2>2, <2>3 DEF AdoptTypes
<1>4. OneAtATime
  <2>1. DOMAIN queue = {}
    BY <1>1
  <2> QED  BY <1>1, <1>2, <2>1 DEF OneAtATime
<1>5. Grants
  BY <1>1, <1>2, NoFileIs DEF Grants
<1>6. Spent
  <2>1. \A n : Given(n) = {}
    BY <1>2, Zenon DEF Given
  <2>2. \A n : IsFiniteSet(Given(n)) /\ Cardinality(Given(n)) = 0
    BY <2>1, FS_EmptySet, Zenon
  <2> QED  BY <1>1, <2>2, LimitsAssumption DEF Spent
<1>7. Marks
  BY <1>1, <1>2, NoFileIs DEF Marks
<1> QED  BY <1>3, <1>4, <1>5, <1>6, <1>7 DEF AdoptInv

\* What the invariant says of adoption.
LEMMA AdoptBudgets ==
    ASSUME AdoptInv
    PROVE  AdoptTypeOK /\ LifetimeBudget /\ SessionBudget /\ NoLaundering
<1>t. /\ tx \in Seq(TxType) /\ file \in FileType /\ adopted \in [Addrs -> Nat] /\ clock \in Nat
      /\ session \in Nat /\ crashes \in Nat /\ crashes <= CrashesMax /\ queue \in Seq(Nat)
      /\ PerPublisher \in Nat /\ PerSession \in Nat /\ PerSubnet \in Nat
  BY LimitsAssumption DEF AdoptInv, AdoptTypes
<1>1. AdoptTypeOK
  <2>1. \A f \in {file} \cup {tx[t].file : t \in Txs} :
          f.seen \in [Pubs -> SUBSET Addrs] /\ f.adopted \in [Addrs -> 0..clock]
    <3> SUFFICES ASSUME NEW f \in {file} \cup {tx[t].file : t \in Txs}
                 PROVE  f.seen \in [Pubs -> SUBSET Addrs] /\ f.adopted \in [Addrs -> 0..clock]
      OBVIOUS
    <3>1. f \in FileType /\ \A a \in Addrs : f.adopted[a] <= clock
      BY <1>t, TxIs DEF AdoptInv, Marks
    <3>2. f.seen \in [Pubs -> SUBSET Addrs] /\ f.adopted \in [Addrs -> Nat]
      BY <3>1 DEF FileType
    <3>3. \A a \in Addrs : f.adopted[a] \in 0..clock
      BY <1>t, <3>1, <3>2
    <3> QED  BY <3>2, <3>3
  <2>2. adopted \in [Addrs -> 0..clock]
    BY <1>t DEF AdoptInv, Marks
  <2>3. queue \in Seq(Txs)
    BY <1>t DEF AdoptInv, OneAtATime
  <2>4. \A t \in Txs : /\ tx[t].pc \in {"queued", "loaded", "write", "hand", "done"}
                       /\ tx[t].pk \in Pubs /\ tx[t].handed \subseteq tx[t].granted
    BY <1>t, TxIs DEF AdoptInv, Grants
  <2>5. session \in 0..PerSession
    BY <1>t DEF AdoptInv, Spent
  <2>6. up \in {"running", "stopping", "down"} /\ clock \in 1..TimesMax /\ crashes \in 0..CrashesMax
    BY DEF AdoptInv, AdoptTypes
  <2> QED  BY <2>1, <2>2, <2>3, <2>4, <2>5, <2>6 DEF AdoptTypeOK
<1>2. LifetimeBudget
  <2> SUFFICES ASSUME NEW pk \in Pubs
               PROVE  /\ Cardinality(HandedFor(pk)) <= PerPublisher
                      /\ \A a \in Addrs : Cardinality(InSubnet(HandedFor(pk), SubnetOf[a])) <= PerSubnet
    BY DEF LifetimeBudget
  <2> DEFINE S == file.seen[pk]
             H == HandedFor(pk)
  <2>1. H \subseteq S
    BY DEF HandedFor, AdoptInv, Grants
  <2>2. Modest(S)
    BY DEF AdoptInv, Grants
  <2> HIDE DEF S, H
  <2>3. \A A, B : A \subseteq B /\ IsFiniteSet(B) => Cardinality(A) <= Cardinality(B) /\ Cardinality(A) \in Nat /\ Cardinality(B) \in Nat
    BY FS_Subset, FS_CardinalityType
  <2>4. Cardinality(H) <= PerPublisher
    BY <1>t, <2>1, <2>2, <2>3, SMTT(60) DEF Modest
  <2>5. ASSUME NEW a \in Addrs  PROVE Cardinality(InSubnet(H, SubnetOf[a])) <= PerSubnet
    <3>1. InSubnet(H, SubnetOf[a]) \subseteq InSubnet(S, SubnetOf[a]) /\ InSubnet(S, SubnetOf[a]) \subseteq S
      BY <2>1 DEF InSubnet
    <3>2. IsFiniteSet(InSubnet(S, SubnetOf[a])) /\ Cardinality(InSubnet(S, SubnetOf[a])) <= PerSubnet
      BY <2>2, <3>1, FS_Subset DEF Modest
    <3> DEFINE x == Cardinality(InSubnet(H, SubnetOf[a]))
               y == Cardinality(InSubnet(S, SubnetOf[a]))
    <3>3. x <= y /\ x \in Nat /\ y \in Nat /\ y <= PerSubnet
      BY <2>3, <3>1, <3>2
    <3> HIDE DEF x, y
    <3>4. x <= PerSubnet
      BY <1>t, <3>3
    <3> QED  BY <3>4 DEF x
  <2> QED  BY <2>4, <2>5 DEF H
<1>3. SessionBudget
  <2> SUFFICES ASSUME NEW n \in 0..CrashesMax
               PROVE  Cardinality({x \in Txs \X Addrs : tx[x[1]].session = n /\ x[2] \in tx[x[1]].handed}) <= PerSession
    BY DEF SessionBudget
  <2> DEFINE H == {x \in Txs \X Addrs : tx[x[1]].session = n /\ x[2] \in tx[x[1]].handed}
             G == Given(n)
  <2>1. H \subseteq G
    <3>1. \A x \in Txs \X Addrs : x[2] \in tx[x[1]].handed => x[2] \in tx[x[1]].granted
      BY DEF AdoptInv, Grants
    <3> QED  BY <3>1 DEF Given
  <2>2. n \in Nat
    OBVIOUS
  <2>3. IsFiniteSet(G) /\ Cardinality(G) <= IF n = crashes THEN session ELSE PerSession
    BY <2>2 DEF AdoptInv, Spent
  <2>4. IsFiniteSet(H) /\ Cardinality(H) <= Cardinality(G)
    <3> HIDE DEF G, H
    <3> QED  BY <2>1, <2>3, FS_Subset
  <2>5. Cardinality(H) \in Nat /\ Cardinality(G) \in Nat
    <3> HIDE DEF G, H
    <3> QED  BY <2>3, <2>4, FS_CardinalityType
  <2>6. session <= PerSession
    BY DEF AdoptInv, Spent
  <2> DEFINE h == Cardinality(H)
             g == Cardinality(G)
  <2>7. h \in Nat /\ g \in Nat /\ h <= g /\ (g <= IF n = crashes THEN session ELSE PerSession)
    BY <2>3, <2>4, <2>5
  <2> HIDE DEF h, g
  <2>8. h <= PerSession
    BY <1>t, <2>6, <2>7
  <2> QED  BY <2>8 DEF h
<1>4. NoLaundering
  <2> SUFFICES ASSUME up # "down", NEW t \in Txs, NEW a \in tx[t].handed \cap Vouched
               PROVE  clock - tx[t].at >= ReAdvertise
    BY DEF NoLaundering
  <2>1. a \in Addrs /\ adopted[a] \in Nat /\ tx[t].at \in Nat /\ tx[t].at >= 1
    <3>1. a \in tx[t].granted
      BY DEF AdoptInv, Grants
    <3> QED  BY <1>t, <3>1, TxIs DEF AdoptInv, Marks
  <2>2. Marked(adopted, a, tx[t].at)
    BY DEF AdoptInv, Marks
  <2>3. adopted[a] = 0 \/ clock - adopted[a] >= ReAdvertise
    BY DEF Vouched, Never
  <2> QED  BY <1>t, <2>1, <2>2, <2>3, TimesAssumption, SMTT(60) DEF Marked
<1> QED  BY <1>1, <1>2, <1>3, <1>4

-----------------------------------------------------------------------------
(***************************************************************************)
(* Picking positions of a sequence in order.                               *)
(***************************************************************************)
LEMMA RankIs ==
    ASSUME NEW n \in Nat, NEW I, I \subseteq 1..n
    PROVE  /\ IsFiniteSet(I) /\ Cardinality(I) \in Nat
           /\ \A i \in I : Rank(I, i) \in 1..Cardinality(I)
           /\ \A i, j \in I : Rank(I, i) = Rank(I, j) => i = j
           /\ \A k \in 1..Cardinality(I) : \E i \in I : Rank(I, i) = k
<1>1. IsFiniteSet(I)
  <2>1. 1 \in Int /\ n \in Int
    OBVIOUS
  <2>2. IsFiniteSet(1..n)
    BY <2>1, FS_Interval, Zenon
  <2> QED  BY <2>2, FS_Subset
<1> DEFINE Up(i) == {j \in I : j <= i}
<1>2. \A i : IsFiniteSet(Up(i)) /\ Cardinality(Up(i)) \in Nat /\ Cardinality(Up(i)) <= Cardinality(I)
  <2>1. \A i : Up(i) \subseteq I
    OBVIOUS
  <2> HIDE DEF Up
  <2> QED  BY <1>1, <2>1, FS_Subset, FS_CardinalityType
<1>3. Cardinality(I) \in Nat
  BY <1>1, FS_CardinalityType
<1>4. \A i \in I : Cardinality(Up(i)) \in 1..Cardinality(I)
  <2> SUFFICES ASSUME NEW i \in I  PROVE Cardinality(Up(i)) # 0
    BY <1>2, <1>3
  <2>1. i \in Up(i)
    OBVIOUS
  <2> HIDE DEF Up
  <2> QED  BY <1>2, <2>1, FS_EmptySet
<1>5. ASSUME NEW i \in I, NEW j \in I, i < j  PROVE Cardinality(Up(i)) < Cardinality(Up(j))
  <2>1. Up(i) \subseteq Up(j) /\ j \in Up(j) /\ j \notin Up(i)
    <3>1. \A k \in I : k \in Int
      OBVIOUS
    <3>2. \A k \in I : k <= i => k <= j
      BY <1>5, <3>1
    <3>3. j <= j /\ ~(j <= i)
      BY <1>5, <3>1
    <3> QED  BY <3>2, <3>3
  <2> HIDE DEF Up
  <2>2. Cardinality(Up(i)) <= Cardinality(Up(j)) /\ Cardinality(Up(i)) # Cardinality(Up(j))
    BY <1>2, <2>1, FS_Subset
  <2> QED  BY <1>2, <2>2
<1>6. \A i, j \in I : Cardinality(Up(i)) = Cardinality(Up(j)) => i = j
  <2> SUFFICES ASSUME NEW i \in I, NEW j \in I, Cardinality(Up(i)) = Cardinality(Up(j))  PROVE i = j
    OBVIOUS
  <2>1. ~(i < j) /\ ~(j < i)
    <3> HIDE DEF Up
    <3> QED  BY <1>2, <1>5
  <2> QED  BY <2>1
<1>7. \A k \in 1..Cardinality(I) : \E i \in I : Cardinality(Up(i)) = k
  <2> DEFINE f == [i \in I |-> Cardinality(Up(i))]
             c == Cardinality(I)
  <2>1. f \in Injection(I, 1..c)
    <3> HIDE DEF Up, c
    <3>1. \A i \in I : Cardinality(Up(i)) \in 1..c
      BY <1>4 DEF c
    <3> QED  BY <1>6, <3>1 DEF Injection, IsInjective
  <2>2. IsFiniteSet(1..c) /\ Cardinality(1..c) = c
    <3>1. 1 \in Int /\ c \in Int /\ (c >= 1 \/ c = 0) /\ (c \in Nat)
      BY <1>3
    <3> HIDE DEF c
    <3>2. IsFiniteSet(1..c) /\ Cardinality(1..c) = IF 1 > c THEN 0 ELSE c - 1 + 1
      BY <3>1, FS_Interval, Zenon
    <3> QED  BY <3>1, <3>2
  <2>3. f \in Surjection(I, 1..c)
    <3> HIDE DEF f
    <3> QED  BY <2>1, <2>2, FS_Injection
  <2> HIDE DEF c
  <2>4. \A k \in 1..c : \E i \in I : f[i] = k
    BY <2>3 DEF Surjection
  <2> QED  BY <2>4 DEF c
<1> QED  BY <1>1, <1>3, <1>4, <1>6, <1>7, Zenon DEF Rank

\* What is picked is what is at those positions, each of them once.
PicksAll(s, I) ==
    /\ Cardinality(I) \in Nat /\ DOMAIN Picked(s, I) = 1..Cardinality(I)
    /\ \A k \in 1..Cardinality(I) : \E i \in I : Rank(I, i) = k /\ Picked(s, I)[k] = s[i]
    /\ \A i \in I : Rank(I, i) \in 1..Cardinality(I) /\ Picked(s, I)[Rank(I, i)] = s[i]

LEMMA PickedIs ==
    ASSUME NEW n \in Nat, NEW I, I \subseteq 1..n, NEW s
    PROVE  PicksAll(s, I)
<1> DEFINE at(k) == CHOOSE i \in I : Rank(I, i) = k
<1>1. /\ Cardinality(I) \in Nat
      /\ \A i \in I : Rank(I, i) \in 1..Cardinality(I)
      /\ \A i, j \in I : Rank(I, i) = Rank(I, j) => i = j
      /\ \A k \in 1..Cardinality(I) : \E i \in I : Rank(I, i) = k
  BY RankIs
<1>2. \A k \in 1..Cardinality(I) : at(k) \in I /\ Rank(I, at(k)) = k
  BY <1>1
<1>3. Picked(s, I) = [k \in 1..Cardinality(I) |-> s[at(k)]]
  BY DEF Picked
<1> HIDE DEF at
<1>4. \A i \in I : at(Rank(I, i)) = i
  BY <1>1, <1>2
<1> QED  BY <1>1, <1>2, <1>3, <1>4 DEF PicksAll

\* Publishers of a list are picked where they come for the first time: nobody comes twice.
LEMMA FirstsPicked ==
    ASSUME NEW S, NEW s \in Seq(S), NEW T, NEW I, I \subseteq Firsts(s, T)
    PROVE  /\ Picked(s, I) \in Seq(T) /\ IsInjective(Picked(s, I))
           /\ Range(Picked(s, I)) = {s[i] : i \in I}
           /\ I \subseteq 1..Len(s)
<1> DEFINE P == Picked(s, I)
           n == Len(s)
           c == Cardinality(I)
<1>1. n \in Nat /\ I \subseteq 1..n /\ \A i \in I : s[i] \in T /\ \A j \in 1..i - 1 : s[j] # s[i]
  BY DEF Firsts
<1> HIDE DEF n
<1>2. /\ c \in Nat /\ DOMAIN P = 1..c
      /\ \A k \in 1..c : \E i \in I : Rank(I, i) = k /\ P[k] = s[i]
      /\ \A i \in I : Rank(I, i) \in 1..c /\ P[Rank(I, i)] = s[i]
  <2>1. PicksAll(s, I)
    BY <1>1, PickedIs
  <2> QED  BY <2>1, Zenon DEF PicksAll
<1>p. \E d : P = [k \in 1..c |-> d[k]]
  <2>1. P = [k \in 1..c |-> s[CHOOSE i \in I : Rank(I, i) = k]]
    BY DEF Picked
  <2>2. P = [k \in 1..c |-> [l \in 1..c |-> s[CHOOSE i \in I : Rank(I, i) = l]][k]]
    BY <2>1
  <2> QED  BY <2>2
<1> HIDE DEF P, c
<1>3. P \in Seq(T)
  BY <1>1, <1>2, <1>p
<1>4. \A i, j \in I : s[i] = s[j] => i = j
  <2> SUFFICES ASSUME NEW i \in I, NEW j \in I, s[i] = s[j]  PROVE i = j
    OBVIOUS
  <2>1. ~(i < j) /\ ~(j < i)
    BY <1>1
  <2> QED  BY <1>1, <2>1
<1>5. IsInjective(P)
  BY <1>2, <1>4 DEF IsInjective
<1>6. Range(P) = {s[i] : i \in I}
  BY <1>2 DEF Range
<1> QED  BY <1>1, <1>3, <1>5, <1>6 DEF P, n

LEMMA ConcatIs ==
    ASSUME NEW S, NEW s \in Seq(S), NEW t \in Seq(S),
           IsInjective(s), IsInjective(t), Range(s) \cap Range(t) = {}
    PROVE  /\ s \o t \in Seq(S) /\ IsInjective(s \o t)
           /\ Range(s \o t) = Range(s) \cup Range(t)
<1> DEFINE n == Len(s)
           m == Len(t)
           u == s \o t
<1>1. /\ n \in Nat /\ m \in Nat /\ u \in Seq(S) /\ Len(u) = n + m
      /\ DOMAIN s = 1..n /\ DOMAIN t = 1..m /\ DOMAIN u = 1..n + m
      /\ \A i \in 1..n + m : u[i] = IF i <= n THEN s[i] ELSE t[i - n]
  OBVIOUS
<1> HIDE DEF n, m, u
<1>2. \A i \in 1..n + m : i \in 1..n \/ (i > n /\ i - n \in 1..m)
  BY <1>1
<1>3. \A i \in 1..n : i \in 1..n + m /\ u[i] = s[i]
  BY <1>1
<1>4. \A j \in 1..m : j + n \in 1..n + m /\ u[j + n] = t[j]
  BY <1>1
<1>5. IsInjective(u)
  <2> SUFFICES ASSUME NEW i \in 1..n + m, NEW j \in 1..n + m, u[i] = u[j]  PROVE i = j
    BY <1>1 DEF IsInjective
  <2>1. \A k \in 1..n, l \in 1..m : s[k] # t[l]
    BY <1>1 DEF Range
  <2>2. \A k, l \in 1..n : s[k] = s[l] => k = l
    BY <1>1 DEF IsInjective
  <2>3. \A k, l \in 1..m : t[k] = t[l] => k = l
    BY <1>1 DEF IsInjective
  <2>4. CASE i <= n /\ j <= n
    BY <1>1, <2>2, <2>4
  <2>5. CASE i <= n /\ j > n
    BY <1>1, <1>2, <2>1, <2>5
  <2>6. CASE i > n /\ j <= n
    BY <1>1, <1>2, <2>1, <2>6
  <2>7. CASE i > n /\ j > n
    <3>1. i - n = j - n
      BY <1>1, <1>2, <2>3, <2>7
    <3> QED  BY <1>1, <3>1
  <2> QED  BY <1>1, <2>4, <2>5, <2>6, <2>7
<1>6. Range(u) = Range(s) \cup Range(t)
  <2>1. \A i \in 1..n + m : u[i] \in Range(s) \cup Range(t)
    <3>1. \A i \in 1..n : s[i] \in Range(s)
      BY <1>1 DEF Range
    <3>2. \A i \in 1..m : t[i] \in Range(t)
      BY <1>1 DEF Range
    <3> QED  BY <1>1, <1>2, <3>1, <3>2
  <2>2. \A i \in 1..n : s[i] \in Range(u)
    BY <1>1, <1>3 DEF Range
  <2>3. \A i \in 1..m : t[i] \in Range(u)
    BY <1>1, <1>4 DEF Range
  <2>4. Range(u) = {u[i] : i \in 1..n + m} /\ Range(s) = {s[i] : i \in 1..n} /\ Range(t) = {t[i] : i \in 1..m}
    BY <1>1, Zenon DEF Range
  <2> QED  BY <2>1, <2>2, <2>3, <2>4, ZenonT(60)
<1> QED  BY <1>1, <1>5, <1>6 DEF u

LEMMA AppendIs ==
    ASSUME NEW S, NEW s \in Seq(S), NEW x \in S, IsInjective(s), x \notin Range(s)
    PROVE  /\ Append(s, x) \in Seq(S) /\ IsInjective(Append(s, x))
           /\ Range(Append(s, x)) = Range(s) \cup {x}
<1> DEFINE n == Len(s)
           u == Append(s, x)
<1>1. /\ n \in Nat /\ u \in Seq(S) /\ DOMAIN s = 1..n /\ DOMAIN u = 1..n + 1
      /\ \A i \in 1..n : u[i] = s[i]
      /\ u[n + 1] = x
  OBVIOUS
<1> HIDE DEF n, u
<1>2. \A i \in 1..n + 1 : i = n + 1 \/ i \in 1..n
  BY <1>1
<1>3. IsInjective(u)
  BY <1>1, <1>2 DEF IsInjective, Range
<1>4. Range(u) = Range(s) \cup {x}
  <2>1. \A i \in 1..n : i \in 1..n + 1
    BY <1>1
  <2>2. n + 1 \in 1..n + 1
    BY <1>1
  <2> QED  BY <1>1, <1>2, <2>1, <2>2 DEF Range
<1> QED  BY <1>1, <1>3, <1>4 DEF u

LEMMA TailIs ==
    ASSUME NEW S, NEW s \in Seq(S), s # <<>>
    PROVE  /\ Tail(s) \in Seq(S) /\ Head(s) \in S
           /\ Range(s) = {Head(s)} \cup Range(Tail(s))
           /\ IsInjective(s) => IsInjective(Tail(s)) /\ Head(s) \notin Range(Tail(s))
<1> DEFINE n == Len(s)
           u == Tail(s)
<1>1. /\ n \in Nat /\ n >= 1 /\ u \in Seq(S) /\ DOMAIN s = 1..n /\ DOMAIN u = 1..n - 1
      /\ \A i \in 1..n - 1 : u[i] = s[i + 1]
      /\ Head(s) = s[1] /\ s[1] \in S
  OBVIOUS
<1> HIDE DEF n, u
<1>2. \A i \in 1..n : i = 1 \/ (i - 1 \in 1..n - 1 /\ (i - 1) + 1 = i)
  BY <1>1
<1>3. \A i \in 1..n - 1 : i + 1 \in 1..n /\ i + 1 # 1
  BY <1>1
<1>4. Range(s) = {s[1]} \cup Range(u)
  <2>1. 1 \in 1..n
    BY <1>1
  <2>2. \A i \in 1..n : s[i] = s[1] \/ s[i] \in Range(u)
    <3>1. \A i \in 1..n : i = 1 \/ s[i] = u[i - 1]
      BY <1>1, <1>2
    <3> QED  BY <1>1, <1>2, <3>1 DEF Range
  <2>3. \A i \in 1..n - 1 : u[i] \in Range(s)
    BY <1>1, <1>3 DEF Range
  <2> QED  BY <1>1, <2>1, <2>2, <2>3, ZenonT(60) DEF Range
<1>5. ASSUME IsInjective(s)  PROVE IsInjective(u) /\ s[1] \notin Range(u)
  <2>1. \A i, j \in 1..n : s[i] = s[j] => i = j
    BY <1>1, <1>5 DEF IsInjective
  <2>2. 1 \in 1..n
    BY <1>1
  <2>3. s[1] \notin Range(u)
    BY <1>1, <1>3, <2>1, <2>2 DEF Range
  <2>4. IsInjective(u)
    <3> SUFFICES ASSUME NEW i \in 1..n - 1, NEW j \in 1..n - 1, u[i] = u[j]  PROVE i = j
      BY <1>1 DEF IsInjective
    <3>1. i + 1 = j + 1
      BY <1>1, <1>3, <2>1
    <3> QED  BY <1>1, <3>1
  <2> QED  BY <2>3, <2>4
<1> QED  BY <1>1, <1>4, <1>5 DEF u

\* Who joins a list is new to the walk, joins once, and is within the budget.  Nobody is
\* left out unless the budget is spent, and then nobody joins any more.
Joined(r, q, list, pks) ==
    \E new \in Seq(Pubs) :
        /\ r.list = list \o new /\ IsInjective(new) /\ Range(new) \cap q = {}
        /\ r.queued = q \cup Range(new)
        /\ IsFiniteSet(r.queued) /\ Cardinality(r.queued) - 1 <= opts.maxPublishers
        /\ r.cut \in BOOLEAN
        /\ Range(new) \subseteq Range(pks)
        /\ ~r.cut => Range(pks) \subseteq r.queued
        /\ r.cut \/ Cardinality(q) - 1 = opts.maxPublishers => Cardinality(r.queued) - 1 = opts.maxPublishers
        /\ Cardinality(q) - 1 = opts.maxPublishers => r.queued = q

LEMMA EnqueuedIs ==
    ASSUME NEW q, q \subseteq Pubs \cup {Self}, Self \in q, IsFiniteSet(q),
           NEW list, NEW pks \in Seq(Pubs \cup {Self}),
           opts.maxPublishers \in Nat, Cardinality(q) - 1 <= opts.maxPublishers
    PROVE  Joined(Enqueued(q, list, pks), q, list, pks)
<1> DEFINE T == (Pubs \cup {Self}) \ q
           first == Firsts(pks, T)
           room == {i \in first : Cardinality(q) - 1 + Rank(first, i) <= opts.maxPublishers}
           P == Picked(pks, room)
           r == Enqueued(q, list, pks)
<1>1. r = [queued |-> q \cup {pks[i] : i \in room}, list |-> list \o P, cut |-> room # first]
  BY DEF Enqueued
<1>2. /\ P \in Seq(T) /\ IsInjective(P) /\ Range(P) = {pks[i] : i \in room}
      /\ room \subseteq 1..Len(pks) /\ first \subseteq 1..Len(pks)
  <2>1. room \subseteq first
    OBVIOUS
  <2> HIDE DEF room, T
  <2> QED  BY <2>1, FirstsPicked
<1>3. T \subseteq Pubs
  OBVIOUS
<1>4. P \in Seq(Pubs) /\ Range(P) \cap q = {}
  <2> HIDE DEF P, T
  <2>1. Range(P) \subseteq T
    BY <1>2 DEF Range
  <2>2. T \cap q = {}
    BY DEF T
  <2> QED  BY <1>2, <1>3, <2>1, <2>2
<1>n. Len(pks) \in Nat
  OBVIOUS
<1>f. IsFiniteSet(first) /\ IsFiniteSet(room)
  <2> HIDE DEF first, room
  <2> QED  BY <1>2, <1>n, RankIs
<1>5. /\ IsFiniteSet(Range(P)) /\ Cardinality(Range(P)) <= Cardinality(room)
  <2>1. [i \in room |-> pks[i]] \in Surjection(room, Range(P))
    BY <1>2 DEF Surjection
  <2> HIDE DEF room, P
  <2> QED  BY <1>f, <2>1, FS_Surjection
<1>6. /\ IsFiniteSet(q \cup Range(P))
      /\ Cardinality(q \cup Range(P)) = Cardinality(q) + Cardinality(Range(P))
  <2> HIDE DEF P
  <2>1. /\ IsFiniteSet(q \cup Range(P))
        /\ Cardinality(q \cup Range(P)) = Cardinality(q) + Cardinality(Range(P)) - Cardinality(q \cap Range(P))
    BY <1>5, FS_Union
  <2>2. Cardinality(q \cap Range(P)) = 0
    <3>1. q \cap Range(P) = {}
      BY <1>4
    <3> QED  BY <3>1, FS_EmptySet, Zenon
  <2>3. Cardinality(q) \in Nat /\ Cardinality(Range(P)) \in Nat
    BY <1>5, FS_CardinalityType
  <2> QED  BY <2>1, <2>2, <2>3
<1>c. Cardinality(q) \in Nat /\ Cardinality(Range(P)) \in Nat /\ Cardinality(room) \in Nat
  <2> HIDE DEF P, room
  <2> QED  BY <1>f, <1>5, FS_CardinalityType
<1>7. Cardinality(q \cup Range(P)) - 1 <= opts.maxPublishers
  <2>1. CASE room = {}
    <3>1. Cardinality(room) = 0
      <4> HIDE DEF room
      <4> QED  BY <2>1, FS_EmptySet, Zenon
    <3> HIDE DEF P, room
    <3> QED  BY <1>5, <1>6, <1>c, <3>1
  <2>2. CASE room # {}
    <3>1. PICK m \in room : \A i \in room : i <= m
      <4> HIDE DEF room
      <4> QED  BY <1>2, <1>n, <2>2, GreatestExists
    <3>2. room \subseteq {j \in first : j <= m}
      BY <3>1
    <3>3. IsFiniteSet({j \in first : j <= m}) /\ Cardinality(room) <= Rank(first, m)
      <4>1. {j \in first : j <= m} \subseteq first
        OBVIOUS
      <4> HIDE DEF room, first
      <4> QED  BY <1>f, <3>2, <4>1, FS_Subset DEF Rank
    <3>4. Rank(first, m) \in Nat
      <4> HIDE DEF first
      <4> QED  BY <3>3, FS_CardinalityType DEF Rank
    <3>5. Cardinality(q) - 1 + Rank(first, m) <= opts.maxPublishers
      OBVIOUS
    <3> HIDE DEF P, room, first
    <3> DEFINE a == Cardinality(q)
               b == Cardinality(Range(P))
               c == Cardinality(room)
               k == Rank(first, m)
    <3>6. a \in Nat /\ b \in Nat /\ c \in Nat /\ k \in Nat /\ b <= c /\ c <= k /\ a - 1 + k <= opts.maxPublishers
      BY <1>5, <1>c, <3>3, <3>4, <3>5
    <3>7. Cardinality(q \cup Range(P)) = a + b
      BY <1>6
    <3> HIDE DEF a, b, c, k
    <3> QED  BY <3>6, <3>7
  <2> QED  BY <2>1, <2>2
<1>d. DOMAIN pks = 1..Len(pks) /\ first \subseteq Nat
  <2>1. DOMAIN pks = 1..Len(pks)
    OBVIOUS
  <2> HIDE DEF first
  <2> QED  BY <1>2, <1>n, <2>1
<1>9. Range(P) \subseteq Range(pks)
  <2> HIDE DEF P, room, first
  <2>1. \A i \in room : pks[i] \in Range(pks)
    BY <1>2, <1>d DEF Range
  <2> QED  BY <1>2, <2>1
<1>10. ASSUME room = first  PROVE Range(pks) \subseteq q \cup Range(P)
  <2> SUFFICES ASSUME NEW i \in 1..Len(pks), pks[i] \notin q  PROVE \E k \in room : pks[k] = pks[i]
    <3> HIDE DEF P, room, first
    <3>1. Range(pks) = {pks[i] : i \in 1..Len(pks)}
      BY <1>d DEF Range
    <3> QED  BY <1>2, <3>1
  <2> DEFINE J == {j \in 1..Len(pks) : pks[j] = pks[i]}
  <2>1. PICK m \in J : \A j \in J : m <= j
    <3>1. J \in SUBSET Nat /\ J # {}
      OBVIOUS
    <3> HIDE DEF J
    <3> QED  BY <3>1, LeastExists
  <2>2. pks[m] \in T
    BY <1>n
  <2>3. \A j \in 1..m - 1 : pks[j] # pks[m]
    <3> SUFFICES ASSUME NEW j \in 1..m - 1, pks[j] = pks[m]  PROVE FALSE
      OBVIOUS
    <3>1. j \in J /\ ~(m <= j)
      BY <1>n
    <3> QED  BY <2>1, <3>1
  <2>4. m \in first
    BY <2>2, <2>3 DEF Firsts
  <2> QED  BY <1>10, <2>4
<1>11. Cardinality(room) = Cardinality(Range(P))
  <2>1. P \in Bijection(1..Cardinality(room), Range(P))
    <3>1. DOMAIN P = 1..Cardinality(room)
      BY DEF Picked
    <3>2. IsInjective(P)
      BY <1>2
    <3> HIDE DEF P, room
    <3>3. P \in [1..Cardinality(room) -> Range(P)]
      BY <1>2, <3>1 DEF Range
    <3> QED  BY <3>1, <3>2, <3>3 DEF Bijection, Injection, Surjection, Range
  <2> HIDE DEF P, room
  <2> QED  BY <1>c, <2>1, FS_CountingElements, Zenon DEF ExistsBijection
<1>12. ASSUME room # first  PROVE Cardinality(q \cup Range(P)) - 1 >= opts.maxPublishers
  <2> DEFINE out == first \ room
  <2>1. PICK m \in out : \A i \in out : m <= i
    <3>1. out \in SUBSET Nat /\ out # {}
      <4>1. room \subseteq first
        OBVIOUS
      <4> HIDE DEF room, first
      <4> QED  BY <1>d, <1>12, <4>1
    <3> HIDE DEF out
    <3> QED  BY <3>1, LeastExists
  <2> DEFINE upto == {j \in first : j <= m}
  <2>2. upto \subseteq room \cup {m}
    <3> SUFFICES ASSUME NEW j \in upto, j # m  PROVE j \in room
      OBVIOUS
    <3>0. j \in first /\ m \in first /\ j <= m
      OBVIOUS
    <3>1. j \in Nat /\ m \in Nat
      <4> HIDE DEF first, room
      <4> QED  BY <1>d, <3>0
    <3>2. ~(m <= j)
      <4> HIDE DEF first, room
      <4> QED  BY <3>0, <3>1
    <3>3. j \notin out
      <4> HIDE DEF out
      <4> QED  BY <2>1, <3>2
    <3> QED  BY <3>3
  <2>3. Cardinality(upto) \in Nat /\ Cardinality(upto) <= Cardinality(room) + 1
    <3> HIDE DEF room, upto
    <3>0. /\ IsFiniteSet(room \cup {m})
          /\ Cardinality(room \cup {m}) = IF m \in room THEN Cardinality(room) ELSE Cardinality(room) + 1
      BY <1>f, FS_AddElement
    <3>1. IsFiniteSet(room \cup {m}) /\ Cardinality(room \cup {m}) <= Cardinality(room) + 1
      BY <1>c, <3>0
    <3> QED  BY <1>c, <2>2, <3>1, FS_Subset, FS_CardinalityType
  <2>4. Cardinality(q) - 1 + Cardinality(upto) > opts.maxPublishers
    <3>1. m \in first /\ m \notin room
      OBVIOUS
    <3>2. Rank(first, m) = Cardinality(upto)
      BY DEF Rank
    <3>3. ~(Cardinality(q) - 1 + Cardinality(upto) <= opts.maxPublishers)
      BY <3>1, <3>2
    <3> HIDE DEF upto
    <3> QED  BY <1>c, <2>3, <3>3
  <2> DEFINE a == Cardinality(q)
             b == Cardinality(Range(P))
             c == Cardinality(room)
             k == Cardinality(upto)
             d == Cardinality(q \cup Range(P))
  <2>5. a \in Nat /\ b \in Nat /\ k \in Nat /\ k <= b + 1 /\ a - 1 + k > opts.maxPublishers /\ d = a + b
    <3> HIDE DEF upto, room, P
    <3> QED  BY <1>6, <1>c, <1>11, <2>3, <2>4
  <2> HIDE DEF a, b, c, k, d
  <2>6. d - 1 >= opts.maxPublishers
    BY <2>5
  <2> QED  BY <2>6 DEF d
<1> HIDE DEF P, room, first
<1>8. /\ r.list = list \o P /\ r.queued = q \cup Range(P) /\ r.cut = (room # first)
  BY <1>1, <1>2
<1>13. r.cut \/ Cardinality(q) - 1 = opts.maxPublishers => Cardinality(r.queued) - 1 = opts.maxPublishers
  <2> DEFINE a == Cardinality(q)
             b == Cardinality(Range(P))
             d == Cardinality(q \cup Range(P))
  <2>1. a \in Nat /\ b \in Nat /\ d = a + b /\ d - 1 <= opts.maxPublishers
    BY <1>6, <1>7, <1>c
  <2>2. room # first => d - 1 >= opts.maxPublishers
    BY <1>12
  <2>3. a = Cardinality(q) /\ Cardinality(r.queued) = d /\ (r.cut <=> room # first)
    BY <1>8
  <2> HIDE DEF a, b, d
  <2> QED  BY <2>1, <2>2, <2>3
<1>14. Cardinality(q) - 1 = opts.maxPublishers => r.queued = q
  <2>1. ASSUME Cardinality(q) - 1 = opts.maxPublishers  PROVE Range(P) = {}
    <3> DEFINE b == Cardinality(Range(P))
    <3>1. b = 0
      <4>1. Cardinality(q) + b - 1 <= opts.maxPublishers /\ b \in Nat /\ Cardinality(q) \in Nat
        BY <1>6, <1>7, <1>c
      <4> HIDE DEF b
      <4> QED  BY <2>1, <4>1
    <3> QED  BY <1>5, <3>1, FS_EmptySet
  <2> QED  BY <1>8, <2>1
<1>15. ~r.cut => Range(pks) \subseteq r.queued
  BY <1>8, <1>10
<1>16. IsFiniteSet(r.queued) /\ Cardinality(r.queued) - 1 <= opts.maxPublishers /\ r.cut \in BOOLEAN
  BY <1>6, <1>7, <1>8
<1> HIDE DEF r
<1> QED  BY <1>2, <1>4, <1>8, <1>9, <1>13, <1>14, <1>15, <1>16, Zenon DEF Joined, r

LEMMA EndorseIs ==
    ASSUME web \in Webs, NEW pk \in Pubs
    PROVE  ParsedEndorse(pk) \in Seq(Pubs \cup {Self})
<1> DEFINE e == web[pk].endorse
           T == (Pubs \cup {Self}) \ {pk}
           valid == Firsts(e, T)
           I == {i \in valid : Rank(valid, i) <= MaxEndorse}
<1>1. e \in Seq(Pubs \cup {Self, Junk})
  BY WebsAssumption
<1>2. I \subseteq valid
  OBVIOUS
<1>3. ParsedEndorse(pk) = Picked(e, I)
  BY DEF ParsedEndorse
<1>4. Picked(e, I) \in Seq(T)
  <2> HIDE DEF I, e, T
  <2> QED  BY <1>1, <1>2, FirstsPicked
<1>5. T \subseteq Pubs \cup {Self}
  OBVIOUS
<1> HIDE DEF I, e, T
<1> QED  BY <1>3, <1>4, <1>5

-----------------------------------------------------------------------------
(***************************************************************************)
(* The walk: those that were asked, those that are next on this level and  *)
(* those of the next level are different publishers, none of them ourselves.*)
(***************************************************************************)
Waiting == {"load", "adopt"}

\* What is left of this level.
Rest == IF pc \in Waiting THEN Tail(frontier) ELSE frontier

Hits == [pk : Pubs, ih : Infohashes, hops : Nat]

WalkTypes ==
    /\ web \in Webs /\ opts \in Options /\ pc \in {"idle", "walk", "load", "adopt", "done"}
    /\ queued \subseteq Pubs \cup {Self} /\ Self \in queued /\ IsFiniteSet(queued)
    /\ Cardinality(queued) - 1 <= opts.maxPublishers
    /\ frontier \in Seq(Pubs) /\ next \in Seq(Pubs) /\ visited \in Seq(Pubs)
    /\ pc \in {"walk", "load", "adopt"} => frontier # <<>>
    /\ hops \in Nat /\ hops <= opts.depth + 1 /\ (pc # "done" => hops <= opts.depth)
    /\ call \in Nat /\ call <= Len(tx) /\ answered \subseteq Pubs /\ cut \in BOOLEAN

Distinct(s) == IsInjective(s) /\ Range(s) \subseteq queued \ {Self}

Ordered ==
    /\ Distinct(visited) /\ answered \subseteq Range(visited)
    /\ pc \in Waiting => Head(frontier) \in Range(visited) \ answered
    /\ pc # "done" => /\ Distinct(Rest) /\ Distinct(next)
                      /\ Range(visited) \cap Range(Rest) = {} /\ Range(visited) \cap Range(next) = {}
                      /\ Range(Rest) \cap Range(next) = {}

\* No two of the hits are the same.
Unlike(hs) ==
    \A i, j \in DOMAIN hs : hs[i].pk = hs[j].pk /\ hs[i].ih = hs[j].ih => i = j

From(hs, P) == \A i \in DOMAIN hs : hs[i].pk \in P

Found == hits \in Seq(Hits) /\ Len(hits) <= MaxResults /\ Unlike(hits) /\ From(hits, answered)

WalkInv == WalkTypes /\ Ordered /\ Found

LEMMA OptionsAre ==
    ASSUME WalkTypes
    PROVE  opts.depth \in Nat /\ opts.maxPublishers \in Nat
BY OptionsAssumption DEF WalkTypes

LEMMA EntriesAre ==
    ASSUME web \in Webs, NEW pk \in Pubs
    PROVE  ParsedEntries(pk) \in Seq([ih : Infohashes, match : BOOLEAN])
<1> DEFINE e == web[pk].entries
           E == [ih : Infohashes, match : BOOLEAN]
           valid == {i \in DOMAIN e : e[i] # Junk}
           I == {i \in valid : Rank(valid, i) <= MaxEntries}
           n == Len(e)
           c == Cardinality(I)
           P == Picked(e, I)
<1>1. e \in Seq({Junk} \cup E)
  BY WebsAssumption
<1>2. n \in Nat /\ DOMAIN e = 1..n
  BY <1>1
<1>3. I \subseteq 1..n /\ \A i \in I : e[i] \in E
  BY <1>1, <1>2
<1>4. ParsedEntries(pk) = P
  BY DEF ParsedEntries
<1> HIDE DEF I, e, n, E
<1>5. PicksAll(e, I)
  BY <1>2, <1>3, PickedIs
<1>6. c \in Nat /\ \A k \in 1..c : P[k] \in E
  BY <1>3, <1>5 DEF PicksAll
<1>7. P = [k \in 1..c |-> P[k]]
  BY DEF Picked
<1> HIDE DEF P, c
<1>8. P \in Seq(E)
  BY <1>6, <1>7
<1> QED  BY <1>4, <1>8 DEF E

\* The matching entries of a catalog, each infohash once.
LEMMA MatchingIs ==
    ASSUME WalkTypes, NEW pk \in Pubs, NEW es \in Seq([ih : Infohashes, match : BOOLEAN])
    PROVE  /\ Matching(pk, es) \in Seq(Hits) /\ Unlike(Matching(pk, es))
           /\ From(Matching(pk, es), {pk})
<1> DEFINE E == [ih : Infohashes, match : BOOLEAN]
           I == {i \in DOMAIN es : es[i].match /\ \A j \in 1..i - 1 : es[j].match => es[j].ih # es[i].ih}
           n == Len(es)
           c == Cardinality(I)
           P == Picked(es, I)
           M == [k \in 1..c |-> [pk |-> pk, ih |-> P[k].ih, hops |-> hops]]
<1>1. Matching(pk, es) = M
  BY DEF Matching
<1>2. n \in Nat /\ I \subseteq 1..n
  OBVIOUS
<1>3. \A i, j \in I : i < j => es[i].ih # es[j].ih
  <2> SUFFICES ASSUME NEW i \in I, NEW j \in I, i < j  PROVE es[i].ih # es[j].ih
    OBVIOUS
  <2>1. i \in 1..j - 1
    <3>1. i \in 1..n /\ j \in 1..n
      BY <1>2
    <3> HIDE DEF I, n
    <3> QED  BY <1>2, <3>1
  <2>2. es[i].match /\ \A l \in 1..j - 1 : es[l].match => es[l].ih # es[j].ih
    OBVIOUS
  <2> HIDE DEF I
  <2> QED  BY <2>1, <2>2
<1>4. \A i \in I : es[i] \in E
  <2>1. es \in Seq(E)
    OBVIOUS
  <2> HIDE DEF I, E
  <2>2. \A i \in 1..n : es[i] \in E
    BY <2>1
  <2> HIDE DEF n
  <2> QED  BY <1>2, <2>2
<1> HIDE DEF I, n, E
<1>5. PicksAll(es, I)
  BY <1>2, PickedIs
<1>6. c \in Nat /\ \A k \in 1..c : \E i \in I : Rank(I, i) = k /\ P[k] = es[i]
  BY <1>5 DEF PicksAll
<1> HIDE DEF P, c
<1>7. \A k \in 1..c : P[k].ih \in Infohashes
  <2>1. \A i \in I : es[i].ih \in Infohashes
    BY <1>4 DEF E
  <2> QED  BY <1>6, <2>1
<1>8. \A k, l \in 1..c : P[k].ih = P[l].ih => k = l
  <2> SUFFICES ASSUME NEW k \in 1..c, NEW l \in 1..c, P[k].ih = P[l].ih  PROVE k = l
    OBVIOUS
  <2>1. PICK i \in I : Rank(I, i) = k /\ P[k] = es[i]
    BY <1>6
  <2>2. PICK j \in I : Rank(I, j) = l /\ P[l] = es[j]
    BY <1>6
  <2>3. ~(i < j) /\ ~(j < i)
    BY <1>3, <2>1, <2>2
  <2>4. i \in Int /\ j \in Int
    BY <1>2
  <2> QED  BY <2>1, <2>2, <2>3, <2>4
<1>9. hops \in Nat
  BY DEF WalkTypes
<1>10. M \in Seq(Hits)
  BY <1>6, <1>7, <1>9 DEF Hits
<1>11. Unlike(M) /\ From(M, {pk})
  BY <1>8 DEF Unlike, From
<1> QED  BY <1>1, <1>10, <1>11

LEMMA PrefixIs ==
    ASSUME NEW S, NEW u \in Seq(S), NEW k \in Nat, k <= Len(u)
    PROVE  /\ SubSeq(u, 1, k) \in Seq(S) /\ Len(SubSeq(u, 1, k)) = k /\ DOMAIN SubSeq(u, 1, k) = 1..k
           /\ \A i \in 1..k : SubSeq(u, 1, k)[i] = u[i]
OBVIOUS

LEMMA HitsJoin ==
    ASSUME Found, NEW pk \in Pubs, pk \notin answered, NEW M \in Seq(Hits), Unlike(M), From(M, {pk}),
           NEW k, k = IF Len(hits \o M) < MaxResults THEN Len(hits \o M) ELSE MaxResults,
           hits' = SubSeq(hits \o M, 1, k), answered' = answered \cup {pk}
    PROVE  Found'
<1> DEFINE n == Len(hits)
           m == Len(M)
           u == hits \o M
<1>r. MaxResults \in Nat
  BY BudgetsAssumption
<1>1. /\ n \in Nat /\ m \in Nat /\ u \in Seq(Hits) /\ Len(u) = n + m
      /\ DOMAIN hits = 1..n /\ DOMAIN M = 1..m /\ DOMAIN u = 1..n + m
      /\ \A i \in 1..n + m : u[i] = IF i <= n THEN hits[i] ELSE M[i - n]
  BY DEF Found
<1> HIDE DEF n, m, u
<1>k. k \in Nat /\ k <= n + m /\ k <= MaxResults
  <2>1. k = IF n + m < MaxResults THEN n + m ELSE MaxResults
    BY <1>1, Zenon DEF u
  <2> QED  BY <1>r, <1>1, <2>1
<1>2. /\ hits' \in Seq(Hits) /\ DOMAIN hits' = 1..k /\ Len(hits') = k
      /\ \A i \in 1..k : hits'[i] = u[i] /\ i \in 1..n + m
  <2>1. hits' = SubSeq(u, 1, k)
    BY Zenon DEF u
  <2>2. u \in Seq(Hits) /\ Len(u) = n + m /\ DOMAIN u = 1..n + m /\ n + m \in Nat
    BY <1>1
  <2>3. \A i \in 1..k : i \in 1..n + m
    BY <1>1, <1>k
  <2> HIDE DEF u
  <2>4. /\ hits' \in Seq(Hits) /\ Len(hits') = k /\ DOMAIN hits' = 1..k
        /\ \A i \in 1..k : hits'[i] = u[i]
    <3>1. u \in Seq(Hits) /\ k <= Len(u)
      BY <1>k, <2>2
    <3> HIDE DEF Hits
    <3> QED  BY <1>k, <2>1, <3>1, PrefixIs, SMTT(60)
  <2> QED  BY <2>3, <2>4
<1>3. \A i \in 1..k : i \in 1..n \/ (i > n /\ i - n \in 1..m)
  BY <1>1, <1>k
<1>h. \A i \in 1..n : hits[i].pk \in answered
  BY <1>1 DEF Found, From
<1>p. \A i \in 1..m : M[i].pk = pk
  BY <1>1 DEF From
<1> DEFINE v == hits'
<1>d. v \in Seq(Hits) /\ DOMAIN v = 1..k /\ Len(v) = k
  BY <1>2
<1>4. \A i \in 1..k : i \in 1..n => v[i] = hits[i]
  BY <1>1, <1>2
<1>5. \A i \in 1..k : i > n => v[i] = M[i - n] /\ i - n \in 1..m
  BY <1>1, <1>2, <1>3
<1> HIDE DEF v
<1>6. Unlike(v)
  <2> SUFFICES ASSUME NEW i \in 1..k, NEW j \in 1..k, v[i].pk = v[j].pk, v[i].ih = v[j].ih
               PROVE  i = j
    BY <1>d DEF Unlike
  <2>1. \A a, b \in 1..n : hits[a].pk = hits[b].pk /\ hits[a].ih = hits[b].ih => a = b
    BY <1>1 DEF Found, Unlike
  <2>2. \A a, b \in 1..m : M[a].pk = M[b].pk /\ M[a].ih = M[b].ih => a = b
    BY <1>1 DEF Unlike
  <2>3. CASE i \in 1..n /\ j \in 1..n
    <3>1. v[i] = hits[i] /\ v[j] = hits[j]
      BY <1>4, <2>3
    <3> QED  BY <2>1, <2>3, <3>1
  <2>4. \A x, y \in 1..k : x \in 1..n /\ y > n => v[x].pk # v[y].pk
    <3> SUFFICES ASSUME NEW x \in 1..k, NEW y \in 1..k, x \in 1..n, y > n  PROVE v[x].pk # v[y].pk
      OBVIOUS
    <3>1. v[x] = hits[x] /\ v[y] = M[y - n] /\ y - n \in 1..m
      BY <1>4, <1>5
    <3> QED  BY <1>h, <1>p, <3>1
  <2>5. CASE i > n /\ j > n
    <3>1. v[i] = M[i - n] /\ v[j] = M[j - n] /\ i - n \in 1..m /\ j - n \in 1..m
      BY <1>5, <2>5
    <3>2. i - n = j - n
      BY <2>2, <3>1
    <3> QED  BY <1>1, <3>2
  <2> QED  BY <1>3, <2>3, <2>4, <2>5
<1>7. From(v, answered')
  <2> SUFFICES ASSUME NEW i \in 1..k  PROVE v[i].pk \in answered \cup {pk}
    BY <1>d DEF From
  <2>1. CASE i \in 1..n
    BY <1>4, <1>h, <2>1
  <2>2. CASE i > n
    BY <1>5, <1>p, <2>2
  <2> QED  BY <1>3, <2>1, <2>2
<1> QED  BY <1>k, <1>d, <1>6, <1>7 DEF Found, Unlike, From, v

\* The walk goes on, with those that have joined the next level.
LEMMA GoOnKeeps ==
    ASSUME WalkTypes, Ordered, pc \in Waiting, queued \subseteq queued',
           NEW following \in Seq(Pubs), IsInjective(following), Range(following) \subseteq queued' \ {Self},
           Range(visited) \cap Range(following) = {}, Range(Tail(frontier)) \cap Range(following) = {},
           GoOn(Tail(frontier), following),
           UNCHANGED <<visited, opts>>, answered' \subseteq Range(visited)
    PROVE  /\ Ordered'
           /\ frontier' \in Seq(Pubs) /\ next' \in Seq(Pubs)
           /\ pc' \in {"walk", "done"} /\ (pc' = "walk" => frontier' # <<>>)
           /\ hops' \in Nat /\ hops' <= opts.depth + 1 /\ (pc' # "done" => hops' <= opts.depth)
<1>t. /\ frontier # <<>> /\ frontier \in Seq(Pubs) /\ next \in Seq(Pubs) /\ pc # "done"
      /\ hops \in Nat /\ opts.depth \in Nat /\ hops <= opts.depth
  BY OptionsAre DEF WalkTypes, Waiting
<1> DEFINE rest == Tail(frontier)
<1>r. rest \in Seq(Pubs) /\ IsInjective(rest) /\ Range(rest) \subseteq queued \ {Self}
      /\ Range(visited) \cap Range(rest) = {}
  BY <1>t, TailIs DEF Ordered, Distinct, Rest
<1>v. IsInjective(visited) /\ Range(visited) \subseteq queued \ {Self}
  BY DEF Ordered, Distinct
<1>e. <<>> \in Seq(Pubs) /\ IsInjective(<<>>) /\ Range(<<>>) = {}
  <2>1. <<>> \in Seq(Pubs) /\ DOMAIN <<>> = {}
    OBVIOUS
  <2> QED  BY <2>1 DEF IsInjective, Range
<1> HIDE DEF rest
<1>g. \/ /\ rest # <<>> /\ frontier' = rest /\ next' = following /\ pc' = "walk" /\ hops' = hops
      \/ /\ rest = <<>> /\ frontier' = following /\ next' = <<>> /\ hops' = hops + 1
         /\ pc' = IF hops < opts.depth /\ following # <<>> THEN "walk" ELSE "done"
  BY Zenon DEF GoOn, rest
<1>1. /\ frontier' \in Seq(Pubs) /\ next' \in Seq(Pubs)
      /\ pc' \in {"walk", "done"} /\ (pc' = "walk" => frontier' # <<>>)
      /\ hops' \in Nat /\ hops' <= opts.depth + 1 /\ (pc' # "done" => hops' <= opts.depth)
  <2> HIDE DEF rest
  <2>1. CASE rest # <<>>
    BY <1>g, <1>r, <1>t, <2>1
  <2>2. CASE rest = <<>>
    BY <1>g, <1>e, <1>t, <2>2
  <2> QED  BY <2>1, <2>2
<1>2. Rest' = frontier' /\ pc' \notin Waiting
  BY <1>1, Zenon DEF Rest, Waiting
<1>3. /\ IsInjective(frontier') /\ Range(frontier') \subseteq queued' \ {Self}
      /\ IsInjective(next') /\ Range(next') \subseteq queued' \ {Self}
      /\ Range(visited) \cap Range(frontier') = {} /\ Range(visited) \cap Range(next') = {}
      /\ Range(frontier') \cap Range(next') = {}
  <2>1. CASE rest # <<>>
    <3>1. frontier' = rest /\ next' = following
      BY <1>g, <2>1
    <3>2. Range(rest) \cap Range(following) = {}
      BY DEF rest
    <3> QED  BY <1>r, <3>1, <3>2
  <2>2. CASE rest = <<>>
    <3>1. frontier' = following /\ next' = <<>>
      BY <1>g, <2>2
    <3> QED  BY <1>e, <3>1
  <2> QED  BY <2>1, <2>2
<1>4. Distinct(visited)' /\ Distinct(Rest)' /\ Distinct(next)'
  BY <1>2, <1>3, <1>v DEF Distinct
<1>5. Ordered'
  BY <1>2, <1>3, <1>4 DEF Ordered
<1> QED  BY <1>1, <1>5

\* What a catalog adds to the walk.
LEMMA TakeKeeps ==
    ASSUME WalkInv, pc \in Waiting, Take(Head(frontier)), UNCHANGED <<web, opts, visited>>,
           call' \in Nat, call' <= Len(tx')
    PROVE  WalkInv'
<1> DEFINE pk == Head(frontier)
           es == ParsedEntries(pk)
           M == Matching(pk, es)
           found == hits \o M
           full == es # <<>> /\ Len(hits) + Len(Matching(pk, Front(es))) >= MaxResults
           pks == IF hops = opts.depth THEN <<>> ELSE ParsedEndorse(pk)
           r == Enqueued(queued, next, pks)
<1>1. /\ answered' = answered \cup {pk}
      /\ hits' = SubSeq(found, 1, IF Len(found) < MaxResults THEN Len(found) ELSE MaxResults)
      /\ full => pc' = "done" /\ cut' = TRUE /\ UNCHANGED <<queued, frontier, next, hops>>
      /\ ~full => queued' = r.queued /\ cut' = (cut \/ r.cut) /\ GoOn(Tail(frontier), r.list)
  BY Zenon DEF Take
<1> HIDE DEF full
<1>t. WalkTypes /\ Ordered /\ Found
  BY DEF WalkInv
<1>p. /\ frontier \in Seq(Pubs) /\ frontier # <<>> /\ pk \in Pubs /\ pk \in Range(visited) /\ pk \notin answered
      /\ web \in Webs /\ pc # "done"
  BY <1>t, TailIs DEF WalkTypes, Ordered, Waiting
<1>a. answered' \subseteq Range(visited) /\ answered' \subseteq Pubs
  BY <1>1, <1>p, <1>t DEF Ordered, WalkTypes
<1>f. Found'
  <2>1. es \in Seq([ih : Infohashes, match : BOOLEAN])
    BY <1>p, EntriesAre
  <2>2. M \in Seq(Hits) /\ Unlike(M) /\ From(M, {pk})
    <3> HIDE DEF es, pk
    <3> QED  BY <1>p, <1>t, <2>1, MatchingIs
  <2> HIDE DEF M, pk
  <2> QED  BY <1>1, <1>p, <1>t, <2>2, HitsJoin
<1>2. CASE full
  <2>1. pc' = "done" /\ cut' = TRUE /\ UNCHANGED <<queued, frontier, next, hops>>
    BY <1>1, <1>2
  <2>2. WalkTypes'
    <3> HIDE DEF pk
    <3> QED  BY <1>a, <1>t, <2>1 DEF WalkTypes
  <2>3. Ordered'
    <3> HIDE DEF pk
    <3>1. Distinct(visited)'
      BY <1>t, <2>1 DEF Ordered, Distinct
    <3> QED  BY <1>a, <2>1, <3>1 DEF Ordered, Waiting
  <2> QED  BY <1>f, <2>2, <2>3 DEF WalkInv
<1>3. CASE ~full
  <2>1. queued' = r.queued /\ cut' = (cut \/ r.cut) /\ GoOn(Tail(frontier), r.list)
    BY <1>1, <1>3
  <2>2. pks \in Seq(Pubs \cup {Self})
    <3>1. <<>> \in Seq(Pubs \cup {Self})
      OBVIOUS
    <3>2. ParsedEndorse(pk) \in Seq(Pubs \cup {Self})
      BY <1>p, EndorseIs
    <3> QED  BY <3>1, <3>2
  <2>3. Joined(r, queued, next, pks)
    <3>1. /\ queued \subseteq Pubs \cup {Self} /\ Self \in queued /\ IsFiniteSet(queued)
          /\ opts.maxPublishers \in Nat /\ Cardinality(queued) - 1 <= opts.maxPublishers
      BY <1>t, OptionsAre DEF WalkTypes
    <3> HIDE DEF pks
    <3> QED  BY <2>2, <3>1, EnqueuedIs
  <2> HIDE DEF r, pk
  <2>4. PICK new \in Seq(Pubs) :
          /\ r.list = next \o new /\ IsInjective(new) /\ Range(new) \cap queued = {}
          /\ r.queued = queued \cup Range(new)
          /\ IsFiniteSet(r.queued) /\ Cardinality(r.queued) - 1 <= opts.maxPublishers
          /\ r.cut \in BOOLEAN
    BY <2>3 DEF Joined
  <2>n. /\ next \in Seq(Pubs) /\ IsInjective(next) /\ Range(next) \subseteq queued \ {Self}
        /\ Range(visited) \cap Range(next) = {} /\ Range(Tail(frontier)) \cap Range(next) = {}
        /\ Range(visited) \subseteq queued /\ Range(Tail(frontier)) \subseteq queued
        /\ Self \in queued /\ queued \subseteq Pubs \cup {Self} /\ cut \in BOOLEAN
    BY <1>p, <1>t DEF WalkTypes, Ordered, Distinct, Rest
  <2>5. /\ r.list \in Seq(Pubs) /\ IsInjective(r.list) /\ Range(r.list) = Range(next) \cup Range(new)
    <3>1. Range(next) \cap Range(new) = {}
      BY <2>4, <2>n
    <3> QED  BY <2>4, <2>n, <3>1, ConcatIs
  <2>6. /\ Range(r.list) \subseteq queued' \ {Self}
        /\ Range(visited) \cap Range(r.list) = {} /\ Range(Tail(frontier)) \cap Range(r.list) = {}
        /\ queued \subseteq queued'
    BY <2>1, <2>4, <2>n, <2>5
  <2>7. /\ Ordered'
        /\ frontier' \in Seq(Pubs) /\ next' \in Seq(Pubs)
        /\ pc' \in {"walk", "done"} /\ (pc' = "walk" => frontier' # <<>>)
        /\ hops' \in Nat /\ hops' <= opts.depth + 1 /\ (pc' # "done" => hops' <= opts.depth)
    BY <1>a, <1>t, <2>1, <2>5, <2>6, GoOnKeeps
  <2>8. WalkTypes'
    <3>1. /\ queued' \subseteq Pubs \cup {Self} /\ Self \in queued' /\ IsFiniteSet(queued')
          /\ Cardinality(queued') - 1 <= opts.maxPublishers
      <4>1. Range(new) \subseteq Pubs
        BY <2>4 DEF Range
      <4> QED  BY <2>1, <2>4, <2>n, <4>1
    <3>2. cut' \in BOOLEAN
      BY <2>1, <2>4, <2>n
    <3>3. web' \in Webs /\ opts' = opts /\ opts \in Options /\ visited' \in Seq(Pubs)
      BY <1>t DEF WalkTypes
    <3> QED  BY <1>a, <2>7, <3>1, <3>2, <3>3 DEF WalkTypes
  <2> QED  BY <1>f, <2>7, <2>8 DEF WalkInv
<1> QED  BY <1>2, <1>3

LEMMA SearchKeeps ==
    ASSUME WalkInv, Search
    PROVE  WalkInv'
<1> DEFINE r == Enqueued(queued, <<>>, Follows)
<1>1. /\ pc = "idle" /\ queued' = r.queued /\ frontier' = r.list /\ cut' = r.cut
      /\ pc' = IF r.list = <<>> THEN "done" ELSE "walk"
      /\ UNCHANGED <<tx, web, opts, next, hops, hits, call, visited, answered>>
  BY Zenon DEF Search, adoptVars
<1>t. WalkTypes /\ Ordered /\ Found
  BY DEF WalkInv
<1>2. Joined(r, queued, <<>>, Follows)
  <2>1. /\ queued \subseteq Pubs \cup {Self} /\ Self \in queued /\ IsFiniteSet(queued)
        /\ opts.maxPublishers \in Nat /\ Cardinality(queued) - 1 <= opts.maxPublishers
    BY <1>t, OptionsAre DEF WalkTypes
  <2> QED  BY <2>1, EnqueuedIs, FollowsAssumption
<1> HIDE DEF r
<1>3. PICK new \in Seq(Pubs) :
        /\ r.list = <<>> \o new /\ IsInjective(new) /\ Range(new) \cap queued = {}
        /\ r.queued = queued \cup Range(new)
        /\ IsFiniteSet(r.queued) /\ Cardinality(r.queued) - 1 <= opts.maxPublishers
        /\ r.cut \in BOOLEAN
  BY <1>2 DEF Joined
<1>4. r.list = new
  BY <1>3
<1>n. Range(new) \subseteq Pubs
  BY DEF Range
<1>5. WalkTypes'
  BY <1>1, <1>3, <1>4, <1>n, <1>t DEF WalkTypes
<1>6. Ordered'
  <2>1. pc' \notin Waiting /\ Rest' = new /\ pc # "done"
    BY <1>1, <1>4 DEF Rest, Waiting
  <2>2. /\ Distinct(visited) /\ Distinct(next) /\ answered \subseteq Range(visited)
        /\ Range(visited) \cap Range(next) = {} /\ Self \in queued
    BY <1>t, <2>1 DEF Ordered, WalkTypes
  <2>3. Distinct(visited)' /\ Distinct(next)'
    BY <1>1, <1>3, <2>2 DEF Distinct
  <2>4. Distinct(Rest)'
    BY <1>1, <1>3, <2>1, <2>2 DEF Distinct
  <2>5. Range(visited) \cap Range(new) = {} /\ Range(new) \cap Range(next) = {}
    BY <1>3, <2>2 DEF Distinct
  <2> QED  BY <1>1, <2>1, <2>2, <2>3, <2>4, <2>5 DEF Ordered
<1>7. Found'
  BY <1>1, <1>t DEF Found, Unlike, From
<1> QED  BY <1>5, <1>6, <1>7 DEF WalkInv

LEMMA VisitKeeps ==
    ASSUME WalkInv, Visit
    PROVE  WalkInv'
<1>1. /\ pc = "walk" /\ pc' = "load" /\ visited' = Append(visited, Head(frontier))
      /\ UNCHANGED <<tx, web, opts, queued, frontier, next, hops, hits, call, answered, cut>>
  BY DEF Visit, adoptVars
<1>t. WalkTypes /\ Ordered /\ Found
  BY DEF WalkInv
<1>2. /\ frontier \in Seq(Pubs) /\ frontier # <<>> /\ visited \in Seq(Pubs)
      /\ IsInjective(frontier) /\ Range(frontier) \subseteq queued \ {Self}
      /\ IsInjective(visited) /\ Range(visited) \subseteq queued \ {Self}
      /\ Range(visited) \cap Range(frontier) = {} /\ Range(visited) \cap Range(next) = {}
      /\ Range(frontier) \cap Range(next) = {} /\ Distinct(next) /\ answered \subseteq Range(visited)
  BY <1>1, <1>t DEF WalkTypes, Ordered, Distinct, Rest, Waiting
<1>3. /\ Tail(frontier) \in Seq(Pubs) /\ Head(frontier) \in Pubs
      /\ Range(frontier) = {Head(frontier)} \cup Range(Tail(frontier))
      /\ IsInjective(Tail(frontier)) /\ Head(frontier) \notin Range(Tail(frontier))
  BY <1>2, TailIs
<1>4. /\ visited' \in Seq(Pubs) /\ IsInjective(visited') /\ Range(visited') = Range(visited) \cup {Head(frontier)}
  <2>1. Head(frontier) \notin Range(visited)
    BY <1>2, <1>3
  <2> QED  BY <1>1, <1>2, <1>3, <2>1, AppendIs
<1>5. WalkTypes'
  BY <1>1, <1>4, <1>t DEF WalkTypes
<1>6. Ordered'
  <2>1. Rest' = Tail(frontier)
    BY <1>1 DEF Rest, Waiting
  <2>2. Distinct(visited)' /\ Distinct(next)' /\ Distinct(Rest)'
    BY <1>1, <1>2, <1>3, <1>4, <2>1 DEF Distinct
  <2>3. Head(frontier') \in Range(visited') \ answered'
    BY <1>1, <1>2, <1>3, <1>4
  <2>4. /\ Range(visited') \cap Range(Tail(frontier)) = {} /\ Range(visited') \cap Range(next) = {}
        /\ Range(Tail(frontier)) \cap Range(next) = {} /\ answered \subseteq Range(visited')
    BY <1>2, <1>3, <1>4
  <2> QED  BY <1>1, <2>1, <2>2, <2>3, <2>4 DEF Ordered
<1>7. Found'
  BY <1>1, <1>t DEF Found, Unlike, From
<1> QED  BY <1>5, <1>6, <1>7 DEF WalkInv

LEMMA NoCatalogKeeps ==
    ASSUME WalkInv, NoCatalog
    PROVE  WalkInv'
<1>1. /\ pc \in Waiting /\ GoOn(Tail(frontier), next) /\ call' = 0
      /\ UNCHANGED <<tx, web, opts, queued, hits, visited, answered, cut>>
  BY DEF NoCatalog, adoptVars, Waiting
<1>t. WalkTypes /\ Ordered /\ Found
  BY DEF WalkInv
<1>2. /\ next \in Seq(Pubs) /\ IsInjective(next) /\ Range(next) \subseteq queued' \ {Self}
      /\ Range(visited) \cap Range(next) = {} /\ Range(Tail(frontier)) \cap Range(next) = {}
      /\ queued \subseteq queued' /\ answered' \subseteq Range(visited)
  BY <1>1, <1>t DEF WalkTypes, Ordered, Distinct, Rest, Waiting
<1>3. /\ Ordered'
      /\ frontier' \in Seq(Pubs) /\ next' \in Seq(Pubs)
      /\ pc' \in {"walk", "done"} /\ (pc' = "walk" => frontier' # <<>>)
      /\ hops' \in Nat /\ hops' <= opts.depth + 1 /\ (pc' # "done" => hops' <= opts.depth)
  BY <1>1, <1>2, <1>t, GoOnKeeps
<1>4. WalkTypes'
  <2>1. 0 <= Len(tx)
    BY <1>t DEF WalkTypes
  <2> QED  BY <1>1, <1>3, <1>t, <2>1 DEF WalkTypes
<1>5. Found'
  BY <1>1, <1>t DEF Found, Unlike, From
<1> QED  BY <1>3, <1>4, <1>5 DEF WalkInv

\* Adoption leaves the walk alone, as long as it does not forget calls.
LEMMA WalkStays ==
    ASSUME WalkInv, UNCHANGED walkVars, Len(tx) \in Nat, Len(tx') \in Nat, Len(tx) <= Len(tx')
    PROVE  WalkInv'
<1>1. UNCHANGED <<web, opts, pc, queued, frontier, next, hops, hits, call, visited, answered, cut>>
  BY DEF walkVars
<1>2. WalkTypes'
  BY <1>1 DEF WalkInv, WalkTypes
<1>3. Ordered'
  BY <1>1 DEF WalkInv, Ordered, Distinct, Rest
<1>4. Found'
  BY <1>1 DEF WalkInv, Found, Unlike, From
<1> QED  BY <1>2, <1>3, <1>4 DEF WalkInv

\* The calls of adoptNodes are never forgotten.
LEMMA TxsStay ==
    ASSUME AdoptInv, [AdoptNext]_adoptVars
    PROVE  Len(tx) \in Nat /\ Len(tx') \in Nat /\ Len(tx) <= Len(tx')
<1>1. tx \in Seq(TxType) /\ tx' \in Seq(TxType)
  BY AdoptStep DEF AdoptInv, AdoptTypes
<1>2. CASE \E pk \in Pubs : \E nodes \in Lists[pk] : Adopt(pk, nodes)
  <2>1. \E x : tx' = Append(tx, x)
    BY <1>2 DEF Adopt
  <2> QED  BY <1>1, <2>1
<1>3. CASE ~\E pk \in Pubs : \E nodes \in Lists[pk] : Adopt(pk, nodes)
  <2>1. ASSUME NEW t \in Txs, AdoptTx(t)  PROVE DOMAIN tx' = DOMAIN tx
    <3>1. \/ tx' = tx
          \/ \E r : tx' = [tx EXCEPT ![t] = r]
      BY <2>1, Zenon DEF AdoptTx, Skip, Load, Grant, Persist, PersistFails, Hand
    <3> QED  BY <3>1
  <2>2. ASSUME Crash  PROVE DOMAIN tx' = DOMAIN tx
    BY <2>2 DEF Crash, Txs
  <2>3. ASSUME Stop \/ Start \/ TimePasses \/ UNCHANGED adoptVars  PROVE tx' = tx
    <3>1. CASE Stop \/ Start \/ TimePasses
      BY <3>1, Zenon DEF Stop, Start, TimePasses
    <3>2. CASE UNCHANGED adoptVars
      BY <3>2 DEF adoptVars
    <3> QED  BY <2>3, <3>1, <3>2
  <2>4. DOMAIN tx' = DOMAIN tx
    BY <1>3, <2>1, <2>2, <2>3, Zenon DEF AdoptNext
  <2> QED  BY <1>1, <2>4
<1> QED  BY <1>2, <1>3

\* Every step of the walk is one of adoption, or none.
LEMMA WalkAdopts ==
    ASSUME WalkInv, [Next]_vars
    PROVE  [AdoptNext]_adoptVars
<1>1. ASSUME LoadedCatalog  PROVE AdoptNext
  <2>1. frontier \in Seq(Pubs) /\ frontier # <<>>
    BY <1>1 DEF LoadedCatalog, WalkInv, WalkTypes
  <2>2. Head(frontier) \in Pubs
    BY <2>1, TailIs
  <2> QED  BY <1>1, <2>2, Zenon DEF LoadedCatalog, AdoptNext
<1>2. ASSUME WalkStep, ~LoadedCatalog  PROVE UNCHANGED adoptVars
  BY <1>2, Zenon DEF WalkStep, Search, OutOfTime, Visit, NoCatalog, KnownCatalog, Adopted
<1>3. ASSUME NEW pk \in Pubs, OtherReader(pk)  PROVE AdoptNext
  BY <1>3, Zenon DEF OtherReader, AdoptNext
<1>4. ASSUME ProcessEnds  PROVE AdoptNext
  BY <1>4, Zenon DEF ProcessEnds, AdoptNext
<1>5. ASSUME AdoptGoesOn  PROVE AdoptNext
  BY <1>5, Zenon DEF AdoptGoesOn, AdoptNext
<1>6. ASSUME Stop \/ Start \/ TimePasses  PROVE AdoptNext
  BY <1>6, Zenon DEF AdoptNext
<1>7. ASSUME UNCHANGED vars  PROVE UNCHANGED adoptVars
  BY <1>7 DEF vars
<1> QED  BY <1>1, <1>2, <1>3, <1>4, <1>5, <1>6, <1>7, Zenon DEF Next

LEMMA WalkKeeps ==
    ASSUME AdoptInv, WalkInv, [Next]_vars
    PROVE  WalkInv'
<1>1. Len(tx) \in Nat /\ Len(tx') \in Nat /\ Len(tx) <= Len(tx')
  BY WalkAdopts, TxsStay
<1>t. WalkTypes /\ Ordered /\ Found
  BY DEF WalkInv
<1>2. ASSUME OutOfTime  PROVE WalkInv'
  <2>1. /\ pc' = "done" /\ cut' = TRUE
        /\ UNCHANGED <<tx, web, opts, queued, frontier, next, hops, hits, call, visited, answered>>
    BY <1>2 DEF OutOfTime, adoptVars
  <2>2. WalkTypes'
    BY <2>1, <1>t DEF WalkTypes
  <2>3. Ordered'
    BY <2>1, <1>t DEF Ordered, Distinct, Waiting
  <2>4. Found'
    BY <2>1, <1>t DEF Found, Unlike, From
  <2> QED  BY <2>2, <2>3, <2>4 DEF WalkInv
<1>3. ASSUME LoadedCatalog  PROVE WalkInv'
  <2>1. /\ pc = "load" /\ pc' = "adopt" /\ tx' = Append(tx, tx'[Len(tx) + 1]) /\ call' = Len(tx) + 1
        /\ UNCHANGED <<web, opts, queued, frontier, next, hops, hits, visited, answered, cut>>
    <3>1. \E x : tx' = Append(tx, x)
      BY <1>3 DEF LoadedCatalog, Adopt
    <3>2. tx \in Seq(TxType)
      BY DEF AdoptInv, AdoptTypes
    <3>3. tx' = Append(tx, tx'[Len(tx) + 1])
      BY <3>1, <3>2
    <3> QED  BY <1>3, <3>3 DEF LoadedCatalog
  <2>2. call' \in Nat /\ call' <= Len(tx')
    <3>1. tx \in Seq(TxType)
      BY DEF AdoptInv, AdoptTypes
    <3>2. Len(tx') = Len(tx) + 1
      BY <2>1, <3>1
    <3> QED  BY <1>1, <2>1, <3>2
  <2>3. WalkTypes'
    BY <2>1, <2>2, <1>t DEF WalkTypes
  <2>4. Ordered'
    <3>1. Rest' = Rest /\ pc' \in Waiting /\ pc \in Waiting /\ pc # "done"
      BY <2>1 DEF Rest, Waiting
    <3>2. Distinct(visited)' /\ Distinct(Rest)' /\ Distinct(next)'
      BY <2>1, <3>1, <1>t DEF Ordered, Distinct
    <3> QED  BY <2>1, <3>1, <3>2, <1>t DEF Ordered
  <2>5. Found'
    BY <2>1, <1>t DEF Found, Unlike, From
  <2> QED  BY <2>3, <2>4, <2>5 DEF WalkInv
<1>4. ASSUME KnownCatalog \/ Adopted  PROVE WalkInv'
  <2>1. /\ pc \in Waiting /\ Take(Head(frontier)) /\ UNCHANGED <<tx, web, opts, visited>>
        /\ call' \in {call, 0}
    BY <1>4 DEF KnownCatalog, Adopted, Waiting, adoptVars
  <2>2. call' \in Nat /\ call' <= Len(tx')
    BY <1>1, <1>t, <2>1 DEF WalkTypes
  <2> QED  BY <2>1, <2>2, TakeKeeps
<1>5. ASSUME ProcessEnds  PROVE WalkInv'
  <2>1. /\ pc' = "done" /\ cut' = TRUE
        /\ queued' = {Self} /\ frontier' = <<>> /\ next' = <<>> /\ hops' = 0
        /\ hits' = <<>> /\ call' = 0 /\ visited' = <<>> /\ answered' = {}
        /\ UNCHANGED <<web, opts>>
    BY <1>5 DEF ProcessEnds
  <2>2. IsFiniteSet({Self}) /\ Cardinality({Self}) = 1
    BY FS_Singleton, Zenon
  <2>3. WalkTypes'
    <3>1. opts.depth \in Nat /\ opts.maxPublishers \in Nat
      BY <1>t, OptionsAre
    <3>2. Cardinality(queued') - 1 <= opts.maxPublishers /\ IsFiniteSet(queued')
      BY <2>1, <2>2, <3>1
    <3> QED  BY <1>1, <1>t, <2>1, <3>1, <3>2 DEF WalkTypes
  <2>e. DOMAIN <<>> = {} /\ <<>> \in Seq(Hits) /\ Len(<<>>) = 0
    OBVIOUS
  <2>4. Ordered'
    BY <2>1, <2>e DEF Ordered, Distinct, Waiting, IsInjective, Range
  <2>5. Found'
    BY <2>1, <2>e, BudgetsAssumption DEF Found, Unlike, From
  <2> QED  BY <2>3, <2>4, <2>5 DEF WalkInv
<1>6. ASSUME \/ \E pk \in Pubs : OtherReader(pk)
             \/ AdoptGoesOn
             \/ (Stop \/ Start \/ TimePasses) /\ UNCHANGED walkVars
             \/ UNCHANGED vars
      PROVE  WalkInv'
  <2>1. UNCHANGED walkVars
    BY <1>6, Zenon DEF OtherReader, AdoptGoesOn, vars
  <2> QED  BY <1>1, <2>1, WalkStays
<1> QED  BY <1>2, <1>3, <1>4, <1>5, <1>6, SearchKeeps, VisitKeeps, NoCatalogKeeps, Zenon DEF Next, WalkStep

LEMMA WalkStarts ==
    ASSUME Init
    PROVE  WalkInv
<1>1. /\ web \in Webs /\ opts \in Options /\ pc = "idle" /\ cut = FALSE
      /\ queued = {Self} /\ frontier = <<>> /\ next = <<>> /\ hops = 0
      /\ hits = <<>> /\ call = 0 /\ visited = <<>> /\ answered = {} /\ tx = <<>>
  BY DEF Init, AdoptInit
<1>2. IsFiniteSet({Self}) /\ Cardinality({Self}) = 1
  BY FS_Singleton, Zenon
<1>e. DOMAIN <<>> = {} /\ <<>> \in Seq(Hits) /\ <<>> \in Seq(Pubs) /\ Len(<<>>) = 0
  OBVIOUS
<1>3. WalkTypes
  <2>1. opts.depth \in Nat /\ opts.maxPublishers \in Nat
    BY <1>1, OptionsAssumption
  <2>2. Cardinality(queued) - 1 <= opts.maxPublishers /\ IsFiniteSet(queued)
    BY <1>1, <1>2, <2>1
  <2>3. Len(tx) = 0
    BY <1>1, <1>e
  <2>4. hops \in Nat /\ hops <= opts.depth + 1 /\ hops <= opts.depth /\ call \in Nat /\ call <= Len(tx)
    BY <1>1, <2>1, <2>3
  <2>5. /\ frontier \in Seq(Pubs) /\ next \in Seq(Pubs) /\ visited \in Seq(Pubs)
        /\ pc \notin {"walk", "load", "adopt"} /\ pc \in {"idle", "walk", "load", "adopt", "done"}
        /\ queued \subseteq Pubs \cup {Self} /\ Self \in queued /\ answered \subseteq Pubs /\ cut \in BOOLEAN
    BY <1>1, <1>e
  <2> QED  BY <1>1, <2>2, <2>4, <2>5 DEF WalkTypes
<1>4. Ordered
  <2>1. Rest = <<>>
    BY <1>1 DEF Rest, Waiting
  <2> QED  BY <1>1, <1>e, <2>1 DEF Ordered, Distinct, Waiting, IsInjective, Range
<1>5. Found
  BY <1>1, <1>e, BudgetsAssumption DEF Found, Unlike, From
<1> QED  BY <1>3, <1>4, <1>5 DEF WalkInv

\* What the invariant says of the walk.
LEMMA WalkBudgets ==
    ASSUME AdoptInv, WalkInv
    PROVE  TypeOK /\ VisitsBounded
<1>t. WalkTypes /\ Ordered /\ Found
  BY DEF WalkInv
<1>o. opts.depth \in Nat /\ opts.maxPublishers \in Nat
  BY <1>t, OptionsAre
<1>1. TypeOK
  <2>1. Len(tx) \in Nat
    BY DEF AdoptInv, AdoptTypes
  <2> QED  BY <1>o, <1>t, <2>1, AdoptBudgets DEF TypeOK, WalkTypes, Found
<1>2. Len(visited) <= opts.maxPublishers
  <2> DEFINE n == Len(visited)
             R == Range(visited)
             Q == queued \ {Self}
  <2>1. n \in Nat /\ DOMAIN visited = 1..n /\ visited \in Seq(Pubs)
    BY <1>t DEF WalkTypes
  <2>2. Cardinality(R) = n
    <3>1. visited \in [1..n -> R] /\ R = {visited[i] : i \in 1..n}
      BY <2>1 DEF Range
    <3>2. visited \in Bijection(1..n, R)
      <4> HIDE DEF R, n
      <4>1. \A a, b \in 1..n : visited[a] = visited[b] => a = b
        BY <2>1, <1>t DEF Ordered, Distinct, IsInjective
      <4>2. \A r \in R : \E i \in 1..n : visited[i] = r
        BY <3>1
      <4> QED  BY <3>1, <4>1, <4>2 DEF Bijection, Injection, Surjection, IsInjective
    <3> HIDE DEF R, n
    <3> QED  BY <2>1, <3>2, FS_CountingElements, Zenon DEF ExistsBijection
  <2>3. R \subseteq Q
    BY <1>t DEF Ordered, Distinct
  <2>4. IsFiniteSet(Q) /\ Cardinality(Q) = Cardinality(queued) - 1
    <3>1. IsFiniteSet(queued) /\ Self \in queued
      BY <1>t DEF WalkTypes
    <3> QED  BY <3>1, FS_RemoveElement
  <2>5. Cardinality(R) <= Cardinality(Q)
    <3> HIDE DEF R, Q
    <3> QED  BY <2>3, <2>4, FS_Subset
  <2>6. Cardinality(Q) <= opts.maxPublishers /\ Cardinality(Q) \in Nat
    <3>1. Cardinality(Q) \in Nat
      <4> HIDE DEF Q
      <4> QED  BY <2>4, FS_CardinalityType
    <3> QED  BY <1>t, <2>4, <3>1 DEF WalkTypes
  <2> HIDE DEF R, Q, n
  <2>7. n <= opts.maxPublishers
    BY <1>o, <2>1, <2>2, <2>5, <2>6
  <2> QED  BY <2>7 DEF n
<1>3. Len(hits) = Cardinality({<<hits[i].pk, hits[i].ih>> : i \in DOMAIN hits})
  <2> DEFINE n == Len(hits)
             P == {<<hits[i].pk, hits[i].ih>> : i \in DOMAIN hits}
             f == [i \in 1..n |-> <<hits[i].pk, hits[i].ih>>]
  <2>1. n \in Nat /\ DOMAIN hits = 1..n
    BY <1>t DEF Found
  <2>2. f \in Bijection(1..n, P)
    <3> HIDE DEF n
    <3>1. \A a, b \in 1..n : f[a] = f[b] => a = b
      BY <2>1, <1>t DEF Found, Unlike
    <3>2. f \in [1..n -> P]
      BY <2>1
    <3>3. \A p \in P : \E i \in 1..n : f[i] = p
      BY <2>1
    <3> HIDE DEF P, f
    <3> QED  BY <3>1, <3>2, <3>3 DEF Bijection, Injection, Surjection, IsInjective
  <2> HIDE DEF n, P, f
  <2>3. Cardinality(P) = n
    BY <2>1, <2>2, FS_CountingElements, Zenon DEF ExistsBijection
  <2> QED  BY <2>3 DEF n, P
<1> QED  BY <1>1, <1>2, <1>3, <1>t DEF VisitsBounded, Ordered, Distinct

LEMMA Invariants == Spec => [](AdoptInv /\ WalkInv)
<1>1. Init => AdoptInv /\ WalkInv
  BY AdoptStarts, WalkStarts DEF Init
<1>2. AdoptInv /\ WalkInv /\ [Next]_vars => AdoptInv' /\ WalkInv'
  BY WalkAdopts, AdoptStep, WalkKeeps
<1> QED  BY <1>1, <1>2, PTL DEF Spec

\* However catalogs list, calls overlap, writes fail and processes end: what is handed to
\* the DHT stays within the budgets of its publisher, its subnet and its process, and the
\* walk asks nobody twice, finds nothing twice and keeps its own budgets (node.ts:1047,
\* node.ts:1309).
THEOREM BudgetsAlwaysHold == Spec => []BudgetsHold
<1>1. AdoptInv /\ WalkInv => BudgetsHold
  BY AdoptBudgets, WalkBudgets DEF BudgetsHold
<1> QED  BY <1>1, Invariants, PTL

\* A node that was adopted from another's catalog is not vouched for before its time, also
\* after restarts that forget all but the file (node.ts:893).
THEOREM NothingIsLaundered == Spec => []NoLaundering
<1>1. AdoptInv => NoLaundering
  BY AdoptBudgets
<1> QED  BY <1>1, Invariants, PTL

-----------------------------------------------------------------------------
(***************************************************************************)
(* How far away everybody is.                                              *)
(***************************************************************************)
\* Whom a catalog endorses.
Links == [p \in Pubs |-> {ParsedEndorse(p)[i] : i \in DOMAIN ParsedEndorse(p)} \ {Self}]
Followed == {Follows[i] : i \in DOMAIN Follows} \ {Self}

\* The recursive definition of Within has a solution.
Layered(W, F, G, A) ==
    W = [n \in Nat |-> IF n = 0 THEN F ELSE W[n - 1] \cup UNION {G[p] : p \in W[n - 1] \cap A}]

LEMMA LayersExist ==
    ASSUME NEW F, NEW G, NEW A
    PROVE  \E W : Layered(W, F, G, A)
<1> DEFINE Step(X) == X \cup UNION {G[p] : p \in X \cap A}
           Chain(f, n) == f[0] = F /\ \A k \in 1..n : f[k] = Step(f[k - 1])
<1> SUFFICES \E W : W = [n \in Nat |-> IF n = 0 THEN F ELSE Step(W[n - 1])]
  BY DEF Layered
<1> HIDE DEF Step
<1>1. \A n \in Nat : \E f : Chain(f, n)
  <2> DEFINE T == {n \in Nat : ~\E f : Chain(f, n)}
  <2> SUFFICES ASSUME T # {}  PROVE FALSE
    OBVIOUS
  <2>1. PICK m \in T : \A k \in T : m <= k
    <3>1. T \in SUBSET Nat
      OBVIOUS
    <3> HIDE DEF T
    <3> QED  BY <3>1, LeastExists
  <2>2. m # 0
    <3>1. Chain([k \in {0} |-> F], 0)
      OBVIOUS
    <3> QED  BY <3>1
  <2>3. PICK f : Chain(f, m - 1)
    <3>1. m - 1 \in Nat /\ ~(m <= m - 1)
      BY <2>2
    <3> QED  BY <2>1, <3>1
  <2> DEFINE g == [k \in 0..m |-> IF k = m THEN Step(f[m - 1]) ELSE f[k]]
  <2>4. m \in Nat /\ 0 # m /\ 0 \in 0..m /\ m - 1 \in 0..m /\ m - 1 # m
    BY <2>2
  <2>5. g[0] = F
    BY <2>3, <2>4
  <2>6. \A k \in 1..m : g[k] = Step(g[k - 1])
    <3> SUFFICES ASSUME NEW k \in 1..m  PROVE g[k] = Step(g[k - 1])
      OBVIOUS
    <3>1. k \in 0..m /\ k - 1 \in 0..m /\ k - 1 # m
      BY <2>4
    <3>2. g[k - 1] = f[k - 1]
      BY <3>1
    <3>3. CASE k = m
      BY <3>1, <3>2, <3>3
    <3>4. CASE k # m
      <4>1. k \in 1..m - 1
        BY <2>4, <3>4
      <4>2. f[k] = Step(f[k - 1])
        BY <2>3, <4>1
      <4> QED  BY <3>1, <3>2, <3>4, <4>2
    <3> QED  BY <3>3, <3>4
  <2>7. Chain(g, m)
    <3> HIDE DEF g
    <3> QED  BY <2>5, <2>6
  <2> QED  BY <2>7
<1>2. ASSUME NEW n \in Nat, NEW f, NEW g, Chain(f, n), Chain(g, n)
      PROVE  f[n] = g[n]
  <2> DEFINE T == {k \in 0..n : f[k] # g[k]}
  <2> SUFFICES ASSUME T # {}  PROVE FALSE
    OBVIOUS
  <2>1. PICK m \in T : \A k \in T : m <= k
    <3>1. T \in SUBSET Nat
      OBVIOUS
    <3> HIDE DEF T
    <3> QED  BY <3>1, LeastExists
  <2>2. m # 0
    BY <1>2
  <2>3. m - 1 \in 0..n /\ m \in 1..n /\ ~(m <= m - 1)
    BY <2>2
  <2>4. f[m - 1] = g[m - 1]
    BY <2>1, <2>3
  <2> QED  BY <1>2, <2>3, <2>4
<1> DEFINE c(n) == CHOOSE f : Chain(f, n)
           W == [n \in Nat |-> c(n)[n]]
<1>3. \A n \in Nat : Chain(c(n), n)
  <2> HIDE DEF Chain
  <2> QED  BY <1>1
<1> HIDE DEF c
<1>4. W[0] = F
  BY <1>3
<1>5. \A n \in Nat : n # 0 => W[n] = Step(W[n - 1])
  <2> SUFFICES ASSUME NEW n \in Nat, n # 0  PROVE c(n)[n] = Step(c(n - 1)[n - 1])
    <3>1. \A n \in Nat : n # 0 => n - 1 \in Nat
      OBVIOUS
    <3> QED  BY <3>1
  <2>1. n - 1 \in Nat /\ n \in 1..n /\ \A k \in 1..n - 1 : k \in 1..n
    OBVIOUS
  <2>2. Chain(c(n), n) /\ Chain(c(n - 1), n - 1)
    BY <1>3, <2>1
  <2>3. Chain(c(n), n - 1)
    BY <2>1, <2>2
  <2>4. c(n)[n - 1] = c(n - 1)[n - 1]
    <3> HIDE DEF Chain
    <3> QED  BY <1>2, <2>1, <2>2, <2>3
  <2> QED  BY <2>1, <2>2, <2>4
<1>6. W = [n \in Nat |-> IF n = 0 THEN F ELSE Step(W[n - 1])]
  <2> DEFINE V == [n \in Nat |-> IF n = 0 THEN F ELSE Step(W[n - 1])]
  <2>1. \A n \in Nat : W[n] = V[n]
    <3> HIDE DEF W
    <3> QED  BY <1>4, <1>5
  <2>2. W = [n \in Nat |-> W[n]]
    OBVIOUS
  <2>3. V = [n \in Nat |-> V[n]]
    <3> HIDE DEF W
    <3> QED OBVIOUS
  <2> HIDE DEF W, V
  <2>4. W = V
    BY <2>1, <2>2, <2>3
  <2> QED  BY <2>4 DEF V
<1> QED  BY <1>6

\* Each layer has those whom the catalogs A of the one before endorse, and that one itself.
Grown(W, A, G) ==
    /\ \A n \in Nat : W[n] \subseteq Pubs
    /\ \A n \in Nat : \A x \in Pubs : x \in W[n + 1] <=> x \in W[n] \/ \E p \in W[n] : p \in A /\ x \in G[p]

LayersAre == Within[0] = Followed /\ Grown(Within, answered, Links)

LEMMA LinksAre ==
    ASSUME web \in Webs, NEW pk \in Pubs
    PROVE  {ParsedEndorse(pk)[i] : i \in DOMAIN ParsedEndorse(pk)} \ {Self} \subseteq Pubs
<1>1. ParsedEndorse(pk) \in Seq(Pubs \cup {Self})
  BY EndorseIs
<1> DEFINE e == ParsedEndorse(pk)
<1> HIDE DEF e
<1>2. \A i \in DOMAIN e : e[i] \in Pubs \cup {Self}
  BY <1>1 DEF e
<1> QED  BY <1>2 DEF e

LEMMA WithinIs ==
    ASSUME web \in Webs, answered \subseteq Pubs
    PROVE  LayersAre
<1> DEFINE E(p) == {ParsedEndorse(p)[i] : i \in DOMAIN ParsedEndorse(p)} \ {Self}
           F == {Follows[i] : i \in DOMAIN Follows} \ {Self}
           G == [p \in answered |-> E(p)]
           Q(w) == w = [n \in Nat |->
                IF n = 0 THEN F ELSE w[n - 1] \cup UNION {E(p) : p \in w[n - 1] \cap answered}]
<1>1. Within = CHOOSE w : Q(w)
  BY DEF Within
<1>e. \A p \in Pubs : E(p) \subseteq Pubs /\ Links[p] = E(p)
  BY LinksAre DEF Links
<1>f. F \subseteq Pubs /\ F = Followed
  BY FollowsAssumption DEF Followed
<1> HIDE DEF E, F
<1>2. \E w : Q(w)
  <2>0. PICK W : Layered(W, F, G, answered)
    <3> HIDE DEF G
    <3> QED  BY LayersExist, Zenon
  <2>1. W = [n \in Nat |-> IF n = 0 THEN F ELSE W[n - 1] \cup UNION {G[p] : p \in W[n - 1] \cap answered}]
    BY <2>0 DEF Layered
  <2>2. \A X : {G[p] : p \in X \cap answered} = {E(p) : p \in X \cap answered}
    OBVIOUS
  <2> HIDE DEF G
  <2>3. Q(W)
    BY <2>1, <2>2
  <2> QED  BY <2>3
<1>3. Q(Within)
  <2> HIDE DEF Q
  <2> QED  BY <1>1, <1>2
<1>4. /\ Within[0] = F
      /\ \A n \in Nat : Within[n + 1] = Within[n] \cup UNION {E(p) : p \in Within[n] \cap answered}
  <2>1. Within = [n \in Nat |-> IF n = 0 THEN F ELSE Within[n - 1] \cup UNION {E(p) : p \in Within[n - 1] \cap answered}]
    BY <1>3
  <2>2. \A n \in Nat : n + 1 \in Nat /\ n + 1 # 0 /\ (n + 1) - 1 = n
    OBVIOUS
  <2>3. Within[0] = F
    BY <2>1
  <2>4. \A n \in Nat : n # 0 => Within[n] = Within[n - 1] \cup UNION {E(p) : p \in Within[n - 1] \cap answered}
    BY <2>1
  <2> QED  BY <2>2, <2>3, <2>4
<1> HIDE DEF Q
<1>5. \A n \in Nat : \A x : x \in Within[n + 1] <=> x \in Within[n] \/ \E p \in Within[n] : p \in answered /\ x \in E(p)
  BY <1>4
<1>6. \A n \in Nat : Within[n] \subseteq Pubs
  <2> DEFINE T == {n \in Nat : ~(Within[n] \subseteq Pubs)}
  <2> SUFFICES ASSUME T # {}  PROVE FALSE
    OBVIOUS
  <2>1. PICK m \in T : \A k \in T : m <= k
    <3>1. T \in SUBSET Nat
      OBVIOUS
    <3> HIDE DEF T
    <3> QED  BY <3>1, LeastExists
  <2>2. m # 0
    BY <1>4, <1>f
  <2>3. m - 1 \in Nat /\ ~(m <= m - 1) /\ (m - 1) + 1 = m
    BY <2>2
  <2>4. Within[m - 1] \subseteq Pubs
    BY <2>1, <2>3
  <2>5. \A x : x \in Within[m] => x \in Within[m - 1] \/ \E p \in Within[m - 1] : p \in answered /\ x \in E(p)
    BY <1>5, <2>3
  <2>6. Within[m] \subseteq Pubs
    BY <1>e, <2>4, <2>5
  <2> QED  BY <2>6
<1> QED  BY <1>4, <1>5, <1>6, <1>e, <1>f DEF LayersAre, Grown

\* Layers only grow, and stop growing once one of them adds nobody.
LEMMA LayersGrow ==
    ASSUME NEW W, \A n \in Nat : W[n] \subseteq W[n + 1]
    PROVE  \A m, n \in Nat : m <= n => W[m] \subseteq W[n]
<1> SUFFICES ASSUME NEW m \in Nat, NEW x \in W[m]  PROVE \A n \in Nat : m <= n => x \in W[n]
  OBVIOUS
<1> DEFINE T == {n \in Nat : m <= n /\ x \notin W[n]}
<1> SUFFICES ASSUME T # {}  PROVE FALSE
  OBVIOUS
<1>1. PICK k \in T : \A l \in T : k <= l
  <2>1. T \in SUBSET Nat
    OBVIOUS
  <2> HIDE DEF T
  <2> QED  BY <2>1, LeastExists
<1>2. k # m
  BY <1>1
<1>3. k - 1 \in Nat /\ m <= k - 1 /\ ~(k <= k - 1) /\ (k - 1) + 1 = k
  BY <1>1, <1>2
<1>4. x \in W[k - 1]
  BY <1>1, <1>3
<1>5. W[k - 1] \subseteq W[(k - 1) + 1]
  BY <1>3
<1> QED  BY <1>1, <1>3, <1>4, <1>5

\* What two sets of catalogs have in common decides the layers up to the first that
\* has a catalog of only one of them.
LEMMA LayersSame ==
    ASSUME NEW V, NEW W, NEW A, NEW B, NEW G, NEW h \in Nat, V[0] = W[0],
           Grown(W, A, G), Grown(V, B, G),
           \A n \in Nat : n < h => \A p \in W[n] : p \in A <=> p \in B
    PROVE  \A n \in Nat : n <= h => V[n] = W[n]
<1> DEFINE T == {n \in Nat : n <= h /\ V[n] # W[n]}
<1> SUFFICES ASSUME T # {}  PROVE FALSE
  OBVIOUS
<1>1. PICK k \in T : \A l \in T : k <= l
  <2>1. T \in SUBSET Nat
    OBVIOUS
  <2> HIDE DEF T
  <2> QED  BY <2>1, LeastExists
<1>2. k # 0
  BY <1>1
<1>3. k - 1 \in Nat /\ k - 1 < h /\ ~(k <= k - 1) /\ (k - 1) + 1 = k
  BY <1>1, <1>2
<1>4. V[k - 1] = W[k - 1]
  BY <1>1, <1>3
<1>5. \A x \in Pubs : x \in W[k] <=> x \in W[k - 1] \/ \E p \in W[k - 1] : p \in A /\ x \in G[p]
  BY <1>3 DEF Grown
<1>6. \A x \in Pubs : x \in V[k] <=> x \in V[k - 1] \/ \E p \in V[k - 1] : p \in B /\ x \in G[p]
  BY <1>3 DEF Grown
<1>7. \A p \in W[k - 1] : p \in A <=> p \in B
  BY <1>3
<1>8. V[k] \subseteq Pubs /\ W[k] \subseteq Pubs
  BY DEF Grown
<1>9. \A x \in Pubs : x \in V[k] <=> x \in W[k]
  BY <1>4, <1>5, <1>6, <1>7
<1> QED  BY <1>1, <1>8, <1>9
-----------------------------------------------------------------------------
(***************************************************************************)
(* What the walk has found out.                                            *)
(***************************************************************************)
Offers(p, ih) == \E e \in Range(ParsedEntries(p)) : e.match /\ e.ih = ih
Hit(p, ih) == \E i \in DOMAIN hits : hits[i].pk = p /\ hits[i].ih = ih

\* All that the catalogs have that came, and no more.
AllHit == \A p \in Pubs, ih \in Infohashes : Hit(p, ih) <=> p \in answered /\ Offers(p, ih)

\* The level that is walked, and the next one.
Levels ==
    /\ Range(visited) \subseteq Within[hops]
    /\ \A p \in Range(frontier) : p \in Within[hops] /\ \A n \in Nat : n < hops => p \notin Within[n]
    /\ \A p \in Range(next) : p \in Within[hops + 1] /\ p \notin Within[hops]
    /\ queued \subseteq {Self} \cup Range(visited) \cup Range(Rest) \cup Range(next)
    /\ \A i \in DOMAIN hits : hits[i].hops <= hops

\* Where nothing was cut, nobody is missing; otherwise nobody joins any more.
Sated == Cardinality(queued) - 1 = opts.maxPublishers
Complete == /\ Within[hops] \subseteq queued
            /\ hops < opts.depth => Within[hops + 1] \subseteq queued

NotBegun == /\ queued = {Self} /\ next = <<>> /\ hops = 0 /\ hits = <<>> /\ visited = <<>>
            /\ answered = {} /\ ~cut

Walking == {"walk", "load", "adopt"}

Exact ==
    /\ pc = "idle" => NotBegun
    /\ pc \in Walking => Levels /\ (cut => Sated) /\ (~cut => Complete /\ AllHit)
    /\ HopsAreDistances /\ FindsAll

NoneAfter(W, h) == W[h + 1] \subseteq W[h]
SameAfter(W, h) == \A n \in Nat : h <= n => W[n] = W[h]

\* Once a layer adds nobody, no later one does.
LEMMA LayersEnd ==
    ASSUME NEW W, NEW A, NEW G, NEW h \in Nat, NoneAfter(W, h), Grown(W, A, G)
    PROVE  SameAfter(W, h)
<1>0. W[h + 1] \subseteq W[h]
  BY DEF NoneAfter
<1> SUFFICES \A n \in Nat : h <= n => W[n] = W[h]
  BY DEF SameAfter
<1> DEFINE T == {n \in Nat : h <= n /\ W[n] # W[h]}
<1> SUFFICES ASSUME T # {}  PROVE FALSE
  OBVIOUS
<1>1. PICK k \in T : \A l \in T : k <= l
  <2>1. T \in SUBSET Nat
    OBVIOUS
  <2> HIDE DEF T
  <2> QED  BY <2>1, LeastExists
<1>2. k # h
  BY <1>1
<1>3. k - 1 \in Nat /\ h <= k - 1 /\ ~(k <= k - 1) /\ (k - 1) + 1 = k
  BY <1>1, <1>2
<1>4. W[k - 1] = W[h]
  BY <1>1, <1>3
<1>5. \A x \in Pubs : x \in W[k] <=> x \in W[h] \/ \E p \in W[h] : p \in A /\ x \in G[p]
  BY <1>3, <1>4 DEF Grown
<1>6. \A x \in Pubs : x \in W[h + 1] <=> x \in W[h] \/ \E p \in W[h] : p \in A /\ x \in G[p]
  BY DEF Grown
<1>7. \A x \in Pubs : x \in W[k] <=> x \in W[h]
  BY <1>0, <1>5, <1>6
<1>8. W[k] \subseteq Pubs /\ W[h] \subseteq Pubs
  BY DEF Grown
<1> QED  BY <1>1, <1>7, <1>8

LEMMA RangeIn ==
    ASSUME NEW S, NEW s \in Seq(S)
    PROVE  Range(s) \subseteq S
<1>1. \A i \in DOMAIN s : s[i] \in S
  OBVIOUS
<1> QED  BY <1>1 DEF Range

\* The walk goes on to the rest of its level, to the next level or to its end.
LEMMA GoOnExact ==
    ASSUME WalkTypes, WalkTypes', LayersAre', pc \in Waiting,
           NEW following \in Seq(Pubs), GoOn(Tail(frontier), following), UNCHANGED <<web, opts, visited>>,
           answered' \subseteq Range(visited), Range(visited) \subseteq Within'[hops],
           \A p \in Range(frontier) : p \in Within'[hops] /\ \A n \in Nat : n < hops => p \notin Within'[n],
           \A p \in Range(following) : p \in Within'[hops + 1] /\ p \notin Within'[hops],
           queued' \subseteq {Self} \cup Range(visited) \cup Range(Tail(frontier)) \cup Range(following),
           \A i \in DOMAIN hits' : hits'[i].hops <= hops,
           cut' => Sated',
           ~cut' => /\ AllHit' /\ Within'[hops] \subseteq queued'
                    /\ hops < opts.depth => Within'[hops + 1] \subseteq queued',
           HopsAreDistances', hits' \in Seq(Hits)
    PROVE  Exact'
<1> DEFINE W == Within'
           rest == Tail(frontier)
<1>l. /\ \A n \in Nat : W[n] \subseteq Pubs /\ W[n] \subseteq W[n + 1]
      /\ \A n \in Nat : \A x \in Pubs :
           x \in W[n + 1] <=> x \in W[n] \/ \E p \in W[n] : p \in answered' /\ x \in Links'[p]
  BY DEF LayersAre, Grown
<1>t. /\ frontier # <<>> /\ frontier \in Seq(Pubs) /\ hops \in Nat /\ opts.depth \in Nat /\ hops <= opts.depth
  BY OptionsAre DEF WalkTypes, Waiting
<1>h. hops + 1 \in Nat /\ hops < hops + 1
  BY <1>t
<1>r. rest \in Seq(Pubs) /\ Range(rest) \subseteq Range(frontier)
  BY <1>t, TailIs
<1>e. Range(<<>>) = {}
  <2>1. DOMAIN <<>> = {}
    OBVIOUS
  <2> QED  BY <2>1 DEF Range
<1>m. \A m, n \in Nat : m <= n => W[m] \subseteq W[n]
  <2> HIDE DEF W
  <2> QED  BY <1>l, LayersGrow
<1>g. \/ /\ rest # <<>> /\ frontier' = rest /\ next' = following /\ pc' = "walk" /\ hops' = hops
      \/ /\ rest = <<>> /\ frontier' = following /\ next' = <<>> /\ hops' = hops + 1
         /\ pc' = IF hops < opts.depth /\ following # <<>> THEN "walk" ELSE "done"
  BY Zenon DEF GoOn
<1>s. Self \notin Pubs
  BY SelfAssumption
<1> HIDE DEF W, rest
<1>w. /\ Range(visited) \subseteq W[hops]
      /\ \A p \in Range(frontier) : p \in W[hops] /\ \A n \in Nat : n < hops => p \notin W[n]
      /\ \A p \in Range(following) : p \in W[hops + 1] /\ p \notin W[hops]
      /\ queued' \subseteq {Self} \cup Range(visited) \cup Range(rest) \cup Range(following)
      /\ ~cut' => /\ W[hops] \subseteq queued'
                  /\ hops < opts.depth => W[hops + 1] \subseteq queued'
  BY DEF W, rest
<1>1. CASE rest # <<>>
  <2>1. frontier' = rest /\ next' = following /\ pc' = "walk" /\ hops' = hops
    BY <1>1, <1>g
  <2>2. Rest' = rest
    BY <2>1 DEF Rest, Waiting
  <2>3. Levels'
    <3>1. /\ Range(visited') \subseteq W[hops']
          /\ \A p \in Range(frontier') : p \in W[hops'] /\ \A n \in Nat : n < hops' => p \notin W[n]
          /\ \A p \in Range(next') : p \in W[hops' + 1] /\ p \notin W[hops']
          /\ queued' \subseteq {Self} \cup Range(visited') \cup Range(Rest') \cup Range(next')
          /\ \A i \in DOMAIN hits' : hits'[i].hops <= hops'
      BY <1>r, <1>w, <2>1, <2>2
    <3> QED  BY <3>1 DEF Levels, W
  <2>4. ~cut' => Complete'
    BY <1>w, <2>1 DEF Complete, W
  <2>5. FindsAll' /\ pc' # "idle"
    BY <2>1 DEF FindsAll
  <2> QED  BY <2>3, <2>4, <2>5 DEF Exact
<1>2. CASE rest = <<>> /\ hops < opts.depth /\ following # <<>>
  <2>1. frontier' = following /\ next' = <<>> /\ pc' = "walk" /\ hops' = hops + 1
    BY <1>2, <1>g
  <2>2. Rest' = following
    BY <2>1 DEF Rest, Waiting
  <2>a. \A x \in Pubs : x \in W[(hops + 1) + 1] => x \in W[hops + 1]
    <3> SUFFICES ASSUME NEW x \in Pubs, x \in W[(hops + 1) + 1]  PROVE x \in W[hops + 1]
      OBVIOUS
    <3>1. x \in W[hops + 1] \/ \E p \in W[hops + 1] : p \in answered' /\ x \in Links'[p]
      BY <1>h, <1>l
    <3>2. ASSUME NEW p \in W[hops + 1], p \in answered', x \in Links'[p]  PROVE x \in W[hops + 1]
      <4>1. p \in W[hops]
        BY <1>w, <3>2
      <4> QED  BY <1>l, <1>t, <3>2, <4>1
    <3> QED  BY <3>1, <3>2
  <2>3. Levels'
    <3>1. \A p \in Range(following) : \A n \in Nat : n < hops + 1 => p \notin W[n]
      <4> SUFFICES ASSUME NEW p \in Range(following), NEW n \in Nat, n < hops + 1, p \in W[n]  PROVE FALSE
        OBVIOUS
      <4>1. n <= hops
        BY <1>t
      <4> QED  BY <1>m, <1>t, <1>w, <4>1
    <3>2. Range(visited') \subseteq W[hops']
      BY <1>l, <1>t, <1>w, <2>1
    <3>3. \A i \in DOMAIN hits' : hits'[i].hops <= hops'
      <4> SUFFICES ASSUME NEW i \in DOMAIN hits'  PROVE hits'[i].hops <= hops + 1
        BY <2>1
      <4>1. hits'[i] \in Hits
        OBVIOUS
      <4> QED  BY <1>t, <4>1 DEF Hits
    <3>4. /\ \A p \in Range(frontier') : p \in W[hops'] /\ \A n \in Nat : n < hops' => p \notin W[n]
          /\ \A p \in Range(next') : p \in W[hops' + 1] /\ p \notin W[hops']
          /\ queued' \subseteq {Self} \cup Range(visited') \cup Range(Rest') \cup Range(next')
      BY <1>2, <1>e, <1>w, <2>1, <2>2, <3>1
    <3> QED  BY <3>2, <3>3, <3>4 DEF Levels, W
  <2>4. ~cut' => Complete'
    <3> SUFFICES ASSUME ~cut'  PROVE W[hops'] \subseteq queued' /\ W[hops' + 1] \subseteq queued'
      BY DEF Complete, W
    <3>1. W[hops + 1] \subseteq queued'
      BY <1>2, <1>w
    <3>2. W[(hops + 1) + 1] \subseteq Pubs
      BY <1>h, <1>l
    <3>3. W[(hops + 1) + 1] \subseteq queued'
      BY <2>a, <3>1, <3>2
    <3> QED  BY <2>1, <3>1, <3>3
  <2>5. FindsAll' /\ pc' # "idle"
    BY <2>1 DEF FindsAll
  <2> QED  BY <2>3, <2>4, <2>5 DEF Exact
<1>3. CASE rest = <<>> /\ ~(hops < opts.depth /\ following # <<>>)
  <2>1. pc' = "done"
    BY <1>3, <1>g
  <2>2. ASSUME ~cut'  PROVE Range(visited) = W[opts.depth]
    <3>1. W[hops] \subseteq Range(visited)
      <4> SUFFICES ASSUME NEW x \in W[hops]  PROVE x \in Range(visited)
        OBVIOUS
      <4>1. x # Self /\ x \notin Range(following) /\ x \in queued'
        BY <1>l, <1>s, <1>t, <1>w, <2>2
      <4> QED  BY <1>3, <1>e, <1>w, <4>1
    <3>2. CASE hops = opts.depth
      BY <1>w, <3>1, <3>2
    <3>3. CASE hops # opts.depth
      <4>1. hops < opts.depth /\ following = <<>>
        BY <1>3, <1>t, <3>3
      <4>2. W[hops + 1] \subseteq W[hops]
        <5> SUFFICES ASSUME NEW x \in W[hops + 1]  PROVE x \in W[hops]
          OBVIOUS
        <5>1. x # Self /\ x \in queued'
          BY <1>h, <1>l, <1>s, <1>w, <2>2, <4>1
        <5>2. x \in Range(visited)
          BY <1>3, <1>e, <1>w, <4>1, <5>1
        <5> QED  BY <1>w, <5>2
      <4>3. \A n \in Nat : hops <= n => W[n] = W[hops]
        <5>1. Grown(W, answered', Links')
          BY DEF LayersAre, Grown, W
        <5>2. NoneAfter(W, hops)
          BY <4>2 DEF NoneAfter
        <5>3. hops \in Nat
          BY <1>t
        <5>4. SameAfter(W, hops)
          <6> HIDE DEF W
          <6> QED  BY <5>1, <5>2, <5>3, LayersEnd
        <5> QED  BY <5>4 DEF SameAfter
      <4>4. W[opts.depth] = W[hops]
        BY <1>t, <4>3
      <4> QED  BY <1>w, <3>1, <4>4
    <3> QED  BY <3>2, <3>3
  <2>3. FindsAll'
    <3> SUFFICES ASSUME ~cut'
                 PROVE  /\ Range(visited') = W[opts'.depth]
                        /\ {<<hits'[i].pk, hits'[i].ih>> : i \in DOMAIN hits'}
                             = UNION {{<<p, e.ih>> : e \in {x \in Range(ParsedEntries(p)') : x.match}} :
                                        p \in W[opts'.depth] \cap answered'}
      BY DEF FindsAll, W
    <3>1. Range(visited') = W[opts'.depth] /\ W[opts'.depth] \cap answered' = answered'
      BY <2>2
    <3>2. \A p \in Pubs, ih \in Infohashes :
            (\E i \in DOMAIN hits' : hits'[i].pk = p /\ hits'[i].ih = ih)
              <=> p \in answered' /\ \E e \in Range(ParsedEntries(p)') : e.match /\ e.ih = ih
      BY DEF AllHit, Hit, Offers
    <3>3. \A i \in DOMAIN hits' : hits'[i].pk \in Pubs /\ hits'[i].ih \in Infohashes
      <4> SUFFICES ASSUME NEW i \in DOMAIN hits'  PROVE hits'[i].pk \in Pubs /\ hits'[i].ih \in Infohashes
        OBVIOUS
      <4>1. hits'[i] \in Hits
        OBVIOUS
      <4> QED  BY <4>1 DEF Hits
    <3>4. \A p \in answered' : p \in Pubs /\ \A e \in Range(ParsedEntries(p)') : e.ih \in Infohashes
      <4> SUFFICES ASSUME NEW p \in answered'
                   PROVE  p \in Pubs /\ \A e \in Range(ParsedEntries(p)') : e.ih \in Infohashes
        OBVIOUS
      <4>1. p \in Pubs
        BY DEF WalkTypes
      <4>2. ParsedEntries(p)' = ParsedEntries(p)
        BY DEF ParsedEntries
      <4>3. ParsedEntries(p) \in Seq([ih : Infohashes, match : BOOLEAN])
        BY <4>1, EntriesAre DEF WalkTypes
      <4> DEFINE es == ParsedEntries(p)
      <4> HIDE DEF es
      <4>4. Range(es) \subseteq [ih : Infohashes, match : BOOLEAN]
        BY <4>3, RangeIn, Zenon DEF es
      <4>5. \A e \in Range(es) : e.ih \in Infohashes
        BY <4>4
      <4> QED  BY <4>1, <4>2, <4>5 DEF es
    <3>5. \A x : x \in {<<hits'[i].pk, hits'[i].ih>> : i \in DOMAIN hits'}
                   <=> x \in UNION {{<<p, e.ih>> : e \in {y \in Range(ParsedEntries(p)') : y.match}} : p \in answered'}
      <4>1. ASSUME NEW i \in DOMAIN hits'
            PROVE  \E p \in answered' : \E e \in Range(ParsedEntries(p)') : e.match /\ <<hits'[i].pk, hits'[i].ih>> = <<p, e.ih>>
        BY <3>2, <3>3
      <4>2. ASSUME NEW p \in answered', NEW e \in Range(ParsedEntries(p)'), e.match
            PROVE  \E i \in DOMAIN hits' : <<hits'[i].pk, hits'[i].ih>> = <<p, e.ih>>
        BY <3>2, <3>4, <4>2
      <4> DEFINE listed == UNION {{<<p, e.ih>> : e \in {y \in Range(ParsedEntries(p)') : y.match}} : p \in answered'}
      <4>3. ASSUME NEW i \in DOMAIN hits'  PROVE <<hits'[i].pk, hits'[i].ih>> \in listed
        <5>1. PICK p \in answered' : \E e \in Range(ParsedEntries(p)') : e.match /\ <<hits'[i].pk, hits'[i].ih>> = <<p, e.ih>>
          BY <4>1
        <5>2. PICK e \in Range(ParsedEntries(p)') : e.match /\ <<hits'[i].pk, hits'[i].ih>> = <<p, e.ih>>
          BY <5>1
        <5> QED  BY <5>2
      <4>4. ASSUME NEW x \in listed  PROVE \E i \in DOMAIN hits' : x = <<hits'[i].pk, hits'[i].ih>>
        <5>1. PICK p \in answered' : x \in {<<p, e.ih>> : e \in {y \in Range(ParsedEntries(p)') : y.match}}
          OBVIOUS
        <5>2. PICK e \in Range(ParsedEntries(p)') : e.match /\ x = <<p, e.ih>>
          BY <5>1
        <5>3. PICK i \in DOMAIN hits' : <<hits'[i].pk, hits'[i].ih>> = <<p, e.ih>>
          BY <4>2, <5>2
        <5> QED  BY <5>2, <5>3
      <4> HIDE DEF listed
      <4>5. \A x : x \in {<<hits'[i].pk, hits'[i].ih>> : i \in DOMAIN hits'} <=> x \in listed
        BY <4>3, <4>4
      <4> QED  BY <4>5 DEF listed
    <3> QED  BY <3>1, <3>5
  <2> QED  BY <2>1, <2>3 DEF Exact, Walking
<1> QED  BY <1>1, <1>2, <1>3

-----------------------------------------------------------------------------
(***************************************************************************)
(* What a catalog brings.                                                  *)
(***************************************************************************)
LEMMA FrontIs ==
    ASSUME NEW S, NEW s \in Seq(S), s # <<>>
    PROVE  /\ Front(s) \in Seq(S) /\ Len(s) \in Nat /\ DOMAIN s = 1..Len(s) /\ DOMAIN Front(s) = 1..Len(s) - 1
           /\ \A i \in 1..Len(s) - 1 : Front(s)[i] = s[i]
BY DEF Front

\* An infohash is found if an entry has it that matches, and the last entry finds one at most.
LEMMA MatchingFinds ==
    ASSUME NEW pk \in Pubs, NEW es \in Seq([ih : Infohashes, match : BOOLEAN])
    PROVE  /\ \A k \in DOMAIN Matching(pk, es) : Matching(pk, es)[k].pk = pk /\ Matching(pk, es)[k].hops = hops
           /\ \A ih : (\E k \in DOMAIN Matching(pk, es) : Matching(pk, es)[k].ih = ih)
                         <=> \E e \in Range(es) : e.match /\ e.ih = ih
           /\ es = <<>> => Len(Matching(pk, es)) = 0
           /\ es # <<>> => Len(Matching(pk, es)) <= Len(Matching(pk, Front(es))) + 1
<1> DEFINE First(u) == {i \in DOMAIN u : u[i].match /\ \A j \in 1..i - 1 : u[j].match => u[j].ih # u[i].ih}
           I == First(es)
           n == Len(es)
           c == Cardinality(I)
           P == Picked(es, I)
           M == [k \in 1..c |-> [pk |-> pk, ih |-> P[k].ih, hops |-> hops]]
           E == [ih : Infohashes, match : BOOLEAN]
<1>1. Matching(pk, es) = M
  BY DEF Matching
<1>2. n \in Nat /\ DOMAIN es = 1..n /\ I \subseteq 1..n
  OBVIOUS
<1>3. PicksAll(es, I)
  <2> HIDE DEF I, n
  <2> QED  BY <1>2, PickedIs
<1>4. /\ c \in Nat
      /\ \A k \in 1..c : \E i \in I : P[k] = es[i]
      /\ \A i \in I : \E k \in 1..c : P[k] = es[i]
  <2> HIDE DEF I
  <2> QED  BY <1>3 DEF PicksAll
<1>5. DOMAIN M = 1..c /\ \A k \in 1..c : M[k].pk = pk /\ M[k].hops = hops /\ M[k].ih = P[k].ih
  <2> HIDE DEF c, P
  <2> QED  OBVIOUS
<1>6. \A i \in 1..n : es[i].match => \E j \in I : es[j].ih = es[i].ih
  <2> SUFFICES ASSUME NEW i \in 1..n, es[i].match  PROVE \E j \in I : es[j].ih = es[i].ih
    OBVIOUS
  <2> DEFINE J == {j \in 1..n : es[j].match /\ es[j].ih = es[i].ih}
  <2>1. PICK m \in J : \A j \in J : m <= j
    <3>1. J \in SUBSET Nat /\ i \in J
      BY <1>2
    <3> HIDE DEF J
    <3> QED  BY <3>1, LeastExists
  <2>2. \A j \in 1..m - 1 : es[j].match => es[j].ih # es[m].ih
    <3> SUFFICES ASSUME NEW j \in 1..m - 1, es[j].match, es[j].ih = es[m].ih  PROVE FALSE
      OBVIOUS
    <3>1. m \in 1..n /\ es[m].ih = es[i].ih
      BY <2>1
    <3>2. j \in 1..n /\ ~(m <= j)
      <4> HIDE DEF n
      <4> QED  BY <1>2, <3>1
    <3>3. j \in J
      BY <3>1, <3>2
    <3> HIDE DEF J
    <3> QED  BY <2>1, <3>2, <3>3
  <2>3. m \in 1..n /\ es[m].match /\ es[m].ih = es[i].ih
    BY <2>1
  <2> HIDE DEF J
  <2>4. m \in I
    <3> HIDE DEF n
    <3> QED  BY <1>2, <2>2, <2>3
  <2> QED  BY <2>3, <2>4
<1>7. \A i \in I : i \in 1..n /\ es[i].match
  BY <1>2
<1>8. \A ih : (\E k \in 1..c : P[k].ih = ih) <=> \E e \in Range(es) : e.match /\ e.ih = ih
  <2> HIDE DEF I, c, P, n
  <2> SUFFICES ASSUME NEW ih  PROVE (\E k \in 1..c : P[k].ih = ih) <=> \E e \in Range(es) : e.match /\ e.ih = ih
    OBVIOUS
  <2>0. Range(es) = {es[i] : i \in 1..n}
    BY <1>2 DEF Range
  <2>1. ASSUME NEW k \in 1..c, P[k].ih = ih  PROVE \E e \in Range(es) : e.match /\ e.ih = ih
    BY <1>4, <1>7, <2>0, <2>1
  <2>2. ASSUME NEW e \in Range(es), e.match, e.ih = ih  PROVE \E k \in 1..c : P[k].ih = ih
    <3>1. PICK i \in 1..n : e = es[i]
      BY <2>0
    <3>2. PICK j \in I : es[j].ih = es[i].ih
      BY <1>6, <2>2, <3>1
    <3> QED  BY <1>4, <2>2, <3>1, <3>2
  <2> QED  BY <2>1, <2>2
<1>9. Len(M) = c
  <2> HIDE DEF c, P
  <2> QED  BY <1>4
<1>10. es = <<>> => c = 0
  <2>1. es = <<>> => I = {}
    OBVIOUS
  <2> HIDE DEF I
  <2> QED  BY <2>1, FS_EmptySet
<1>11. ASSUME es # <<>>  PROVE c <= Len(Matching(pk, Front(es))) + 1
  <2> DEFINE f == Front(es)
             K == First(f)
             d == Cardinality(K)
  <2>1. f \in Seq(E) /\ DOMAIN f = 1..n - 1 /\ \A i \in 1..n - 1 : f[i] = es[i]
    BY <1>11, FrontIs, Zenon
  <2>2. I \subseteq K \cup {n}
    <3> SUFFICES ASSUME NEW i \in I, i # n  PROVE i \in K
      OBVIOUS
    <3>1. /\ i \in 1..n /\ es[i].match /\ \A j \in 1..i - 1 : es[j].match => es[j].ih # es[i].ih
      BY <1>2
    <3>2. i \in 1..n - 1 /\ \A j \in 1..i - 1 : j \in 1..n - 1
      <4> HIDE DEF n
      <4> QED  BY <1>2, <3>1
    <3>3. f[i].match /\ \A j \in 1..i - 1 : f[j].match => f[j].ih # f[i].ih
      <4> HIDE DEF f, n
      <4> QED  BY <2>1, <3>1, <3>2
    <3> HIDE DEF f, n
    <3> QED  BY <2>1, <3>2, <3>3
  <2>3. K \subseteq 1..n /\ IsFiniteSet(1..n)
    <3>1. K \subseteq 1..n - 1
      <4> HIDE DEF f, n
      <4> QED  BY <2>1
    <3>2. 1 \in Int /\ n \in Int
      BY <1>2
    <3>3. IsFiniteSet(1..n)
      <4> HIDE DEF n
      <4> QED  BY <3>2, FS_Interval, Zenon
    <3> HIDE DEF K, n
    <3> QED  BY <1>2, <3>1, <3>3
  <2>4. Matching(pk, f) = [k \in 1..d |-> [pk |-> pk, ih |-> Picked(f, K)[k].ih, hops |-> hops]]
    <3> HIDE DEF f
    <3> QED  BY DEF Matching
  <2> HIDE DEF K, I, f, n
  <2>5. IsFiniteSet(K) /\ d \in Nat
    BY <2>3, FS_Subset, FS_CardinalityType
  <2>6. /\ IsFiniteSet(K \cup {n})
        /\ Cardinality(K \cup {n}) = IF n \in K THEN d ELSE d + 1
    BY <2>5, FS_AddElement
  <2>7. c <= Cardinality(K \cup {n})
    BY <2>2, <2>6, FS_Subset
  <2> HIDE DEF c, d
  <2>8. Len(Matching(pk, f)) = d
    BY <2>4, <2>5
  <2>9. c <= d + 1
    BY <1>4, <2>5, <2>6, <2>7
  <2> QED  BY <2>8, <2>9 DEF f
<1> HIDE DEF M, c, P, I, n
<1>12. \A k \in DOMAIN M : M[k].pk = pk /\ M[k].hops = hops
  BY <1>5
<1>13. \A ih : (\E k \in DOMAIN M : M[k].ih = ih) <=> \E e \in Range(es) : e.match /\ e.ih = ih
  <2>1. \A ih : (\E k \in DOMAIN M : M[k].ih = ih) <=> \E k \in 1..c : P[k].ih = ih
    BY <1>5
  <2> QED  BY <1>8, <2>1, Zenon
<1>14. es = <<>> => Len(M) = 0
  BY <1>9, <1>10
<1>15. es # <<>> => Len(M) <= Len(Matching(pk, Front(es))) + 1
  BY <1>9, <1>11
<1> QED  BY <1>1, <1>12, <1>13, <1>14, <1>15, Zenon

\* What is left of two lists that are joined is of one of them.
LEMMA JoinedRange ==
    ASSUME NEW S, NEW s \in Seq(S), NEW t \in Seq(S), NEW k \in Nat, k <= Len(s \o t)
    PROVE  /\ Range(SubSeq(s \o t, 1, k)) \subseteq Range(s) \cup Range(t)
           /\ k = Len(s \o t) => Range(SubSeq(s \o t, 1, k)) = Range(s) \cup Range(t)
<1> DEFINE n == Len(s)
           m == Len(t)
           u == s \o t
           v == SubSeq(u, 1, k)
<1>1. /\ n \in Nat /\ m \in Nat /\ u \in Seq(S) /\ Len(u) = n + m
      /\ DOMAIN s = 1..n /\ DOMAIN t = 1..m
      /\ \A i \in 1..n + m : u[i] = IF i <= n THEN s[i] ELSE t[i - n]
  OBVIOUS
<1>2. k <= n + m
  BY <1>1
<1>3. DOMAIN v = 1..k /\ \A i \in 1..k : v[i] = u[i]
  <2> HIDE DEF u
  <2> QED  BY <1>1, PrefixIs
<1> HIDE DEF n, m, u, v
<1>4. \A i \in 1..k : v[i] \in Range(s) \cup Range(t)
  <2> SUFFICES ASSUME NEW i \in 1..k  PROVE v[i] \in Range(s) \cup Range(t)
    OBVIOUS
  <2>1. CASE i <= n
    <3>1. i \in 1..n /\ v[i] = s[i]
      BY <1>1, <1>2, <1>3, <2>1
    <3> QED  BY <1>1, <3>1 DEF Range
  <2>2. CASE i > n
    <3>1. i - n \in 1..m /\ v[i] = t[i - n]
      BY <1>1, <1>2, <1>3, <2>2
    <3> QED  BY <1>1, <3>1 DEF Range
  <2> QED  BY <1>1, <2>1, <2>2
<1>5. Range(v) = {v[i] : i \in 1..k}
  BY <1>3 DEF Range
<1>6. ASSUME k = n + m  PROVE Range(s) \cup Range(t) \subseteq Range(v)
  <2>1. \A i \in 1..n : s[i] = v[i] /\ i \in 1..k
    BY <1>1, <1>3, <1>6
  <2>2. \A i \in 1..m : t[i] = v[i + n] /\ i + n \in 1..k
    BY <1>1, <1>3, <1>6
  <2>3. Range(s) = {s[i] : i \in 1..n} /\ Range(t) = {t[i] : i \in 1..m}
    BY <1>1 DEF Range
  <2> QED  BY <1>5, <2>1, <2>2, <2>3
<1>7. Range(v) \subseteq Range(s) \cup Range(t)
  BY <1>4, <1>5
<1> QED  BY <1>1, <1>6, <1>7 DEF u, v

\* What a catalog adds to the walk is where it belongs.
LEMMA TakeExact ==
    ASSUME WalkInv, WalkInv', LayersAre, LayersAre', Exact,
           pc \in Waiting, Take(Head(frontier)), UNCHANGED <<web, opts, visited>>
    PROVE  Exact'
<1> DEFINE pk == Head(frontier)
           es == ParsedEntries(pk)
           M == Matching(pk, es)
           found == hits \o M
           k == IF Len(found) < MaxResults THEN Len(found) ELSE MaxResults
           full == es # <<>> /\ Len(hits) + Len(Matching(pk, Front(es))) >= MaxResults
           pks == IF hops = opts.depth THEN <<>> ELSE ParsedEndorse(pk)
           r == Enqueued(queued, next, pks)
           W == Within
           V == Within'
<1>1. /\ answered' = answered \cup {pk}
      /\ hits' = SubSeq(found, 1, k)
      /\ full => pc' = "done" /\ cut' = TRUE /\ UNCHANGED <<queued, frontier, next, hops>>
      /\ ~full => queued' = r.queued /\ cut' = (cut \/ r.cut) /\ GoOn(Tail(frontier), r.list)
  BY Zenon DEF Take
<1>t. WalkTypes /\ Ordered /\ Found /\ WalkTypes' /\ Ordered' /\ Found'
  BY DEF WalkInv
<1>x. Levels /\ (cut => Sated) /\ (~cut => Complete /\ AllHit) /\ HopsAreDistances
  BY DEF Exact, Waiting, Walking
<1> HIDE DEF full, k, pks, r, W, V, M, es
<1>p. /\ frontier \in Seq(Pubs) /\ frontier # <<>> /\ pk \in Pubs /\ pk \in Range(frontier)
      /\ pk \in Range(visited) /\ pk \notin answered /\ web \in Webs
      /\ Range(frontier) = {pk} \cup Range(Tail(frontier))
      /\ hops \in Nat /\ opts.depth \in Nat /\ hops <= opts.depth
  BY <1>t, TailIs, OptionsAre, SMTT(60) DEF WalkTypes, Ordered, Waiting
<1>l. /\ \A n \in Nat : W[n] \subseteq Pubs /\ V[n] \subseteq Pubs
      /\ \A n \in Nat : \A x \in Pubs :
           x \in W[n + 1] <=> x \in W[n] \/ \E p \in W[n] : p \in answered /\ x \in Links[p]
      /\ \A n \in Nat : \A x \in Pubs :
           x \in V[n + 1] <=> x \in V[n] \/ \E p \in V[n] : p \in answered' /\ x \in Links[p]
      /\ Grown(W, answered, Links) /\ Grown(V, answered', Links) /\ V[0] = W[0]
  <2>1. Links' = Links
    BY DEF Links, ParsedEndorse
  <2>2. Grown(W, answered, Links) /\ Grown(V, answered', Links) /\ V[0] = W[0]
    BY <2>1 DEF LayersAre, Grown, W, V
  <2> QED  BY <2>2 DEF Grown
<1>s. Self \notin Pubs
  BY SelfAssumption
<1>v. /\ Range(visited) \subseteq W[hops]
      /\ \A p \in Range(frontier) : p \in W[hops] /\ \A n \in Nat : n < hops => p \notin W[n]
      /\ \A p \in Range(next) : p \in W[hops + 1] /\ p \notin W[hops]
      /\ queued \subseteq {Self} \cup Range(visited) \cup Range(Tail(frontier)) \cup Range(next)
      /\ \A i \in DOMAIN hits : hits[i].hops <= hops
  BY <1>x DEF Levels, W, Rest
<1> HIDE DEF pk
<1>2. \A n \in Nat : n <= hops => V[n] = W[n]
  <2>1. \A n \in Nat : n < hops => \A p \in W[n] : p \in answered <=> p \in answered'
    BY <1>1, <1>p, <1>v
  <2>2. hops \in Nat /\ Grown(W, answered, Links) /\ Grown(V, answered', Links) /\ V[0] = W[0]
    BY <1>l, <1>p
  <2> QED  BY <2>1, <2>2, LayersSame
<1>3. \A x \in Pubs : x \in V[hops + 1] <=> x \in W[hops + 1] \/ x \in Links[pk]
  <2>1. V[hops] = W[hops] /\ pk \in W[hops]
    BY <1>2, <1>p, <1>v
  <2> QED  BY <1>1, <1>l, <1>p, <2>1
<1>4. W[hops + 1] \subseteq V[hops + 1] /\ V[hops] = W[hops]
  <2>1. hops + 1 \in Nat /\ hops <= hops
    BY <1>p
  <2> QED  BY <1>2, <1>3, <1>l, <1>p, <2>1
<1>e. es \in Seq([ih : Infohashes, match : BOOLEAN])
  BY <1>p, EntriesAre DEF es
<1>5. /\ \A i \in DOMAIN M : M[i].pk = pk /\ M[i].hops = hops
      /\ \A ih : (\E i \in DOMAIN M : M[i].ih = ih) <=> \E e \in Range(es) : e.match /\ e.ih = ih
      /\ es = <<>> => Len(M) = 0
      /\ es # <<>> => Len(M) <= Len(Matching(pk, Front(es))) + 1
  <2>1. pk \in Pubs
    BY <1>p
  <2> QED  BY <1>e, <2>1, MatchingFinds, Zenon DEF M
<1>6. M \in Seq(Hits) /\ hits \in Seq(Hits) /\ Len(M) \in Nat /\ Len(hits) \in Nat /\ Len(found) = Len(hits) + Len(M)
      /\ MaxResults \in Nat /\ Len(hits) <= MaxResults /\ hits' \in Seq(Hits)
  <2>1. M \in Seq(Hits)
    BY <1>e, <1>p, <1>t, MatchingIs DEF M
  <2>2. hits \in Seq(Hits) /\ Len(hits) <= MaxResults /\ hits' \in Seq(Hits)
    BY <1>t DEF Found
  <2>3. MaxResults \in Nat
    BY BudgetsAssumption
  <2> HIDE DEF Hits
  <2> QED  BY <2>1, <2>2, <2>3
<1>7. k \in Nat /\ k <= Len(found) /\ (Len(found) <= MaxResults => k = Len(found))
  BY <1>6 DEF k
<1>8. /\ Range(hits') \subseteq Range(hits) \cup Range(M)
      /\ Len(found) <= MaxResults => Range(hits') = Range(hits) \cup Range(M)
  <2>1. hits \in Seq(Hits) /\ M \in Seq(Hits)
    BY <1>6
  <2> HIDE DEF Hits
  <2> QED  BY <1>1, <1>7, <2>1, JoinedRange, Zenon
<1> HIDE DEF found
<1>9. \A h \in Range(hits') : /\ h.hops <= hops /\ h.pk \in V[h.hops] /\ (h.hops > 0 => h.pk \notin V[h.hops - 1])
  <2>1. ASSUME NEW h \in Range(M)
        PROVE  h.hops <= hops /\ h.pk \in V[h.hops] /\ (h.hops > 0 => h.pk \notin V[h.hops - 1])
    <3>1. h.pk = pk /\ h.hops = hops
      BY <1>5 DEF Range
    <3>2. hops > 0 => hops - 1 \in Nat /\ hops - 1 <= hops /\ hops - 1 < hops
      BY <1>p
    <3> QED  BY <1>2, <1>4, <1>p, <1>v, <3>1, <3>2
  <2>2. ASSUME NEW h \in Range(hits)
        PROVE  h.hops <= hops /\ h.pk \in V[h.hops] /\ (h.hops > 0 => h.pk \notin V[h.hops - 1])
    <3>1. h \in Hits
      BY <1>6, RangeIn
    <3>2. PICK i \in DOMAIN hits : h = hits[i]
      BY DEF Range
    <3>3. h.hops <= hops /\ h.pk \in W[h.hops] /\ (h.hops > 0 => h.pk \notin W[h.hops - 1])
      BY <1>v, <1>x, <3>2 DEF HopsAreDistances, W
    <3>4. h.hops \in Nat /\ (h.hops > 0 => h.hops - 1 \in Nat /\ h.hops - 1 <= hops)
      BY <1>p, <3>1, <3>3 DEF Hits
    <3> QED  BY <1>2, <3>3, <3>4
  <2> QED  BY <1>8, <2>1, <2>2
<1>10. HopsAreDistances' /\ \A i \in DOMAIN hits' : hits'[i].hops <= hops
  <2>1. \A i \in DOMAIN hits' : hits'[i] \in Range(hits')
    BY DEF Range
  <2>2. \A i \in DOMAIN hits' : hits'[i].hops <= hops
    BY <1>9, <2>1
  <2>3. HopsAreDistances'
    BY <1>9, <2>1 DEF HopsAreDistances, V
  <2> QED  BY <2>2, <2>3
<1>11. CASE full
  <2>1. pc' = "done" /\ cut'
    BY <1>1, <1>11
  <2> QED  BY <1>10, <2>1 DEF Exact, FindsAll, Walking
<1>12. CASE ~full
  <2>1. queued' = r.queued /\ cut' = (cut \/ r.cut) /\ GoOn(Tail(frontier), r.list)
    BY <1>1, <1>12
  <2>2. pks \in Seq(Pubs \cup {Self})
    <3>1. <<>> \in Seq(Pubs \cup {Self})
      OBVIOUS
    <3>2. ParsedEndorse(pk) \in Seq(Pubs \cup {Self})
      BY <1>p, EndorseIs
    <3> QED  BY <3>1, <3>2 DEF pks
  <2>3. Joined(r, queued, next, pks)
    <3>1. /\ queued \subseteq Pubs \cup {Self} /\ Self \in queued /\ IsFiniteSet(queued)
          /\ opts.maxPublishers \in Nat /\ Cardinality(queued) - 1 <= opts.maxPublishers
      BY <1>t, OptionsAre DEF WalkTypes
    <3> QED  BY <2>2, <3>1, EnqueuedIs DEF r
  <2>4. PICK new \in Seq(Pubs) :
          /\ r.list = next \o new /\ IsInjective(new) /\ Range(new) \cap queued = {}
          /\ r.queued = queued \cup Range(new)
          /\ r.cut \in BOOLEAN
          /\ Range(new) \subseteq Range(pks)
          /\ ~r.cut => Range(pks) \subseteq r.queued
          /\ r.cut \/ Cardinality(queued) - 1 = opts.maxPublishers => Cardinality(r.queued) - 1 = opts.maxPublishers
          /\ Cardinality(queued) - 1 = opts.maxPublishers => r.queued = queued
    BY <2>3 DEF Joined
  <2>n. /\ next \in Seq(Pubs) /\ IsInjective(next) /\ Range(next) \subseteq queued /\ Self \in queued
        /\ queued \subseteq Pubs \cup {Self}
    BY <1>t DEF WalkTypes, Ordered, Distinct, Rest, Waiting
  <2>5. r.list \in Seq(Pubs) /\ Range(r.list) = Range(next) \cup Range(new)
    <3>1. Range(next) \cap Range(new) = {}
      BY <2>4, <2>n
    <3> QED  BY <2>4, <2>n, <3>1, ConcatIs
  <2>6. /\ \A p \in Range(pks) : p # Self => p \in Links[pk]
        /\ hops < opts.depth => Links[pk] \subseteq Range(pks)
    <3>1. Links[pk] = Range(ParsedEndorse(pk)) \ {Self}
      BY <1>p DEF Links, Range
    <3>2. Range(<<>>) = {}
      <4>1. DOMAIN <<>> = {}
        OBVIOUS
      <4> QED  BY <4>1 DEF Range
    <3>3. hops < opts.depth => hops # opts.depth
      BY <1>p
    <3> QED  BY <3>1, <3>2, <3>3 DEF pks
  <2>7. \A p \in Range(new) : p \in V[hops + 1] /\ p \notin V[hops]
    <3> SUFFICES ASSUME NEW p \in Range(new)  PROVE p \in V[hops + 1] /\ p \notin V[hops]
      OBVIOUS
    <3>1. p \in Pubs /\ p \notin queued /\ p \in Range(pks) /\ p # Self
      BY <2>4, <2>n, RangeIn
    <3>2. p \in V[hops + 1]
      BY <1>3, <2>6, <3>1
    <3>3. ~cut
      <4>1. cut => r.queued = queued
        BY <1>x, <2>4 DEF Sated
      <4> QED  BY <2>4, <3>1, <4>1
    <3>4. W[hops] \subseteq queued
      BY <1>x, <3>3 DEF Complete, W
    <3> QED  BY <1>4, <3>1, <3>2, <3>4
  <2>8. \A p \in Range(r.list) : p \in V[hops + 1] /\ p \notin V[hops]
    BY <1>4, <1>v, <2>5, <2>7
  <2>9. queued' \subseteq {Self} \cup Range(visited) \cup Range(Tail(frontier)) \cup Range(r.list)
    BY <1>v, <2>1, <2>4, <2>5
  <2>10. cut' => Sated'
    BY <1>x, <2>1, <2>4 DEF Sated
  <2>11. ASSUME ~cut'  PROVE V[hops] \subseteq queued' /\ (hops < opts.depth => V[hops + 1] \subseteq queued')
    <3>1. ~cut /\ ~r.cut /\ Range(pks) \subseteq queued' /\ queued \subseteq queued'
      BY <2>1, <2>4, <2>11
    <3>2. W[hops] \subseteq queued /\ (hops < opts.depth => W[hops + 1] \subseteq queued)
      BY <1>x, <3>1 DEF Complete, W
    <3>3. ASSUME hops < opts.depth  PROVE V[hops + 1] \subseteq queued'
      <4> SUFFICES ASSUME NEW x \in V[hops + 1]  PROVE x \in queued'
        OBVIOUS
      <4>1. x \in Pubs
        BY <1>l, <1>p
      <4> QED  BY <1>3, <2>6, <3>1, <3>2, <3>3, <4>1
    <3> QED  BY <1>4, <3>1, <3>2, <3>3
  <2>12. ASSUME ~cut'  PROVE AllHit'
    <3>1. Len(found) <= MaxResults
      <4>1. CASE es = <<>>
        BY <1>5, <1>6, <4>1
      <4>2. CASE es # <<>>
        <5> DEFINE q == Len(Matching(pk, Front(es)))
        <5>1. q \in Nat /\ Len(M) <= q + 1 /\ ~(Len(hits) + q >= MaxResults)
          <6>1. Front(es) \in Seq([ih : Infohashes, match : BOOLEAN])
            BY <1>e, <4>2, FrontIs, Zenon
          <6>2. Matching(pk, Front(es)) \in Seq(Hits)
            BY <1>p, <1>t, <6>1, MatchingIs
          <6>3. q \in Nat
            <7> HIDE DEF Hits
            <7> QED  BY <6>2
          <6> QED  BY <1>5, <1>12, <4>2, <6>3 DEF full
        <5> HIDE DEF q
        <5> QED  BY <1>6, <5>1
      <4> QED  BY <4>1, <4>2
    <3>2. Range(hits') = Range(hits) \cup Range(M)
      BY <1>8, <3>1
    <3>3. AllHit
      BY <1>x, <2>1, <2>12
    <3>4. \A p : ParsedEntries(p)' = ParsedEntries(p)
      BY DEF ParsedEntries
    <3>6. ASSUME NEW p \in Pubs, NEW ih \in Infohashes
          PROVE  Hit(p, ih)' <=> p \in answered' /\ Offers(p, ih)'
      <4>1. Hit(p, ih)' <=> Hit(p, ih) \/ \E i \in DOMAIN M : M[i].pk = p /\ M[i].ih = ih
        <5>1. Hit(p, ih)' <=> \E h \in Range(hits') : h.pk = p /\ h.ih = ih
          BY Zenon DEF Hit, Range
        <5>2. Hit(p, ih) <=> \E h \in Range(hits) : h.pk = p /\ h.ih = ih
          BY Zenon DEF Hit, Range
        <5>3. (\E i \in DOMAIN M : M[i].pk = p /\ M[i].ih = ih) <=> \E h \in Range(M) : h.pk = p /\ h.ih = ih
          BY Zenon DEF Range
        <5>4. (\E h \in Range(hits') : h.pk = p /\ h.ih = ih)
                <=> (\E h \in Range(hits) : h.pk = p /\ h.ih = ih) \/ \E h \in Range(M) : h.pk = p /\ h.ih = ih
          BY <3>2, Zenon
        <5> QED  BY <5>1, <5>2, <5>3, <5>4
      <4>2. (\E i \in DOMAIN M : M[i].pk = p /\ M[i].ih = ih) <=> p = pk /\ Offers(pk, ih)
        BY <1>5 DEF Offers, es
      <4>3. Hit(p, ih) <=> p \in answered /\ Offers(p, ih)
        BY <3>3 DEF AllHit
      <4>4. Offers(p, ih)' <=> Offers(p, ih)
        BY <3>4 DEF Offers
      <4> QED  BY <1>1, <4>1, <4>2, <4>3, <4>4
    <3> QED  BY <3>6 DEF AllHit
  <2>13. answered' \subseteq Range(visited) /\ Range(visited) \subseteq V[hops]
    BY <1>1, <1>4, <1>p, <1>t, <1>v DEF Ordered
  <2>14. \A p \in Range(frontier) : p \in V[hops] /\ \A n \in Nat : n < hops => p \notin V[n]
    <3>1. \A n \in Nat : n < hops => n <= hops
      BY <1>p
    <3> QED  BY <1>2, <1>4, <1>v, <3>1
  <2> QED  BY <1>6, <1>10, <1>t, <2>1, <2>5, <2>8, <2>9, <2>10, <2>11, <2>12, <2>13, <2>14, GoOnExact DEF V
<1> QED  BY <1>11, <1>12
-----------------------------------------------------------------------------
(***************************************************************************)
(* What the walk has found out, action by action.                          *)
(***************************************************************************)
\* Without another catalog, everybody is as far away as before.
LEMMA LayersStay ==
    ASSUME LayersAre, LayersAre', UNCHANGED <<web, answered>>
    PROVE  \A n \in Nat : Within'[n] = Within[n]
<1> SUFFICES ASSUME NEW n \in Nat  PROVE Within'[n] = Within[n]
  OBVIOUS
<1> DEFINE V == Within'
           W == Within
<1>1. Links' = Links
  BY DEF Links, ParsedEndorse
<1>2. Grown(W, answered, Links) /\ Grown(V, answered, Links) /\ V[0] = W[0]
  BY <1>1 DEF LayersAre, Grown
<1> HIDE DEF V, W
<1>3. \A m \in Nat : m < n => \A p \in W[m] : p \in answered <=> p \in answered
  OBVIOUS
<1>4. \A m \in Nat : m <= n => V[m] = W[m]
  BY <1>2, <1>3, LayersSame
<1>5. n <= n
  OBVIOUS
<1> QED  BY <1>4, <1>5 DEF V, W

LEMMA HitsStay ==
    ASSUME WalkInv, LayersAre, LayersAre', UNCHANGED <<web, answered, hits>>
    PROVE  /\ HopsAreDistances => HopsAreDistances'
           /\ AllHit => AllHit'
<1>1. \A n \in Nat : Within'[n] = Within[n]
  BY LayersStay
<1>2. ASSUME HopsAreDistances  PROVE HopsAreDistances'
  <2> DEFINE V == Within'
             W == Within
  <2>1. \A n \in Nat : V[n] = W[n]
    BY <1>1
  <2>2. \A i \in DOMAIN hits : hits[i].pk \in W[hits[i].hops]
                               /\ (hits[i].hops > 0 => hits[i].pk \notin W[hits[i].hops - 1])
    BY <1>2 DEF HopsAreDistances
  <2>3. \A i \in DOMAIN hits : hits[i].hops \in Nat
    <3>1. \A i \in DOMAIN hits : hits[i] \in Hits
      BY DEF WalkInv, Found
    <3> QED  BY <3>1 DEF Hits
  <2> HIDE DEF V, W
  <2>4. \A h \in Nat : h > 0 => h - 1 \in Nat
    OBVIOUS
  <2>5. \A i \in DOMAIN hits : hits[i].pk \in V[hits[i].hops]
                               /\ (hits[i].hops > 0 => hits[i].pk \notin V[hits[i].hops - 1])
    BY <2>1, <2>2, <2>3, <2>4
  <2> QED  BY <2>5 DEF HopsAreDistances, V
<1>3. ASSUME AllHit  PROVE AllHit'
  <2>1. \A p \in Pubs, ih \in Infohashes : (Offers(p, ih)' <=> Offers(p, ih)) /\ (Hit(p, ih)' <=> Hit(p, ih))
    BY DEF Offers, Hit, ParsedEntries
  <2> QED  BY <1>3, <2>1 DEF AllHit
<1> QED  BY <1>2, <1>3

LEMMA LevelsStay ==
    ASSUME WalkInv, LayersAre, LayersAre', UNCHANGED <<web, opts, answered, hits, hops, frontier, next, queued>>,
           Levels, Range(visited') \subseteq Range(visited) \cup Range(frontier),
           Range(visited) \cup Range(Rest) \subseteq Range(visited') \cup Range(Rest')
    PROVE  Levels' /\ (Complete => Complete')
<1> DEFINE V == Within'
           W == Within
<1>1. \A n \in Nat : V[n] = W[n]
  BY LayersStay
<1>2. hops \in Nat /\ hops + 1 \in Nat
  BY DEF WalkInv, WalkTypes
<1>3. /\ Range(visited) \subseteq W[hops]
      /\ \A p \in Range(frontier) : p \in W[hops] /\ \A n \in Nat : n < hops => p \notin W[n]
      /\ \A p \in Range(next) : p \in W[hops + 1] /\ p \notin W[hops]
      /\ queued \subseteq {Self} \cup Range(visited) \cup Range(Rest) \cup Range(next)
      /\ \A i \in DOMAIN hits : hits[i].hops <= hops
  BY DEF Levels
<1> HIDE DEF V, W
<1>4. V[hops] = W[hops] /\ V[hops + 1] = W[hops + 1]
  BY <1>1, <1>2
<1>5. /\ Range(visited') \subseteq V[hops]
      /\ \A p \in Range(frontier) : p \in V[hops] /\ \A n \in Nat : n < hops => p \notin V[n]
      /\ \A p \in Range(next) : p \in V[hops + 1] /\ p \notin V[hops]
      /\ queued \subseteq {Self} \cup Range(visited') \cup Range(Rest') \cup Range(next)
  <2>1. Range(visited') \subseteq V[hops]
    BY <1>3, <1>4
  <2>2. \A p \in Range(frontier) : p \in V[hops] /\ \A n \in Nat : n < hops => p \notin V[n]
    BY <1>1, <1>3, <1>4
  <2>3. \A p \in Range(next) : p \in V[hops + 1] /\ p \notin V[hops]
    BY <1>3, <1>4
  <2>4. queued \subseteq {Self} \cup Range(visited') \cup Range(Rest') \cup Range(next)
    BY <1>3
  <2> QED  BY <2>1, <2>2, <2>3, <2>4
<1>6. Levels'
  BY <1>3, <1>5 DEF Levels, V
<1>7. Complete => Complete'
  BY <1>4 DEF Complete, V, W
<1> QED  BY <1>6, <1>7

LEMMA SearchExact ==
    ASSUME WalkInv, WalkInv', LayersAre', Exact, Search
    PROVE  Exact'
<1> DEFINE r == Enqueued(queued, <<>>, Follows)
           W == Within'
<1>1. /\ pc = "idle" /\ queued' = r.queued /\ frontier' = r.list /\ cut' = r.cut
      /\ pc' = IF r.list = <<>> THEN "done" ELSE "walk"
      /\ UNCHANGED <<tx, web, opts, next, hops, hits, call, visited, answered>>
  BY Zenon DEF Search, adoptVars
<1>t. WalkTypes /\ opts.depth \in Nat /\ opts.maxPublishers \in Nat
  BY OptionsAre DEF WalkInv
<1>b. /\ queued = {Self} /\ next = <<>> /\ hops = 0 /\ hits = <<>> /\ visited = <<>> /\ answered = {} /\ ~cut
  BY <1>1 DEF Exact, NotBegun
<1>2. Joined(r, queued, <<>>, Follows)
  <2>1. /\ queued \subseteq Pubs \cup {Self} /\ Self \in queued /\ IsFiniteSet(queued)
        /\ opts.maxPublishers \in Nat /\ Cardinality(queued) - 1 <= opts.maxPublishers
    BY <1>t DEF WalkTypes
  <2> QED  BY <2>1, EnqueuedIs, FollowsAssumption
<1> HIDE DEF r, W
<1>3. PICK new \in Seq(Pubs) :
        /\ r.list = <<>> \o new /\ Range(new) \cap queued = {} /\ r.queued = queued \cup Range(new)
        /\ r.cut \in BOOLEAN
        /\ Range(new) \subseteq Range(Follows)
        /\ ~r.cut => Range(Follows) \subseteq r.queued
        /\ r.cut => Cardinality(r.queued) - 1 = opts.maxPublishers
  BY <1>2 DEF Joined
<1>4. r.list = new
  BY <1>3
<1>e. Range(<<>>) = {} /\ DOMAIN <<>> = {}
  <2>1. DOMAIN <<>> = {}
    OBVIOUS
  <2> QED  BY <2>1 DEF Range
<1>5. W[0] = Range(Follows) \ {Self} /\ Grown(W, {}, Links')
  BY <1>1, <1>b DEF LayersAre, Followed, Range, W
<1>6. \A n \in Nat : W[n] = W[0]
  <2>1. W[0 + 1] \subseteq W[0]
    <3>1. W[0 + 1] \subseteq Pubs /\ \A x \in Pubs : x \in W[0 + 1] <=> x \in W[0]
      BY <1>5 DEF Grown
    <3> QED  BY <3>1
  <2>2. \A n \in Nat : 0 <= n => W[n] = W[0]
    <3>1. 0 \in Nat
      OBVIOUS
    <3>2. NoneAfter(W, 0)
      BY <2>1 DEF NoneAfter
    <3>3. SameAfter(W, 0)
      BY <1>5, <3>1, <3>2, LayersEnd
    <3> QED  BY <3>3 DEF SameAfter
  <2> QED  BY <2>2
<1>7. HopsAreDistances'
  BY <1>1, <1>b, <1>e DEF HopsAreDistances
<1>8. ASSUME r.list = <<>>  PROVE FindsAll'
  <2> SUFFICES ASSUME ~cut'
               PROVE  /\ Range(visited') = W[opts'.depth]
                      /\ {<<hits'[i].pk, hits'[i].ih>> : i \in DOMAIN hits'}
                           = UNION {{<<p, e.ih>> : e \in {x \in Range(ParsedEntries(p)') : x.match}} :
                                      p \in W[opts'.depth] \cap answered'}
    BY DEF FindsAll, W
  <2>1. Range(Follows) \subseteq {Self}
    BY <1>1, <1>3, <1>4, <1>8, <1>b, <1>e
  <2>2. W[opts'.depth] = {}
    BY <1>1, <1>5, <1>6, <1>t, <2>1
  <2>3. {<<hits'[i].pk, hits'[i].ih>> : i \in DOMAIN hits'} = {}
    BY <1>1, <1>b, <1>e
  <2> QED  BY <1>1, <1>b, <1>e, <2>2, <2>3
<1>9. ASSUME r.list # <<>>  PROVE Levels' /\ (cut' => Sated') /\ (~cut' => Complete' /\ AllHit')
  <2>1. /\ pc' = "walk" /\ frontier' = new /\ next' = <<>> /\ hops' = 0 /\ Rest' = new
        /\ queued' = {Self} \cup Range(new) /\ visited' = <<>> /\ hits' = <<>> /\ answered' = {}
    BY <1>1, <1>3, <1>4, <1>9, <1>b DEF Rest, Waiting
  <2>2. \A p \in Range(new) : p \in W[0]
    BY <1>3, <1>5, <1>b
  <2>3. Levels'
    <3>1. \A n \in Nat : ~(n < 0)
      OBVIOUS
    <3>2. /\ Range(visited') \subseteq W[hops']
          /\ \A p \in Range(frontier') : p \in W[hops'] /\ \A n \in Nat : n < hops' => p \notin W[n]
          /\ \A p \in Range(next') : p \in W[hops' + 1] /\ p \notin W[hops']
          /\ queued' \subseteq {Self} \cup Range(visited') \cup Range(Rest') \cup Range(next')
          /\ \A i \in DOMAIN hits' : hits'[i].hops <= hops'
      BY <1>e, <2>1, <2>2, <3>1
    <3> QED  BY <3>2 DEF Levels, W
  <2>4. cut' => Sated'
    BY <1>1, <1>3 DEF Sated
  <2>5. ASSUME ~cut'  PROVE Complete'
    <3>1. W[0] \subseteq queued'
      BY <1>1, <1>3, <1>5, <2>5
    <3>2. W[0 + 1] = W[0]
      BY <1>6
    <3> QED  BY <2>1, <3>1, <3>2 DEF Complete, W
  <2>6. AllHit'
    BY <1>e, <2>1 DEF AllHit, Hit
  <2> QED  BY <2>3, <2>4, <2>5, <2>6
<1>10. CASE r.list = <<>>
  <2>1. pc' = "done"
    BY <1>1, <1>10
  <2> QED  BY <1>7, <1>8, <1>10, <2>1 DEF Exact, Walking
<1>11. CASE r.list # <<>>
  <2>1. pc' = "walk"
    BY <1>1, <1>11
  <2> QED  BY <1>7, <1>9, <1>11, <2>1 DEF Exact, FindsAll
<1> QED  BY <1>10, <1>11

LEMMA VisitExact ==
    ASSUME WalkInv, WalkInv', LayersAre, LayersAre', Exact, Visit \/ LoadedCatalog
    PROVE  Exact'
<1>1. /\ pc \in Walking /\ pc' \in Waiting
      /\ UNCHANGED <<web, opts, queued, frontier, next, hops, hits, answered, cut>>
  BY DEF Visit, LoadedCatalog, Waiting, Walking
<1>2. Levels /\ (cut => Sated) /\ (~cut => Complete /\ AllHit) /\ HopsAreDistances
  BY <1>1 DEF Exact
<1>3. /\ Range(visited') \subseteq Range(visited) \cup Range(frontier)
      /\ Range(visited) \cup Range(Rest) \subseteq Range(visited') \cup Range(Rest')
  <2>1. CASE LoadedCatalog
    <3>1. visited' = visited /\ Rest' = Rest
      BY <1>1, <2>1 DEF LoadedCatalog, Rest, Waiting
    <3> QED  BY <3>1
  <2>2. CASE Visit
    <3>1. /\ visited' = Append(visited, Head(frontier)) /\ Rest' = Tail(frontier) /\ Rest = frontier
      BY <1>1, <2>2 DEF Visit, Rest, Waiting
    <3>2. visited \in Seq(Pubs) /\ frontier \in Seq(Pubs) /\ frontier # <<>>
      BY <2>2 DEF Visit, WalkInv, WalkTypes
    <3>3. Range(frontier) = {Head(frontier)} \cup Range(Tail(frontier))
      BY <3>2, TailIs
    <3>4. Range(Append(visited, Head(frontier))) = Range(visited) \cup {Head(frontier)}
      <4> DEFINE p == Head(frontier)
      <4> HIDE DEF p
      <4>1. Range(Append(visited, p)) = Range(visited) \cup {p}
        <5>1. /\ DOMAIN Append(visited, p) = 1..Len(visited) + 1 /\ Len(visited) \in Nat
              /\ DOMAIN visited = 1..Len(visited)
              /\ \A i \in 1..Len(visited) : Append(visited, p)[i] = visited[i]
              /\ Append(visited, p)[Len(visited) + 1] = p
          BY <3>2
        <5>2. \A i \in 1..Len(visited) + 1 : i \in 1..Len(visited) \/ i = Len(visited) + 1
          BY <5>1
        <5>3. \A i \in 1..Len(visited) : i \in 1..Len(visited) + 1
          BY <5>1
        <5>4. Len(visited) + 1 \in 1..Len(visited) + 1
          BY <5>1
        <5> QED  BY <5>1, <5>2, <5>3, <5>4 DEF Range
      <4> QED  BY <4>1 DEF p
    <3> QED  BY <3>1, <3>3, <3>4
  <2> QED  BY <2>1, <2>2
<1>4. Levels' /\ (Complete => Complete')
  BY <1>1, <1>2, <1>3, LevelsStay
<1>5. HopsAreDistances' /\ (AllHit => AllHit')
  BY <1>1, <1>2, HitsStay
<1>6. Sated => Sated'
  BY <1>1 DEF Sated
<1> QED  BY <1>1, <1>2, <1>4, <1>5, <1>6 DEF Exact, FindsAll, Waiting

LEMMA NoCatalogExact ==
    ASSUME WalkInv, WalkInv', LayersAre, LayersAre', Exact, NoCatalog
    PROVE  Exact'
<1>1. /\ pc \in Waiting /\ GoOn(Tail(frontier), next)
      /\ UNCHANGED <<web, opts, queued, hits, visited, answered, cut>>
  BY Zenon DEF NoCatalog, Waiting
<1>2. Levels /\ (cut => Sated) /\ (~cut => Complete /\ AllHit) /\ HopsAreDistances
  BY <1>1 DEF Exact, Waiting, Walking
<1>t. WalkTypes /\ WalkTypes' /\ Ordered /\ Found'
  BY DEF WalkInv
<1> DEFINE V == Within'
           W == Within
<1>3. \A n \in Nat : V[n] = W[n]
  BY <1>1, LayersStay
<1>4. hops \in Nat /\ hops + 1 \in Nat /\ next \in Seq(Pubs)
  BY <1>t DEF WalkTypes
<1>5. /\ Range(visited) \subseteq W[hops]
      /\ \A p \in Range(frontier) : p \in W[hops] /\ \A n \in Nat : n < hops => p \notin W[n]
      /\ \A p \in Range(next) : p \in W[hops + 1] /\ p \notin W[hops]
      /\ queued \subseteq {Self} \cup Range(visited) \cup Range(Tail(frontier)) \cup Range(next)
      /\ \A i \in DOMAIN hits : hits[i].hops <= hops
      /\ ~cut => W[hops] \subseteq queued /\ (hops < opts.depth => W[hops + 1] \subseteq queued)
  BY <1>1, <1>2 DEF Levels, Rest, Complete
<1> HIDE DEF V, W
<1>6. V[hops] = W[hops] /\ V[hops + 1] = W[hops + 1]
  BY <1>3, <1>4
<1>7. HopsAreDistances' /\ (AllHit => AllHit')
  BY <1>1, <1>2, HitsStay
<1>8. cut' => Sated'
  BY <1>1, <1>2 DEF Sated
<1>9. answered' \subseteq Range(visited) /\ Range(visited) \subseteq V[hops]
  BY <1>1, <1>5, <1>6, <1>t DEF Ordered
<1>10. \A p \in Range(frontier) : p \in V[hops] /\ \A n \in Nat : n < hops => p \notin V[n]
  BY <1>3, <1>5, <1>6
<1>11. \A p \in Range(next) : p \in V[hops + 1] /\ p \notin V[hops]
  BY <1>5, <1>6
<1>12. /\ queued' \subseteq {Self} \cup Range(visited) \cup Range(Tail(frontier)) \cup Range(next)
       /\ \A i \in DOMAIN hits' : hits'[i].hops <= hops
  BY <1>1, <1>5
<1>13. ~cut' => /\ AllHit' /\ V[hops] \subseteq queued'
                /\ hops < opts.depth => V[hops + 1] \subseteq queued'
  BY <1>1, <1>2, <1>5, <1>6, <1>7
<1>14. hits' \in Seq(Hits)
  BY <1>t DEF Found
<1> QED  BY <1>1, <1>4, <1>7, <1>8, <1>9, <1>10, <1>11, <1>12, <1>13, <1>14, <1>t, GoOnExact DEF V

\* A step that ends the walk before its time, or that has nothing to do with it.
LEMMA WalkRests ==
    ASSUME WalkInv, LayersAre, LayersAre', Exact, OutOfTime \/ ProcessEnds \/ UNCHANGED walkVars
    PROVE  Exact'
<1>1. CASE OutOfTime
  <2>1. pc = "walk" /\ pc' = "done" /\ cut' /\ UNCHANGED <<web, answered, hits>>
    BY <1>1 DEF OutOfTime
  <2>2. HopsAreDistances'
    BY <2>1, HitsStay DEF Exact
  <2> QED  BY <2>1, <2>2 DEF Exact, FindsAll, Walking
<1>2. CASE ProcessEnds
  <2>1. pc' = "done" /\ cut' /\ hits' = <<>>
    BY <1>2 DEF ProcessEnds
  <2>2. DOMAIN <<>> = {}
    OBVIOUS
  <2> QED  BY <2>1, <2>2 DEF Exact, FindsAll, HopsAreDistances, Walking
<1>3. CASE UNCHANGED walkVars
  <2>1. UNCHANGED <<web, opts, pc, queued, frontier, next, hops, hits, call, visited, answered, cut>>
    BY <1>3 DEF walkVars
  <2>2. HopsAreDistances' /\ (AllHit => AllHit')
    BY <2>1, HitsStay DEF Exact
  <2>3. ASSUME pc \in Walking  PROVE Levels' /\ (cut' => Sated') /\ (~cut' => Complete' /\ AllHit')
    <3>1. Levels /\ (cut => Sated) /\ (~cut => Complete /\ AllHit)
      BY <2>3 DEF Exact
    <3>2. /\ Range(visited') \subseteq Range(visited) \cup Range(frontier)
          /\ Range(visited) \cup Range(Rest) \subseteq Range(visited') \cup Range(Rest')
      BY <2>1 DEF Rest
    <3>3. Levels' /\ (Complete => Complete')
      BY <2>1, <3>1, <3>2, LevelsStay
    <3> QED  BY <2>1, <2>2, <3>1, <3>3 DEF Sated
  <2>4. pc' = "idle" => NotBegun'
    BY <2>1 DEF Exact, NotBegun
  <2>5. FindsAll'
    <3> DEFINE V == Within'
               W == Within
    <3>1. \A n \in Nat : V[n] = W[n]
      BY <2>1, LayersStay
    <3>2. \A p : ParsedEntries(p)' = ParsedEntries(p)
      BY <2>1 DEF ParsedEntries
    <3>3. V[opts.depth] = W[opts.depth]
      BY <3>1, OptionsAre DEF WalkInv
    <3>4. FindsAll
      BY DEF Exact
    <3>5. pc = "done" /\ ~cut =>
            /\ Range(visited) = W[opts.depth]
            /\ {<<hits[i].pk, hits[i].ih>> : i \in DOMAIN hits}
                 = UNION {{<<p, e.ih>> : e \in {x \in Range(ParsedEntries(p)) : x.match}} :
                            p \in W[opts.depth] \cap answered}
      BY <3>4 DEF FindsAll
    <3> HIDE DEF V, W
    <3>6. pc' = "done" /\ ~cut' =>
            /\ Range(visited') = V[opts'.depth]
            /\ {<<hits'[i].pk, hits'[i].ih>> : i \in DOMAIN hits'}
                 = UNION {{<<p, e.ih>> : e \in {x \in Range(ParsedEntries(p)') : x.match}} :
                            p \in V[opts'.depth] \cap answered'}
      BY <2>1, <3>2, <3>3, <3>5
    <3> QED  BY <3>6 DEF FindsAll, V
  <2> QED  BY <2>1, <2>2, <2>3, <2>4, <2>5 DEF Exact
<1> QED  BY <1>1, <1>2, <1>3

LEMMA StepExact ==
    ASSUME WalkInv, WalkInv', LayersAre, LayersAre', Exact, [Next]_vars
    PROVE  Exact'
<1>1. ASSUME KnownCatalog \/ Adopted  PROVE Exact'
  <2>1. pc \in Waiting /\ Take(Head(frontier)) /\ UNCHANGED <<web, opts, visited>>
    BY <1>1 DEF KnownCatalog, Adopted, Waiting
  <2> QED  BY <2>1, TakeExact
<1>2. ASSUME \/ \E pk \in Pubs : OtherReader(pk)
             \/ AdoptGoesOn
             \/ (Stop \/ Start \/ TimePasses) /\ UNCHANGED walkVars
             \/ UNCHANGED vars
      PROVE  UNCHANGED walkVars
  BY <1>2, Zenon DEF OtherReader, AdoptGoesOn, vars
<1> QED  BY <1>1, <1>2, SearchExact, VisitExact, NoCatalogExact, WalkRests, Zenon DEF Next, WalkStep

LEMMA ExactStarts ==
    ASSUME Init
    PROVE  Exact
<1>1. /\ pc = "idle" /\ cut = FALSE /\ queued = {Self} /\ next = <<>> /\ hops = 0
      /\ hits = <<>> /\ visited = <<>> /\ answered = {}
  BY DEF Init
<1>2. DOMAIN <<>> = {}
  OBVIOUS
<1> QED  BY <1>1, <1>2 DEF Exact, NotBegun, HopsAreDistances, FindsAll, Walking

\* A walk knows how many endorsements away everybody is whose entry it lists, also where a
\* budget cuts it short; if none does, it has asked everybody within its depth and lists
\* everything that matches in the catalogs that came, whatever the catalogs endorse and
\* whoever does not answer (node.ts:1309).
THEOREM WalksAreExact == Spec => []WalkIsExact
<1>1. WalkInv => LayersAre
  BY WithinIs DEF WalkInv, WalkTypes
<1>2. Spec => [](WalkInv /\ LayersAre)
  BY <1>1, Invariants, PTL
<1>3. Init => Exact
  BY ExactStarts
<1>4. WalkInv /\ LayersAre /\ (WalkInv /\ LayersAre)' /\ Exact /\ [Next]_vars => Exact'
  BY StepExact
<1>5. Exact => WalkIsExact
  BY DEF Exact, WalkIsExact
<1> QED  BY <1>2, <1>3, <1>4, <1>5, PTL DEF Spec

=============================================================================
