-------------------------- MODULE NameVersionsProofs --------------------------
(***************************************************************************)
(* What is proved of NameVersions, for any number of calls, contents,      *)
(* accounts and events: versions are never given twice and rise, what      *)
(* resolves is what is shared, and a share that fails restores.            *)
(***************************************************************************)
EXTENDS NameVersions, WellFoundedInduction, TLAPS

\* The calls that publish what is shared, and those that share something else.
Repeats(c) == call[c].kind \in {"republish", "anchor"}
Shares(c) == call[c].kind \in {"share", "import"}

\* Which kinds of calls get to which step, and from which step on they have a version.
ShapeOf(c) ==
    /\ c \notin Running => call[c] = Idle(call[c].pc)
    /\ c \in Running => call[c].ih \in Contents
    /\ call[c].pc \in {"prev", "upsert", "undo"} => Shares(c)
    /\ call[c].pc = "cancel" => call[c].kind = "import"
    /\ call[c].pc = "put" => Shares(c) \/ call[c].kind = "republish"
    /\ call[c].pc \in {"send", "receipt"} =>
          call[c].kind \in {"share", "anchor"} /\ call[c].key # None
    /\ call[c].kind = "anchor" => call[c].key # None
    /\ call[c].pc \in {"prev", "dht", "owner", "seqs", "next"} => call[c].seq = 0
    /\ call[c].pc \in {"upsert", "put", "cancel", "send", "receipt"} => call[c].seq # 0

Shape == \A c \in Calls : ShapeOf(c)

-----------------------------------------------------------------------------
(***************************************************************************)
(* Versions.                                                               *)
(***************************************************************************)
\* No two calls have one version, and a record of a call's version is the call's.
Allocations ==
    /\ \A c, d \in Calls : call[c].seq = call[d].seq /\ call[c].seq # 0 => c = d
    /\ \A c \in Calls : \A r \in issued : r.seq = call[c].seq => r.ih = call[c].ih

\* Every version that was given is in sight; so a call that is allocating has seen it, or
\* is about to.
Floors == \A n \in Given : InSight(n)

FloorOf(c) == \A n \in Given : n <= counter \/ SeesOf(c, n)

\* What had been issued when a call began is issued still, and less than its version.
Since ==
    \A c \in Calls :
        IF call[c].seq = 0
        THEN call[c].since = 0 \/ \E r \in issued : call[c].since <= r.seq
        ELSE call[c].since < call[c].seq

\* What holds of versions unless one was hidden.
Told == Shape /\ OneContentPerVersion /\ Allocations /\ Floors /\ Since

VersionInv == Shape /\ (~forgot => Told)

-----------------------------------------------------------------------------
(***************************************************************************)
(* Shares.                                                                 *)
(***************************************************************************)
\* What a call that has met no other knows.
AloneOf(c) ==
    /\ ~forgot /\ call[c].seq # 0 => \A r \in issued : r.seq <= call[c].seq
    /\ Repeats(c) => share = call[c].ih
    /\ Shares(c) =>
         /\ call[c].pc # "prev" => call[c].prev = call[c].before
         /\ call[c].pc \in {"prev", "dht", "owner", "seqs", "next", "upsert"} => share = call[c].before
         /\ call[c].pc \in {"put", "cancel", "send", "receipt"} => share = call[c].ih

\* It is the only one.
AloneInv ==
    \A c \in Calls : c \in Running /\ Alone(c) => Running = {c} /\ AloneOf(c)

\* A share that is written and not published yet.
Upserted(c) == call[c].pc \in {"put", "undo"} /\ Shares(c)

\* Only what was issued is anywhere.
Stored ==
    /\ dht # None => dht \in issued
    /\ \A a \in Accounts : /\ chain[a] # None => chain[a] \in issued
                           /\ pool[a] \in Seq(issued)
    /\ held # None => held \in issued
    /\ looks \in Seq(issued)
    /\ keeper.rec # None => keeper.rec \in issued

\* The DHT has the content x, and nothing as new has another.
Newest(x) ==
    IF x = None THEN issued = {}
    ELSE dht # None /\ \A r \in issued : r.seq >= dht.seq => r.ih = x

Kept ==
    ~unsure /\ ~forgot =>
        /\ \A c \in Running : Alone(c)
        /\ (\A c \in Calls : ~Upserted(c)) => Newest(share)
        /\ \A c \in Calls : Upserted(c) => Newest(call[c].before)

ShareInv == AloneInv /\ Stored /\ Kept

-----------------------------------------------------------------------------
(***************************************************************************)
(* Types.                                                                  *)
(***************************************************************************)
LEMMA SmallestExists ==
    ASSUME NEW T \in SUBSET Nat, T # {}
    PROVE  \E x \in T : \A y \in T : x <= y
<1>1. PICK x \in T : \A y \in T : ~(<<y, x>> \in OpToRel(<, Nat))
  BY NatLessThanWellFounded, WFMin, Zenon
<1>2. \A y \in T : ~(y < x)
  BY <1>1 DEF OpToRel
<1> QED
  BY <1>2

\* The newest version that has been issued, or zero.
LEMMA NewestIs ==
    ASSUME issued \in SUBSET Record
    PROVE  /\ NewestIssued \in 0..MaxDhtSeq
           /\ \A r \in issued : r.seq <= NewestIssued
           /\ NewestIssued = 0 \/ \E r \in issued : r.seq = NewestIssued
<1> DEFINE T == {n \in 0..MaxDhtSeq : \A r \in issued : r.seq <= n}
<1>1. MaxDhtSeq \in T /\ T \in SUBSET Nat
  BY BoundsAssumption DEF Record, Version
<1>2. PICK n \in T : \A m \in T : n <= m
  <2> HIDE DEF T
  <2> QED  BY <1>1, SmallestExists
<1>3. n = 0 \/ \E r \in issued : r.seq = n
  <2>1. ASSUME n # 0, \A r \in issued : r.seq # n
        PROVE  n - 1 \in T
    BY <2>1, <1>2, BoundsAssumption DEF Record, Version
  <2> QED  BY <2>1, <1>1, <1>2
<1> QED  BY <1>2, <1>3 DEF NewestIssued

LEMMA IdleType == \A pc \in {"unused", "done"} : Idle(pc) \in Call
BY BoundsAssumption DEF Idle, Call

LEMMA SeqType ==
    /\ \A r \in Record \cup {None} : SeqOf(r) \in 0..MaxDhtSeq
    /\ \A m, n \in 0..MaxDhtSeq : Larger(m, n) \in 0..MaxDhtSeq
BY BoundsAssumption DEF SeqOf, Record, Version, Larger

LEMMA SeqNat ==
    ASSUME TypeOK
    PROVE  /\ SeqOf(dht) \in Nat /\ SeqOf(Chained) \in Nat /\ SeqOf(held) \in Nat
           /\ SeqOf(keeper.rec) \in Nat
           /\ \A a \in Accounts : SeqOf(chain[a]) \in Nat
           /\ \A r \in issued : r \in Record /\ r.seq \in Nat /\ r.seq # 0
<1>1. \A r \in Record \cup {None} : SeqOf(r) \in Nat
  BY SeqType, BoundsAssumption
<1>2. /\ dht \in Record \cup {None} /\ held \in Record \cup {None}
      /\ chain \in [Accounts -> Record \cup {None}] /\ owner \in Accounts \cup {None}
      /\ keeper.rec \in Record \cup {None} /\ issued \subseteq Record
  BY DEF TypeOK
<1>3. Chained \in Record \cup {None}
  BY <1>2 DEF Chained
<1>4. \A r \in Record : r.seq \in Nat /\ r.seq # 0
  BY BoundsAssumption DEF Record, Version
<1> QED  BY <1>1, <1>2, <1>3, <1>4

LEMMA CallNat ==
    ASSUME TypeOK
    PROVE  /\ counter \in Nat
           /\ \A c \in Calls : /\ call[c].seq \in Nat /\ call[c].since \in Nat
                                /\ call[c].floor \in Nat /\ call[c].todo \subseteq Accounts
<1>1. \A x \in Call : x.seq \in Nat /\ x.since \in Nat /\ x.floor \in Nat /\ x.todo \subseteq Accounts
  BY BoundsAssumption DEF Call
<1>2. call \in [Calls -> Call] /\ counter \in Nat
  BY BoundsAssumption DEF TypeOK
<1> QED  BY <1>1, <1>2

LEMMA NoneIsNoRecord == None \notin Record
<1>1. Record \subseteq [seq : Nat, ih : Contents]
  BY BoundsAssumption DEF Record, Version
<1> QED  BY <1>1, ContentsAssumption

LEMMA TypeInit == Init => TypeOK
<1> SUFFICES ASSUME Init  PROVE TypeOK
  OBVIOUS
<1>1. call \in [Calls -> Call]
  BY IdleType DEF Init
<1>2. chain \in [Accounts -> Record \cup {None}] /\ pool \in [Accounts -> Seq(Record)] /\ looks \in Seq(Record)
  BY DEF Init
<1>3. keeper \in [pc : {"idle", "latest", "put"}, left : 0..LooksMax, rec : Record \cup {None}]
  BY BoundsAssumption DEF Init
<1>4. counter \in 0..MaxDhtSeq /\ events \in 0..EventsMax
  BY BoundsAssumption DEF Init
<1> QED
  BY <1>1, <1>2, <1>3, <1>4, Zenon DEF Init, TypeOK

LEMMA StepsType ==
    ASSUME call \in [Calls -> Call], NEW c \in Calls,
           NEW pc \in {"next", "owner", "put", "undo", "cancel", "send", "receipt", "done"}, Steps(c, pc)
    PROVE  call' \in [Calls -> Call]
<1>2. CASE pc = "done"
  BY <1>2, IdleType DEF Steps
<1>3. CASE pc # "done"
  BY <1>3 DEF Steps, Call
<1> QED  BY <1>2, <1>3

\* What every action leaves to TypeOK but the calls.
OthersTyped ==
    /\ counter \in 0..MaxDhtSeq
    /\ share \in Contents \cup {None}
    /\ dht \in Record \cup {None}
    /\ owner \in Accounts \cup {None}
    /\ chain \in [Accounts -> Record \cup {None}]
    /\ pool \in [Accounts -> Seq(Record)]
    /\ events \in 0..EventsMax
    /\ held \in Record \cup {None}
    /\ looks \in Seq(Record)
    /\ keeper \in [pc : {"idle", "latest", "put"}, left : 0..LooksMax, rec : Record \cup {None}]
    /\ issued \subseteq Record
    /\ unsure \in BOOLEAN
    /\ forgot \in BOOLEAN

LEMMA StartType ==
    ASSUME TypeOK, NEW c \in Calls, Start(c)
    PROVE  TypeOK'
<1> USE BoundsAssumption, ContentsAssumption
<1>1. PICK kind \in {"share", "import", "republish", "anchor"},
           ih \in Contents, key \in Accounts \cup {None} : call' = Begun(c, kind, ih, key)
  BY DEF Start
<1>2. NewestIssued \in 0..MaxDhtSeq /\ Running \in SUBSET Calls
  BY NewestIs DEF TypeOK, Running
<1>3. call'[c] \in Call
  BY <1>1, <1>2 DEF Begun, TypeOK, Call
<1>4. ASSUME NEW d \in Calls \ {c}  PROVE call'[d] \in Call
  <2> DEFINE met == IF d \in Running THEN call[d].met \cup {c} ELSE call[d].met
  <2>1. call[d] \in Call /\ met \in SUBSET Calls
    BY SMTT(60) DEF TypeOK, Call
  <2>2. call'[d] = [call[d] EXCEPT !.met = met]
    BY <1>1 DEF Begun
  <2> HIDE DEF met
  <2> QED  BY <2>1, <2>2 DEF Call
<1>5. call' \in [Calls -> Call]
  BY <1>1, <1>3, <1>4 DEF Begun
<1> QED  BY <1>5 DEF Start, TypeOK, registry, other

LEMMA ReadType ==
    ASSUME TypeOK, NEW c \in Calls,
           ReadPrev(c) \/ ReadDht(c) \/ ReadOwner(c) \/ ReadSeq(c)
    PROVE  TypeOK'
<1> USE BoundsAssumption, ContentsAssumption
<1>t. /\ call[c] \in Call /\ share \in Contents \cup {None} /\ dht \in Record \cup {None}
      /\ chain \in [Accounts -> Record \cup {None}] /\ owner \in Accounts \cup {None}
  BY DEF TypeOK
<1>1. OthersTyped'
  BY Zenon DEF ReadPrev, ReadDht, ReadOwner, ReadSeq, TypeOK, OthersTyped, registry, other, history
<1>2. CASE ReadPrev(c)
  <2>1. [call[c] EXCEPT !.pc = "dht", !.prev = share] \in Call
    BY <1>t, Zenon DEF Call
  <2>2. call' = [call EXCEPT ![c] = [call[c] EXCEPT !.pc = "dht", !.prev = share]]
    BY <1>2 DEF ReadPrev
  <2> QED  BY <1>1, <2>1, <2>2 DEF TypeOK, OthersTyped
<1>3. CASE ReadDht(c)
  <2>1. SeqOf(dht) \in 0..MaxDhtSeq
    BY <1>t, SeqType
  <2>2. [call[c] EXCEPT !.pc = "owner", !.floor = SeqOf(dht)] \in Call
    BY <1>t, <2>1, Zenon DEF Call
  <2>3. call' = [call EXCEPT ![c] = [call[c] EXCEPT !.pc = "owner", !.floor = SeqOf(dht)]]
    BY <1>3 DEF ReadDht
  <2> QED  BY <1>1, <2>2, <2>3 DEF TypeOK, OthersTyped
<1>4. CASE ReadOwner(c)
  <2> DEFINE addrs == {owner, call[c].key} \ {None}
             pc == IF addrs = {} THEN "next" ELSE "seqs"
  <2>1. addrs \in SUBSET Accounts
    BY <1>t DEF Call
  <2>2. pc \in {"next", "seqs"}
    OBVIOUS
  <2>3. call' = [call EXCEPT ![c] = [call[c] EXCEPT !.pc = pc, !.todo = addrs]]
    BY <1>4 DEF ReadOwner
  <2> HIDE DEF addrs, pc
  <2>4. [call[c] EXCEPT !.pc = pc, !.todo = addrs] \in Call
    BY <1>t, <2>1, <2>2, Zenon DEF Call
  <2> QED  BY <1>1, <2>3, <2>4 DEF TypeOK, OthersTyped
<1>5. CASE ReadSeq(c)
  <2>1. PICK a \in call[c].todo :
          call' = [call EXCEPT ![c].pc = IF call[c].todo = {a} THEN "next" ELSE "seqs",
                               ![c].todo = @ \ {a},
                               ![c].floor = Larger(@, SeqOf(chain[a]))]
    BY <1>5, Zenon DEF ReadSeq
  <2> DEFINE pc == IF call[c].todo = {a} THEN "next" ELSE "seqs"
             floor == Larger(call[c].floor, SeqOf(chain[a]))
             todo == call[c].todo \ {a}
  <2>2. floor \in 0..MaxDhtSeq
    BY <1>t, SeqType DEF Call
  <2>3. todo \in SUBSET Accounts /\ pc \in {"next", "seqs"}
    BY <1>t DEF Call
  <2>4. call' = [call EXCEPT ![c] = [call[c] EXCEPT !.pc = pc, !.todo = todo, !.floor = floor]]
    BY <2>1, Zenon
  <2> HIDE DEF pc, floor, todo
  <2>5. [call[c] EXCEPT !.pc = pc, !.todo = todo, !.floor = floor] \in Call
    BY <1>t, <2>2, <2>3, Zenon DEF Call
  <2> QED  BY <1>1, <2>4, <2>5, SMTT(60) DEF TypeOK, OthersTyped
<1> QED  BY <1>2, <1>3, <1>4, <1>5

LEMMA NextSeqType ==
    ASSUME TypeOK, NEW c \in Calls, NextSeq(c)
    PROVE  TypeOK'
<1> USE BoundsAssumption, ContentsAssumption
<1>t. call \in [Calls -> Call] /\ call[c] \in Call /\ counter \in 0..MaxDhtSeq
  BY DEF TypeOK
<1>1. PICK now \in 1..NowMax :
        LET n == Allocated(c, now) IN
        IF ~Fits(n)
        THEN Steps(c, Failed(c)) /\ UNCHANGED counter
        ELSE /\ counter' = n
             /\ call' = [call EXCEPT ![c].seq = n, ![c].floor = 0, ![c].pc = Goes(c)]
  BY Zenon DEF NextSeq
<1>2. CASE ~Fits(Allocated(c, now))
  <2>1. Steps(c, Failed(c)) /\ counter' = counter
    BY <1>1, <1>2
  <2>2. call' \in [Calls -> Call]
    BY <1>t, <2>1, StepsType DEF Failed
  <2> QED  BY <2>1, <2>2 DEF NextSeq, TypeOK, registry, other, history
<1>3. CASE Fits(Allocated(c, now))
  <2>1. Allocated(c, now) \in 0..MaxDhtSeq
    BY <1>t, <1>3 DEF Fits, Allocated, Larger, Call
  <2>2. Goes(c) \in {"upsert", "put", "send"}
    BY <1>t DEF Goes, Call
  <2>3. /\ counter' = Allocated(c, now)
        /\ call' = [call EXCEPT ![c] =
                      [call[c] EXCEPT !.seq = Allocated(c, now), !.floor = 0, !.pc = Goes(c)]]
    BY <1>1, <1>3
  <2>4. 0 \in 0..MaxDhtSeq
    OBVIOUS
  <2>5. [call[c] EXCEPT !.seq = Allocated(c, now), !.floor = 0, !.pc = Goes(c)] \in Call
    BY <1>t, <2>1, <2>2, <2>4, Zenon DEF Call
  <2> HIDE DEF Allocated, Goes
  <2>6. call' \in [Calls -> Call] /\ counter' \in 0..MaxDhtSeq
    BY <1>t, <2>1, <2>3, <2>5
  <2> QED  BY <2>6, SMTT(60) DEF NextSeq, TypeOK, registry, other, history
<1> QED  BY <1>2, <1>3

\* What a call that has a version publishes.
RecordOf(c) == [seq |-> call[c].seq, ih |-> call[c].ih]

LEMMA RecordType ==
    ASSUME TypeOK, Shape, NEW c \in Calls, call[c].pc \in {"put", "send"}
    PROVE  RecordOf(c) \in Record /\ SeqOf(RecordOf(c)) = call[c].seq
<1>1. call[c].ih \in Contents
  BY DEF Shape, ShapeOf, Running
<1>2. call[c].seq \in Version
  BY BoundsAssumption DEF Shape, ShapeOf, TypeOK, Call, Version
<1>3. RecordOf(c) \in Record
  BY <1>1, <1>2, Zenon DEF RecordOf, Record
<1>4. RecordOf(c) # None
  BY <1>3, NoneIsNoRecord
<1> QED  BY <1>3, <1>4 DEF RecordOf, SeqOf

LEMMA CommitType ==
    ASSUME TypeOK, Shape, NEW c \in Calls,
           \/ ReadFails(c) \/ Upsert(c) \/ Put(c) \/ PutFails(c)
           \/ Undo(c) \/ Commit(c) \/ Unshare(c) \/ Send(c) \/ SendEnds(c)
    PROVE  TypeOK'
<1> USE BoundsAssumption, ContentsAssumption
<1>t. /\ call \in [Calls -> Call] /\ call[c] \in Call /\ issued \subseteq Record
      /\ pool \in [Accounts -> Seq(Record)] /\ unsure \in BOOLEAN
  BY DEF TypeOK
<1>p. call[c].ih \in Contents \cup {None} /\ call[c].prev \in Contents \cup {None} /\ call[c].before \in Contents \cup {None}
  BY <1>t DEF Call
<1>1. CASE ReadFails(c)
  <2>1. call' \in [Calls -> Call]
    BY <1>t, <1>1, StepsType DEF ReadFails, Failed
  <2> QED  BY <1>1, <2>1 DEF ReadFails, TypeOK, registry, other, history
<1>2. CASE Upsert(c)
  <2>1. call' \in [Calls -> Call]
    BY <1>t, <1>2, StepsType DEF Upsert
  <2> QED  BY <1>p, <1>2, <2>1 DEF Upsert, TypeOK, registry, other, history
<1>3. CASE Put(c)
  <2>1. PICK pc \in {"cancel", "done", "send"} : Steps(c, pc)
    BY <1>t, <1>3 DEF Put, Shape, ShapeOf, Shares
  <2>2. call' \in [Calls -> Call]
    BY <1>t, <2>1, StepsType
  <2>3. dht' \in Record /\ issued' \subseteq Record
    BY <1>t, <1>3, RecordType DEF Put, RecordOf
  <2> QED  BY <1>3, <2>2, <2>3 DEF Put, TypeOK, registry, other
<1>4. CASE PutFails(c)
  <2>1. call' \in [Calls -> Call]
    BY <1>t, <1>4, StepsType DEF PutFails, Failed
  <2>2. dht' \in Record \cup {None} /\ issued' \subseteq Record /\ unsure' \in BOOLEAN
    BY <1>t, <1>4, RecordType DEF PutFails, RecordOf, TypeOK, history
  <2>3. forgot' = forgot
    BY <1>4, Zenon DEF PutFails, history
  <2> QED  BY <1>4, <2>1, <2>2, <2>3 DEF PutFails, TypeOK, registry, other
<1>5. CASE Undo(c)
  <2>1. call' \in [Calls -> Call]
    BY <1>t, <1>5, StepsType DEF Undo
  <2> QED  BY <1>p, <1>5, <2>1 DEF Undo, TypeOK, registry, other, history
<1>6. CASE Commit(c)
  <2>1. call' \in [Calls -> Call]
    BY <1>t, <1>6, StepsType DEF Commit
  <2> QED  BY <1>6, <2>1 DEF Commit, TypeOK, registry, other, history
<1>7. CASE Unshare(c)
  <2>1. call' \in [Calls -> Call]
    BY <1>t, <1>7, StepsType DEF Unshare
  <2> QED  BY <1>p, <1>7, <2>1 DEF Unshare, TypeOK, registry, other
<1>8. CASE Send(c)
  <2>1. call' \in [Calls -> Call]
    BY <1>t, <1>8, StepsType DEF Send
  <2>2. RecordOf(c) \in Record
    BY <1>8, RecordType DEF Send
  <2>3. issued' \subseteq Record /\ pool' \in [Accounts -> Seq(Record)]
    <3>1. call[c].key \in Accounts
      BY <1>t, <1>8 DEF Send, Shape, ShapeOf, Call
    <3>2. pool[call[c].key] \in Seq(Record)
      BY <1>t, <3>1
    <3>3. Append(pool[call[c].key], RecordOf(c)) \in Seq(Record)
      BY <2>2, <3>2
    <3>4. /\ pool' = [pool EXCEPT ![call[c].key] = Append(pool[call[c].key], RecordOf(c))]
          /\ issued' = issued \cup {RecordOf(c)}
      BY <1>8 DEF Send, RecordOf
    <3> QED  BY <1>t, <2>2, <3>3, <3>4
  <2> QED  BY <1>8, <2>1, <2>3 DEF Send, TypeOK, other
<1>9. CASE SendEnds(c)
  <2>1. call' \in [Calls -> Call]
    BY <1>t, <1>9, StepsType DEF SendEnds
  <2> QED  BY <1>9, <2>1 DEF SendEnds, TypeOK, registry, other, history
<1> QED  BY <1>1, <1>2, <1>3, <1>4, <1>5, <1>6, <1>7, <1>8, <1>9

LEMMA WorldType ==
    ASSUME TypeOK,
           \/ \E a \in Accounts : Mine(a) \/ Bind(a)
           \/ KeeperStep \/ Crash \/ Expire \/ LoseCounter
    PROVE  TypeOK'
<1> USE BoundsAssumption, ContentsAssumption
<1>t. /\ call \in [Calls -> Call] /\ events \in 0..EventsMax /\ chain \in [Accounts -> Record \cup {None}]
      /\ pool \in [Accounts -> Seq(Record)] /\ looks \in Seq(Record) /\ dht \in Record \cup {None}
      /\ held \in Record \cup {None}
      /\ keeper \in [pc : {"idle", "latest", "put"}, left : 0..LooksMax, rec : Record \cup {None}]
  BY DEF TypeOK
<1>e. Event => events' \in 0..EventsMax
  BY <1>t DEF Event
<1>1. ASSUME NEW a \in Accounts, Mine(a)  PROVE TypeOK'
  <2>1. Head(pool[a]) \in Record /\ Tail(pool[a]) \in Seq(Record)
    BY <1>t, <1>1 DEF Mine
  <2>2. chain' \in [Accounts -> Record \cup {None}] /\ pool' \in [Accounts -> Seq(Record)]
    BY <1>t, <1>1, <2>1 DEF Mine
  <2> QED  BY <1>1, <2>2 DEF Mine, ours, other, history, TypeOK
<1>h. Hides => forgot' \in BOOLEAN
  BY Zenon DEF Hides
<1>2. ASSUME NEW a \in Accounts, Bind(a)  PROVE TypeOK'
  BY <1>2, <1>e, <1>h DEF Bind, ours, other, TypeOK
<1>k. Look => looks' \in Seq(Record)
  BY <1>t DEF Look
<1>3. CASE Get
  <2>1. keeper' \in [pc : {"idle", "latest", "put"}, left : 0..LooksMax, rec : Record \cup {None}]
    <3>1. keeper.left - 1 \in 0..LooksMax
      BY <1>t, <1>3 DEF Get
    <3>2. keeper' = [keeper EXCEPT !.left = keeper.left - 1]
      BY <1>3 DEF Get
    <3> DEFINE left == keeper.left - 1
    <3> HIDE DEF left
    <3>3. [keeper EXCEPT !.left = left]
            \in [pc : {"idle", "latest", "put"}, left : 0..LooksMax, rec : Record \cup {None}]
      BY <1>t, <3>1, Zenon DEF left
    <3> QED  BY <3>2, <3>3 DEF left
  <2> QED  BY <1>3, <1>k, <2>1 DEF Get, ours, registry, history, TypeOK
<1>4. CASE Remember
  <2>1. Head(looks) \in Record /\ looks' \in Seq(Record)
    BY <1>t, <1>4 DEF Remember
  <2>2. held' \in Record \cup {None}
    BY <1>t, <1>4, <2>1 DEF Remember
  <2> QED  BY <1>4, <2>1, <2>2 DEF Remember, ours, registry, history, TypeOK
<1>5. CASE KeepLook
  <2>1. keeper' \in [pc : {"idle", "latest", "put"}, left : 0..LooksMax, rec : Record \cup {None}]
    BY <1>t, <1>5 DEF KeepLook
  <2>2. looks' \in Seq(Record)
    BY <1>t, <1>5, <1>k DEF KeepLook
  <2> QED  BY <1>5, <2>1, <2>2 DEF KeepLook, ours, registry, history, TypeOK
<1>6. CASE KeepLatest
  <2>1. [keeper EXCEPT !.pc = "put", !.rec = held]
            \in [pc : {"idle", "latest", "put"}, left : 0..LooksMax, rec : Record \cup {None}]
    BY <1>t, Zenon
  <2> QED  BY <1>6, <2>1 DEF KeepLatest, ours, registry, history, TypeOK
<1>7. CASE KeepPut
  <2>1. [keeper EXCEPT !.pc = "idle", !.rec = None]
            \in [pc : {"idle", "latest", "put"}, left : 0..LooksMax, rec : Record \cup {None}]
    BY <1>t, Zenon
  <2>2. dht' \in Record \cup {None}
    BY <1>t, <1>7 DEF KeepPut
  <2> QED  BY <1>7, <2>1, <2>2 DEF KeepPut, ours, registry, history, TypeOK
<1>8. CASE Crash
  <2>1. call' \in [Calls -> Call]
    BY <1>t, <1>8, IdleType DEF Crash
  <2> QED  BY <1>8, <1>e, <2>1 DEF Crash, registry, other, TypeOK
<1>9. CASE Expire
  BY <1>9, <1>e, <1>h DEF Expire, ours, registry, other, TypeOK
<1>10. CASE LoseCounter
  BY <1>10, <1>e, <1>h DEF LoseCounter, registry, other, TypeOK
<1> QED
  BY <1>1, <1>2, <1>3, <1>4, <1>5, <1>6, <1>7, <1>8, <1>9, <1>10 DEF KeeperStep

LEMMA TypeNext == TypeOK /\ Shape /\ [Next]_vars => TypeOK'
<1> SUFFICES ASSUME TypeOK, Shape, [Next]_vars  PROVE TypeOK'
  OBVIOUS
<1>1. ASSUME NEW c \in Calls, CallStep(c)  PROVE TypeOK'
  BY <1>1, StartType, ReadType, NextSeqType, CommitType DEF CallStep
<1>2. CASE UNCHANGED vars
  BY <1>2 DEF vars, ours, registry, other, history, TypeOK
<1> QED
  BY <1>1, <1>2, WorldType DEF Next

-----------------------------------------------------------------------------
(***************************************************************************)
(* Shape.                                                                  *)
(***************************************************************************)
\* What a call's step does to the calls, field by field.
LEMMA StepsIs ==
    ASSUME call \in [Calls -> Call], NEW c \in Calls, NEW pc, Steps(c, pc)
    PROVE  /\ DOMAIN call' = Calls
           /\ \A d \in Calls \ {c} : call'[d] = call[d]
           /\ pc = "done" => call'[c] = Idle("done")
           /\ pc # "done" => /\ call'[c].kind = call[c].kind /\ call'[c].pc = pc
                             /\ call'[c].ih = call[c].ih /\ call'[c].key = call[c].key
                             /\ call'[c].before = call[c].before /\ call'[c].prev = call[c].prev
                             /\ call'[c].floor = call[c].floor /\ call'[c].todo = call[c].todo
                             /\ call'[c].seq = call[c].seq /\ call'[c].since = call[c].since
                             /\ call'[c].met = call[c].met
BY DEF Steps, Call

LEMMA IdleIs ==
    ASSUME NEW pc
    PROVE  /\ Idle(pc).kind = "share" /\ Idle(pc).pc = pc /\ Idle(pc).ih = None /\ Idle(pc).key = None
           /\ Idle(pc).before = None /\ Idle(pc).prev = None /\ Idle(pc).floor = 0
           /\ Idle(pc).todo = {} /\ Idle(pc).seq = 0 /\ Idle(pc).since = 0 /\ Idle(pc).met = {}
BY DEF Idle

\* A call that begins changes what the others have met, and nothing else of them.
LEMMA StartIs ==
    ASSUME TypeOK, NEW c \in Calls, Start(c)
    PROVE  /\ \E kind \in {"share", "import", "republish", "anchor"},
                 ih \in Contents, key \in Accounts \cup {None} :
                /\ kind \in {"republish", "anchor"} => ih = share
                /\ kind = "anchor" => key # None
                /\ call'[c].kind = kind /\ call'[c].ih = ih /\ call'[c].key = key
                /\ call'[c].pc = IF kind \in {"republish", "anchor"} THEN "dht" ELSE "prev"
           /\ call'[c].before = share /\ call'[c].prev = None /\ call'[c].floor = 0
           /\ call'[c].todo = {} /\ call'[c].seq = 0 /\ call'[c].since = NewestIssued
           /\ call'[c].met = Running
           /\ call[c].pc = "unused"
           /\ \A d \in Calls \ {c} :
                /\ call'[d].kind = call[d].kind /\ call'[d].pc = call[d].pc
                /\ call'[d].ih = call[d].ih /\ call'[d].key = call[d].key
                /\ call'[d].before = call[d].before /\ call'[d].prev = call[d].prev
                /\ call'[d].floor = call[d].floor /\ call'[d].todo = call[d].todo
                /\ call'[d].seq = call[d].seq /\ call'[d].since = call[d].since
                /\ d \in Running => call'[d].met = call[d].met \cup {c}
                /\ d \notin Running => call'[d] = call[d]
<1>1. PICK kind \in {"share", "import", "republish", "anchor"},
           ih \in Contents, key \in Accounts \cup {None} :
        /\ kind \in {"republish", "anchor"} => ih = share
        /\ kind = "anchor" => key # None
        /\ call' = Begun(c, kind, ih, key)
  BY DEF Start
<1>2. ASSUME NEW d \in Calls \ {c}
      PROVE  /\ call'[d] = [call[d] EXCEPT !.met = IF d \in Running THEN call[d].met \cup {c}
                                                                    ELSE call[d].met]
             /\ call[d] \in Call
  BY <1>1 DEF Begun, TypeOK
<1>3. ASSUME NEW d \in Calls \ {c}, d \notin Running  PROVE call'[d] = call[d]
  BY <1>2, <1>3, ZenonT(120) DEF Call
<1>4. ASSUME NEW d \in Calls \ {c}
      PROVE  /\ call'[d].kind = call[d].kind /\ call'[d].pc = call[d].pc
             /\ call'[d].ih = call[d].ih /\ call'[d].key = call[d].key
             /\ call'[d].before = call[d].before /\ call'[d].prev = call[d].prev
             /\ call'[d].floor = call[d].floor /\ call'[d].todo = call[d].todo
             /\ call'[d].seq = call[d].seq /\ call'[d].since = call[d].since
             /\ d \in Running => call'[d].met = call[d].met \cup {c}
  BY <1>2, ZenonT(120) DEF Call
<1>5. /\ call'[c].before = share /\ call'[c].prev = None /\ call'[c].floor = 0
      /\ call'[c].todo = {} /\ call'[c].seq = 0 /\ call'[c].since = NewestIssued
      /\ call'[c].met = Running
      /\ call'[c].kind = kind /\ call'[c].ih = ih /\ call'[c].key = key
      /\ call'[c].pc = IF kind \in {"republish", "anchor"} THEN "dht" ELSE "prev"
  BY <1>1 DEF Begun
<1> QED  BY <1>1, <1>3, <1>4, <1>5 DEF Start

\* The record of one account has been read.
LEMMA ReadSeqIs ==
    ASSUME TypeOK, NEW c \in Calls, ReadSeq(c)
    PROVE  /\ \E a \in call[c].todo :
                /\ call'[c].pc = IF call[c].todo = {a} THEN "next" ELSE "seqs"
                /\ call'[c].todo = call[c].todo \ {a}
                /\ call'[c].floor = Larger(call[c].floor, SeqOf(chain[a]))
           /\ call[c].pc = "seqs"
           /\ call'[c].kind = call[c].kind /\ call'[c].ih = call[c].ih /\ call'[c].key = call[c].key
           /\ call'[c].before = call[c].before /\ call'[c].prev = call[c].prev
           /\ call'[c].seq = call[c].seq /\ call'[c].since = call[c].since
           /\ call'[c].met = call[c].met
           /\ \A d \in Calls \ {c} : call'[d] = call[d]
<1>1. PICK a \in call[c].todo :
        call' = [call EXCEPT ![c].pc = IF call[c].todo = {a} THEN "next" ELSE "seqs",
                             ![c].todo = @ \ {a},
                             ![c].floor = Larger(@, SeqOf(chain[a]))]
  BY Zenon DEF ReadSeq
<1> DEFINE pc == IF call[c].todo = {a} THEN "next" ELSE "seqs"
           todo == call[c].todo \ {a}
           floor == Larger(call[c].floor, SeqOf(chain[a]))
<1>2. call' = [call EXCEPT ![c] = [call[c] EXCEPT !.pc = pc, !.todo = todo, !.floor = floor]]
  BY <1>1, Zenon
<1>3. call[c] \in Call /\ call \in [Calls -> Call]
  BY DEF TypeOK
<1> HIDE DEF pc, todo, floor
<1>4. /\ call'[c].pc = pc /\ call'[c].todo = todo /\ call'[c].floor = floor
      /\ call'[c].kind = call[c].kind /\ call'[c].ih = call[c].ih /\ call'[c].key = call[c].key
      /\ call'[c].before = call[c].before /\ call'[c].prev = call[c].prev
      /\ call'[c].seq = call[c].seq /\ call'[c].since = call[c].since
      /\ call'[c].met = call[c].met
      /\ \A d \in Calls \ {c} : call'[d] = call[d]
  BY <1>2, <1>3 DEF Call
<1> QED  BY <1>4, Zenon DEF pc, todo, floor, ReadSeq

LEMMA ShapeInit == Init => Shape
BY IdleIs DEF Init, Shape, ShapeOf, Running, Shares

LEMMA ShapeStart ==
    ASSUME TypeOK, Shape, NEW c \in Calls, Start(c)
    PROVE  Shape'
<1>1. ASSUME NEW d \in Calls \ {c}  PROVE ShapeOf(d)'
  BY StartIs DEF Shape, ShapeOf, Running, Shares
<1>2. ShapeOf(c)'
  BY StartIs DEF ShapeOf, Running, Shares
<1> QED  BY <1>1, <1>2 DEF Shape

LEMMA ShapeRead ==
    ASSUME TypeOK, Shape, NEW c \in Calls,
           ReadPrev(c) \/ ReadDht(c) \/ ReadOwner(c) \/ ReadSeq(c)
    PROVE  Shape'
<1>1. CASE ReadPrev(c)
  BY <1>1 DEF ReadPrev, Shape, ShapeOf, Running, Shares, TypeOK, Call
<1>2. CASE ReadDht(c)
  <2>1. /\ call[c].pc = "dht" /\ call'[c].pc \in {"owner"}
        /\ call'[c].kind = call[c].kind /\ call'[c].ih = call[c].ih
        /\ call'[c].key = call[c].key /\ call'[c].seq = call[c].seq
        /\ \A d \in Calls \ {c} : call'[d] = call[d]
    BY <1>2 DEF ReadDht, TypeOK, Call
  <2>2. ASSUME NEW d \in Calls \ {c}  PROVE ShapeOf(d)'
    <3>1. call'[d] = call[d] /\ ShapeOf(d)
      BY <2>1 DEF Shape
    <3> QED  BY <3>1 DEF ShapeOf, Running, Shares
  <2>3. ShapeOf(c)'
    <3>1. ShapeOf(c)
      BY DEF Shape
    <3> QED  BY <2>1, <3>1 DEF ShapeOf, Running, Shares
  <2> QED  BY <2>2, <2>3 DEF Shape
<1>3. CASE ReadOwner(c)
  <2>1. /\ call[c].pc = "owner" /\ call'[c].pc \in {"next", "seqs"}
        /\ call'[c].kind = call[c].kind /\ call'[c].ih = call[c].ih
        /\ call'[c].key = call[c].key /\ call'[c].seq = call[c].seq
        /\ \A d \in Calls \ {c} : call'[d] = call[d]
    BY <1>3 DEF ReadOwner, TypeOK, Call
  <2>2. ASSUME NEW d \in Calls \ {c}  PROVE ShapeOf(d)'
    <3>1. call'[d] = call[d] /\ ShapeOf(d)
      BY <2>1 DEF Shape
    <3> QED  BY <3>1 DEF ShapeOf, Running, Shares
  <2>3. ShapeOf(c)'
    <3>1. ShapeOf(c)
      BY DEF Shape
    <3> QED  BY <2>1, <3>1 DEF ShapeOf, Running, Shares
  <2> QED  BY <2>2, <2>3 DEF Shape
<1>4. CASE ReadSeq(c)
  <2>1. ASSUME NEW d \in Calls \ {c}  PROVE ShapeOf(d)'
    BY <1>4, ReadSeqIs DEF Shape, ShapeOf, Running, Shares
  <2>2. ShapeOf(c)'
    BY <1>4, ReadSeqIs DEF Shape, ShapeOf, Running, Shares
  <2> QED  BY <2>1, <2>2 DEF Shape
<1> QED  BY <1>1, <1>2, <1>3, <1>4

LEMMA ShapeSteps ==
    ASSUME TypeOK, Shape, NEW c \in Calls,
           NEW pc \in {"put", "undo", "cancel", "send", "receipt", "done"}, Steps(c, pc), c \in Running,
           pc = "undo" => Shares(c),
           pc = "cancel" => call[c].kind = "import",
           pc = "put" => Shares(c),
           pc \in {"send", "receipt"} => call[c].kind \in {"share", "anchor"} /\ call[c].key # None,
           pc \in {"put", "cancel", "send", "receipt"} => call[c].seq # 0
    PROVE  Shape'
<1>t. call \in [Calls -> Call]
  BY DEF TypeOK
<1>1. ASSUME NEW d \in Calls \ {c}  PROVE ShapeOf(d)'
  <2>1. call'[d] = call[d]
    BY <1>t, StepsIs
  <2> QED  BY <2>1 DEF Shape, ShapeOf, Running, Shares
<1>2. ShapeOf(c)'
  <2>1. CASE pc = "done"
    BY <1>t, <2>1, StepsIs, IdleIs DEF ShapeOf, Running, Shares
  <2>2. CASE pc # "done"
    BY <1>t, <2>2, StepsIs DEF Shape, ShapeOf, Running, Shares
  <2> QED  BY <2>1, <2>2
<1> QED  BY <1>1, <1>2 DEF Shape

LEMMA ShapeNext == TypeOK /\ Shape /\ [Next]_vars => Shape'
<1> SUFFICES ASSUME TypeOK, Shape, [Next]_vars  PROVE Shape'
  OBVIOUS
<1>1. ASSUME NEW c \in Calls, CallStep(c)  PROVE Shape'
  <2>1. CASE NextSeq(c)
    <3>1. CASE Steps(c, Failed(c))
      BY <2>1, <3>1, ShapeSteps DEF NextSeq, Failed, Shares, Running, TypeOK, Call
    <3>2. CASE ~Steps(c, Failed(c))
      <4>1. PICK n \in Nat :
              call' = [call EXCEPT ![c].seq = n, ![c].floor = 0, ![c].pc = Goes(c)] /\ n # 0
        <5>1. PICK now \in 1..NowMax :
                call' = [call EXCEPT ![c].seq = Allocated(c, now), ![c].floor = 0, ![c].pc = Goes(c)]
          BY <2>1, <3>2, Zenon DEF NextSeq
        <5>2. counter \in Nat /\ call[c].floor \in Nat /\ now \in Nat \ {0}
          BY BoundsAssumption DEF TypeOK, Call
        <5>3. Allocated(c, now) \in Nat \ {0}
          BY <5>2 DEF Allocated, Larger
        <5> QED  BY <5>1, <5>3, Zenon
      <4>2. /\ call[c].pc = "next" /\ call'[c].pc = Goes(c) /\ call'[c].seq # 0
            /\ call'[c].kind = call[c].kind /\ call'[c].ih = call[c].ih
            /\ call'[c].key = call[c].key
            /\ \A d \in Calls \ {c} : call'[d] = call[d]
        BY <2>1, <4>1 DEF NextSeq, TypeOK, Call
      <4>3. ASSUME NEW d \in Calls \ {c}  PROVE ShapeOf(d)'
        <5>1. call'[d] = call[d] /\ ShapeOf(d)
          BY <4>2 DEF Shape
        <5> QED  BY <5>1 DEF ShapeOf, Running, Shares
      <4>4. ShapeOf(c)'
        <5>1. ShapeOf(c) /\ call[c].kind \in {"share", "import", "republish", "anchor"}
          BY DEF Shape, TypeOK, Call
        <5> QED  BY <4>2, <5>1 DEF Goes, ShapeOf, Running, Shares
      <4> QED  BY <4>3, <4>4 DEF Shape
    <3> QED  BY <3>1, <3>2
  <2>2. CASE ReadFails(c)
    BY <2>2, ShapeSteps DEF ReadFails, Failed, Shares, Running
  <2>3. CASE Upsert(c)
    BY <2>3, ShapeSteps, SMTT(60) DEF Upsert, Shape, ShapeOf, Running
  <2>4. CASE Put(c)
    BY <2>4, ShapeSteps DEF Put, Shape, ShapeOf, Running, Shares
  <2>5. CASE PutFails(c)
    BY <2>5, ShapeSteps DEF PutFails, Failed, Shares, Running
  <2>6. CASE Undo(c) \/ Commit(c) \/ Unshare(c) \/ SendEnds(c)
    BY <2>6, ShapeSteps, SMTT(60) DEF Undo, Commit, Unshare, SendEnds, Running
  <2>7. CASE Send(c)
    BY <2>7, ShapeSteps DEF Send, Shape, ShapeOf, Running
  <2> QED
    BY <1>1, <2>1, <2>2, <2>3, <2>4, <2>5, <2>6, <2>7, ShapeStart, ShapeRead DEF CallStep
<1>2. CASE Crash
  BY <1>2, IdleIs DEF Crash, Shape, ShapeOf, Running, Shares, TypeOK
<1>3. CASE UNCHANGED call
  BY <1>3 DEF Shape, ShapeOf, Running, Shares
<1> QED
  BY <1>1, <1>2, <1>3
  DEF Next, Mine, Bind, KeeperStep, Get, Remember, KeepLook, KeepLatest, KeepPut, Expire,
      LoseCounter, ours, vars

-----------------------------------------------------------------------------
(***************************************************************************)
(* Versions are never given twice, and rise.                               *)
(***************************************************************************)
\* A call is not allocating, and has no version.
Fresh(c) == /\ call[c].seq = 0
            /\ call[c].pc \notin {"owner", "seqs", "next"}
            /\ call[c].since = 0 \/ \E r \in issued : call[c].since <= r.seq

\* Nothing falls that versions can be seen by, and what is issued is a call's record.
Grows ==
    /\ counter' = counter /\ owner' = owner
    /\ SeqOf(dht) <= SeqOf(dht')
    /\ \A a \in Accounts : SeqOf(chain[a]) <= SeqOf(chain[a])'
    /\ issued \subseteq issued'
    /\ \A r \in issued' \ issued : \E c \in Calls : call[c].seq # 0 /\ r = RecordOf(c)

Keeps(c) == /\ call'[c].seq = call[c].seq /\ call'[c].ih = call[c].ih
            /\ call'[c].since = call[c].since

Rests(c) == call'[c].pc \in {"owner", "seqs", "next"} =>
                /\ call'[c].pc = call[c].pc
                /\ call'[c].floor = call[c].floor /\ call'[c].todo = call[c].todo

LEMMA GrowsKeeps ==
    ASSUME TypeOK, TypeOK', Told, Shape', Grows,
           \A c \in Calls : Fresh(c)' \/ (Keeps(c) /\ (Rests(c) \/ FloorOf(c)'))
    PROVE  Told'
<1>r. \A r \in Record : r.seq \in Nat /\ r.seq # 0
  BY BoundsAssumption DEF Record, Version
<1>t. /\ issued \subseteq Record /\ issued' \subseteq Record
      /\ counter \in Nat
      /\ \A c \in Calls : call[c].seq \in Nat /\ call[c].since \in Nat
      /\ \A c \in Calls : call[c].floor \in Nat /\ call[c].todo \subseteq Accounts
      /\ \A c \in Calls : call'[c].seq \in Nat /\ call'[c].since \in Nat
  <2>1. \A x \in Call : x.seq \in Nat /\ x.since \in Nat /\ x.floor \in Nat /\ x.todo \subseteq Accounts
    BY BoundsAssumption DEF Call
  <2>2. call \in [Calls -> Call] /\ call' \in [Calls -> Call] /\ counter \in Nat
    BY BoundsAssumption DEF TypeOK
  <2>3. issued \subseteq Record /\ issued' \subseteq Record
    BY DEF TypeOK
  <2> QED  BY <2>1, <2>2, <2>3
<1>s. /\ SeqOf(dht) \in Nat /\ SeqOf(dht') \in Nat
      /\ \A a \in Accounts : SeqOf(chain[a]) \in Nat /\ SeqOf(chain[a])' \in Nat
      /\ SeqOf(Chained) \in Nat /\ SeqOf(Chained)' \in Nat /\ SeqOf(Chained) <= SeqOf(Chained)'
  <2>s. \A r \in Record \cup {None} : SeqOf(r) \in Nat
    BY SeqType, BoundsAssumption
  <2>1. SeqOf(dht) \in Nat /\ SeqOf(dht') \in Nat
    BY <2>s DEF TypeOK
  <2>2. /\ chain \in [Accounts -> Record \cup {None}] /\ chain' \in [Accounts -> Record \cup {None}]
        /\ owner \in Accounts \cup {None}
    BY DEF TypeOK
  <2>3. \A a \in Accounts : SeqOf(chain[a]) \in Nat /\ SeqOf(chain[a])' \in Nat
    BY <2>s, <2>2
  <2>4. SeqOf(Chained) \in Nat /\ SeqOf(Chained)' \in Nat /\ SeqOf(Chained) <= SeqOf(Chained)'
    <3>1. CASE owner = None
      BY <3>1 DEF Chained, Grows, SeqOf
    <3>2. CASE owner # None
      <4>1. SeqOf(Chained) = SeqOf(chain[owner]) /\ SeqOf(Chained)' = SeqOf(chain[owner])'
        BY <3>2 DEF Chained, Grows
      <4> QED  BY <2>2, <2>3, <3>2, <4>1 DEF Grows
    <3> QED  BY <3>1, <3>2
  <2> QED  BY <2>1, <2>3, <2>4
<1>n. \A r \in issued' : r \in issued \/ \E c \in Calls : call[c].seq # 0 /\ r.seq = call[c].seq /\ r.ih = call[c].ih
  BY DEF Grows, RecordOf
<1>q. \A c \in Calls : call'[c].seq = 0 \/ (call'[c].seq = call[c].seq /\ call'[c].ih = call[c].ih)
  BY Zenon DEF Fresh, Keeps
<1>0. \A n \in Given' : n \in Nat /\ (n = 0 \/ n \in Given)
  <2>1. \A r \in issued' : r.seq \in Given
    BY <1>n DEF Given
  <2>2. \A c \in Calls : call'[c].seq = 0 \/ call'[c].seq \in Given
    BY <1>q DEF Given
  <2> QED  BY <1>r, <1>t, <2>1, <2>2 DEF Given
<1>1. OneContentPerVersion'
  <2> SUFFICES ASSUME NEW r \in issued', NEW s \in issued', r.seq = s.seq  PROVE r = s
    BY DEF OneContentPerVersion
  <2>1. r.ih = s.ih
    BY <1>n, <1>t DEF Told, Allocations, OneContentPerVersion
  <2>2. r \in Record /\ s \in Record
    BY <1>t
  <2> QED  BY <2>1, <2>2 DEF Record
<1>2. Allocations'
  <2>3. \A c, d \in Calls : call'[c].seq = call'[d].seq /\ call'[c].seq # 0 => c = d
    BY <1>q DEF Told, Allocations
  <2>4. ASSUME NEW c \in Calls, NEW r \in issued', r.seq = call'[c].seq  PROVE r.ih = call'[c].ih
    <3>1. call'[c].seq = call[c].seq /\ call'[c].ih = call[c].ih /\ call[c].seq # 0
      BY <1>q, <2>4, <1>r, <1>t
    <3>2. CASE r \in issued
      BY <3>1, <3>2, <2>4 DEF Told, Allocations
    <3>3. ASSUME NEW d \in Calls, call[d].seq # 0, r.seq = call[d].seq, r.ih = call[d].ih
          PROVE  r.ih = call'[c].ih
      BY <3>1, <3>3, <2>4 DEF Told, Allocations
    <3> QED  BY <3>2, <3>3, <1>n
  <2> QED  BY <2>3, <2>4 DEF Allocations
<1>3. Floors'
  <2> SUFFICES ASSUME NEW n \in Given'  PROVE InSight(n)'
    BY DEF Floors
  <2>0. n \in Nat /\ counter' = counter
    BY <1>0 DEF Grows
  <2>1. CASE n <= counter
    BY <2>0, <2>1, Zenon DEF InSight
  <2>2. CASE ~(n <= counter)
    <3>1. n \in Given
      BY <1>0, <1>t, <2>2
    <3>2. (n <= SeqOf(dht) \/ n <= SeqOf(Chained)) /\ \A c \in Calls : SeesOf(c, n)
      BY <2>2, <3>1, Zenon DEF Told, Floors, InSight
    <3>3. n <= SeqOf(dht') \/ n <= SeqOf(Chained)'
      BY <1>s, <2>0, <3>2 DEF Grows
    <3>4. ASSUME NEW c \in Calls  PROVE SeesOf(c, n)'
      <4>1. CASE call'[c].pc \notin {"owner", "seqs", "next"}
        BY <4>1 DEF SeesOf
      <4>2. CASE FloorOf(c)'
        BY <2>0, <2>2, <4>2, Zenon DEF FloorOf
      <4>3. CASE call'[c].pc \in {"owner", "seqs", "next"} /\ Rests(c)
        <5>1. /\ call'[c].pc = call[c].pc
              /\ call'[c].floor = call[c].floor /\ call'[c].todo = call[c].todo
          BY <4>3 DEF Rests
        <5>2. SeesOf(c, n)
          BY <3>2
        <5>3. \A a \in call[c].todo : n <= SeqOf(chain[a]) => n <= SeqOf(chain[a])'
          BY <1>s, <1>t, <2>0 DEF Grows
        <5>4. n <= SeqOf(Chained) => n <= SeqOf(Chained)'
          BY <1>s, <2>0
        <5> QED  BY <5>1, <5>2, <5>3, <5>4 DEF SeesOf
      <4> QED  BY <4>1, <4>2, <4>3 DEF Fresh
    <3> QED  BY <3>3, <3>4 DEF InSight
  <2> QED  BY <2>1, <2>2
<1>4. Since'
  BY DEF Fresh, Keeps, Told, Since, Grows
<1> QED  BY <1>1, <1>2, <1>3, <1>4 DEF Told

LEMMA StepsKeeps ==
    ASSUME TypeOK, NEW c \in Calls, NEW pc, pc \notin {"owner", "seqs", "next"}, Steps(c, pc)
    PROVE  \A d \in Calls : Fresh(d)' \/ (Keeps(d) /\ (Rests(d) \/ FloorOf(d)'))
<1>t. call \in [Calls -> Call]
  BY DEF TypeOK
<1>1. \A d \in Calls \ {c} : call'[d] = call[d]
  BY <1>t, StepsIs
<1>2. pc = "done" => Fresh(c)'
  BY <1>t, StepsIs, IdleIs DEF Fresh
<1>3. pc # "done" => Keeps(c) /\ Rests(c)
  BY <1>t, StepsIs DEF Keeps, Rests
<1> QED  BY <1>1, <1>2, <1>3 DEF Keeps, Rests

\* The call that has read takes the place the lemma above leaves to it.
LEMMA ReadKeeps ==
    ASSUME TypeOK, TypeOK', Told, Shape', NEW c \in Calls, call[c].seq = 0,
           ReadPrev(c) \/ ReadDht(c) \/ ReadOwner(c) \/ ReadSeq(c)
    PROVE  Told'
<1>t. call \in [Calls -> Call] /\ call[c] \in Call /\ owner \in Accounts \cup {None}
  BY DEF TypeOK
<1>r. \A r \in issued : r.seq \in Nat /\ r.seq # 0
  BY BoundsAssumption, SMTT(60) DEF TypeOK, Record, Version
<1>u. counter' = counter /\ issued' = issued /\ dht' = dht /\ chain' = chain /\ owner' = owner
  BY Zenon DEF ReadPrev, ReadDht, ReadOwner, ReadSeq, registry, history
<1>g. Grows
  BY <1>u, SeqNat DEF Grows
<1>f. \A n \in Given : \/ n <= counter
                       \/ (n <= SeqOf(dht) \/ n <= SeqOf(Chained)) /\ SeesOf(c, n)
  BY Zenon DEF Told, Floors, InSight
<1>n. \A n \in Given : n \in Nat
  BY <1>r, CallNat DEF Given
<1>v. SeqOf(dht) \in Nat /\ SeqOf(Chained) \in Nat /\ Chained' = Chained
  BY <1>u, SeqNat DEF Chained
<1>w. ASSUME Keeps(c), \A d \in Calls \ {c} : call'[d] = call[d]  PROVE Given' = Given
  <2>1. \A d \in Calls : call'[d].seq = call[d].seq
    BY <1>w DEF Keeps
  <2> QED  BY <1>u, <2>1 DEF Given
<1>k. ASSUME Keeps(c), Rests(c) \/ FloorOf(c)', \A d \in Calls \ {c} : call'[d] = call[d]  PROVE Told'
  <2>1. \A d \in Calls : Fresh(d)' \/ (Keeps(d) /\ (Rests(d) \/ FloorOf(d)'))
    BY <1>k, Zenon DEF Keeps, Rests
  <2> QED  BY <1>g, <2>1, GrowsKeeps
<1>1. CASE ReadPrev(c)
  <2>1. Keeps(c) /\ Rests(c) /\ \A d \in Calls \ {c} : call'[d] = call[d]
    BY <1>t, <1>1 DEF ReadPrev, Keeps, Rests
  <2> QED  BY <1>k, <2>1
<1>2. CASE ReadDht(c)
  <2>1. /\ Keeps(c) /\ \A d \in Calls \ {c} : call'[d] = call[d]
        /\ call'[c].pc = "owner" /\ call'[c].floor = SeqOf(dht)
    BY <1>t, <1>2 DEF ReadDht, Keeps, Call
  <2>2. FloorOf(c)'
    BY <1>f, <1>u, <1>v, <1>w, <2>1 DEF FloorOf, SeesOf
  <2> QED  BY <1>k, <2>1, <2>2
<1>3. CASE ReadOwner(c)
  <2> DEFINE addrs == {owner, call[c].key} \ {None}
  <2>1. /\ Keeps(c) /\ \A d \in Calls \ {c} : call'[d] = call[d]
        /\ call'[c].pc = IF addrs = {} THEN "next" ELSE "seqs"
        /\ call'[c].floor = call[c].floor /\ call'[c].todo = addrs
        /\ call[c].pc = "owner"
    BY <1>t, <1>3 DEF ReadOwner, Keeps, Call
  <2>2. \A n \in Given : n <= counter \/ n <= call[c].floor \/ n <= SeqOf(Chained)
    BY <1>f, <2>1 DEF SeesOf
  <2>3. owner \in addrs \/ SeqOf(Chained) = 0
    BY DEF Chained, SeqOf
  <2>4. owner \in addrs => Chained = chain[owner]
    BY DEF Chained
  <2>5. FloorOf(c)'
    <3>1. CASE addrs = {}
      <4>1. call'[c].pc = "next" /\ SeqOf(Chained) = 0 /\ counter \in Nat
        BY <2>1, <2>3, <3>1, CallNat
      <4>2. \A n \in Given : n <= counter \/ n <= call[c].floor
        BY <1>n, <2>2, <4>1
      <4> QED  BY <1>u, <1>w, <2>1, <4>1, <4>2 DEF FloorOf, SeesOf
    <3>2. CASE addrs # {}
      <4>1. call'[c].pc = "seqs"
        BY <2>1, <3>2
      <4>2. \A n \in Given : \/ n <= counter \/ n <= call[c].floor
                             \/ \E a \in addrs : n <= SeqOf(chain[a])
        BY <1>n, <2>2, <2>3, <2>4, CallNat
      <4> QED  BY <1>u, <1>w, <2>1, <4>1, <4>2 DEF FloorOf, SeesOf
    <3> QED  BY <3>1, <3>2
  <2> QED  BY <1>k, <2>1, <2>5
<1>4. CASE ReadSeq(c)
  <2>1. PICK a \in call[c].todo :
                /\ call'[c].pc = IF call[c].todo = {a} THEN "next" ELSE "seqs"
                /\ call'[c].todo = call[c].todo \ {a}
                /\ call'[c].floor = Larger(call[c].floor, SeqOf(chain[a]))
    BY <1>4, ReadSeqIs
  <2>2. call[c].pc = "seqs" /\ Keeps(c) /\ \A d \in Calls \ {c} : call'[d] = call[d]
    BY <1>4, ReadSeqIs DEF Keeps
  <2>3. call[c].floor \in Nat /\ SeqOf(chain[a]) \in Nat
    BY <1>t, SeqNat, BoundsAssumption DEF Call
  <2>4. call[c].floor <= call'[c].floor /\ SeqOf(chain[a]) <= call'[c].floor /\ call'[c].floor \in Nat
    BY <2>1, <2>3 DEF Larger
  <2>5. \A n \in Given : \/ n <= counter \/ n <= call'[c].floor
                         \/ \E b \in call'[c].todo : n <= SeqOf(chain[b])
    <3> SUFFICES ASSUME NEW n \in Given, ~(n <= counter), ~(n <= call'[c].floor)
                 PROVE  \E b \in call'[c].todo : n <= SeqOf(chain[b])
      OBVIOUS
    <3>1. ~(n <= call[c].floor) /\ ~(n <= SeqOf(chain[a]))
      BY <1>n, <2>3, <2>4
    <3>2. PICK b \in call[c].todo : n <= SeqOf(chain[b])
      BY <1>f, <2>2, <3>1 DEF SeesOf
    <3> QED  BY <2>1, <3>1, <3>2
  <2>6. FloorOf(c)'
    <3>1. /\ call'[c].pc = "seqs" \/ (call'[c].pc = "next" /\ call'[c].todo = {})
      BY <2>1
    <3> QED  BY <1>u, <1>w, <2>2, <2>5, <3>1 DEF FloorOf, SeesOf
  <2> QED  BY <1>k, <2>2, <2>6
<1> QED  BY <1>1, <1>2, <1>3, <1>4

\* A version is above the counter and the floor, and is where the counter then is.
LEMMA NextSeqIs ==
    ASSUME TypeOK, NEW c \in Calls, NextSeq(c), ~Steps(c, Failed(c))
    PROVE  /\ counter' \in Nat /\ counter' > counter /\ counter' > call[c].floor
           /\ call'[c].pc = Goes(c) /\ call'[c].seq = counter' /\ call'[c].floor = 0
           /\ call'[c].kind = call[c].kind /\ call'[c].ih = call[c].ih /\ call'[c].key = call[c].key
           /\ call'[c].before = call[c].before /\ call'[c].prev = call[c].prev
           /\ call'[c].since = call[c].since /\ call'[c].met = call[c].met
           /\ \A d \in Calls \ {c} : call'[d] = call[d]
           /\ call[c].pc = "next"
<1>1. PICK now \in 1..NowMax :
        /\ counter' = Allocated(c, now)
        /\ call' = [call EXCEPT ![c].seq = Allocated(c, now), ![c].floor = 0, ![c].pc = Goes(c)]
  BY Zenon DEF NextSeq
<1>2. counter \in Nat /\ call[c].floor \in Nat /\ now \in Nat
  BY BoundsAssumption DEF TypeOK, Call
<1>3. Allocated(c, now) \in Nat /\ Allocated(c, now) > counter /\ Allocated(c, now) > call[c].floor
  BY <1>2 DEF Allocated, Larger
<1>4. call \in [Calls -> Call]
  BY DEF TypeOK
<1>5. /\ call'[c].pc = Goes(c) /\ call'[c].seq = Allocated(c, now) /\ call'[c].floor = 0
      /\ call'[c].kind = call[c].kind /\ call'[c].ih = call[c].ih /\ call'[c].key = call[c].key
      /\ call'[c].before = call[c].before /\ call'[c].prev = call[c].prev
      /\ call'[c].since = call[c].since /\ call'[c].met = call[c].met
      /\ \A d \in Calls \ {c} : call'[d] = call[d]
  BY <1>1, <1>4 DEF Call
<1> QED  BY <1>1, <1>3, <1>5 DEF NextSeq

\* A new version is above all that were issued, since its call has seen them.
LEMMA NextSeqKeeps ==
    ASSUME TypeOK, TypeOK', Told, Shape', NEW c \in Calls, NextSeq(c), ~Steps(c, Failed(c))
    PROVE  Told' /\ \A r \in issued : r.seq < call'[c].seq
<1>t. /\ counter \in Nat /\ \A d \in Calls : call[d].seq \in Nat /\ call[d].since \in Nat /\ call[d].floor \in Nat
  BY CallNat
<1>r. \A r \in issued : r \in Record /\ r.seq \in Nat /\ r.seq # 0
  BY SeqNat
<1>u. issued' = issued /\ dht' = dht /\ chain' = chain /\ owner' = owner /\ Chained' = Chained
  BY DEF NextSeq, registry, history, Chained
<1>s. SeqOf(dht) \in Nat /\ SeqOf(Chained) \in Nat /\ \A a \in Accounts : SeqOf(chain[a]) \in Nat
  BY SeqNat
<1>c. /\ counter' \in Nat /\ counter' > counter /\ counter' > call[c].floor
      /\ call'[c].seq = counter' /\ call'[c].since = call[c].since
      /\ call[c].pc = "next" /\ call'[c].pc = Goes(c)
      /\ \A d \in Calls \ {c} : call'[d] = call[d]
  BY NextSeqIs
<1>n. \A n \in Given : n \in Nat
  BY <1>r, <1>t DEF Given
<1>0. \A n \in Given : n < counter'
  <2>1. \A n \in Given : n <= counter \/ n <= call[c].floor
    BY <1>c DEF Told, Floors, InSight, SeesOf
  <2> QED  BY <1>c, <1>n, <1>t, <2>1
<1>1. \A r \in issued : r.seq < counter'
  BY <1>0 DEF Given
<1>z. call[c].seq = 0
  BY <1>c DEF Told, Shape, ShapeOf
<1>2. OneContentPerVersion'
  BY <1>u DEF Told, OneContentPerVersion
<1>3. Allocations'
  <2>2. \A d \in Calls \ {c} : call'[d].seq < call'[c].seq
    BY <1>0, <1>c DEF Given
  <2>3. \A d, e \in Calls : call'[d].seq = call'[e].seq /\ call'[d].seq # 0 => d = e
    BY <1>c, <1>t, <2>2 DEF Told, Allocations
  <2>4. \A d \in Calls : \A r \in issued' : r.seq = call'[d].seq => r.ih = call'[d].ih
    BY <1>1, <1>c, <1>r, <1>u DEF Told, Allocations
  <2> QED  BY <2>3, <2>4 DEF Allocations
<1>4. Floors'
  <2>1. \A n \in Given' : n = counter' \/ n \in Given
    BY <1>c, <1>u DEF Given
  <2>2. \A n \in Given' : n <= counter'
    BY <1>0, <1>c, <1>n, <2>1
  <2> QED  BY <2>2 DEF Floors, InSight
<1>5. Since'
  <2>1. call[c].since = 0 \/ \E r \in issued : call[c].since <= r.seq
    BY <1>z DEF Told, Since
  <2>2. call'[c].since < call'[c].seq
    BY <1>1, <1>c, <1>r, <1>t, <2>1
  <2>3. \A d \in Calls \ {c} :
          IF call'[d].seq = 0 THEN call'[d].since = 0 \/ \E r \in issued' : call'[d].since <= r.seq
                              ELSE call'[d].since < call'[d].seq
    BY <1>c, <1>u DEF Told, Since
  <2> QED  BY <1>c, <1>t, <2>2, <2>3 DEF Since
<1> QED  BY <1>1, <1>2, <1>3, <1>4, <1>5, <1>c DEF Told

\* An event that hides nothing leaves every version in sight.
LEMMA EventKeeps ==
    ASSUME Told, Shape', ~forgot',
           (\E a \in Accounts : Bind(a)) \/ Expire \/ LoseCounter
    PROVE  Told'
<1>u. issued' = issued /\ call' = call
  BY DEF Bind, Expire, LoseCounter, ours
<1>1. OneContentPerVersion' /\ Since' /\ Allocations'
  BY <1>u DEF Told, OneContentPerVersion, Since, Allocations
<1>2. Hides
  BY DEF Bind, Expire, LoseCounter
<1>3. Floors'
  BY <1>2, Zenon DEF Hides, Floors
<1> QED  BY <1>1, <1>3 DEF Told

\* What was hidden is not forgotten.
LEMMA ForgotStays == [Next]_vars /\ forgot => forgot'
<1> SUFFICES ASSUME [Next]_vars, forgot  PROVE forgot'
  OBVIOUS
<1>1. CASE Hides
  BY <1>1, Zenon DEF Hides
<1>2. CASE forgot' = forgot
  BY <1>2
<1>3. ASSUME NEW c \in Calls, CallStep(c)  PROVE forgot' = forgot
  BY <1>3, Zenon DEF CallStep, Start, ReadPrev, ReadDht, ReadOwner, ReadSeq, ReadFails, NextSeq, Upsert, Put,
                     PutFails, Undo, Commit, Unshare, Send, SendEnds, history
<1> QED
  BY <1>1, <1>2, <1>3 DEF Next, Mine, Bind, KeeperStep, Get, Remember, KeepLook, KeepLatest, KeepPut, Crash,
                          Expire, LoseCounter, history, vars

\* Steps that publish what they have, or nothing, and steps that give up.
LEMMA CommitKeeps ==
    ASSUME TypeOK, TypeOK', Told, Shape', NEW c \in Calls,
           \/ ReadFails(c) \/ Upsert(c) \/ Put(c) \/ PutFails(c) \/ Undo(c) \/ Commit(c)
           \/ Unshare(c) \/ Send(c) \/ SendEnds(c) \/ (NextSeq(c) /\ Steps(c, Failed(c)))
    PROVE  Told'
<1>1. PICK pc \in {"put", "undo", "cancel", "send", "receipt", "done"} : Steps(c, pc)
  BY DEF ReadFails, Upsert, Put, PutFails, Undo, Commit, Unshare, Send, SendEnds, Failed,
         Told, Shape, ShapeOf, Shares
<1>2. \A d \in Calls : Fresh(d)' \/ (Keeps(d) /\ (Rests(d) \/ FloorOf(d)'))
  BY <1>1, StepsKeeps
<1>n. counter' = counter
  <2>1. CASE NextSeq(c) /\ Steps(c, Failed(c))
    <3> SUFFICES ASSUME counter' # counter  PROVE FALSE
      BY SMTT(60)
    <3>1. PICK n : call' = [call EXCEPT ![c].seq = n, ![c].floor = 0, ![c].pc = Goes(c)]
      BY <2>1, Zenon DEF NextSeq
    <3>2. call'[c].pc = Goes(c) /\ Goes(c) \in {"upsert", "put", "send"}
      <4>1. call'[c].pc = Goes(c)
        BY <3>1 DEF TypeOK, Call
      <4>2. Goes(c) \in {"upsert", "put", "send"}
        <5>1. call[c].kind \in {"share", "import", "republish", "anchor"}
          BY DEF TypeOK, Call
        <5> QED  BY <5>1 DEF Goes
      <4> QED  BY <4>1, <4>2
    <3>3. call'[c].pc \in {"undo", "done"}
      BY <2>1, StepsIs, IdleIs, SMTT(60) DEF Failed, TypeOK
    <3> QED  BY <3>2, <3>3
  <2>2. CASE ~NextSeq(c)
    BY <2>2, SMTT(60) DEF ReadFails, Upsert, Put, PutFails, Undo, Commit, Unshare, Send, SendEnds
  <2> QED  BY <2>1, <2>2 DEF ReadFails, Upsert, Put, PutFails, Undo, Commit, Unshare, Send, SendEnds
<1>3. owner' = owner /\ chain' = chain
  BY ZenonT(60) DEF ReadFails, Upsert, Put, PutFails, Undo, Commit, Unshare, Send, SendEnds, NextSeq, registry
<1>4. issued \subseteq issued' /\ \A r \in issued' \ issued : r = RecordOf(c) /\ call[c].pc \in {"put", "send"}
  BY Zenon DEF ReadFails, Upsert, Put, PutFails, Undo, Commit, Unshare, Send, SendEnds, NextSeq, history, RecordOf
<1>5. \A r \in issued' \ issued : \E d \in Calls : call[d].seq # 0 /\ r = RecordOf(d)
  BY <1>4 DEF Told, Shape, ShapeOf
<1>6. SeqOf(dht) <= SeqOf(dht')
  <2>1. CASE dht' = dht
    BY <2>1, SeqNat
  <2>2. CASE dht' # dht
    <3>1. dht' = RecordOf(c) /\ SeqOf(dht) <= call[c].seq /\ call[c].pc = "put"
      BY <2>2, Zenon DEF ReadFails, Upsert, Put, PutFails, Undo, Commit, Unshare, Send, SendEnds, NextSeq, RecordOf
    <3> QED  BY <3>1, RecordType, SMTT(60) DEF Told
  <2> QED  BY <2>1, <2>2
<1>7. Grows
  BY <1>n, <1>3, <1>4, <1>5, <1>6, SeqNat DEF Grows
<1> QED  BY <1>2, <1>7, GrowsKeeps, SMTT(60)

LEMMA StartKeeps ==
    ASSUME TypeOK, TypeOK', Told, Shape', NEW c \in Calls, Start(c)
    PROVE  Told'
<1>1. Grows
  BY SeqNat DEF Start, registry, Grows
<1>2. Fresh(c)'
  <2>1. issued' = issued /\ issued \in SUBSET Record
    BY DEF Start, TypeOK
  <2>2. NewestIssued = 0 \/ \E r \in issued : r.seq = NewestIssued
    BY <2>1, NewestIs
  <2>3. call'[c].since = 0 \/ \E r \in issued' : call'[c].since <= r.seq
    BY <2>1, <2>2, StartIs, SeqNat
  <2> QED  BY <2>3, StartIs DEF Fresh
<1>3. \A d \in Calls \ {c} : Keeps(d) /\ Rests(d)
  BY StartIs DEF Keeps, Rests
<1> QED  BY <1>1, <1>2, <1>3, GrowsKeeps

LEMMA WorldKeeps ==
    ASSUME TypeOK, TypeOK', Told, Shape',
           (\E a \in Accounts : Mine(a)) \/ KeeperStep \/ Crash \/ UNCHANGED vars
    PROVE  Told'
<1>1. counter' = counter /\ owner' = owner /\ issued' = issued
  BY DEF Mine, KeeperStep, Get, Remember, KeepLook, KeepLatest, KeepPut, Crash, ours, registry, history, vars
<1>2. \A d \in Calls : Fresh(d)' \/ (Keeps(d) /\ Rests(d))
  <2>1. CASE Crash
    BY <2>1, IdleIs DEF Crash, Fresh, Keeps, Rests
  <2>2. CASE UNCHANGED call
    BY <2>2 DEF Keeps, Rests
  <2> QED
    BY <2>1, <2>2 DEF Mine, KeeperStep, Get, Remember, KeepLook, KeepLatest, KeepPut, ours, vars
<1>3. SeqOf(dht) <= SeqOf(dht')
  <2>1. CASE dht' = dht
    BY <2>1, SeqNat
  <2>2. CASE dht' # dht
    BY <2>2 DEF Mine, KeeperStep, Get, Remember, KeepLook, KeepLatest, KeepPut, Crash, registry, vars
  <2> QED  BY <2>1, <2>2
<1>4. ASSUME NEW a \in Accounts  PROVE SeqOf(chain[a]) <= SeqOf(chain[a])'
  <2>1. CASE chain'[a] = chain[a]
    BY <2>1, SeqNat
  <2>2. CASE chain'[a] # chain[a]
    <3>1. PICK b \in Accounts : Mine(b)
      BY <2>2 DEF KeeperStep, Get, Remember, KeepLook, KeepLatest, KeepPut, Crash, registry, vars
    <3>2. chain'[a] = Head(pool[a]) /\ ~(Head(pool[a]).seq <= SeqOf(chain[a])) /\ pool[a] # <<>>
      BY <2>2, <3>1 DEF Mine, TypeOK
    <3>3. Head(pool[a]) \in Record
      BY <3>2, SMTT(60) DEF TypeOK
    <3>4. Head(pool[a]) # None /\ Head(pool[a]).seq \in Nat
      BY <3>3, NoneIsNoRecord, BoundsAssumption DEF Record, Version
    <3> QED  BY <3>2, <3>4, SeqNat DEF SeqOf
  <2> QED  BY <2>1, <2>2
<1>5. Grows
  BY <1>1, <1>3, <1>4 DEF Grows
<1> QED  BY <1>2, <1>5, GrowsKeeps

LEMMA VersionNext == TypeOK /\ VersionInv /\ [Next]_vars => VersionInv'
<1> SUFFICES ASSUME TypeOK, VersionInv, [Next]_vars, ~forgot'  PROVE Told'
  BY TypeNext, ShapeNext DEF VersionInv
<1>1. TypeOK' /\ Shape' /\ Told
  BY TypeNext, ShapeNext, ForgotStays DEF VersionInv
<1>2. ASSUME NEW c \in Calls, CallStep(c)  PROVE Told'
  <2>1. CASE ReadPrev(c) \/ ReadDht(c) \/ ReadOwner(c) \/ ReadSeq(c)
    <3>1. call[c].seq = 0
      BY <2>1, Zenon DEF ReadPrev, ReadDht, ReadOwner, ReadSeq, VersionInv, Shape, ShapeOf
    <3> QED  BY <1>1, <2>1, <3>1, ReadKeeps, SMTT(60)
  <2>2. CASE NextSeq(c)
    BY <1>1, <2>2, NextSeqKeeps, CommitKeeps
  <2>3. CASE Start(c)
    BY <1>1, <2>3, StartKeeps
  <2> QED
    BY <1>1, <1>2, <2>1, <2>2, <2>3, CommitKeeps DEF CallStep
<1> QED
  BY <1>1, <1>2, EventKeeps, WorldKeeps DEF Next

LEMMA VersionInit == Init => VersionInv
<1> SUFFICES ASSUME Init  PROVE VersionInv
  OBVIOUS
<1>1. \A c \in Calls : call[c] = Idle("unused")
  BY DEF Init
<1>2. Floors
  <2>1. Given \subseteq {0} /\ counter = 0
    BY <1>1, IdleIs DEF Init, Given
  <2> QED  BY <2>1 DEF Floors, InSight
<1>3. Allocations /\ OneContentPerVersion
  BY <1>1, IdleIs DEF Init, Allocations, OneContentPerVersion
<1>4. Since
  BY <1>1, IdleIs DEF Since
<1> QED  BY <1>2, <1>3, <1>4, ShapeInit DEF VersionInv, Told

LEMMA VersionInvariant == Spec => [](TypeOK /\ VersionInv)
<1>1. Init => TypeOK /\ VersionInv
  BY TypeInit, VersionInit
<1>2. TypeOK /\ VersionInv /\ [Next]_vars => TypeOK' /\ VersionInv'
  BY TypeNext, VersionNext DEF VersionInv
<1> QED  BY <1>1, <1>2, PTL DEF Spec

\* The variables keep their types: a version never exceeds what the DHT can carry,
\* whatever the clock, the counter file and the registry hold.
THEOREM TypeCorrect == Spec => []TypeOK
BY VersionInvariant, PTL

\* Versions are never given to two contents and rise, although calls overlap and fail,
\* records expire, keys are bound to other accounts and the counter is lost at any time,
\* unless such an event takes a version that was given out of sight (allocateVersion).
THEOREM VersionsAreOrdered == Spec => []VersionsOrdered
<1>1. VersionInv => VersionsOrdered
  BY DEF VersionInv, Told, VersionsOrdered, Since, LaterIsNewer
<1> QED  BY <1>1, VersionInvariant, PTL

-----------------------------------------------------------------------------
(***************************************************************************)
(* A call that has met no other.                                           *)
(***************************************************************************)
\* A call stays what it is until it is done.
Lasts(c) == /\ call'[c].pc \notin {"unused", "done"}
              /\ call'[c].kind = call[c].kind /\ call'[c].ih = call[c].ih
              /\ call'[c].before = call[c].before /\ call'[c].met = call[c].met

LEMMA CallStepIs ==
    ASSUME TypeOK, Shape, NEW c \in Calls, CallStep(c), ~Start(c)
    PROVE  /\ \A d \in Calls \ {c} : call'[d] = call[d]
           /\ c \in Running
           /\ call'[c] = Idle("done") \/ Lasts(c)
           /\ call[c].pc # "prev" => call'[c] = Idle("done") \/ call'[c].prev = call[c].prev
<1>t. call \in [Calls -> Call] /\ call[c] \in Call
  BY DEF TypeOK
<1>s. ASSUME NEW pc \in {"put", "undo", "cancel", "send", "receipt", "done"}, Steps(c, pc), c \in Running
      PROVE  /\ \A d \in Calls \ {c} : call'[d] = call[d]
             /\ c \in Running
             /\ call'[c] = Idle("done") \/ Lasts(c)
             /\ call[c].pc # "prev" => call'[c] = Idle("done") \/ call'[c].prev = call[c].prev
  BY <1>t, <1>s, StepsIs DEF Lasts
<1>1. CASE ReadPrev(c)
  BY <1>t, <1>1 DEF ReadPrev, Running, Lasts, Call
<1>2. CASE ReadDht(c)
  BY <1>t, <1>2 DEF ReadDht, Running, Lasts, Call
<1>3. CASE ReadOwner(c)
  BY <1>t, <1>3 DEF ReadOwner, Running, Lasts, Call
<1>4. CASE ReadSeq(c)
  BY <1>4, ReadSeqIs DEF Running, Lasts
<1>5. CASE NextSeq(c) /\ ~Steps(c, Failed(c))
  <2>1. Goes(c) \in {"upsert", "put", "send"}
    BY <1>t DEF Goes, Call
  <2> QED  BY <1>5, <2>1, NextSeqIs DEF Running, Lasts
<1>6. CASE \/ ReadFails(c) \/ Upsert(c) \/ Put(c) \/ PutFails(c) \/ Undo(c) \/ Commit(c)
           \/ Unshare(c) \/ Send(c) \/ SendEnds(c) \/ (NextSeq(c) /\ Steps(c, Failed(c)))
  <2>1. PICK pc \in {"put", "undo", "cancel", "send", "receipt", "done"} : Steps(c, pc)
    BY <1>6, SMTT(60) DEF ReadFails, Upsert, Put, PutFails, Undo, Commit, Unshare, Send, SendEnds, Failed,
                Shape, ShapeOf, Shares
  <2>2. c \in Running
    BY <1>6, Zenon DEF ReadFails, Upsert, Put, PutFails, Undo, Commit, Unshare, Send, SendEnds, NextSeq, Running
  <2> QED  BY <1>s, <2>1, <2>2
<1> QED  BY <1>1, <1>2, <1>3, <1>4, <1>5, <1>6 DEF CallStep

LEMMA AloneStep ==
    ASSUME TypeOK, TypeOK', VersionInv, Shape', AloneInv, NEW c \in Calls, CallStep(c), ~Start(c),
           Alone(c), c \in Running'
    PROVE  AloneOf(c)'
<1>t. call \in [Calls -> Call] /\ call[c] \in Call
  BY DEF TypeOK
<1>g. Lasts(c) /\ c \in Running /\ (call[c].pc # "prev" => call'[c].prev = call[c].prev)
  BY CallStepIs, IdleIs DEF VersionInv, Running
<1>a. AloneOf(c)
  BY <1>g DEF AloneInv, AloneOf
<1>z. Shape
  BY DEF VersionInv
<1>k. Repeats(c)' = Repeats(c) /\ Shares(c)' = Shares(c)
  BY <1>g DEF Lasts, Repeats, Shares
<1>h. ~forgot' => ~forgot /\ Told
  BY ForgotStays DEF VersionInv, Next
<1>1. ~forgot' /\ call'[c].seq # 0 => \A r \in issued' : r.seq <= call'[c].seq
  <2> SUFFICES ASSUME ~forgot'  PROVE call'[c].seq # 0 => \A r \in issued' : r.seq <= call'[c].seq
    OBVIOUS
  <2>1. CASE NextSeq(c) /\ ~Steps(c, Failed(c))
    <3>1. issued' = issued /\ \A r \in issued : r.seq < call'[c].seq
      BY <1>h, <2>1, NextSeqKeeps, Zenon DEF NextSeq, history
    <3>2. call'[c].seq \in Nat /\ \A r \in issued : r.seq \in Nat
      BY <2>1, SeqNat, NextSeqIs
    <3> QED  BY <3>1, <3>2, SMTT(60)
  <2>2. CASE ~(NextSeq(c) /\ ~Steps(c, Failed(c)))
    <3>1. call'[c].seq = call[c].seq
      <4>1. CASE ReadPrev(c) \/ ReadDht(c) \/ ReadOwner(c)
        BY <1>t, <4>1 DEF ReadPrev, ReadDht, ReadOwner, Call
      <4>2. CASE ReadSeq(c)
        BY <4>2, ReadSeqIs
      <4>3. ASSUME NEW pc, Steps(c, pc)  PROVE call'[c].seq = call[c].seq
        BY <1>t, <1>g, <4>3, StepsIs, IdleIs, SMTT(60) DEF Lasts
      <4> QED
        BY <2>2, <4>1, <4>2, <4>3, Zenon
        DEF CallStep, ReadFails, NextSeq, Upsert, Put, PutFails, Undo, Commit, Unshare, Send, SendEnds
    <3>2. \A r \in issued' : r \in issued \/ r.seq = call[c].seq
      <4>1. CASE Put(c) \/ PutFails(c) \/ Send(c)
        BY <4>1 DEF Put, PutFails, Send, history
      <4>2. CASE issued' = issued
        BY <4>2
      <4> QED
        BY <4>1, <4>2, Zenon DEF CallStep, ReadPrev, ReadDht, ReadOwner, ReadSeq, ReadFails, NextSeq, Upsert,
                          Undo, Commit, Unshare, SendEnds, history
    <3> QED  BY <1>a, <1>h, <3>1, <3>2, CallNat, SMTT(60) DEF AloneOf
  <2> QED  BY <2>1, <2>2
<1>2. CASE share' = share /\ ~ReadPrev(c) /\ call'[c].pc = call[c].pc
  BY <1>1, <1>2, <1>a, <1>g, <1>k DEF AloneOf, Lasts
<1>3. CASE ReadPrev(c)
  <2>1. call'[c].prev = share /\ share' = share /\ call'[c].pc = "dht" /\ call[c].pc = "prev"
    BY <1>t, <1>3 DEF ReadPrev, Call
  <2> QED  BY <1>1, <1>a, <1>g, <1>k, <2>1 DEF AloneOf, Lasts
<1>4. CASE ReadDht(c) \/ ReadOwner(c) \/ ReadSeq(c)
  <2>1. /\ call[c].pc \in {"dht", "owner", "seqs"} /\ call'[c].pc \in {"owner", "seqs", "next"}
        /\ share' = share
    <3>1. CASE ReadDht(c)
      BY <1>t, <3>1 DEF ReadDht, Call
    <3>3. CASE ReadOwner(c)
      BY <1>t, <3>3, SMTT(60) DEF ReadOwner, Call
    <3>2. CASE ReadSeq(c)
      BY <3>2, ReadSeqIs, Zenon DEF ReadSeq
    <3> QED  BY <1>4, <3>1, <3>2, <3>3
  <2> QED  BY <1>1, <1>a, <1>g, <1>k, <2>1 DEF AloneOf, Lasts
<1>5. CASE NextSeq(c) /\ ~Steps(c, Failed(c))
  <2>1. call[c].pc = "next" /\ call'[c].pc = Goes(c) /\ share' = share
    BY <1>5, NextSeqIs, Zenon DEF NextSeq
  <2>2. Shares(c) => Goes(c) = "upsert"
    BY DEF Shares, Goes
  <2> QED  BY <1>1, <1>a, <1>g, <1>k, <2>1, <2>2, SMTT(60) DEF AloneOf, Lasts
<1>6. ASSUME Steps(c, "undo"), share' = share, call[c].pc # "prev"  PROVE AloneOf(c)'
  <2>1. call'[c].pc = "undo" /\ Shares(c)
    BY <1>t, <1>6, <1>k, StepsIs DEF Shape, ShapeOf
  <2> QED  BY <1>1, <1>6, <1>a, <1>g, <1>k, <2>1 DEF AloneOf, Lasts, Repeats, Shares
<1>7. CASE ReadFails(c) \/ PutFails(c) \/ (NextSeq(c) /\ Steps(c, Failed(c)))
  <2>1. Steps(c, Failed(c)) /\ share' = share /\ call[c].pc # "prev"
    BY <1>7, Zenon DEF ReadFails, PutFails, NextSeq
  <2>2. Failed(c) = "undo"
    BY <1>t, <1>g, <2>1, StepsIs, IdleIs DEF Failed, Lasts
  <2> QED  BY <1>6, <2>1, <2>2, SMTT(60)
<1>8. CASE Upsert(c)
  <2>1. share' = call[c].ih /\ call'[c].pc = "put" /\ Shares(c) /\ call[c].pc = "upsert"
    BY <1>t, <1>8, <1>z, StepsIs DEF Upsert, Shape, ShapeOf
  <2> QED  BY <1>1, <1>a, <1>g, <1>k, <2>1 DEF AloneOf, Lasts, Repeats, Shares
<1>9. CASE Put(c) \/ Send(c)
  <2>1. /\ share' = share /\ call[c].pc \in {"put", "send"}
        /\ call'[c].pc \in {"cancel", "send", "receipt"}
    <3>1. CASE Put(c)
      <4>1. PICK pc \in {"cancel", "done", "send"} : Steps(c, pc)
        BY <3>1, <1>z DEF Put, Shape, ShapeOf, Shares
      <4>2. pc # "done"
        BY <1>t, <1>g, <4>1, StepsIs, IdleIs DEF Lasts
      <4> QED  BY <1>t, <3>1, <4>1, <4>2, StepsIs DEF Put
    <3>2. CASE Send(c)
      BY <1>t, <3>2, StepsIs DEF Send
    <3> QED  BY <1>9, <3>1, <3>2
  <2> QED  BY <1>1, <1>a, <1>g, <1>k, <2>1 DEF AloneOf, Lasts
<1>10. CASE Undo(c) \/ Commit(c) \/ Unshare(c) \/ SendEnds(c)
  BY <1>t, <1>10, <1>g, StepsIs, IdleIs DEF Undo, Commit, Unshare, SendEnds, Lasts
<1> QED
  BY <1>3, <1>4, <1>5, <1>7, <1>8, <1>9, <1>10 DEF CallStep

LEMMA AloneNext == TypeOK /\ VersionInv /\ AloneInv /\ [Next]_vars => AloneInv'
<1> SUFFICES ASSUME TypeOK, VersionInv, AloneInv, [Next]_vars  PROVE AloneInv'
  OBVIOUS
<1>z. Shape /\ TypeOK' /\ Shape'
  BY TypeNext, ShapeNext DEF VersionInv
<1> SUFFICES ASSUME NEW e \in Calls, (e \in Running)', Alone(e)'
             PROVE  Running' = {e} /\ AloneOf(e)'
  BY DEF AloneInv, AloneOf
<1>1. ASSUME NEW c \in Calls, CallStep(c), ~Start(c)  PROVE Running' = {e} /\ AloneOf(e)'
  <2>1. /\ \A d \in Calls \ {c} : call'[d] = call[d]
        /\ c \in Running
        /\ call'[c] = Idle("done") \/ Lasts(c)
    BY <1>1, <1>z, CallStepIs
  <2>2. Running' \subseteq Running
    BY <2>1, IdleIs DEF Running, Lasts
  <2>3. e \in Running /\ Alone(e)
    BY <2>1, IdleIs DEF Running, Lasts, Alone
  <2>4. Running = {e}
    BY <2>3 DEF AloneInv
  <2> QED  BY <1>1, <1>z, <2>1, <2>2, <2>3, <2>4, AloneStep
<1>2. ASSUME NEW c \in Calls, Start(c)  PROVE Running' = {e} /\ AloneOf(e)'
  <2>1. e = c
    <3> SUFFICES ASSUME e # c  PROVE FALSE
      OBVIOUS
    <3>1. e \in Running
      BY <1>2, StartIs DEF Running
    <3> QED  BY <1>2, <3>1, StartIs DEF Alone
  <2>2. Running = {}
    BY <1>2, <2>1, StartIs DEF Alone
  <2>3. Running' = {c}
    BY <1>2, <2>1, <2>2, StartIs DEF Running
  <2>4. share' = share /\ call'[c].before = share /\ call'[c].seq = 0
    BY <1>2, StartIs DEF Start
  <2>5. AloneOf(c)'
    BY <1>2, <2>4, StartIs, SMTT(60) DEF AloneOf, Repeats, Shares
  <2> QED  BY <2>1, <2>3, <2>5
<1>3. CASE Crash
  BY <1>3, IdleIs DEF Crash, Running
<1>4. CASE UNCHANGED <<call, share, issued>>
  BY <1>4, ForgotStays DEF AloneInv, AloneOf, Running, Alone, Repeats, Shares
<1> QED
  BY <1>1, <1>2, <1>3, <1>4
  DEF Next, Mine, Bind, KeeperStep, Get, Remember, KeepLook, KeepLatest, KeepPut, Expire,
      LoseCounter, ours, history, vars

-----------------------------------------------------------------------------
(***************************************************************************)
(* What resolves is what is shared.                                        *)
(***************************************************************************)
LEMMA StoredNext == TypeOK /\ Stored /\ [Next]_vars => Stored'
<1> SUFFICES ASSUME TypeOK, Stored, [Next]_vars  PROVE Stored'
  OBVIOUS
<1>t. /\ pool \in [Accounts -> Seq(Record)] /\ chain \in [Accounts -> Record \cup {None}]
      /\ looks \in Seq(Record)
  BY DEF TypeOK
<1>s. issued \subseteq issued' => /\ Seq(issued) \subseteq Seq(issued')
                                  /\ \A s \in Seq(issued) : s \in Seq(issued')
  OBVIOUS
<1>0. CASE UNCHANGED <<dht, chain, pool, held, looks, keeper, issued>>
  BY <1>0 DEF Stored
<1>1. ASSUME NEW c \in Calls, Put(c) \/ PutFails(c)  PROVE Stored'
  <2>1. /\ chain' = chain /\ pool' = pool /\ held' = held /\ looks' = looks /\ keeper' = keeper
        /\ issued \subseteq issued' /\ (dht' = dht \/ dht' \in issued')
    BY <1>1 DEF Put, PutFails, registry, other, history
  <2> QED  BY <1>s, <2>1 DEF Stored
<1>2. ASSUME NEW c \in Calls, Send(c)  PROVE Stored'
  <2> DEFINE a == call[c].key
  <2>1. /\ chain' = chain /\ held' = held /\ looks' = looks /\ keeper' = keeper /\ dht' = dht
        /\ issued' = issued \cup {RecordOf(c)} /\ pool' = [pool EXCEPT ![a] = Append(pool[a], RecordOf(c))]
    BY <1>2 DEF Send, other, RecordOf
  <2> HIDE DEF a
  <2>2. ASSUME NEW b \in Accounts  PROVE pool'[b] \in Seq(issued')
    <3>1. pool[b] \in Seq(issued')
      BY <1>s, <2>1 DEF Stored
    <3>2. Append(pool[b], RecordOf(c)) \in Seq(issued')
      BY <2>1, <3>1
    <3> QED  BY <1>t, <2>1, <3>1, <3>2
  <2> QED  BY <1>s, <2>1, <2>2 DEF Stored
<1>3. ASSUME NEW a \in Accounts, Mine(a)  PROVE Stored'
  <2>1. /\ dht' = dht /\ held' = held /\ looks' = looks /\ keeper' = keeper /\ issued' = issued
        /\ pool[a] # <<>> /\ pool' = [pool EXCEPT ![a] = Tail(pool[a])]
        /\ \A b \in Accounts : chain'[b] = chain[b] \/ (b = a /\ chain'[b] = Head(pool[a]))
    BY <1>t, <1>3 DEF Mine, other, history
  <2>2. Head(pool[a]) \in issued /\ Tail(pool[a]) \in Seq(issued)
    BY <2>1 DEF Stored
  <2> QED  BY <1>t, <2>1, <2>2 DEF Stored
<1>l. ASSUME Look, issued' = issued  PROVE looks' \in Seq(issued')
  BY <1>l DEF Look, Stored
<1>4. CASE Get
  <2>1. /\ dht' = dht /\ chain' = chain /\ pool' = pool /\ held' = held /\ issued' = issued
        /\ keeper'.rec = keeper.rec
    BY <1>4 DEF Get, registry, history, TypeOK
  <2> QED  BY <1>4, <1>l, <2>1 DEF Get, Stored
<1>5. CASE Remember
  <2>1. /\ dht' = dht /\ chain' = chain /\ pool' = pool /\ keeper' = keeper /\ issued' = issued
        /\ looks # <<>> /\ looks' = Tail(looks) /\ (held' = held \/ held' = Head(looks))
    BY <1>5 DEF Remember, registry, history, ours
  <2>2. Head(looks) \in issued /\ Tail(looks) \in Seq(issued)
    BY <2>1 DEF Stored
  <2> QED  BY <2>1, <2>2 DEF Stored
<1>6. CASE KeepLook
  <2>1. /\ dht' = dht /\ chain' = chain /\ pool' = pool /\ held' = held /\ issued' = issued
        /\ keeper'.rec = None /\ (Look \/ looks' = looks)
    BY <1>6 DEF KeepLook, registry, history
  <2> QED  BY <1>l, <2>1 DEF Stored
<1>7. CASE KeepLatest
  <2>1. /\ dht' = dht /\ chain' = chain /\ pool' = pool /\ held' = held /\ issued' = issued
        /\ keeper'.rec = held /\ looks' = looks
    BY <1>7 DEF KeepLatest, registry, history, TypeOK
  <2> QED  BY <2>1 DEF Stored
<1>8. CASE KeepPut
  <2>1. /\ chain' = chain /\ pool' = pool /\ held' = held /\ issued' = issued
        /\ keeper'.rec = None /\ looks' = looks /\ (dht' = dht \/ dht' = keeper.rec)
    BY <1>8 DEF KeepPut, registry, history, TypeOK
  <2> QED  BY <2>1 DEF Stored
<1>9. CASE Expire
  BY <1>9, SMTT(60) DEF Expire, Stored, registry, other
<1>10. ASSUME NEW c \in Calls, CallStep(c), ~(Put(c) \/ PutFails(c)), ~Send(c)  PROVE Stored'
  BY <1>0, <1>10, Zenon DEF CallStep, Start, ReadPrev, ReadDht, ReadOwner, ReadSeq, ReadFails, NextSeq, Upsert,
                     Undo, Commit, Unshare, SendEnds, registry, other, history
<1>11. CASE (\E a \in Accounts : Bind(a)) \/ Crash \/ LoseCounter \/ UNCHANGED vars
  BY <1>0, <1>11 DEF Bind, Crash, LoseCounter, registry, other, history, vars
<1> QED
  BY <1>1, <1>2, <1>3, <1>4, <1>5, <1>6, <1>7, <1>8, <1>9, <1>10, <1>11 DEF Next, KeeperStep

\* Nothing but a call's own step can put a share in doubt.
LEMMA KeptCall ==
    ASSUME TypeOK, TypeOK', VersionInv, VersionInv', AloneInv, AloneInv', Kept,
           NEW c \in Calls, CallStep(c)
    PROVE  Kept'
<1> SUFFICES ASSUME ~unsure', ~forgot'  PROVE Kept'
  BY DEF Kept
<1>z. Shape /\ ~forgot /\ Told
  BY ForgotStays DEF VersionInv, Next
<1>t. call \in [Calls -> Call] /\ call[c] \in Call
  BY DEF TypeOK
<1>1. CASE Start(c)
  <2>1. ~unsure /\ Running = {}
    BY <1>1 DEF Start, TypeOK
  <2>2. \A d \in Calls : ~Upserted(d)
    BY <2>1 DEF Running, Upserted
  <2>3. share' = share /\ issued' = issued /\ dht' = dht
    BY <1>1 DEF Start
  <2>4. Newest(share)'
    BY <1>z, <2>1, <2>2, <2>3 DEF Kept, Newest
  <2>5. \A d \in Calls : ~Upserted(d)'
    BY <1>1, <2>2, StartIs DEF Upserted, Shares
  <2>6. \A d \in Running' : Alone(d)'
    BY <1>1, <2>1, StartIs DEF Running, Alone
  <2> QED  BY <2>4, <2>5, <2>6 DEF Kept
<1> SUFFICES ASSUME ~Start(c)  PROVE Kept'
  BY <1>1
<1>g. /\ \A d \in Calls \ {c} : call'[d] = call[d]
      /\ c \in Running
      /\ call'[c] = Idle("done") \/ Lasts(c)
  BY <1>z, CallStepIs
<1>a. Alone(c) /\ (~unsure \/ Put(c))
  <2>1. CASE Put(c)
    BY <1>z, <1>g, <2>1 DEF Put, Kept
  <2>2. CASE ~Put(c)
    <3>1. ~unsure
      BY <2>2, Zenon DEF CallStep, Start, ReadPrev, ReadDht, ReadOwner, ReadSeq, ReadFails, NextSeq, Upsert, PutFails,
                  Undo, Commit, Unshare, Send, SendEnds, history
    <3> QED  BY <1>z, <1>g, <3>1 DEF Kept
  <2> QED  BY <2>1, <2>2
<1>r. Running = {c} /\ AloneOf(c)
  BY <1>a, <1>g DEF AloneInv
<1>d. /\ \A d \in Calls \ {c} : d \notin Running /\ d \notin Running' /\ ~Upserted(d) /\ ~Upserted(d)'
      /\ \A d \in Running' : d = c /\ Alone(d)'
  <2>1. \A d \in Calls \ {c} : d \notin Running /\ d \notin Running'
    BY <1>g, <1>r DEF Running
  <2>2. \A d \in Calls \ {c} : ~Upserted(d) /\ ~Upserted(d)'
    BY <1>g, <2>1 DEF Running, Upserted, Shares
  <2>3. c \in Running' => Alone(c)'
    BY <1>a, <1>g, IdleIs DEF Running, Alone, Lasts
  <2>4. Running' \subseteq Calls
    BY DEF Running
  <2> QED  BY <2>1, <2>2, <2>3, <2>4
<1>q. ASSUME Upserted(c)' => Newest(call[c].before)', ~Upserted(c)' => Newest(share)'  PROVE Kept'
  BY <1>d, <1>q DEF Kept
<1>k. ~unsure => /\ ~Upserted(c) => Newest(share)
                 /\ Upserted(c) => Newest(call[c].before)
  BY <1>z, <1>d DEF Kept
<1>b. Upserted(c)' => call'[c].before = call[c].before
  BY <1>g, IdleIs DEF Lasts, Upserted
<1>p. Lasts(c) => Shares(c)' = Shares(c)
  BY DEF Lasts, Shares
<1>o. ASSUME \A s \in issued' : s \in issued, issued' = issued, dht' = dht, NEW x, Newest(x)  PROVE Newest(x)'
  BY <1>o DEF Newest
<1>2. CASE ReadPrev(c) \/ ReadDht(c) \/ ReadOwner(c) \/ ReadSeq(c)
  <2>1. /\ call[c].pc \in {"prev", "dht", "owner", "seqs"} /\ call'[c].pc \in {"dht", "owner", "seqs", "next"}
        /\ share' = share /\ dht' = dht /\ issued' = issued
    <3>1. CASE ReadPrev(c)
      BY <1>t, <3>1 DEF ReadPrev, Call, history
    <3>2. CASE ReadDht(c)
      BY <1>t, <3>2 DEF ReadDht, Call, history
    <3>3. CASE ReadOwner(c)
      BY <1>t, <3>3, SMTT(60) DEF ReadOwner, Call, history
    <3>4. CASE ReadSeq(c)
      BY <3>4, ReadSeqIs, ZenonT(60) DEF ReadSeq, history
    <3> QED  BY <1>2, <3>1, <3>2, <3>3, <3>4
  <2>2. ~Upserted(c) /\ ~Upserted(c)' /\ ~unsure
    BY <1>2, <1>a, <2>1, Zenon DEF Upserted, ReadPrev, ReadDht, ReadOwner, ReadSeq, Put
  <2> QED  BY <1>k, <1>q, <2>1, <2>2 DEF Newest
<1>3. CASE NextSeq(c) /\ ~Steps(c, Failed(c))
  <2>1. call[c].pc = "next" /\ call'[c].pc = Goes(c) /\ share' = share /\ dht' = dht /\ issued' = issued
        /\ call'[c].kind = call[c].kind
    BY <1>3, NextSeqIs, Zenon DEF NextSeq, history
  <2>2. ~Upserted(c) /\ ~Upserted(c)' /\ ~unsure
    BY <1>a, <2>1 DEF Upserted, Shares, Goes, Put
  <2> QED  BY <1>k, <1>q, <2>1, <2>2, SMTT(60) DEF Newest
<1>4. CASE ReadFails(c) \/ (NextSeq(c) /\ Steps(c, Failed(c)))
  <2>1. /\ Steps(c, Failed(c)) /\ call[c].pc \in {"dht", "owner", "seqs", "next"}
        /\ share' = share /\ dht' = dht /\ issued' = issued
    BY <1>4, Zenon DEF ReadFails, NextSeq, history
  <2>2. ~Upserted(c) /\ ~unsure
    BY <1>a, <2>1 DEF Upserted, Put
  <2>3. Newest(share)
    BY <1>k, <2>2
  <2>4. Upserted(c)' => share = call[c].before
    BY <1>r, <1>g, <1>p, <2>1, IdleIs DEF AloneOf, Upserted, Shares
  <2> QED  BY <1>b, <1>q, <2>1, <2>3, <2>4, SMTT(60) DEF Newest
<1>5. CASE Upsert(c)
  <2>1. /\ call[c].pc = "upsert" /\ share = call[c].before /\ dht' = dht /\ issued' = issued
        /\ Shares(c) /\ call'[c].pc = "put"
    BY <1>5, <1>r, <1>t, <1>z, StepsIs DEF Upsert, AloneOf, Shape, ShapeOf, history
  <2>2. ~Upserted(c) /\ ~unsure
    BY <1>a, <2>1 DEF Upserted, Put
  <2>3. Lasts(c)
    BY <1>g, <2>1, IdleIs
  <2>4. Upserted(c)'
    BY <1>p, <2>1, <2>3 DEF Upserted
  <2> QED  BY <1>b, <1>k, <1>q, <2>1, <2>2, <2>4 DEF Newest
<1>6. CASE Put(c)
  <2>1. /\ dht' = RecordOf(c) /\ issued' = issued \cup {RecordOf(c)} /\ share' = share /\ call[c].pc = "put"
    BY <1>6 DEF Put, RecordOf
  <2>2. RecordOf(c) \in Record /\ RecordOf(c) # None
    BY <1>z, <2>1, RecordType, NoneIsNoRecord
  <2>3. share = call[c].ih
    BY <1>r, <1>z, <2>1 DEF AloneOf, Shape, ShapeOf, Repeats, Shares
  <2>4. call[c].seq # 0 /\ call[c].ih \in Contents
    BY <1>z, <1>g, <2>1 DEF Shape, ShapeOf
  <2>5. \A s \in issued : s.seq <= call[c].seq /\ (s.seq = call[c].seq => s.ih = call[c].ih)
    BY <1>r, <1>z, <2>4 DEF AloneOf, Told, Allocations
  <2>6. \A s \in issued' : s.seq >= dht'.seq => s.ih = share'
    <3>1. call[c].seq \in Nat /\ \A s \in issued : s.seq \in Nat
      BY SeqNat, CallNat
    <3> QED  BY <2>1, <2>3, <2>5, <3>1 DEF RecordOf
  <2>7. Newest(share)'
    BY <2>1, <2>2, <2>3, <2>4, <2>6, ContentsAssumption DEF Newest
  <2>8. ~Upserted(c)'
    <3>1. PICK pc \in {"cancel", "done", "send"} : Steps(c, pc)
      BY <1>6, <1>z DEF Put, Shape, ShapeOf, Shares
    <3>2. call'[c].pc \in {"cancel", "done", "send"}
      BY <1>t, <3>1, StepsIs, IdleIs
    <3> QED  BY <3>2 DEF Upserted
  <2> QED  BY <1>q, <2>7, <2>8
<1>7. CASE PutFails(c)
  <2>1. /\ Steps(c, Failed(c)) /\ share' = share /\ dht' = dht /\ issued' = issued /\ ~unsure
        /\ call[c].pc = "put"
    BY <1>7 DEF PutFails, history
  <2>2. CASE Shares(c)
    <3>1. Failed(c) = "undo"
      BY <2>2 DEF Failed, Shares
    <3>2. call'[c].pc = "undo" /\ call'[c].kind = call[c].kind
      BY <1>t, <2>1, <3>1, StepsIs
    <3>3. Upserted(c) /\ Upserted(c)'
      BY <2>1, <2>2, <3>2 DEF Upserted, Shares
    <3> QED  BY <1>b, <1>k, <1>q, <2>1, <3>3 DEF Newest
  <2>3. CASE ~Shares(c)
    <3>1. Failed(c) = "done"
      BY <2>3 DEF Failed, Shares
    <3>2. call'[c].pc = "done"
      BY <1>t, <2>1, <3>1, StepsIs, IdleIs
    <3>3. ~Upserted(c) /\ ~Upserted(c)'
      BY <2>3, <3>2 DEF Upserted
    <3> QED  BY <1>k, <1>q, <2>1, <3>3 DEF Newest
  <2> QED  BY <2>2, <2>3
<1>8. CASE Undo(c)
  <2>1. /\ share' = call[c].before /\ dht' = dht /\ issued' = issued /\ ~unsure /\ Upserted(c)
        /\ call'[c].pc = "done"
    BY <1>8, <1>a, <1>r, <1>t, <1>z, StepsIs, IdleIs
    DEF Undo, Upserted, AloneOf, Shape, ShapeOf, history, Put
  <2>2. ~Upserted(c)'
    BY <2>1 DEF Upserted
  <2> QED  BY <1>k, <1>q, <2>1, <2>2 DEF Newest
<1>9. CASE Commit(c) \/ SendEnds(c)
  <2>1. /\ call[c].pc \in {"cancel", "send", "receipt"} /\ share' = share /\ dht' = dht /\ issued' = issued
        /\ call'[c].pc = "done"
    BY <1>9, <1>t, StepsIs, IdleIs DEF Commit, SendEnds, history
  <2>2. ~Upserted(c) /\ ~Upserted(c)' /\ ~unsure
    BY <1>a, <2>1 DEF Upserted, Put
  <2> QED  BY <1>k, <1>q, <2>1, <2>2 DEF Newest
<1>10. CASE Unshare(c)
  BY <1>10 DEF Unshare
<1>11. CASE Send(c)
  <2>1. /\ call[c].pc = "send" /\ share' = share /\ dht' = dht /\ issued' = issued \cup {RecordOf(c)}
        /\ call'[c].pc = "receipt"
    BY <1>11, <1>t, StepsIs DEF Send, RecordOf
  <2>2. ~Upserted(c) /\ ~Upserted(c)' /\ ~unsure
    BY <1>a, <2>1 DEF Upserted, Put
  <2>3. share = call[c].ih /\ share # None
    BY <1>r, <1>g, <1>z, <2>1, ContentsAssumption DEF AloneOf, Shape, ShapeOf, Repeats, Shares
  <2>4. Newest(share)
    BY <1>k, <2>2
  <2>5. Newest(share)'
    BY <2>1, <2>3, <2>4 DEF Newest, RecordOf
  <2> QED  BY <1>q, <2>2, <2>5
<1> QED
  BY <1>2, <1>3, <1>4, <1>5, <1>6, <1>7, <1>8, <1>9, <1>10, <1>11 DEF CallStep

LEMMA KeptNext ==
    ASSUME TypeOK, TypeOK', VersionInv, VersionInv', AloneInv, AloneInv', Kept, [Next]_vars
    PROVE  Kept'
<1>0. ~forgot' => ~forgot
  BY ForgotStays
<1>1. CASE UNCHANGED <<call, share, issued, unsure, dht>>
  BY <1>0, <1>1 DEF Kept, Running, Alone, Upserted, Shares, Newest
<1>2. CASE KeepPut /\ dht' # dht
  <2>1. /\ call' = call /\ share' = share /\ issued' = issued /\ unsure' = unsure
        /\ dht' = keeper.rec /\ SeqOf(dht) <= SeqOf(keeper.rec)
    BY <1>2 DEF KeepPut, ours, history
  <2>2. ASSUME NEW x, Newest(x)  PROVE Newest(x)'
    <3>1. CASE x = None
      BY <2>1, <2>2, <3>1 DEF Newest
    <3>2. CASE x # None
      <4>1. dht # None /\ \A r \in issued : r.seq >= dht.seq => r.ih = x
        BY <2>2, <3>2 DEF Newest
      <4>2. SeqOf(dht) = dht.seq /\ dht.seq \in Nat /\ dht.seq # 0
        BY <4>1, BoundsAssumption, SMTT(60) DEF SeqOf, TypeOK, Record, Version
      <4>3. keeper.rec # None
        BY <2>1, <4>2 DEF SeqOf
      <4>4. SeqOf(keeper.rec) = keeper.rec.seq
        BY <4>3 DEF SeqOf
      <4>5. \A r \in issued : r.seq >= keeper.rec.seq => r.ih = x
        BY <2>1, <4>1, <4>2, <4>4, SeqNat
      <4> QED  BY <2>1, <3>2, <4>3, <4>5 DEF Newest
    <3> QED  BY <3>1, <3>2
  <2>3. (Newest(share) => Newest(share)') /\ \A c \in Calls : Newest(call[c].before) => Newest(call[c].before)'
    BY <2>1, <2>2 DEF Newest
  <2> QED  BY <1>0, <2>1, <2>3 DEF Kept, Running, Alone, Upserted, Shares
<1>3. CASE Crash \/ Expire
  BY <1>3 DEF Crash, Expire, Kept
<1> QED
  BY <1>1, <1>2, <1>3, KeptCall
  DEF Next, Mine, Bind, KeeperStep, Get, Remember, KeepLook, KeepLatest, KeepPut, LoseCounter, ours, history, vars

LEMMA ShareInit == Init => AloneInv /\ Stored /\ Kept
<1> SUFFICES ASSUME Init  PROVE AloneInv /\ Stored /\ Kept
  OBVIOUS
<1>1. Running = {} /\ \A c \in Calls : ~Upserted(c)
  BY IdleIs DEF Init, Running, Upserted
<1>2. AloneInv
  BY <1>1 DEF AloneInv
<1>3. Stored
  BY DEF Init, Stored
<1>4. Kept
  BY <1>1 DEF Init, Kept, Newest
<1> QED  BY <1>2, <1>3, <1>4

NamesInv == TypeOK /\ VersionInv /\ ShareInv

LEMMA NamesNext == NamesInv /\ [Next]_vars => NamesInv'
<1> SUFFICES ASSUME NamesInv, [Next]_vars  PROVE NamesInv'
  OBVIOUS
<1>1. TypeOK' /\ VersionInv'
  BY TypeNext, VersionNext DEF NamesInv, VersionInv
<1>2. AloneInv' /\ Stored'
  BY AloneNext, StoredNext DEF NamesInv, ShareInv
<1>3. Kept'
  BY <1>1, <1>2, KeptNext DEF NamesInv, ShareInv
<1> QED  BY <1>1, <1>2, <1>3 DEF NamesInv, ShareInv

LEMMA NamesInvariant == Spec => []NamesInv
<1>1. Init => NamesInv
  BY TypeInit, VersionInit, ShareInit DEF NamesInv, ShareInv
<1> QED  BY <1>1, NamesNext, PTL DEF Spec

\* When nothing runs, a reader gets what is shared, from the DHT or the registry,
\* if the last publication met no other call, no crash and no doubtful put.
THEOREM ReadersGetShares == Spec => []SharedResolves
<1>1. NamesInv => SharedResolves
  <2> SUFFICES ASSUME NamesInv, Running = {}, ~unsure, ~forgot
               PROVE  LET r == Resolve(dht, Chained) IN
                      IF share = None THEN r = None ELSE r # None /\ r.ih = share
    BY DEF SharedResolves
  <2>1. Newest(share)
    BY DEF NamesInv, ShareInv, Kept, Running, Upserted
  <2>2. (dht # None => dht \in issued) /\ (Chained # None => Chained \in issued)
    BY DEF NamesInv, ShareInv, Stored, TypeOK, Chained
  <2>3. CASE share = None
    BY <2>1, <2>2, <2>3 DEF Newest, Resolve
  <2>4. CASE share # None
    <3>1. dht # None /\ dht \in issued /\ \A r \in issued : r.seq >= dht.seq => r.ih = share
      BY <2>1, <2>2, <2>4 DEF Newest
    <3>2. \A r \in issued : r.seq \in Nat
      BY SeqNat DEF NamesInv
    <3>3. CASE Resolve(dht, Chained) = dht
      BY <2>4, <3>1, <3>2, <3>3
    <3>4. CASE Resolve(dht, Chained) # dht
      <4>1. Chained # None /\ Resolve(dht, Chained) = Chained /\ ~(SeqOf(dht) > SeqOf(Chained))
        BY <3>1, <3>4 DEF Resolve
      <4>2. Chained \in issued /\ Chained.seq >= dht.seq
        BY <2>2, <3>1, <3>2, <4>1 DEF SeqOf
      <4> QED  BY <2>4, <3>1, <4>1, <4>2
    <3> QED  BY <3>3, <3>4
  <2> QED  BY <2>3, <2>4
<1> QED  BY <1>1, NamesInvariant, PTL

\* A call that met no other leaves the share it found if it fails before it is committed,
\* and its own otherwise (rollbackStagedShare, unshare), whatever else happened meanwhile.
THEOREM FailuresRestore == Spec => FailureRestores
<1> DEFINE Restores ==
      \A c \in Running :
         /\ call'[c].pc = "done" /\ events' = events /\ Alone(c)
         => share' \in CASE call[c].pc = "undo" -> {call[c].before}
                        [] call[c].pc = "cancel" -> {call[c].before, call[c].ih}
                        [] OTHER -> {call[c].ih}
<1>1. NamesInv /\ [Next]_vars => Restores
  <2> SUFFICES ASSUME NamesInv, [Next]_vars, NEW c \in Running,
                      call'[c].pc = "done", events' = events, Alone(c)
               PROVE  share' \in CASE call[c].pc = "undo" -> {call[c].before}
                                  [] call[c].pc = "cancel" -> {call[c].before, call[c].ih}
                                  [] OTHER -> {call[c].ih}
    OBVIOUS
  <2>1. Shape /\ TypeOK /\ c \in Calls /\ Running = {c} /\ AloneOf(c)
    BY DEF NamesInv, VersionInv, ShareInv, AloneInv, Running
  <2>2. PICK d \in Calls : CallStep(d)
    <3>1. ~Event
      BY <2>1 DEF Event, TypeOK
    <3>2. call' # call
      BY DEF Running
    <3> QED
      BY <3>1, <3>2 DEF Next, Mine, Bind, KeeperStep, Get, Remember, KeepLook, KeepLatest, KeepPut, Crash,
                        Expire, LoseCounter, ours, vars
  <2>3. ~Start(d)
    <3> SUFFICES ASSUME Start(d)  PROVE FALSE
      OBVIOUS
    <3>1. c # d
      BY <2>1, StartIs DEF Running
    <3> QED  BY <2>1, <3>1, StartIs DEF Running
  <2>4. d = c
    BY <2>1, <2>2, <2>3, CallStepIs, SMTT(60) DEF Running
  <2>5. CASE Undo(c)
    BY <2>1, <2>5 DEF Undo, AloneOf, Shape, ShapeOf
  <2>6. CASE Commit(c) \/ Unshare(c)
    BY <2>1, <2>6 DEF Commit, Unshare, AloneOf, Shape, ShapeOf, Shares
  <2>7. CASE ~(Undo(c) \/ Commit(c) \/ Unshare(c))
    <3>1. share' = share /\ call[c].pc \notin {"undo", "cancel", "upsert", "prev"}
      <4>1. ~Upsert(c) /\ ~ReadPrev(c)
        BY <2>1, StepsIs DEF Upsert, ReadPrev, TypeOK, Call
      <4> QED
        BY <2>2, <2>3, <2>4, <2>7, <4>1, Zenon
        DEF CallStep, ReadDht, ReadOwner, ReadSeq, ReadFails, NextSeq, Put, PutFails, Send, SendEnds
    <3>2. ASSUME Shares(c)  PROVE call[c].pc \in {"put", "send", "receipt"}
      <4>1. ~Steps(c, "undo")
        BY <2>1, StepsIs DEF TypeOK
      <4>2. Failed(c) = "undo" /\ Goes(c) = "upsert"
        BY <3>2 DEF Failed, Goes, Shares
      <4>3. ~NextSeq(c)
        BY <4>1, <4>2, <2>1, NextSeqIs
      <4>4. ~ReadDht(c) /\ ~ReadOwner(c)
        <5>1. call \in [Calls -> Call] /\ call[c] \in Call
          BY <2>1 DEF TypeOK
        <5>2. ReadDht(c) => call'[c].pc = "owner"
          BY <2>1, <5>1 DEF ReadDht, Call
        <5>3. ReadOwner(c) => call'[c].pc \in {"next", "seqs"}
          BY <2>1, <5>1 DEF ReadOwner, Call
        <5> QED  BY <5>2, <5>3
      <4>5. ~ReadSeq(c) /\ ~ReadFails(c)
        BY <2>1, <4>1, <4>2, ReadSeqIs, SMTT(60) DEF ReadFails
      <4> QED
        BY <2>2, <2>3, <2>4, <2>7, <3>1, <4>3, <4>4, <4>5, Zenon
        DEF CallStep, Upsert, ReadPrev, Put, PutFails, Send, SendEnds
    <3>3. Repeats(c) \/ Shares(c)
      BY <2>1 DEF Repeats, Shares, TypeOK, Call
    <3>4. share = call[c].ih
      BY <2>1, <3>2, <3>3 DEF AloneOf
    <3> QED  BY <3>1, <3>4
  <2> QED  BY <2>5, <2>6, <2>7
<1> QED  BY <1>1, NamesInvariant, NamesNext, PTL DEF Spec, FailureRestores

=============================================================================
