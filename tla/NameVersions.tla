----------------------------- MODULE NameVersions -----------------------------
(***************************************************************************)
(* The versions of one name of one publisher (src/src/node.ts, "seeding",  *)
(* "held records" and "names (BEP44)"): calls that share, import,          *)
(* republish and anchor it allocate a version above everything visible and *)
(* publish it to the DHT and to the registry contract, and another node    *)
(* that holds the record puts it back.                                     *)
(*                                                                         *)
(* The node is one JavaScript thread, so an action is what runs between    *)
(* two awaits; a transaction on one JSON file is serialised and atomic,    *)
(* so it is one action too.  The DHT is one mutable item, with the BEP44   *)
(* rule that an older version does not replace a newer one.                *)
(***************************************************************************)
EXTENDS Naturals, Sequences, FiniteSets

CONSTANTS
    Calls,       \* calls of share, importHf, republish and publishToChain
    Contents,    \* infohashes the name may be published with
    Accounts,    \* Ethereum accounts
    MaxDhtSeq,   \* MAX_DHT_SEQ
    TogetherMax, \* bound on the calls that run at the same time
    NowMax,      \* bound on the clock, in seconds; it may also go back
    EventsMax,   \* bound on crashes, expiries, re-bindings and lost counters
    LooksMax,    \* bound on the lookups of the other node
    None

ASSUME ContentsAssumption == /\ None \notin Contents /\ None \notin Accounts
                             /\ None \notin [seq : Nat, ih : Contents]
ASSUME BoundsAssumption == /\ MaxDhtSeq \in Nat /\ TogetherMax \in Nat /\ NowMax \in Nat
                           /\ EventsMax \in Nat /\ LooksMax \in Nat

VARIABLES
    counter,  \* the entry of seq.json, 0 if there is none
    share,    \* the content of our own record in shares.json, or None
    dht,      \* the record the DHT returns, or None
    owner,    \* the account our key is bound to, or None
    chain,    \* chain[a]: the record account a has published, or None
    pool,     \* pool[a]: the transactions of a that are not mined yet
    call,     \* the calls
    held,     \* the entry of the other node's records.json, or None
    looks,    \* what its rememberChain has still to remember
    keeper,   \* its republish
    events,
    issued,   \* history: every record put or sent
    unsure,   \* history: what resolves need not be what is shared
    forgot    \* history: an event hid a version that had been given

ours == <<counter, share, call>>
registry == <<owner, chain, pool>>
other == <<held, looks, keeper>>
history == <<issued, unsure, forgot>>
vars == <<ours, dht, registry, other, events, history>>

Version == 1..MaxDhtSeq
Record == [seq : Version, ih : Contents]
Call == [kind : {"share", "import", "republish", "anchor"},
         pc : {"unused", "prev", "dht", "owner", "seqs", "next", "upsert", "put",
               "undo", "cancel", "send", "receipt", "done"},
         ih : Contents \cup {None}, key : Accounts \cup {None},
         before : Contents \cup {None}, prev : Contents \cup {None},
         floor : 0..MaxDhtSeq, todo : SUBSET Accounts, seq : 0..MaxDhtSeq,
         since : 0..MaxDhtSeq, met : SUBSET Calls]

SeqOf(r) == IF r = None THEN 0 ELSE r.seq
Larger(m, n) == IF m > n THEN m ELSE n
Running == {c \in Calls : call[c].pc \notin {"unused", "done"}}
Alone(c) == call[c].met = {}
NewestIssued == CHOOSE n \in 0..MaxDhtSeq :
                    /\ \A r \in issued : r.seq <= n
                    /\ n = 0 \/ \E r \in issued : r.seq = n
Chained == IF owner = None THEN None ELSE chain[owner]

-----------------------------------------------------------------------------
(***************************************************************************)
(* What a reader gets: resolve.                                            *)
(***************************************************************************)
\* The newer record of the DHT and the registry; the registry's if they tie.
Resolve(d, c) == IF d # None /\ SeqOf(d) > SeqOf(c) THEN d
                 ELSE IF c # None THEN c ELSE d

-----------------------------------------------------------------------------
(***************************************************************************)
(* The calls.                                                              *)
(***************************************************************************)
\* A call that is over keeps nothing.
Idle(pc) == [kind |-> "share", pc |-> pc, ih |-> None, key |-> None, before |-> None,
             prev |-> None, floor |-> 0, todo |-> {}, seq |-> 0, since |-> 0, met |-> {}]

Steps(c, pc) == call' = [call EXCEPT ![c] = IF pc = "done" THEN Idle("done")
                                            ELSE [@ EXCEPT !.pc = pc]]

\* A call begins, and who is running has met it.
Begun(c, kind, ih, key) ==
    [d \in Calls |->
        IF d = c
        THEN [kind |-> kind, ih |-> ih, key |-> key,
              pc |-> IF kind \in {"republish", "anchor"} THEN "dht" ELSE "prev",
              before |-> share, prev |-> None, floor |-> 0, todo |-> {},
              seq |-> 0, since |-> NewestIssued, met |-> Running]
        ELSE [call[d] EXCEPT !.met = IF d \in Running THEN @ \cup {c} ELSE @]]

\* The two that publish what is shared read it at once.
Start(c) ==
    /\ call[c].pc = "unused"
    /\ Cardinality(Running) < TogetherMax
    /\ \E kind \in {"share", "import", "republish", "anchor"},
          ih \in Contents, key \in Accounts \cup {None} :
          /\ kind \in {"republish", "anchor"} => ih = share
          /\ kind \in {"import", "republish"} => key = None
          /\ kind = "anchor" => key # None
          /\ call' = Begun(c, kind, ih, key)
    /\ unsure' = (unsure \/ Running # {})
    /\ UNCHANGED <<counter, share, dht, registry, other, events, issued, forgot>>

\* prepareShare: the directory is seeded, and the previous record is read.
ReadPrev(c) ==
    /\ call[c].pc = "prev"
    /\ call' = [call EXCEPT ![c].pc = "dht", ![c].prev = share]
    /\ UNCHANGED <<counter, share, dht, registry, other, events, history>>

\* allocateVersion: the floor is our DHT record,
ReadDht(c) ==
    /\ call[c].pc = "dht"
    /\ call' = [call EXCEPT ![c].pc = "owner", ![c].floor = SeqOf(dht)]
    /\ UNCHANGED <<counter, share, dht, registry, other, events, history>>

\* and the records, at the latest block, of the owner and of the writer,
ReadOwner(c) ==
    LET addrs == {owner, call[c].key} \ {None} IN
    /\ call[c].pc = "owner"
    /\ call' = [call EXCEPT ![c].pc = IF addrs = {} THEN "next" ELSE "seqs",
                            ![c].todo = addrs]
    /\ UNCHANGED <<counter, share, dht, registry, other, events, history>>

ReadSeq(c) ==
    /\ call[c].pc = "seqs"
    /\ \E a \in call[c].todo :
          call' = [call EXCEPT ![c].pc = IF call[c].todo = {a} THEN "next" ELSE "seqs",
                               ![c].todo = @ \ {a},
                               ![c].floor = Larger(@, SeqOf(chain[a]))]
    /\ UNCHANGED <<counter, share, dht, registry, other, events, history>>

\* Where a call goes that fails before it is committed.
Failed(c) == IF call[c].kind \in {"share", "import"} THEN "undo" ELSE "done"

\* Fault: a read that fails counts as the absence of a record.
ReadFails_Ignored(c) ==
    /\ call[c].pc \in {"dht", "owner", "seqs"}
    /\ Steps(c, CASE call[c].pc = "dht" -> "owner"
                  [] call[c].pc \in {"owner", "seqs"} -> "next")
    /\ UNCHANGED <<counter, share, dht, registry, other, events, history>>

\* A read that fails ends the allocation, and with it the call.
ReadFails(c) ==
    /\ call[c].pc \in {"dht", "owner", "seqs"}
    /\ Steps(c, Failed(c))
    /\ UNCHANGED <<counter, share, dht, registry, other, events, history>>

\* Fault: the counter is not looked at.
Allocated_NoCounter(c, now) == Larger(now, call[c].floor + 1)

\* The version nextSeq computes: above the counter, not below the clock, above the floor.
Allocated(c, now) == Larger(Larger(counter + 1, now), call[c].floor + 1)

\* Fault: one too many.
Fits_OffByOne(n) == n <= MaxDhtSeq + 1

Fits(n) == n <= MaxDhtSeq

\* Where a call goes that has a version.
Goes(c) == CASE call[c].kind \in {"share", "import"} -> "upsert"
             [] call[c].kind = "republish" -> "put"
             [] call[c].kind = "anchor" -> "send"

\* It is persisted before it is used, unless it is too large.
NextSeq(c) ==
    /\ call[c].pc = "next"
    /\ \E now \in 1..NowMax :
          LET n == Allocated(c, now) IN
          IF ~Fits(n)
          THEN Steps(c, Failed(c)) /\ UNCHANGED counter
          ELSE /\ counter' = n
               /\ call' = [call EXCEPT ![c].seq = n, ![c].floor = 0, ![c].pc = Goes(c)]
    /\ UNCHANGED <<share, dht, registry, other, events, history>>

\* The share is persisted before it is published.
Upsert(c) ==
    /\ call[c].pc = "upsert"
    /\ share' = call[c].ih
    /\ Steps(c, "put")
    /\ UNCHANGED <<counter, dht, registry, other, events, history>>

\* publishName: the DHT takes the record, unless it has a newer one.
Put(c) ==
    LET r == [seq |-> call[c].seq, ih |-> call[c].ih] IN
    /\ call[c].pc = "put"
    /\ SeqOf(dht) <= r.seq
    /\ dht' = r
    /\ Steps(c, CASE call[c].kind = "import" -> "cancel"
                  [] call[c].kind = "republish" -> "done"
                  [] call[c].kind = "share" -> IF call[c].key = None THEN "done" ELSE "send")
    /\ issued' = issued \cup {r}
    /\ unsure' = (unsure /\ ~Alone(c))
    /\ UNCHANGED <<counter, share, registry, other, events, forgot>>

\* The put is reported failed, though some node may have stored the record.
PutFails(c) ==
    LET r == [seq |-> call[c].seq, ih |-> call[c].ih] IN
    /\ call[c].pc = "put"
    /\ Steps(c, Failed(c))
    /\ \/ UNCHANGED <<dht, history>>
       \/ /\ SeqOf(dht) <= r.seq
          /\ dht' = r
          /\ issued' = issued \cup {r}
          /\ unsure' = TRUE
          /\ UNCHANGED forgot
    /\ UNCHANGED <<counter, share, registry, other, events>>

\* Fault: it removes its own record and restores nothing.
Undo_Remove(c) ==
    /\ call[c].pc = "undo"
    /\ share' = None
    /\ Steps(c, "done")
    /\ UNCHANGED <<counter, dht, registry, other, events, history>>

\* Fault: nothing is rolled back.
Undo_Nothing(c) ==
    /\ call[c].pc = "undo"
    /\ Steps(c, "done")
    /\ UNCHANGED <<counter, share, dht, registry, other, events, history>>

\* A share that was not committed restores the record it read.
Undo(c) ==
    /\ call[c].pc = "undo"
    /\ share' = call[c].prev
    /\ Steps(c, "done")
    /\ UNCHANGED <<counter, dht, registry, other, events, history>>

\* importLocked commits, or was cancelled and undoes the share with unshare,
\* which restores the record that importLocked had read.
Commit(c) ==
    /\ call[c].pc = "cancel"
    /\ Steps(c, "done")
    /\ UNCHANGED <<counter, share, dht, registry, other, events, history>>

Unshare(c) ==
    /\ call[c].pc = "cancel"
    /\ share' = call[c].before
    /\ unsure' = TRUE
    /\ Steps(c, "done")
    /\ UNCHANGED <<counter, dht, registry, other, events, issued, forgot>>

\* chain.publish simulates the transaction and sends it, or fails.
Send(c) ==
    LET r == [seq |-> call[c].seq, ih |-> call[c].ih]
        a == call[c].key
    IN /\ call[c].pc = "send"
       /\ SeqOf(chain[a]) < r.seq
       /\ pool' = [pool EXCEPT ![a] = Append(@, r)]
       /\ issued' = issued \cup {r}
       /\ Steps(c, "receipt")
       /\ UNCHANGED <<counter, share, dht, owner, chain, other, events, unsure, forgot>>

\* It waits for the receipt, which can be lost.
SendEnds(c) ==
    /\ call[c].pc \in {"send", "receipt"}
    /\ Steps(c, "done")
    /\ UNCHANGED <<counter, share, dht, registry, other, events, history>>

CallStep(c) == \/ Start(c) \/ ReadPrev(c) \/ ReadDht(c) \/ ReadOwner(c) \/ ReadSeq(c)
               \/ ReadFails(c) \/ NextSeq(c) \/ Upsert(c) \/ Put(c) \/ PutFails(c)
               \/ Undo(c) \/ Commit(c) \/ Unshare(c) \/ Send(c) \/ SendEnds(c)

-----------------------------------------------------------------------------
(***************************************************************************)
(* The registry contract.                                                  *)
(***************************************************************************)
\* The oldest transaction of an account is mined: it publishes, or reverts.
Mine(a) ==
    LET r == Head(pool[a]) IN
    /\ pool[a] # <<>>
    /\ chain' = [chain EXCEPT ![a] = IF r.seq <= SeqOf(@) THEN @ ELSE r]
    /\ pool' = [pool EXCEPT ![a] = Tail(@)]
    /\ UNCHANGED <<ours, dht, owner, other, events, history>>

Event == events < EventsMax /\ events' = events + 1

\* The versions given to calls, published or still to be published.
Given == {r.seq : r \in issued} \cup {call[c].seq : c \in Calls}

\* What an allocation that is under way sees of version n without the counter.
SeesOf(c, n) ==
    /\ call[c].pc = "owner" => n <= call[c].floor \/ n <= SeqOf(Chained)
    /\ call[c].pc = "seqs" => n <= call[c].floor \/ \E a \in call[c].todo : n <= SeqOf(chain[a])
    /\ call[c].pc = "next" => n <= call[c].floor

\* A version is in sight if the counter has passed it, or every allocation that is under
\* way, or begins now, is above it all the same.
InSight(n) ==
    \/ n <= counter
    \/ /\ n <= SeqOf(dht) \/ n <= SeqOf(Chained)
       /\ \A c \in Calls : SeesOf(c, n)

\* An event that leaves a version out of sight is remembered.
Hides == forgot' = (forgot \/ \E n \in Given' : ~InSight(n)')

\* Our key is bound to another account.
Bind(a) ==
    /\ Event
    /\ owner # a
    /\ owner' = a
    /\ UNCHANGED <<ours, dht, chain, pool, other, issued, unsure>>
    /\ Hides

-----------------------------------------------------------------------------
(***************************************************************************)
(* Another node, which has resolved the name and keeps it alive.           *)
(***************************************************************************)
\* getRaw does not wait until what it found is remembered.
Look == looks' = IF dht = None THEN looks ELSE Append(looks, dht)

\* A lookup outside republish.
Get ==
    /\ keeper.left > 0
    /\ dht # None
    /\ Look
    /\ keeper' = [keeper EXCEPT !.left = @ - 1]
    /\ UNCHANGED <<ours, dht, registry, held, events, history>>

Remember ==
    /\ looks # <<>>
    /\ held' = IF SeqOf(held) >= SeqOf(Head(looks)) THEN held ELSE Head(looks)
    /\ looks' = Tail(looks)
    /\ UNCHANGED <<ours, dht, registry, keeper, events, history>>

\* republish, for the record it holds: look for a newer one (or fail to),
KeepLook ==
    /\ keeper.pc = "idle"
    /\ keeper.left > 0
    /\ held # None
    /\ keeper' = [pc |-> "latest", left |-> keeper.left - 1, rec |-> None]
    /\ Look \/ UNCHANGED looks
    /\ UNCHANGED <<ours, dht, registry, held, events, history>>

\* read what it holds now,
KeepLatest ==
    /\ keeper.pc = "latest"
    /\ keeper' = [keeper EXCEPT !.pc = "put", !.rec = held]
    /\ UNCHANGED <<ours, dht, registry, held, looks, events, history>>

\* and put it, in vain where there is a newer one.
KeepPut ==
    /\ keeper.pc = "put"
    /\ keeper' = [keeper EXCEPT !.pc = "idle", !.rec = None]
    /\ \/ UNCHANGED dht
       \/ SeqOf(dht) <= SeqOf(keeper.rec) /\ dht' = keeper.rec
    /\ UNCHANGED <<ours, registry, held, looks, events, history>>

KeeperStep == Get \/ Remember \/ KeepLook \/ KeepLatest \/ KeepPut

-----------------------------------------------------------------------------
(***************************************************************************)
(* What happens to the node and to the DHT.                                *)
(***************************************************************************)
\* The process of our node ends; its files remain.
Crash ==
    /\ Event
    /\ Running # {}
    /\ call' = [c \in Calls |-> IF c \in Running THEN Idle("done") ELSE call[c]]
    /\ unsure' = TRUE
    /\ UNCHANGED <<counter, share, dht, registry, other, issued, forgot>>

\* Nobody put the record again in time.
Expire ==
    /\ Event
    /\ dht # None
    /\ dht' = None
    /\ unsure' = TRUE
    /\ UNCHANGED <<ours, registry, other, issued>>
    /\ Hides

\* seq.json is lost, or nextSeq cannot read it and takes the default (readJson).
LoseCounter ==
    /\ Event
    /\ counter > 0
    /\ counter' = 0
    /\ UNCHANGED <<share, call, dht, registry, other, issued, unsure>>
    /\ Hides

-----------------------------------------------------------------------------
Init ==
    /\ counter = 0 /\ share = None /\ dht = None
    /\ owner \in Accounts \cup {None}
    /\ chain = [a \in Accounts |-> None]
    /\ pool = [a \in Accounts |-> <<>>]
    /\ events = 0
    /\ call = [c \in Calls |-> Idle("unused")]
    /\ held = None /\ looks = <<>>
    /\ keeper = [pc |-> "idle", left |-> LooksMax, rec |-> None]
    /\ issued = {} /\ unsure = FALSE /\ forgot = FALSE

Next == \/ \E c \in Calls : CallStep(c)
        \/ \E a \in Accounts : Mine(a) \/ Bind(a)
        \/ KeeperStep \/ Crash \/ Expire \/ LoseCounter

Spec == Init /\ [][Next]_vars

-----------------------------------------------------------------------------
\* Every variable has its type; versions stay within what the DHT can carry.
TypeOK ==
    /\ counter \in 0..MaxDhtSeq
    /\ share \in Contents \cup {None}
    /\ dht \in Record \cup {None}
    /\ owner \in Accounts \cup {None}
    /\ chain \in [Accounts -> Record \cup {None}]
    /\ pool \in [Accounts -> Seq(Record)]
    /\ events \in 0..EventsMax
    /\ call \in [Calls -> Call]
    /\ held \in Record \cup {None}
    /\ looks \in Seq(Record)
    /\ keeper \in [pc : {"idle", "latest", "put"}, left : 0..LooksMax, rec : Record \cup {None}]
    /\ issued \subseteq Record
    /\ unsure \in BOOLEAN
    /\ forgot \in BOOLEAN

\* One version is never given to two contents, in the DHT or on the chain.
OneContentPerVersion ==
    \A r \in issued, s \in issued : r.seq = s.seq => r = s

\* A call is given a version above every one that was published before it began.
LaterIsNewer ==
    \A c \in Calls : call[c].seq # 0 => call[c].seq > call[c].since

\* Versions tell contents apart and order them, however calls overlap, fail and crash;
\* nextSeq and allocateVersion are why.  The counter, the DHT's record and the owner's
\* record may each be lost, at any time, as long as no version goes out of sight.
VersionsOrdered == ~forgot => OneContentPerVersion /\ LaterIsNewer

\* When no call is running, what resolves is what is shared, if the last
\* publication met no other call, no crash and no doubtful put.
SharedResolves ==
    Running = {} /\ ~unsure /\ ~forgot =>
        LET r == Resolve(dht, Chained) IN
        IF share = None THEN r = None ELSE r # None /\ r.ih = share

\* A call that met no other ends, unless by a crash, with the share it found if it failed
\* before it was committed, with its own otherwise, and with one of the two if it is an
\* import that the caller commits or cancels ("only that record is rolled back").
FailureRestores ==
    [][\A c \in Running :
         /\ call'[c].pc = "done" /\ events' = events /\ Alone(c)
         => share' \in CASE call[c].pc = "undo" -> {call[c].before}
                        [] call[c].pc = "cancel" -> {call[c].before, call[c].ih}
                        [] OTHER -> {call[c].ih}]_vars
=============================================================================
