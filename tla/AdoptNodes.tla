----------------------------- MODULE AdoptNodes -----------------------------
(***************************************************************************)
(* The DHT nodes that other publishers' catalogs recommend: adoptNodes and *)
(* adoptTx of src/src/node.ts, the file dht-adopt.json that their budgets  *)
(* live in, and the choice of the nodes that our own catalog recommends.   *)
(*                                                                         *)
(* A publisher's budget is a function of what it has been granted (the     *)
(* list "seen"; the code counts n and subnets along with it).  Addresses   *)
(* are those that pass the filters on form, family and privacy; Junk is    *)
(* what does not.  The clock does not go back.                             *)
(***************************************************************************)
EXTENDS Naturals, FiniteSets, Sequences, SequencesExt

CONSTANTS
    Pubs, Addrs, Junk,
    SubnetOf,      \* subnetKey, for each address
    Lists,         \* what the "nodes" of each publisher's catalog may be
    TxsMax,        \* bound on the calls of adoptNodes
    PerPublisher, PerSession, PerSubnet, PerRead, Inspect, TableFull,  \* ADOPT
    ReAdvertise,   \* ADOPT.reAdvertiseAfterMs
    Ttl,           \* ADOPT.provenanceTtlMs
    TimesMax,      \* bound on the clock
    CrashesMax     \* bound on crashes

ASSUME AddrsAssumption == Junk \notin Addrs /\ DOMAIN SubnetOf = Addrs
ASSUME ListsAssumption == Lists \in [Pubs -> SUBSET Seq(Addrs \cup {Junk})]
ASSUME LimitsAssumption ==
    {PerPublisher, PerSession, PerSubnet, PerRead, Inspect, TableFull, TxsMax, TimesMax, CrashesMax}
        \subseteq Nat
ASSUME TimesAssumption == ReAdvertise \in Nat /\ Ttl \in Nat /\ ReAdvertise <= Ttl /\ TimesMax >= 1

Never == 0

VARIABLES
    file,     \* dht-adopt.json: what each publisher was granted; when each address was
    adopted,  \* this.adopted: when each address was granted
    session,  \* adoptedThisSession
    queue,    \* adoptChain
    tx,       \* the calls, in order
    up,       \* the process: running, stopping or down
    clock,
    crashes

adoptVars == <<file, adopted, session, queue, tx, up, clock, crashes>>

NoFile == [seen |-> [p \in Pubs |-> {}], adopted |-> [a \in Addrs |-> Never]]

Txs == DOMAIN tx

Call(pk, nodes) ==
    [pc |-> "queued", pk |-> pk, nodes |-> nodes, file |-> NoFile, at |-> Never,
     session |-> crashes, granted |-> {}, handed |-> {}]

-----------------------------------------------------------------------------
Fresh(t) == t # Never /\ clock - t < Ttl

\* sanitizeAdoptFile
Sanitized(f) == [f EXCEPT !.adopted = [a \in Addrs |-> IF Fresh(@[a]) THEN @[a] ELSE Never]]

InSubnet(A, s) == {a \in A : SubnetOf[a] = s}

-----------------------------------------------------------------------------
(***************************************************************************)
(* adoptNodes: the calls wait for each other, whoever fails.               *)
(***************************************************************************)
Adopt(pk, nodes) ==
    /\ up # "down" /\ nodes # <<>> /\ Len(tx) < TxsMax
    /\ tx' = Append(tx, Call(pk, nodes))
    /\ queue' = Append(queue, Len(tx) + 1)
    /\ UNCHANGED <<file, adopted, session, up, clock, crashes>>

Turn(t, pc) == queue # <<>> /\ Head(queue) = t /\ tx[t].pc = pc

\* What a call that has ended was about is kept, what it worked on is not.
Done(t) == [tx[t] EXCEPT !.pc = "done", !.file = NoFile, !.nodes = <<>>]

Skip(t) ==
    /\ Turn(t, "queued") /\ up # "running"
    /\ tx' = [tx EXCEPT ![t] = Done(t)]
    /\ queue' = Tail(queue)
    /\ UNCHANGED <<file, adopted, session, up, clock, crashes>>

Load(t) ==
    /\ Turn(t, "queued") /\ up = "running"
    /\ tx' = [tx EXCEPT ![t] = [@ EXCEPT !.pc = "loaded", !.file = Sanitized(file)]]
    /\ UNCHANGED <<file, adopted, session, queue, up, clock, crashes>>

\* Fault: the budget of the process is not asked.
May_AnySession(t, A, n, table) ==
    LET seen == tx[t].file.seen[tx[t].pk]
    IN  /\ n \in Addrs \ (A \cup seen \cup table)
        /\ Cardinality(A) < PerRead
        /\ Cardinality(seen \cup A) < PerPublisher
        /\ Cardinality(InSubnet(seen \cup A, SubnetOf[n])) < PerSubnet

\* The loop's decision about one address, when those of A have been granted and
\* the routing table is this one.
May(t, A, n, table) ==
    LET seen == tx[t].file.seen[tx[t].pk]
    IN  /\ n \in Addrs \ (A \cup seen \cup table)
        /\ Cardinality(A) < PerRead
        /\ Cardinality(seen \cup A) < PerPublisher
        /\ session + Cardinality(A) < PerSession
        /\ Cardinality(InSubnet(seen \cup A, SubnetOf[n])) < PerSubnet
        /\ Cardinality(table) >= TableFull => adopted[n] = Never

\* The positions of the list at which the loop grants an address.
Taken(t, table) ==
    CHOOSE I \in SUBSET (1..Len(tx[t].nodes)) :
        \A i \in 1..Len(tx[t].nodes) :
            i \in I <=> i <= Inspect /\ May(t, {tx[t].nodes[j] : j \in {k \in I : k < i}}, tx[t].nodes[i], table)

\* What is granted counts at once for the process; the file is still to be written.
Grant(t) ==
    /\ Turn(t, "loaded")
    /\ \E table \in SUBSET Addrs :
       LET A == {tx[t].nodes[i] : i \in Taken(t, table)}
           now == [a \in Addrs |-> IF a \in A THEN clock ELSE adopted[a]]
           new == [seen |-> [tx[t].file.seen EXCEPT ![tx[t].pk] = @ \cup A], adopted |-> now]
       IN  /\ adopted' = now
           /\ session' = session + Cardinality(A)
           /\ IF A = {}
              THEN tx' = [tx EXCEPT ![t] = Done(t)] /\ queue' = Tail(queue)
              ELSE /\ tx' = [tx EXCEPT ![t] = [@ EXCEPT !.pc = "write", !.file = new, !.at = clock, !.granted = A]]
                   /\ UNCHANGED queue
    /\ UNCHANGED <<file, up, clock, crashes>>

Persist(t) ==
    /\ Turn(t, "write")
    /\ file' = tx[t].file
    /\ tx' = [tx EXCEPT ![t].pc = "hand"]
    /\ UNCHANGED <<adopted, session, queue, up, clock, crashes>>

\* Fault: the calls that wait for one that fails wait forever.
PersistFails_Blocks(t) ==
    /\ Turn(t, "write")
    /\ tx' = [tx EXCEPT ![t] = Done(t)]
    /\ UNCHANGED <<file, adopted, session, queue, up, clock, crashes>>

\* Nothing is handed to the DHT, but the process has spent its budget.
PersistFails(t) ==
    /\ Turn(t, "write")
    /\ tx' = [tx EXCEPT ![t] = Done(t)]
    /\ queue' = Tail(queue)
    /\ UNCHANGED <<file, adopted, session, up, clock, crashes>>

\* Fault: the nodes are handed over while the file is still to be written.
MayHand_Early(t) == tx[t].pc \in {"write", "hand"}

MayHand(t) == tx[t].pc = "hand"

Hand(t) ==
    /\ queue # <<>> /\ Head(queue) = t /\ MayHand(t)
    /\ tx' = [tx EXCEPT ![t] = [Done(t) EXCEPT !.handed = IF up = "running" THEN tx[t].granted ELSE {}]]
    /\ queue' = Tail(queue)
    /\ UNCHANGED <<file, adopted, session, up, clock, crashes>>

AdoptTx(t) == Skip(t) \/ Load(t) \/ Grant(t) \/ Persist(t) \/ PersistFails(t) \/ Hand(t)

-----------------------------------------------------------------------------
(***************************************************************************)
(* The process and time.                                                   *)
(***************************************************************************)
Stop ==
    /\ up = "running" /\ up' = "stopping"
    /\ UNCHANGED <<file, adopted, session, queue, tx, clock, crashes>>

\* The end of the process, after a stop or without one.
Crash ==
    /\ up # "down" /\ crashes < CrashesMax
    /\ up' = "down"
    /\ crashes' = crashes + 1
    /\ tx' = [t \in Txs |-> Done(t)]
    /\ queue' = <<>>
    /\ adopted' = NoFile.adopted /\ session' = 0
    /\ UNCHANGED <<file, clock>>

\* Fault: the provenance is not restored.
Restored_Nothing == NoFile.adopted

Restored == Sanitized(file).adopted

Start ==
    /\ up = "down" /\ up' = "running"
    /\ adopted' = Restored
    /\ UNCHANGED <<file, session, queue, tx, clock, crashes>>

TimePasses ==
    /\ clock < TimesMax /\ clock' = clock + 1
    /\ UNCHANGED <<file, adopted, session, queue, tx, up, crashes>>

AdoptInit ==
    /\ file = NoFile /\ adopted = NoFile.adopted /\ session = 0
    /\ queue = <<>> /\ tx = <<>>
    /\ up = "running" /\ clock = 1 /\ crashes = 0

-----------------------------------------------------------------------------
\* publishCatalog: what our catalog may list, if the routing table holds it.
Vouched == {a \in Addrs : adopted[a] = Never \/ clock - adopted[a] >= ReAdvertise}

\* Every address that a publisher has ever had handed to the DHT.
HandedFor(pk) == UNION {tx[t].handed : t \in {u \in Txs : tx[u].pk = pk}}

AdoptTypeOK ==
    /\ \A f \in {file} \cup {tx[t].file : t \in Txs} :
         f.seen \in [Pubs -> SUBSET Addrs] /\ f.adopted \in [Addrs -> 0..clock]
    /\ adopted \in [Addrs -> 0..clock]
    /\ session \in 0..PerSession
    /\ queue \in Seq(Txs)
    /\ \A t \in Txs : /\ tx[t].pc \in {"queued", "loaded", "write", "hand", "done"}
                      /\ tx[t].pk \in Pubs /\ tx[t].handed \subseteq tx[t].granted
    /\ up \in {"running", "stopping", "down"} /\ clock \in 1..TimesMax /\ crashes \in 0..CrashesMax

\* No publisher ever gets more nodes handed to the DHT than its lifetime budget,
\* nor more of one subnet, however its catalogs change, reads overlap, writes
\* fail and the process crashes between a grant and what follows it
\* (node.ts:1047, "concurrent reads cannot double-spend").
LifetimeBudget ==
    \A pk \in Pubs :
        /\ Cardinality(HandedFor(pk)) <= PerPublisher
        /\ \A a \in Addrs : Cardinality(InSubnet(HandedFor(pk), SubnetOf[a])) <= PerSubnet

\* One process hands over no more than its own budget, whatever was granted but
\* could not be persisted.
SessionBudget ==
    \A n \in 0..CrashesMax :
        Cardinality({x \in Txs \X Addrs : tx[x[1]].session = n /\ x[2] \in tx[x[1]].handed}) <= PerSession

\* Our catalog never vouches for a node that was recently adopted from another's,
\* not even right after a restart (node.ts:893, "no transitive laundering").
NoLaundering ==
    up # "down" => \A t \in Txs : \A a \in tx[t].handed \cap Vouched : clock - tx[t].at >= ReAdvertise
=============================================================================
