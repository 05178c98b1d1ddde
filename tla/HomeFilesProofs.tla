--------------------------- MODULE HomeFilesProofs ---------------------------
(***************************************************************************)
(* What is proved of HomeFiles, for any calls and crashes: the file is an  *)
(* atomic one, in all of its steps, and a transaction that has been        *)
(* confirmed stays on the disk.                                            *)
(***************************************************************************)
EXTENDS HomeFiles, TLAPS

Pcs == {"idle", "turn", "read", "have", "queued", "fill", "rename", "unlink", "done", "failed", "dead"}

Types ==
    /\ disk \in Contents
    /\ tmp \in [Calls -> Contents \cup {None, Torn}]
    /\ value \in [Calls -> Contents]
    /\ pc \in [Calls -> Pcs]
    /\ chain \in Calls \cup {None} /\ after \in [Calls -> Calls \cup {None}]
    /\ txn \in Txns \cup {None} /\ before \in [Calls -> Txns \cup {None}]
    /\ hooked \subseteq Calls
    /\ line \in Seq(Calls)
    /\ misread \in BOOLEAN /\ crashes \in 0..CrashesMax

\* The writes that are in line wait for the one before them; what is renamed is what was
\* asked for.
Writing(c) == pc[c] \in {"queued", "fill", "rename"}

Lined ==
    /\ \A i \in 1..Len(line) : Writing(line[i])
    /\ \A i \in 1..Len(line) : i > 1 => pc[line[i]] = "queued" /\ after[line[i]] = line[i - 1]
    /\ \A c \in Calls : Writing(c) => \E i \in 1..Len(line) : line[i] = c
    /\ \A i, j \in 1..Len(line) : line[i] = line[j] => i = j
    /\ line # <<>> => chain = line[Len(line)]
    /\ \A c \in hooked : Settled(c)
    /\ \A c \in Calls : pc[c] = "rename" => tmp[c] = value[c]

\* The transactions that are under way, the first of which is the only one that has begun.
Underway(c) == pc[c] \in {"turn", "have", "queued", "fill", "rename", "unlink"}

Turns(s) ==
    /\ s \in Seq(Txns)
    /\ \A i \in 1..Len(s) : Underway(s[i])
    /\ \A i \in 1..Len(s) : i > 1 => pc[s[i]] = "turn" /\ before[s[i]] = s[i - 1]
    /\ \A c \in Txns : Underway(c) => \E i \in 1..Len(s) : s[i] = c
    /\ \A i, j \in 1..Len(s) : s[i] = s[j] => i = j
    /\ IF s = <<>> THEN txn # None => Settled(txn) ELSE txn = s[Len(s)]

InTurn == (\E s : Turns(s)) /\ \A c \in Txns : pc[c] # "read"

OnlyTxns == ~misread /\ \A c \in Loose : pc[c] = "idle"

Confirmed == {c \in Txns : pc[c] = "done"}

\* As long as all calls are transactions, what one of them is to write contains all that
\* is confirmed, and its own change.
Kept ==
    OnlyTxns => /\ Confirmed \subseteq disk
             /\ \A c \in Txns : pc[c] \in {"have", "queued", "fill", "rename"} => Confirmed \cup {c} \subseteq value[c]

HomeInv == Types /\ Lined /\ InTurn /\ Kept

-----------------------------------------------------------------------------
LEMMA LeastIs ==
    ASSUME NEW I, NEW m \in I, \A i \in I : m <= i, I \subseteq Nat
    PROVE  Min(I) = m
<1>1. m \in I /\ \A y \in I : m <= y
  OBVIOUS
<1>2. \A x \in I : (\A y \in I : x <= y) => x = m
  OBVIOUS
<1> QED  BY <1>1, <1>2, Zenon DEF Min

LEMMA RemoveHead ==
    ASSUME NEW S, NEW s \in Seq(S), s # <<>>
    PROVE  RemoveFirst(s, s[1]) = Tail(s)
<1> DEFINE I == {i \in 1..Len(s) : s[i] = s[1]}
<1>1. Len(s) \in Nat /\ 1 \in 1..Len(s)
  OBVIOUS
<1>2. SelectInSeq(s, LAMBDA v : v = s[1]) = 1
  <2>1. 1 \in I /\ I \subseteq Nat /\ \A i \in I : 1 <= i
    BY <1>1
  <2>2. Min(I) = 1
    <3> HIDE DEF I
    <3> QED  BY <2>1, LeastIs
  <2>3. SelectInSeq(s, LAMBDA v : v = s[1]) = IF I # {} THEN Min(I) ELSE 0
    BY Zenon DEF SelectInSeq
  <2> QED  BY <2>1, <2>2, <2>3
<1>3. RemoveFirst(s, s[1]) = RemoveAt(s, 1)
  BY <1>1, <1>2 DEF RemoveFirst
<1>4. SubSeq(s, 1, 0) \o SubSeq(s, 2, Len(s)) = Tail(s)
  OBVIOUS
<1> QED  BY <1>3, <1>4 DEF RemoveAt

-----------------------------------------------------------------------------
(***************************************************************************)
(* The line of writes.                                                     *)
(***************************************************************************)
LEMMA LineSame ==
    ASSUME Types, Lined, line' = line, Types',
           \A c \in Calls : Writing(c)' <=> Writing(c),
           \A c \in Calls : pc[c] = "queued" /\ (\E i \in 1..Len(line) : i > 1 /\ line[i] = c)
                               => pc'[c] = "queued" /\ after'[c] = after[c],
           chain' = chain \/ (line = <<>>),
           \A c \in hooked' : Settled(c)',
           \A c \in Calls : pc'[c] = "rename" => tmp'[c] = value'[c]
    PROVE  Lined'
<1>1. line \in Seq(Calls) /\ Len(line) \in Nat /\ \A i \in 1..Len(line) : line[i] \in Calls
  BY DEF Types
<1>2. \A i \in 1..Len(line') : pc'[line'[i]] \in {"queued", "fill", "rename"}
  BY <1>1 DEF Lined, Writing
<1>3. \A i \in 1..Len(line') : i > 1 => pc'[line'[i]] = "queued" /\ after'[line'[i]] = line'[i - 1]
  BY <1>1 DEF Lined
<1>4. \A c \in Calls : Writing(c)' => \E i \in 1..Len(line') : line'[i] = c
  BY DEF Lined
<1>5. \A i, j \in 1..Len(line') : line'[i] = line'[j] => i = j
  BY DEF Lined
<1>6. line' # <<>> => chain' = line'[Len(line')]
  BY DEF Lined
<1> QED  BY <1>2, <1>3, <1>4, <1>5, <1>6 DEF Lined, Writing, Settled

\* Only the first of the line can go on.
LEMMA FirstGoes ==
    ASSUME Types, Lined, NEW c \in Calls, Writing(c),
           pc[c] = "queued" => (after[c] # None => Settled(after[c]))
    PROVE  line # <<>> /\ c = line[1] /\ Head(line) = c
<1>1. line \in Seq(Calls) /\ Len(line) \in Nat /\ None \notin Calls
  BY CallsAssumption DEF Types
<1>2. PICK i \in 1..Len(line) : line[i] = c
  BY DEF Lined
<1>3. i = 1
  <2> SUFFICES ASSUME i > 1  PROVE FALSE
    BY <1>1
  <2>1. pc[c] = "queued" /\ after[c] = line[i - 1]
    BY <1>2 DEF Lined
  <2>2. i - 1 \in 1..Len(line)
    BY <1>1
  <2>3. line[i - 1] \in Calls /\ Writing(line[i - 1])
    BY <1>1, <2>2 DEF Lined
  <2> QED  BY <1>1, <2>1, <2>3 DEF Settled, Writing
<1> QED  BY <1>1, <1>2, <1>3

\* The first of the line leaves it.
LEMMA FirstLeaves ==
    ASSUME Types, Lined, Types', line # <<>>, NEW c \in Calls, c = line[1], line' = Tail(line),
           ~Writing(c)',
           \A d \in Calls \ {c} : pc'[d] = pc[d],
           UNCHANGED <<after, chain>>,
           \A d \in hooked' : Settled(d)',
           \A d \in Calls : pc'[d] = "rename" => tmp'[d] = value'[d]
    PROVE  Lined'
<1> DEFINE n == Len(line)
<1>1. /\ line \in Seq(Calls) /\ n \in Nat /\ n >= 1 /\ \A i \in 1..n : line[i] \in Calls
      /\ Len(line') = n - 1 /\ \A i \in 1..n - 1 : line'[i] = line[i + 1]
      /\ \A i \in 1..n - 1 : i + 1 \in 1..n
  BY DEF Types
<1> HIDE DEF n
<1>l. /\ \A i \in 1..n : Writing(line[i])
      /\ \A i \in 1..n : i > 1 => pc[line[i]] = "queued" /\ after[line[i]] = line[i - 1]
      /\ \A d \in Calls : Writing(d) => \E i \in 1..n : line[i] = d
      /\ \A i, j \in 1..n : line[i] = line[j] => i = j
      /\ chain = line[n]
  BY DEF Lined, n
<1>2. \A i \in 1..n - 1 : line'[i] # c /\ line'[i] \in Calls
  BY <1>1, <1>l
<1>3. \A i \in 1..Len(line') : pc'[line'[i]] \in {"queued", "fill", "rename"}
  <2> SUFFICES ASSUME NEW i \in 1..n - 1  PROVE pc'[line'[i]] \in {"queued", "fill", "rename"}
    BY <1>1
  <2>1. line'[i] = line[i + 1] /\ i + 1 \in 1..n
    BY <1>1
  <2>2. Writing(line[i + 1])
    BY <1>l, <2>1
  <2>3. pc'[line'[i]] = pc[line'[i]]
    BY <1>2
  <2> QED  BY <2>1, <2>2, <2>3 DEF Writing
<1>4. \A i \in 1..Len(line') : i > 1 => pc'[line'[i]] = "queued" /\ after'[line'[i]] = line'[i - 1]
  <2> SUFFICES ASSUME NEW i \in 1..n - 1, i > 1
               PROVE  pc'[line'[i]] = "queued" /\ after'[line'[i]] = line'[i - 1]
    BY <1>1
  <2>1. i + 1 \in 1..n /\ i + 1 > 1 /\ (i + 1) - 1 = i /\ i - 1 \in 1..n - 1 /\ (i - 1) + 1 = i
    BY <1>1
  <2>2. line'[i] = line[i + 1] /\ line'[i - 1] = line[i]
    BY <1>1, <2>1
  <2>3. pc[line[i + 1]] = "queued" /\ after[line[i + 1]] = line[i]
    BY <1>l, <2>1
  <2> QED  BY <1>2, <2>2, <2>3, ZenonT(60)
<1>5. \A d \in Calls : Writing(d)' => \E i \in 1..Len(line') : line'[i] = d
  <2> SUFFICES ASSUME NEW d \in Calls, Writing(d)'  PROVE \E i \in 1..n - 1 : line'[i] = d
    BY <1>1
  <2>1. d # c /\ Writing(d)
    BY DEF Writing
  <2>2. PICK i \in 1..n : line[i] = d
    BY <1>l, <2>1
  <2>3. i - 1 \in 1..n - 1 /\ (i - 1) + 1 = i
    BY <1>1, <2>1, <2>2
  <2> QED  BY <1>1, <2>2, <2>3
<1>6. \A i, j \in 1..Len(line') : line'[i] = line'[j] => i = j
  <2> SUFFICES ASSUME NEW i \in 1..n - 1, NEW j \in 1..n - 1, line'[i] = line'[j]  PROVE i = j
    BY <1>1
  <2>1. i + 1 = j + 1
    BY <1>1, <1>l
  <2> QED  BY <1>1, <2>1
<1>7. line' # <<>> => chain' = line'[Len(line')]
  <2> SUFFICES ASSUME line' # <<>>  PROVE chain = line'[n - 1]
    BY <1>1
  <2>1. n - 1 \in 1..n - 1 /\ (n - 1) + 1 = n
    <3>1. line' \in Seq(Calls)
      BY DEF Types
    <3>2. n - 1 # 0
      <4>1. Len(line') # 0
        BY <3>1
      <4> QED  BY <1>1, <4>1
    <3>3. n \in Nat /\ n >= 1
      BY <1>1
    <3> QED  BY <3>2, <3>3
  <2> QED  BY <1>1, <1>l, <2>1
<1> QED  BY <1>3, <1>4, <1>5, <1>6, <1>7 DEF Lined, Writing, Settled

-----------------------------------------------------------------------------
(***************************************************************************)
(* The chain of transactions.                                              *)
(***************************************************************************)
LEMMA FirstTurns ==
    ASSUME Types, NEW s, Turns(s), NEW c \in Txns, Underway(c),
           pc[c] = "turn" => (before[c] # None => Settled(before[c]))
    PROVE  s # <<>> /\ c = s[1]
<1>1. s \in Seq(Txns) /\ Len(s) \in Nat /\ None \notin Txns
  BY CallsAssumption DEF Turns, Calls
<1>2. PICK i \in 1..Len(s) : s[i] = c
  BY DEF Turns
<1>3. i = 1
  <2> SUFFICES ASSUME i > 1  PROVE FALSE
    BY <1>1
  <2>1. pc[c] = "turn" /\ before[c] = s[i - 1]
    BY <1>2 DEF Turns
  <2>2. i - 1 \in 1..Len(s)
    BY <1>1
  <2>3. s[i - 1] \in Txns /\ Underway(s[i - 1])
    <3>1. \A j \in 1..Len(s) : s[j] \in Txns
      BY <1>1
    <3>2. \A j \in 1..Len(s) : Underway(s[j])
      BY DEF Turns
    <3> QED  BY <2>2, <3>1, <3>2
  <2> QED  BY <1>1, <2>1, <2>3 DEF Settled, Underway
<1> QED  BY <1>1, <1>2, <1>3

LEMMA TurnsSame ==
    ASSUME Types, NEW s, Turns(s), UNCHANGED <<txn, before>>,
           \A c \in Txns : Underway(c)' <=> Underway(c),
           \A c \in Txns : pc[c] = "turn" /\ ~(s # <<>> /\ c = s[1]) => pc'[c] = "turn",
           \A c \in Txns : Settled(c) => Settled(c)'
    PROVE  Turns(s)'
<1>1. s \in Seq(Txns) /\ Len(s) \in Nat /\ \A i \in 1..Len(s) : s[i] \in Txns
  BY DEF Turns
<1>2. \A i \in 1..Len(s) : i > 1 => pc'[s[i]] = "turn" /\ before'[s[i]] = s[i - 1]
  <2>1. \A i \in 1..Len(s) : i > 1 => s[i] # s[1]
    BY <1>1 DEF Turns
  <2> QED  BY <1>1, <2>1 DEF Turns
<1>3. \A i \in 1..Len(s) : pc'[s[i]] \in {"turn", "have", "queued", "fill", "rename", "unlink"}
  BY <1>1 DEF Turns, Underway
<1>4. IF s = <<>> THEN txn' # None => pc'[txn'] \in {"done", "failed"} ELSE txn' = s[Len(s)]
  BY DEF Types, Turns, Settled
<1> QED  BY <1>1, <1>2, <1>3, <1>4, Zenon DEF Turns, Underway, Settled

LEMMA FirstIsDone ==
    ASSUME Types, NEW s, Turns(s), NEW c \in Txns, s # <<>>, c = s[1], Settled(c)', ~Underway(c)',
           \A d \in Txns \ {c} : pc'[d] = pc[d],
           UNCHANGED <<txn, before>>
    PROVE  Turns(Tail(s))'
<1> DEFINE n == Len(s)
           r == Tail(s)
<1>1. /\ s \in Seq(Txns) /\ n \in Nat /\ n >= 1 /\ \A i \in 1..n : s[i] \in Txns
      /\ r \in Seq(Txns) /\ Len(r) = n - 1 /\ \A i \in 1..n - 1 : r[i] = s[i + 1]
      /\ \A i \in 1..n - 1 : i + 1 \in 1..n
      /\ (r = <<>> <=> n = 1)
  <2>1. s \in Seq(Txns)
    BY DEF Turns
  <2>2. /\ n \in Nat /\ n >= 1 /\ \A i \in 1..n : s[i] \in Txns
        /\ r \in Seq(Txns) /\ Len(r) = n - 1 /\ \A i \in 1..n - 1 : r[i] = s[i + 1]
    BY <2>1
  <2>3. r = <<>> <=> Len(r) = 0
    BY <2>2, SMTT(60)
  <2> HIDE DEF n, r
  <2>4. \A i \in 1..n - 1 : i + 1 \in 1..n
    BY <2>2
  <2> QED  BY <2>1, <2>2, <2>3, <2>4
<1> HIDE DEF n, r
<1>l. /\ \A i \in 1..n : Underway(s[i])
      /\ \A i \in 1..n : i > 1 => pc[s[i]] = "turn" /\ before[s[i]] = s[i - 1]
      /\ \A d \in Txns : Underway(d) => \E i \in 1..n : s[i] = d
      /\ \A i, j \in 1..n : s[i] = s[j] => i = j
      /\ txn = s[n]
  BY DEF Turns, n
<1>2. \A i \in 1..n - 1 : r[i] # c /\ r[i] \in Txns
  BY <1>1, <1>l
<1>3. \A i \in 1..Len(r) : pc'[r[i]] \in {"turn", "have", "queued", "fill", "rename", "unlink"}
  <2> SUFFICES ASSUME NEW i \in 1..n - 1
               PROVE  pc'[r[i]] \in {"turn", "have", "queued", "fill", "rename", "unlink"}
    BY <1>1
  <2>1. r[i] = s[i + 1] /\ i + 1 \in 1..n
    BY <1>1
  <2>2. Underway(s[i + 1])
    BY <1>l, <2>1
  <2>3. pc'[r[i]] = pc[r[i]]
    BY <1>2
  <2> QED  BY <2>1, <2>2, <2>3 DEF Underway
<1>4. \A i \in 1..Len(r) : i > 1 => pc'[r[i]] = "turn" /\ before'[r[i]] = r[i - 1]
  <2> SUFFICES ASSUME NEW i \in 1..n - 1, i > 1
               PROVE  pc'[r[i]] = "turn" /\ before'[r[i]] = r[i - 1]
    BY <1>1
  <2>1. i + 1 \in 1..n /\ i + 1 > 1 /\ (i + 1) - 1 = i /\ i - 1 \in 1..n - 1 /\ (i - 1) + 1 = i
    BY <1>1
  <2>2. r[i] = s[i + 1] /\ r[i - 1] = s[i]
    BY <1>1, <2>1
  <2>3. pc[s[i + 1]] = "turn" /\ before[s[i + 1]] = s[i]
    BY <1>l, <2>1
  <2> QED  BY <1>2, <2>2, <2>3
<1>5. \A d \in Txns : pc'[d] \in {"turn", "have", "queued", "fill", "rename", "unlink"} => \E i \in 1..Len(r) : r[i] = d
  <2> SUFFICES ASSUME NEW d \in Txns, Underway(d)'  PROVE \E i \in 1..n - 1 : r[i] = d
    BY <1>1 DEF Underway
  <2>1. d # c /\ Underway(d)
    BY DEF Underway
  <2>2. PICK i \in 1..n : s[i] = d
    BY <1>l, <2>1
  <2>3. i - 1 \in 1..n - 1 /\ (i - 1) + 1 = i
    BY <1>1, <2>1, <2>2
  <2> QED  BY <1>1, <2>2, <2>3
<1>6. \A i, j \in 1..Len(r) : r[i] = r[j] => i = j
  <2> SUFFICES ASSUME NEW i \in 1..n - 1, NEW j \in 1..n - 1, r[i] = r[j]  PROVE i = j
    BY <1>1
  <2>1. i + 1 = j + 1
    BY <1>1, <1>l
  <2> QED  BY <1>1, <2>1
<1>7. IF r = <<>> THEN txn' # None => pc'[txn'] \in {"done", "failed"} ELSE txn' = r[Len(r)]
  <2>1. CASE n = 1
    BY <1>1, <1>l, <2>1 DEF Settled
  <2>2. CASE n # 1
    <3>1. n - 1 \in 1..n - 1 /\ (n - 1) + 1 = n
      BY <1>1, <2>2
    <3> QED  BY <1>1, <1>l, <2>2, <3>1
  <2> QED  BY <2>1, <2>2
<1>8. r \in Seq(Txns)
  BY <1>1
<1> QED  BY <1>3, <1>4, <1>5, <1>6, <1>7, <1>8, Zenon DEF Turns, Underway, Settled, r

LEMMA LastJoins ==
    ASSUME Types, NEW s, Turns(s), NEW c \in Txns, pc[c] = "idle",
           pc' = [pc EXCEPT ![c] = "turn"], before' = [before EXCEPT ![c] = txn], txn' = c
    PROVE  Turns(Append(s, c))'
<1> DEFINE n == Len(s)
           r == Append(s, c)
<1>1. /\ s \in Seq(Txns) /\ n \in Nat /\ \A i \in 1..n : s[i] \in Txns /\ r[i] = s[i]
      /\ r \in Seq(Txns) /\ Len(r) = n + 1 /\ r[n + 1] = c /\ r # <<>>
      /\ (s = <<>> <=> n = 0)
  <2>1. s \in Seq(Txns)
    BY DEF Turns
  <2>2. /\ n \in Nat /\ \A i \in 1..n : s[i] \in Txns /\ r[i] = s[i]
        /\ r \in Seq(Txns) /\ Len(r) = n + 1 /\ r[n + 1] = c
    BY <2>1
  <2>3. (s = <<>> <=> n = 0) /\ r # <<>>
    BY <2>1
  <2> QED  BY <2>1, <2>2, <2>3
<1> HIDE DEF n, r
<1>l. /\ \A i \in 1..n : Underway(s[i])
      /\ \A i \in 1..n : i > 1 => pc[s[i]] = "turn" /\ before[s[i]] = s[i - 1]
      /\ \A d \in Txns : Underway(d) => \E i \in 1..n : s[i] = d
      /\ \A i, j \in 1..n : s[i] = s[j] => i = j
      /\ n > 0 => txn = s[n]
  BY <1>1 DEF Turns, n
<1>p. /\ pc'[c] = "turn" /\ before'[c] = txn /\ ~Underway(c)
      /\ \A d \in Txns \ {c} : pc'[d] = pc[d] /\ before'[d] = before[d]
  BY DEF Types, Calls, Underway
<1>2. \A i \in 1..n + 1 : i = n + 1 \/ i \in 1..n
  BY <1>1
<1>3. \A i \in 1..n : s[i] # c /\ s[i] \in Txns
  BY <1>1, <1>l, <1>p
<1>4. \A i \in 1..Len(r) : pc'[r[i]] \in {"turn", "have", "queued", "fill", "rename", "unlink"}
  <2> SUFFICES ASSUME NEW i \in 1..n + 1
               PROVE  pc'[r[i]] \in {"turn", "have", "queued", "fill", "rename", "unlink"}
    BY <1>1
  <2>1. CASE i = n + 1
    BY <1>1, <1>p, <2>1
  <2>2. CASE i \in 1..n
    <3>1. Underway(s[i]) /\ pc'[s[i]] = pc[s[i]] /\ r[i] = s[i]
      BY <1>1, <1>3, <1>l, <1>p, <2>2
    <3> QED  BY <3>1 DEF Underway
  <2> QED  BY <1>2, <2>1, <2>2
<1>5. \A i \in 1..Len(r) : i > 1 => pc'[r[i]] = "turn" /\ before'[r[i]] = r[i - 1]
  <2> SUFFICES ASSUME NEW i \in 1..n + 1, i > 1
               PROVE  pc'[r[i]] = "turn" /\ before'[r[i]] = r[i - 1]
    BY <1>1
  <2>1. i - 1 \in 1..n
    BY <1>1
  <2>2. CASE i = n + 1
    <3>1. i - 1 = n /\ n > 0
      BY <1>1, <2>2
    <3> QED  BY <1>1, <1>l, <1>p, <2>1, <2>2, <3>1
  <2>3. CASE i \in 1..n
    <3>1. pc[s[i]] = "turn" /\ before[s[i]] = s[i - 1]
      BY <1>l, <2>3
    <3>2. r[i] = s[i] /\ r[i - 1] = s[i - 1] /\ s[i] \in Txns \ {c}
      BY <1>1, <1>3, <2>1, <2>3
    <3> QED  BY <1>p, <3>1, <3>2
  <2> QED  BY <1>2, <2>2, <2>3
<1>6. \A d \in Txns : pc'[d] \in {"turn", "have", "queued", "fill", "rename", "unlink"} => \E i \in 1..Len(r) : r[i] = d
  <2> SUFFICES ASSUME NEW d \in Txns, Underway(d)'  PROVE \E i \in 1..n + 1 : r[i] = d
    BY <1>1 DEF Underway
  <2>1. CASE d = c
    BY <1>1, <2>1
  <2>2. CASE d # c
    <3>1. Underway(d)
      BY <1>p, <2>2 DEF Underway
    <3>2. PICK i \in 1..n : s[i] = d
      BY <1>l, <3>1
    <3>3. i \in 1..n + 1
      BY <1>1
    <3> QED  BY <1>1, <3>2, <3>3
  <2> QED  BY <2>1, <2>2
<1>7. \A i, j \in 1..Len(r) : r[i] = r[j] => i = j
  <2> SUFFICES ASSUME NEW i \in 1..n + 1, NEW j \in 1..n + 1, r[i] = r[j]  PROVE i = j
    BY <1>1
  <2>1. \A k \in 1..n : r[k] = s[k] /\ r[k] # c
    BY <1>1, <1>3
  <2>2. CASE i \in 1..n /\ j \in 1..n
    BY <1>l, <2>1, <2>2
  <2>3. CASE i = n + 1 \/ j = n + 1
    BY <1>1, <1>2, <2>1, <2>3
  <2> QED  BY <1>2, <2>2, <2>3
<1>8. r \in Seq(Txns) /\ r # <<>> /\ txn' = r[Len(r)]
  BY <1>1
<1> QED  BY <1>4, <1>5, <1>6, <1>7, <1>8, Zenon DEF Turns, Underway, Settled, r

-----------------------------------------------------------------------------
(***************************************************************************)
(* The invariant, action by action.                                        *)
(***************************************************************************)
LEMMA GoIs ==
    ASSUME Types, NEW c \in Calls, NEW to \in Pcs, Go(c, to)
    PROVE  pc' \in [Calls -> Pcs] /\ pc'[c] = to /\ \A d \in Calls \ {c} : pc'[d] = pc[d]
BY DEF Types, Go

LEMMA TxnsAre == Txns \subseteq Calls /\ Loose \subseteq Calls /\ \A c \in Calls : c \in Txns \/ c \in Loose
BY DEF Calls

\* Nothing that matters to what has been confirmed.
LEMMA KeptSame ==
    ASSUME Types, Kept, misread => misread', \A c \in Loose : pc'[c] = "idle" => pc[c] = "idle",
           \A c \in Txns : pc'[c] = "done" <=> pc[c] = "done", disk' = disk,
           \A c \in Txns : pc'[c] \in {"have", "queued", "fill", "rename"}
                              => pc[c] \in {"have", "queued", "fill", "rename"} /\ value'[c] = value[c]
    PROVE  Kept'
<1>1. OnlyTxns' => OnlyTxns
  BY DEF OnlyTxns
<1>2. Confirmed' = Confirmed
  BY DEF Confirmed
<1> QED  BY <1>1, <1>2 DEF Kept

LEMMA BeginKeeps ==
    ASSUME HomeInv, NEW c \in Calls, Begin(c)
    PROVE  HomeInv'
<1>t. Types /\ Lined /\ InTurn /\ Kept
  BY DEF HomeInv
<1>1. /\ pc[c] = "idle"
      /\ UNCHANGED <<disk, tmp, value, chain, after, hooked, line, misread, crashes>>
      /\ \/ c \in Txns /\ before' = [before EXCEPT ![c] = txn] /\ txn' = c /\ Go(c, "turn")
         \/ c \notin Txns /\ Go(c, "read") /\ UNCHANGED <<before, txn>>
  BY DEF Begin, files
<1>2. /\ pc' \in [Calls -> Pcs] /\ pc'[c] = (IF c \in Txns THEN "turn" ELSE "read")
      /\ \A d \in Calls \ {c} : pc'[d] = pc[d]
  <2>1. "turn" \in Pcs /\ "read" \in Pcs
    BY DEF Pcs
  <2> QED  BY <1>1, <1>t, <2>1, GoIs
<1>3. Types'
  <2>1. before' \in [Calls -> Txns \cup {None}] /\ txn' \in Txns \cup {None}
    BY <1>1, <1>t, TxnsAre DEF Types
  <2> QED  BY <1>1, <1>2, <1>t, <2>1 DEF Types
<1>4. Lined'
  <2>1. \A d \in Calls : Writing(d)' <=> Writing(d)
    BY <1>1, <1>2 DEF Writing
  <2>2. \A d \in Calls : pc[d] = "queued" => pc'[d] = "queued" /\ after'[d] = after[d]
    BY <1>1, <1>2
  <2>3. \A d \in hooked' : Settled(d)'
    BY <1>1, <1>2, <1>t DEF Lined, Settled, Types
  <2>4. \A d \in Calls : pc'[d] = "rename" => tmp'[d] = value'[d]
    BY <1>1, <1>2, <1>t DEF Lined
  <2> QED  BY <1>1, <1>3, <1>t, <2>1, <2>2, <2>3, <2>4, LineSame
<1>5. InTurn'
  <2>1. PICK s : Turns(s)
    BY <1>t DEF InTurn
  <2>2. CASE c \in Txns
    <3>1. pc' = [pc EXCEPT ![c] = "turn"] /\ before' = [before EXCEPT ![c] = txn] /\ txn' = c
      BY <1>1, <2>2 DEF Go
    <3>2. Turns(Append(s, c))'
      BY <1>1, <1>t, <2>1, <2>2, <3>1, LastJoins
    <3> QED  BY <1>2, <1>t, <2>2, <3>2, TxnsAre DEF InTurn
  <2>3. CASE c \notin Txns
    <3>1. \A d \in Txns : pc'[d] = pc[d]
      BY <1>2, <2>3, TxnsAre
    <3>2. Turns(s)'
      BY <1>1, <1>t, <2>1, <2>3, <3>1, TurnsSame DEF Underway, Settled
    <3> QED  BY <1>t, <3>1, <3>2 DEF InTurn
  <2> QED  BY <2>2, <2>3
<1>6. Kept'
  BY <1>1, <1>2, <1>t, TxnsAre, KeptSame
<1> QED  BY <1>3, <1>4, <1>5, <1>6 DEF HomeInv

LEMMA ReadKeeps ==
    ASSUME HomeInv, NEW c \in Calls, Read(c)
    PROVE  HomeInv'
<1>t. Types /\ Lined /\ InTurn /\ Kept
  BY DEF HomeInv
<1>1. PICK ok \in BOOLEAN :
         /\ value' = [value EXCEPT ![c] = (IF ok THEN disk ELSE {}) \cup {c}]
         /\ misread' = (misread \/ ~ok)
  BY DEF Read
<1>2. /\ pc[c] = "read" \/ (pc[c] = "turn" /\ (before[c] # None => Settled(before[c])))
      /\ Go(c, "have")
      /\ UNCHANGED <<disk, tmp, chain, after, txn, before, hooked, line, crashes>>
  BY DEF Read, Turn, files, queues
<1>3. pc' \in [Calls -> Pcs] /\ pc'[c] = "have" /\ \A d \in Calls \ {c} : pc'[d] = pc[d]
  <2>1. "have" \in Pcs
    BY DEF Pcs
  <2> QED  BY <1>2, <1>t, <2>1, GoIs
<1>v. /\ value' \in [Calls -> Contents] /\ value'[c] = (IF ok THEN disk ELSE {}) \cup {c}
      /\ \A d \in Calls \ {c} : value'[d] = value[d]
  BY <1>1, <1>t DEF Types, Contents
<1>4. Types'
  BY <1>1, <1>2, <1>3, <1>v, <1>t DEF Types
<1>5. Lined'
  <2>1. \A d \in Calls : Writing(d)' <=> Writing(d)
    BY <1>2, <1>3 DEF Writing
  <2>2. \A d \in Calls : pc[d] = "queued" => pc'[d] = "queued" /\ after'[d] = after[d]
    BY <1>2, <1>3
  <2>3. \A d \in hooked' : Settled(d)'
    BY <1>2, <1>3, <1>t DEF Lined, Settled, Types
  <2>4. \A d \in Calls : pc'[d] = "rename" => tmp'[d] = value'[d]
    BY <1>2, <1>3, <1>v, <1>t DEF Lined
  <2> QED  BY <1>2, <1>4, <1>t, <2>1, <2>2, <2>3, <2>4, LineSame
<1>p. PICK s : Turns(s)
  BY <1>t DEF InTurn
<1>r. \A d \in Txns : pc[d] # "read"
  BY <1>t DEF InTurn
<1>6. InTurn'
  <2>1. c \in Txns => s # <<>> /\ c = s[1]
    BY <1>2, <1>p, <1>r, <1>t, FirstTurns DEF Underway
  <2>2. \A d \in Txns : Underway(d)' <=> Underway(d)
    BY <1>2, <1>3, <1>r, TxnsAre DEF Underway
  <2>3. \A d \in Txns : pc[d] = "turn" /\ ~(s # <<>> /\ d = s[1]) => pc'[d] = "turn"
    BY <1>3, <2>1, TxnsAre
  <2>4. \A d \in Txns : Settled(d) => Settled(d)'
    BY <1>2, <1>3, TxnsAre DEF Settled
  <2>5. Turns(s)'
    BY <1>2, <1>p, <1>t, <2>2, <2>3, <2>4, TurnsSame
  <2> QED  BY <1>3, <1>r, <2>5, TxnsAre DEF InTurn
<1>7. Kept'
  <2> SUFFICES ASSUME OnlyTxns'
               PROVE  /\ Confirmed' \subseteq disk'
                      /\ \A d \in Txns : pc'[d] \in {"have", "queued", "fill", "rename"}
                                            => Confirmed' \cup {d} \subseteq value'[d]
    BY DEF Kept
  <2>1. OnlyTxns /\ ok /\ c \in Txns
    BY <1>1, <1>2, <1>3, TxnsAre DEF OnlyTxns
  <2>2. Confirmed' = Confirmed
    BY <1>2, <1>3, TxnsAre DEF Confirmed
  <2>3. Confirmed \subseteq disk
    BY <1>t, <2>1 DEF Kept
  <2> QED  BY <1>2, <1>3, <1>v, <1>t, <2>1, <2>2, <2>3, TxnsAre DEF Kept
<1> QED  BY <1>4, <1>5, <1>6, <1>7 DEF HomeInv

\* A transaction that is about to ask for its write, or has asked for it, goes on.
LEMMA TurnStays ==
    ASSUME Types, InTurn, NEW c \in Calls, UNCHANGED <<txn, before>>,
           pc[c] \in {"have", "queued", "fill", "rename", "unlink"},
           pc'[c] \in {"have", "queued", "fill", "rename", "unlink"},
           \A d \in Calls \ {c} : pc'[d] = pc[d]
    PROVE  InTurn'
<1>1. PICK s : Turns(s)
  BY DEF InTurn
<1>2. \A d \in Txns : Underway(d)' <=> Underway(d)
  BY TxnsAre DEF Underway
<1>3. \A d \in Txns : pc[d] = "turn" /\ ~(s # <<>> /\ d = s[1]) => pc'[d] = "turn"
  BY TxnsAre
<1>4. \A d \in Txns : Settled(d) => Settled(d)'
  BY TxnsAre DEF Settled
<1>5. Turns(s)'
  BY <1>1, <1>2, <1>3, <1>4, TurnsSame
<1> QED  BY <1>5, TxnsAre DEF InTurn

\* It settles, and the next one may begin.
LEMMA TurnSettles ==
    ASSUME Types, InTurn, NEW c \in Calls, UNCHANGED <<txn, before>>,
           pc[c] \in {"have", "queued", "fill", "rename", "unlink"},
           pc'[c] \in {"done", "failed"},
           \A d \in Calls \ {c} : pc'[d] = pc[d]
    PROVE  InTurn'
<1>1. PICK s : Turns(s)
  BY DEF InTurn
<1>2. \A d \in Txns : pc'[d] # "read"
  BY TxnsAre DEF InTurn
<1>3. CASE c \in Txns
  <2>1. s # <<>> /\ c = s[1]
    BY <1>1, <1>3, FirstTurns DEF Underway
  <2>2. Settled(c)' /\ ~Underway(c)'
    BY DEF Settled, Underway
  <2>3. Turns(Tail(s))'
    BY <1>1, <1>3, <2>1, <2>2, TxnsAre, FirstIsDone
  <2> QED  BY <1>2, <2>3 DEF InTurn
<1>4. CASE c \notin Txns
  <2>1. \A d \in Txns : pc'[d] = pc[d]
    BY <1>4, TxnsAre
  <2>2. Turns(s)'
    BY <1>1, <2>1, TurnsSame DEF Underway, Settled
  <2> QED  BY <1>2, <2>2 DEF InTurn
<1> QED  BY <1>3, <1>4

LEMMA AskKeeps ==
    ASSUME HomeInv, NEW c \in Calls, Ask(c)
    PROVE  HomeInv'
<1>t. Types /\ Lined /\ InTurn /\ Kept
  BY DEF HomeInv
<1>1. /\ pc[c] = "have" /\ after' = [after EXCEPT ![c] = chain] /\ chain' = c
      /\ line' = Append(line, c) /\ Go(c, "queued")
      /\ UNCHANGED <<disk, tmp, value, txn, before, hooked, misread, crashes>>
  BY DEF Ask, files
<1>2. pc' \in [Calls -> Pcs] /\ pc'[c] = "queued" /\ \A d \in Calls \ {c} : pc'[d] = pc[d]
  <2>1. "queued" \in Pcs
    BY DEF Pcs
  <2> QED  BY <1>1, <1>t, <2>1, GoIs
<1>a. after'[c] = chain /\ \A d \in Calls \ {c} : after'[d] = after[d]
  BY <1>1, <1>t DEF Types
<1>3. Types'
  <2>1. after' \in [Calls -> Calls \cup {None}] /\ line' \in Seq(Calls)
    BY <1>1, <1>t DEF Types
  <2> QED  BY <1>1, <1>2, <1>t, <2>1 DEF Types
<1>4. Lined'
  <2> DEFINE n == Len(line)
  <2>1. /\ line \in Seq(Calls) /\ n \in Nat
        /\ \A i \in 1..n : line[i] \in Calls /\ line'[i] = line[i]
        /\ Len(line') = n + 1 /\ line'[n + 1] = c
    <3>1. line \in Seq(Calls)
      BY <1>t DEF Types
    <3> QED  BY <1>1, <3>1
  <2>n. n > 0 => chain = line[n]
    <3>1. n > 0 => line # <<>>
      BY <2>1
    <3> QED  BY <1>t, <3>1 DEF Lined
  <2>l. /\ \A i \in 1..n : Writing(line[i])
        /\ \A i \in 1..n : i > 1 => pc[line[i]] = "queued" /\ after[line[i]] = line[i - 1]
        /\ \A d \in Calls : Writing(d) => \E i \in 1..n : line[i] = d
        /\ \A i, j \in 1..n : line[i] = line[j] => i = j
    BY <1>t DEF Lined
  <2> HIDE DEF n
  <2>2. \A i \in 1..n + 1 : i = n + 1 \/ i \in 1..n
    BY <2>1
  <2>3. \A i \in 1..n : line[i] # c
    BY <1>1, <2>l DEF Writing
  <2>4. \A i \in 1..Len(line') : pc'[line'[i]] \in {"queued", "fill", "rename"}
    <3> SUFFICES ASSUME NEW i \in 1..n + 1  PROVE pc'[line'[i]] \in {"queued", "fill", "rename"}
      BY <2>1
    <3>1. CASE i = n + 1
      BY <1>2, <2>1, <3>1
    <3>2. CASE i \in 1..n
      <4>1. Writing(line[i]) /\ line'[i] = line[i] /\ line[i] \in Calls \ {c}
        BY <2>1, <2>3, <2>l, <3>2
      <4> QED  BY <1>2, <4>1 DEF Writing
    <3> QED  BY <2>2, <3>1, <3>2
  <2>5. \A i \in 1..Len(line') : i > 1 => pc'[line'[i]] = "queued" /\ after'[line'[i]] = line'[i - 1]
    <3> SUFFICES ASSUME NEW i \in 1..n + 1, i > 1
                 PROVE  pc'[line'[i]] = "queued" /\ after'[line'[i]] = line'[i - 1]
      BY <2>1
    <3>1. i - 1 \in 1..n
      BY <2>1
    <3>2. CASE i = n + 1
      <4>1. i - 1 = n /\ n > 0
        BY <2>1, <3>2
      <4> QED  BY <1>2, <1>a, <2>1, <2>n, <3>1, <3>2, <4>1
    <3>3. CASE i \in 1..n
      <4>1. pc[line[i]] = "queued" /\ after[line[i]] = line[i - 1]
        BY <2>l, <3>3
      <4>2. line'[i] = line[i] /\ line'[i - 1] = line[i - 1] /\ line[i] \in Calls \ {c}
        BY <2>1, <2>3, <3>1, <3>3
      <4> QED  BY <1>2, <1>a, <4>1, <4>2
    <3> QED  BY <2>2, <3>2, <3>3
  <2>6. \A d \in Calls : pc'[d] \in {"queued", "fill", "rename"} => \E i \in 1..Len(line') : line'[i] = d
    <3> SUFFICES ASSUME NEW d \in Calls, Writing(d)'  PROVE \E i \in 1..n + 1 : line'[i] = d
      BY <2>1 DEF Writing
    <3>1. CASE d = c
      BY <2>1, <3>1
    <3>2. CASE d # c
      <4>1. Writing(d)
        BY <1>2, <3>2 DEF Writing
      <4>2. PICK i \in 1..n : line[i] = d
        BY <2>l, <4>1
      <4>3. i \in 1..n + 1
        BY <2>1
      <4> QED  BY <2>1, <4>2, <4>3
    <3> QED  BY <3>1, <3>2
  <2>7. \A i, j \in 1..Len(line') : line'[i] = line'[j] => i = j
    <3> SUFFICES ASSUME NEW i \in 1..n + 1, NEW j \in 1..n + 1, line'[i] = line'[j]  PROVE i = j
      BY <2>1
    <3>1. \A k \in 1..n : line'[k] = line[k] /\ line'[k] # c
      BY <2>1, <2>3
    <3>2. CASE i \in 1..n /\ j \in 1..n
      BY <2>l, <3>1, <3>2
    <3>3. CASE i = n + 1 \/ j = n + 1
      BY <2>1, <2>2, <3>1, <3>3
    <3> QED  BY <2>2, <3>2, <3>3
  <2>8. chain' = line'[Len(line')]
    BY <1>1, <2>1
  <2>9. \A d \in hooked' : pc'[d] \in {"done", "failed"}
    BY <1>1, <1>2, <1>t DEF Lined, Settled, Types
  <2>10. \A d \in Calls : pc'[d] = "rename" => tmp'[d] = value'[d]
    BY <1>1, <1>2, <1>t DEF Lined
  <2> QED  BY <2>4, <2>5, <2>6, <2>7, <2>8, <2>9, <2>10, Zenon DEF Lined, Writing, Settled
<1>5. InTurn'
  BY <1>1, <1>2, <1>t, TurnStays
<1>6. Kept'
  BY <1>1, <1>2, <1>t, TxnsAre, KeptSame
<1> QED  BY <1>3, <1>4, <1>5, <1>6 DEF HomeInv

LEMMA TailIsCalls ==
    ASSUME Types, line # <<>>
    PROVE  Tail(line) \in Seq(Calls)
BY DEF Types

\* A write that fails, before the rename.
LEMMA FailKeeps ==
    ASSUME HomeInv, NEW c \in Calls, pc[c] \in {"queued", "fill"},
           pc[c] = "queued" => (after[c] # None => Settled(after[c])),
           Ends(c, "failed"), line' = RemoveFirst(line, c), UNCHANGED files
    PROVE  HomeInv'
<1>t. Types /\ Lined /\ InTurn /\ Kept
  BY DEF HomeInv
<1>1. /\ Go(c, "failed") /\ hooked' = hooked \cup {c}
      /\ UNCHANGED <<disk, tmp, value, chain, after, txn, before, misread, crashes>>
  BY DEF Ends, files, queues
<1>2. pc' \in [Calls -> Pcs] /\ pc'[c] = "failed" /\ \A d \in Calls \ {c} : pc'[d] = pc[d]
  <2>1. "failed" \in Pcs
    BY DEF Pcs
  <2> QED  BY <1>1, <1>t, <2>1, GoIs
<1>3. line # <<>> /\ c = line[1]
  BY <1>t, FirstGoes DEF Writing
<1>4. line' = Tail(line)
  BY <1>3, <1>t, RemoveHead DEF Types
<1>5. Types'
  <2>1. line' \in Seq(Calls) /\ hooked' \subseteq Calls
    BY <1>1, <1>3, <1>4, <1>t, TailIsCalls DEF Types
  <2> QED  BY <1>1, <1>2, <1>t, <2>1 DEF Types
<1>6. Lined'
  <2>1. \A d \in hooked' : Settled(d)'
    BY <1>1, <1>2, <1>t DEF Lined, Settled, Types
  <2>2. \A d \in Calls : pc'[d] = "rename" => tmp'[d] = value'[d]
    BY <1>1, <1>2, <1>t DEF Lined
  <2>3. ~Writing(c)'
    BY <1>2 DEF Writing
  <2> QED  BY <1>1, <1>2, <1>3, <1>4, <1>5, <1>t, <2>1, <2>2, <2>3, FirstLeaves
<1>7. InTurn'
  BY <1>1, <1>2, <1>t, TurnSettles
<1>8. Kept'
  BY <1>1, <1>2, <1>t, TxnsAre, KeptSame
<1> QED  BY <1>5, <1>6, <1>7, <1>8 DEF HomeInv

\* The first of the line has a temporary file, or has filled it.
LEMMA FileKeeps ==
    ASSUME HomeInv, NEW c \in Calls, NEW to \in {"fill", "rename"}, NEW v \in Contents \cup {None, Torn},
           pc[c] \in {"queued", "fill"},
           pc[c] = "queued" => (after[c] # None => Settled(after[c])),
           tmp' = [tmp EXCEPT ![c] = v], to = "rename" => v = value[c], Go(c, to),
           UNCHANGED <<disk, value, queues, hooked, line, misread, crashes>>
    PROVE  HomeInv'
<1>t. Types /\ Lined /\ InTurn /\ Kept
  BY DEF HomeInv
<1>1. UNCHANGED <<disk, value, chain, after, txn, before, hooked, line, misread, crashes>>
  BY DEF queues
<1>2. pc' \in [Calls -> Pcs] /\ pc'[c] = to /\ \A d \in Calls \ {c} : pc'[d] = pc[d]
  <2>1. to \in Pcs
    BY DEF Pcs
  <2> QED  BY <1>t, <2>1, GoIs
<1>3. line # <<>> /\ c = line[1]
  BY <1>t, FirstGoes DEF Writing
<1>4. tmp' \in [Calls -> Contents \cup {None, Torn}] /\ tmp'[c] = v /\ \A d \in Calls \ {c} : tmp'[d] = tmp[d]
  BY <1>t DEF Types
<1>5. Types'
  BY <1>1, <1>2, <1>4, <1>t DEF Types
<1>6. Lined'
  <2>1. \A d \in hooked' : Settled(d)'
    BY <1>1, <1>2, <1>t DEF Lined, Settled, Types
  <2>2. \A d \in Calls : pc'[d] = "rename" => tmp'[d] = value'[d]
    BY <1>1, <1>2, <1>4, <1>t DEF Lined
  <2>3. \A d \in Calls : Writing(d)' <=> Writing(d)
    BY <1>2 DEF Writing
  <2>4. \A d \in Calls : pc[d] = "queued" /\ (\E i \in 1..Len(line) : i > 1 /\ line[i] = d)
                            => pc'[d] = "queued" /\ after'[d] = after[d]
    <3> SUFFICES ASSUME NEW i \in 1..Len(line), i > 1, line[i] = c  PROVE FALSE
      BY <1>1, <1>2
    <3>1. 1 \in 1..Len(line)
      BY <1>t DEF Types
    <3> QED  BY <1>3, <1>t, <3>1 DEF Lined
  <2> QED  BY <1>1, <1>5, <1>t, <2>1, <2>2, <2>3, <2>4, LineSame
<1>7. InTurn'
  BY <1>1, <1>2, <1>t, TurnStays
<1>8. Kept'
  BY <1>1, <1>2, <1>t, TxnsAre, KeptSame
<1> QED  BY <1>5, <1>6, <1>7, <1>8 DEF HomeInv

LEMMA OpenKeeps ==
    ASSUME HomeInv, NEW c \in Calls, Open(c)
    PROVE  HomeInv'
<1>1. pc[c] = "queued" /\ (after[c] # None => Settled(after[c]))
  BY DEF Open
<1>2. CASE tmp' = [tmp EXCEPT ![c] = Torn] /\ Go(c, "fill")
           /\ UNCHANGED <<disk, value, queues, hooked, line, misread, crashes>>
  BY <1>1, <1>2, FileKeeps
<1>3. CASE Ends(c, "failed") /\ line' = RemoveFirst(line, c) /\ UNCHANGED files
  BY <1>1, <1>3, FailKeeps
<1> QED  BY <1>2, <1>3 DEF Open

LEMMA FillKeeps ==
    ASSUME HomeInv, NEW c \in Calls, Fill(c)
    PROVE  HomeInv'
<1>1. pc[c] = "fill" /\ value[c] \in Contents
  BY DEF Fill, HomeInv, Types
<1>2. CASE tmp' = [tmp EXCEPT ![c] = value[c]] /\ Go(c, "rename")
           /\ UNCHANGED <<disk, value, queues, hooked, line, misread, crashes>>
  BY <1>1, <1>2, FileKeeps
<1>3. CASE Ends(c, "failed") /\ line' = RemoveFirst(line, c) /\ UNCHANGED files
  BY <1>1, <1>3, FailKeeps
<1> QED  BY <1>2, <1>3 DEF Fill

LEMMA RenameKeeps ==
    ASSUME HomeInv, NEW c \in Calls, Rename(c)
    PROVE  HomeInv'
<1>t. Types /\ Lined /\ InTurn /\ Kept
  BY DEF HomeInv
<1>1. /\ pc[c] = "rename" /\ line' = RemoveFirst(line, c)
      /\ UNCHANGED <<value, chain, after, txn, before, misread, crashes>>
      /\ \/ /\ disk' = tmp[c] /\ tmp' = [tmp EXCEPT ![c] = None]
            /\ Go(c, "done") /\ hooked' = hooked \cup {c}
         \/ Go(c, "unlink") /\ UNCHANGED <<disk, tmp, hooked>>
  BY DEF Rename, Ready, Ends, files, queues
<1>2. /\ pc' \in [Calls -> Pcs] /\ \A d \in Calls \ {c} : pc'[d] = pc[d]
      /\ \/ pc'[c] = "done" /\ disk' = tmp[c] /\ hooked' = hooked \cup {c}
         \/ pc'[c] = "unlink" /\ UNCHANGED <<disk, hooked>>
  <2>1. "done" \in Pcs /\ "unlink" \in Pcs
    BY DEF Pcs
  <2> QED  BY <1>1, <1>t, <2>1, GoIs
<1>3. line # <<>> /\ c = line[1] /\ tmp[c] = value[c] /\ value[c] \in Contents
  BY <1>1, <1>t, FirstGoes DEF Writing, Lined, Types
<1>4. line' = Tail(line)
  BY <1>1, <1>3, <1>t, RemoveHead DEF Types
<1>a. tmp' \in [Calls -> Contents \cup {None, Torn}] /\ \A d \in Calls \ {c} : tmp'[d] = tmp[d]
  BY <1>1, <1>t DEF Types
<1>5. Types'
  <2>1. line' \in Seq(Calls) /\ hooked' \subseteq Calls /\ disk' \in Contents
    BY <1>2, <1>3, <1>4, <1>t, TailIsCalls DEF Types
  <2> QED  BY <1>1, <1>2, <1>a, <1>t, <2>1 DEF Types
<1>6. Lined'
  <2>1. \A d \in hooked' : Settled(d)'
    <3>1. ~Settled(c) /\ \A d \in hooked : d \in Calls /\ Settled(d)
      BY <1>1, <1>t DEF Lined, Settled, Types
    <3>2. \A d \in hooked : d \in Calls \ {c} /\ pc'[d] \in {"done", "failed"}
      BY <1>2, <3>1 DEF Settled
    <3>3. \A d \in hooked' : pc'[d] \in {"done", "failed"}
      BY <1>2, <3>2
    <3> QED  BY <3>3 DEF Settled
  <2>2. \A d \in Calls : pc'[d] = "rename" => tmp'[d] = value'[d]
    BY <1>1, <1>2, <1>a, <1>t DEF Lined
  <2>3. ~Writing(c)'
    BY <1>2 DEF Writing
  <2> QED  BY <1>1, <1>2, <1>3, <1>4, <1>5, <1>t, <2>1, <2>2, <2>3, FirstLeaves
<1>7. InTurn'
  <2>1. CASE pc'[c] = "done"
    BY <1>1, <1>2, <1>t, <2>1, TurnSettles
  <2>2. CASE pc'[c] = "unlink"
    BY <1>1, <1>2, <1>t, <2>2, TurnStays
  <2> QED  BY <1>2, <2>1, <2>2
<1>8. Kept'
  <2>1. CASE pc'[c] = "unlink"
    BY <1>1, <1>2, <1>t, <2>1, TxnsAre, KeptSame
  <2>2. CASE pc'[c] = "done"
    <3> SUFFICES ASSUME OnlyTxns'
                 PROVE  /\ Confirmed' \subseteq disk'
                        /\ \A d \in Txns : pc'[d] \in {"have", "queued", "fill", "rename"}
                                              => Confirmed' \cup {d} \subseteq value'[d]
      BY DEF Kept
    <3>1. OnlyTxns /\ c \in Txns
      BY <1>1, <1>2, <2>2, TxnsAre DEF OnlyTxns
    <3>2. Confirmed' = Confirmed \cup {c}
      BY <1>2, <2>2, <3>1, TxnsAre DEF Confirmed
    <3>3. disk' = value[c] /\ Confirmed \cup {c} \subseteq value[c]
      BY <1>1, <1>2, <1>3, <1>t, <2>2, <3>1 DEF Kept
    <3>4. \A d \in Txns \ {c} : pc[d] \notin {"have", "queued", "fill", "rename"}
      <4>1. PICK s : Turns(s)
        BY <1>t DEF InTurn
      <4>2. c = s[1]
        BY <1>1, <1>t, <3>1, <4>1, FirstTurns DEF Underway
      <4> SUFFICES ASSUME NEW d \in Txns \ {c}, pc[d] \in {"have", "queued", "fill", "rename"}  PROVE FALSE
        OBVIOUS
      <4>3. d = s[1]
        BY <1>t, <4>1, FirstTurns DEF Underway
      <4> QED  BY <4>2, <4>3
    <3>5. \A d \in Txns : pc'[d] \notin {"have", "queued", "fill", "rename"}
      BY <1>2, <2>2, <3>4, TxnsAre
    <3> QED  BY <3>2, <3>3, <3>5
  <2> QED  BY <1>2, <2>1, <2>2
<1> QED  BY <1>5, <1>6, <1>7, <1>8 DEF HomeInv

LEMMA UnlinkKeeps ==
    ASSUME HomeInv, NEW c \in Calls, Unlink(c)
    PROVE  HomeInv'
<1>t. Types /\ Lined /\ InTurn /\ Kept
  BY DEF HomeInv
<1>1. /\ pc[c] = "unlink" /\ Go(c, "failed") /\ hooked' = hooked \cup {c}
      /\ tmp' = [tmp EXCEPT ![c] = None] \/ tmp' = tmp
      /\ UNCHANGED <<disk, value, chain, after, txn, before, line, misread, crashes>>
  BY DEF Unlink, Ends, queues
<1>2. pc' \in [Calls -> Pcs] /\ pc'[c] = "failed" /\ \A d \in Calls \ {c} : pc'[d] = pc[d]
  <2>1. "failed" \in Pcs
    BY DEF Pcs
  <2> QED  BY <1>1, <1>t, <2>1, GoIs
<1>a. tmp' \in [Calls -> Contents \cup {None, Torn}] /\ \A d \in Calls \ {c} : tmp'[d] = tmp[d]
  BY <1>1, <1>t DEF Types
<1>5. Types'
  <2>1. hooked' \subseteq Calls
    BY <1>1, <1>t DEF Types
  <2> QED  BY <1>1, <1>2, <1>a, <1>t, <2>1 DEF Types
<1>6. Lined'
  <2>1. \A d \in hooked' : Settled(d)'
    BY <1>1, <1>2, <1>t DEF Lined, Settled, Types
  <2>2. \A d \in Calls : pc'[d] = "rename" => tmp'[d] = value'[d]
    BY <1>1, <1>2, <1>a, <1>t DEF Lined
  <2>3. \A d \in Calls : Writing(d)' <=> Writing(d)
    BY <1>1, <1>2 DEF Writing
  <2>4. \A d \in Calls : pc[d] = "queued" => pc'[d] = "queued" /\ after'[d] = after[d]
    BY <1>1, <1>2
  <2> QED  BY <1>1, <1>5, <1>t, <2>1, <2>2, <2>3, <2>4, LineSame
<1>7. InTurn'
  BY <1>1, <1>2, <1>t, TurnSettles
<1>8. Kept'
  BY <1>1, <1>2, <1>t, TxnsAre, KeptSame
<1> QED  BY <1>5, <1>6, <1>7, <1>8 DEF HomeInv

LEMMA ForgetKeeps ==
    ASSUME HomeInv, NEW c \in Calls, Forget(c)
    PROVE  HomeInv'
<1>t. Types /\ Lined /\ InTurn /\ Kept
  BY DEF HomeInv
<1>1. /\ c \in hooked /\ hooked' = hooked \ {c} /\ chain' = Entry(c)
      /\ UNCHANGED <<disk, tmp, value, pc, after, txn, before, line, misread, crashes>>
  BY DEF Forget, files
<1>2. Types'
  BY <1>1, <1>t DEF Types, Entry
<1>3. line # <<>> => chain # c
  <2> SUFFICES ASSUME line # <<>>  PROVE chain # c
    OBVIOUS
  <2>1. Len(line) \in 1..Len(line)
    BY <1>t DEF Types
  <2>2. chain = line[Len(line)] /\ Writing(line[Len(line)])
    BY <1>t, <2>1 DEF Lined
  <2>3. Settled(c)
    BY <1>1, <1>t DEF Lined
  <2> QED  BY <2>2, <2>3 DEF Settled, Writing
<1>4. Lined'
  <2>1. \A d \in hooked' : Settled(d)'
    BY <1>1, <1>t DEF Lined, Settled
  <2>2. chain' = chain \/ line = <<>>
    BY <1>1, <1>3 DEF Entry
  <2>3. \A d \in Calls : Writing(d)' <=> Writing(d)
    BY <1>1 DEF Writing
  <2>4. \A d \in Calls : pc'[d] = "rename" => tmp'[d] = value'[d]
    BY <1>1, <1>t DEF Lined
  <2>5. \A d \in Calls : pc[d] = "queued" => pc'[d] = "queued" /\ after'[d] = after[d]
    BY <1>1
  <2> QED  BY <1>1, <1>2, <1>t, <2>1, <2>2, <2>3, <2>4, <2>5, LineSame
<1>5. InTurn'
  BY <1>1, <1>t DEF InTurn, Turns, Underway, Settled
<1>6. Kept'
  BY <1>1, <1>t DEF Kept, OnlyTxns, Confirmed
<1> QED  BY <1>2, <1>4, <1>5, <1>6 DEF HomeInv

LEMMA CrashKeeps ==
    ASSUME HomeInv, Crash
    PROVE  HomeInv'
<1>t. Types /\ Lined /\ InTurn /\ Kept
  BY DEF HomeInv
<1>1. /\ crashes < CrashesMax /\ crashes' = crashes + 1
      /\ pc' = [c \in Calls |-> IF pc[c] = "idle" \/ Settled(c) THEN pc[c] ELSE "dead"]
      /\ chain' = None /\ txn' = None /\ hooked' = {} /\ line' = <<>>
      /\ UNCHANGED <<disk, tmp, value, after, before, misread>>
  BY DEF Crash, files
<1>2. \A c \in Calls : /\ pc[c] \in Pcs
                       /\ \/ pc'[c] = pc[c] /\ (pc[c] = "idle" \/ pc[c] = "done" \/ pc[c] = "failed")
                          \/ pc'[c] = "dead" /\ pc[c] # "idle" /\ pc[c] # "done"
  <2> SUFFICES ASSUME NEW c \in Calls
               PROVE  /\ pc[c] \in Pcs
                      /\ \/ pc'[c] = pc[c] /\ (pc[c] = "idle" \/ pc[c] = "done" \/ pc[c] = "failed")
                         \/ pc'[c] = "dead" /\ pc[c] # "idle" /\ pc[c] # "done"
    OBVIOUS
  <2>1. pc[c] \in Pcs
    BY <1>t DEF Types
  <2>2. pc'[c] = IF pc[c] = "idle" \/ pc[c] \in {"done", "failed"} THEN pc[c] ELSE "dead"
    BY <1>1 DEF Settled
  <2> QED  BY <2>1, <2>2
<1>3. Types'
  <2>1. pc' \in [Calls -> Pcs]
    <3>1. "dead" \in Pcs
      BY DEF Pcs
    <3> QED  BY <1>1, <1>2, <3>1
  <2>2. line' \in Seq(Calls)
    BY <1>1
  <2>3. crashes' \in 0..CrashesMax
    BY <1>1, <1>t, CrashesAssumption DEF Types
  <2> QED  BY <1>1, <1>t, <2>1, <2>2, <2>3 DEF Types
<1>4. Lined'
  <2>1. \A c \in Calls : pc'[c] \notin {"queued", "fill", "rename"}
    BY <1>2
  <2>2. 1..Len(line') = {}
    BY <1>1
  <2> QED  BY <1>1, <2>1, <2>2 DEF Lined, Writing
<1>5. InTurn'
  <2>1. <<>> \in Seq(Txns) /\ 1..Len(<<>>) = {}
    OBVIOUS
  <2>2. \A c \in Txns : pc'[c] \notin {"turn", "have", "queued", "fill", "rename", "unlink", "read"}
    BY <1>2, TxnsAre
  <2>3. Turns(<<>>)'
    BY <1>1, <2>1, <2>2 DEF Turns, Underway
  <2> QED  BY <2>2, <2>3 DEF InTurn
<1>6. Kept'
  <2>1. OnlyTxns' => OnlyTxns
    BY <1>1, <1>2, TxnsAre DEF OnlyTxns
  <2>2. Confirmed' = Confirmed
    BY <1>2, TxnsAre DEF Confirmed
  <2>3. \A c \in Txns : pc'[c] \notin {"have", "queued", "fill", "rename"}
    BY <1>2, TxnsAre
  <2> QED  BY <1>1, <1>t, <2>1, <2>2, <2>3 DEF Kept
<1> QED  BY <1>3, <1>4, <1>5, <1>6 DEF HomeInv

LEMMA StutterKeeps ==
    ASSUME HomeInv, UNCHANGED vars
    PROVE  HomeInv'
<1>1. UNCHANGED <<disk, tmp, value, pc, chain, after, txn, before, hooked, line, misread, crashes>>
  BY DEF vars, files, queues
<1>2. Types'
  BY <1>1 DEF HomeInv, Types
<1>3. Lined'
  BY <1>1 DEF HomeInv, Lined, Writing, Settled
<1>4. InTurn'
  BY <1>1 DEF HomeInv, InTurn, Turns, Underway, Settled
<1>5. Kept'
  BY <1>1 DEF HomeInv, Kept, OnlyTxns, Confirmed
<1> QED  BY <1>2, <1>3, <1>4, <1>5 DEF HomeInv

LEMMA InitHolds == Init => HomeInv
<1> SUFFICES ASSUME Init  PROVE HomeInv
  OBVIOUS
<1>1. \A c \in Calls : pc[c] = "idle"
  BY DEF Init
<1>2. Types
  <2>1. {} \in Contents /\ "idle" \in Pcs /\ <<>> \in Seq(Calls) /\ 0 \in 0..CrashesMax
    BY CrashesAssumption DEF Contents, Pcs
  <2> QED  BY <2>1 DEF Init, Types
<1>3. Lined
  <2>1. line = <<>> /\ hooked = {} /\ 1..Len(line) = {}
    BY DEF Init
  <2> QED  BY <1>1, <2>1 DEF Lined, Writing
<1>4. InTurn
  <2>1. <<>> \in Seq(Txns) /\ 1..Len(<<>>) = {} /\ txn = None
    BY DEF Init
  <2>2. Turns(<<>>)
    BY <1>1, <2>1, TxnsAre DEF Turns, Underway
  <2> QED  BY <1>1, <2>2, TxnsAre DEF InTurn
<1>5. Kept
  BY <1>1, TxnsAre DEF Kept, Confirmed
<1> QED  BY <1>2, <1>3, <1>4, <1>5 DEF HomeInv

LEMMA StepKeeps == HomeInv /\ [Next]_vars => HomeInv'
<1> SUFFICES ASSUME HomeInv, [Next]_vars  PROVE HomeInv'
  OBVIOUS
<1>1. ASSUME NEW c \in Calls, Begin(c) \/ Step(c)  PROVE HomeInv'
  BY <1>1, BeginKeeps, ReadKeeps, AskKeeps, OpenKeeps, FillKeeps, RenameKeeps, UnlinkKeeps, ForgetKeeps DEF Step
<1> QED  BY <1>1, CrashKeeps, StutterKeeps DEF Next

LEMMA AlwaysHome == Spec => []HomeInv
BY InitHolds, StepKeeps, PTL DEF Spec

-----------------------------------------------------------------------------
\* Every file, queue and call is one of those that the code can have, in every state.
THEOREM TypeCorrect == Spec => []TypeOK
<1>1. HomeInv => TypeOK
  BY DEF HomeInv, Types, TypeOK, Pcs
<1> QED  BY <1>1, AlwaysHome, PTL

\* What a transaction has confirmed stays on the disk, however many transactions there are,
\* whichever of their writes fail and wherever the process crashes (node.ts:513).
THEOREM ConfirmedIsKept == Spec => []ConfirmedStays
<1>1. HomeInv => ConfirmedStays
  BY DEF HomeInv, Kept, OnlyTxns, Confirmed, ConfirmedStays
<1> QED  BY <1>1, AlwaysHome, PTL

-----------------------------------------------------------------------------
(***************************************************************************)
(* Every step of the calls is one of the atomic file, or none of it.       *)
(***************************************************************************)
Waiting == [i \in 1..Len(line) |-> value[line[i]]]

AtomicSteps == Abstract!Init /\ [][Abstract!Next]_(Abstract!vars)

LEMMA MappedIs ==
    ASSUME NEW S, NEW T, NEW s \in Seq(S), NEW v \in [S -> T]
    PROVE  LET w == [i \in 1..Len(s) |-> v[s[i]]]
           IN  w \in Seq(T) /\ Len(w) = Len(s) /\ \A i \in 1..Len(s) : w[i] = v[s[i]]
<1> DEFINE n == Len(s)
           w == [i \in 1..Len(s) |-> v[s[i]]]
<1>1. n \in Nat /\ \A i \in 1..n : v[s[i]] \in T
  OBVIOUS
<1>2. w \in [1..n -> T] /\ \A i \in 1..n : w[i] = v[s[i]]
  BY <1>1
<1> HIDE DEF n, w
<1>3. w \in Seq(T) /\ Len(w) = n
  BY <1>1, <1>2
<1> QED  BY <1>2, <1>3 DEF n, w

LEMMA WaitingIs ==
    ASSUME Types
    PROVE  /\ Waiting \in Seq(Contents) /\ Len(Waiting) = Len(line)
           /\ \A i \in 1..Len(line) : Waiting[i] = value[line[i]]
<1> DEFINE w == [i \in 1..Len(line) |-> value[line[i]]]
<1>1. line \in Seq(Calls) /\ value \in [Calls -> Contents]
  BY DEF Types
<1>2. w \in Seq(Contents) /\ Len(w) = Len(line) /\ \A i \in 1..Len(line) : w[i] = value[line[i]]
  BY <1>1, MappedIs
<1>3. w = Waiting
  BY DEF Waiting
<1> HIDE DEF w
<1> QED  BY <1>2, <1>3

LEMMA WaitingBecomes ==
    ASSUME Types'
    PROVE  /\ Waiting' \in Seq(Contents) /\ Len(Waiting') = Len(line')
           /\ \A i \in 1..Len(line') : Waiting'[i] = value'[line'[i]]
<1> DEFINE w == [i \in 1..Len(line') |-> value'[line'[i]]]
<1>1. line' \in Seq(Calls) /\ value' \in [Calls -> Contents]
  BY DEF Types
<1>2. w \in Seq(Contents) /\ Len(w) = Len(line') /\ \A i \in 1..Len(line') : w[i] = value'[line'[i]]
  BY <1>1, MappedIs
<1>3. w = Waiting'
  BY DEF Waiting
<1> HIDE DEF w
<1> QED  BY <1>2, <1>3

LEMMA SameSeq ==
    ASSUME NEW S, NEW s \in Seq(S), NEW t \in Seq(S), Len(s) = Len(t), \A i \in 1..Len(s) : s[i] = t[i]
    PROVE  s = t
OBVIOUS

\* The first of the line leaves it: so does what it was going to write.
LEMMA WaitingTail ==
    ASSUME Types, Types', line # <<>>, line' = Tail(line), value' = value
    PROVE  Waiting # <<>> /\ Waiting' = Tail(Waiting)
<1> DEFINE n == Len(line)
           w == Waiting
<1>1. /\ line \in Seq(Calls) /\ n \in Nat /\ n >= 1
      /\ Len(line') = n - 1 /\ \A i \in 1..n - 1 : line'[i] = line[i + 1] /\ i + 1 \in 1..n
  BY DEF Types
<1>2. w \in Seq(Contents) /\ Len(w) = n /\ \A i \in 1..n : w[i] = value[line[i]]
  BY WaitingIs
<1>3. w' \in Seq(Contents) /\ Len(w') = n - 1 /\ \A i \in 1..n - 1 : w'[i] = value'[line'[i]]
  <2>1. /\ Waiting' \in Seq(Contents) /\ Len(Waiting') = Len(line')
        /\ \A i \in 1..Len(line') : Waiting'[i] = value'[line'[i]]
    BY WaitingBecomes
  <2> QED  BY <1>1, <2>1
<1> HIDE DEF n, w
<1>4. w # <<>>
  BY <1>1, <1>2
<1>5. Tail(w) \in Seq(Contents) /\ Len(Tail(w)) = n - 1 /\ \A i \in 1..n - 1 : Tail(w)[i] = w[i + 1]
  BY <1>1, <1>2
<1>6. \A i \in 1..n - 1 : w'[i] = Tail(w)[i]
  BY <1>1, <1>2, <1>3, <1>5
<1>7. w' = Tail(w)
  BY <1>1, <1>3, <1>5, <1>6, SameSeq
<1> QED  BY <1>4, <1>7 DEF w

LEMMA WaitingSame ==
    ASSUME Types, line' = line, \A i \in 1..Len(line) : value'[line[i]] = value[line[i]]
    PROVE  Waiting' = Waiting
<1>1. Waiting' = [i \in 1..Len(line) |-> value'[line[i]]]
  BY DEF Waiting
<1> QED  BY <1>1 DEF Waiting

LEMMA NextIsAtomic ==
    ASSUME HomeInv, HomeInv', [Next]_vars
    PROVE  \/ \E v \in Contents : Waiting' = Append(Waiting, v) /\ disk' = disk
           \/ Waiting # <<>> /\ disk' = Head(Waiting) /\ Waiting' = Tail(Waiting)
           \/ Waiting # <<>> /\ Waiting' = Tail(Waiting) /\ disk' = disk
           \/ Waiting' = <<>> /\ disk' = disk
           \/ Waiting' = Waiting /\ disk' = disk
<1>t. Types /\ Lined /\ InTurn /\ Kept /\ Types' /\ value \in [Calls -> Contents] /\ line \in Seq(Calls)
  BY DEF HomeInv, Types
<1>s. \A v : (line' = line /\ value' = value) => Waiting' = Waiting
  BY <1>t, WaitingSame
<1>1. CASE UNCHANGED vars
  BY <1>1, <1>s DEF vars, files
<1>2. CASE Crash
  <2>1. line' = <<>> /\ disk' = disk
    BY <1>2 DEF Crash, files
  <2>2. Len(Waiting') = 0 /\ Waiting' \in Seq(Contents)
    <3>1. Waiting' \in Seq(Contents) /\ Len(Waiting') = Len(line')
      BY <1>t, WaitingBecomes
    <3> QED  BY <2>1, <3>1
  <2> QED  BY <2>1, <2>2
<1>3. ASSUME NEW c \in Calls, Begin(c)  PROVE Waiting' = Waiting /\ disk' = disk
  BY <1>3, <1>s DEF Begin, files
<1>4. ASSUME NEW c \in Calls, Read(c)  PROVE Waiting' = Waiting /\ disk' = disk
  <2>1. /\ pc[c] \in {"read", "turn"} /\ UNCHANGED <<disk, line>>
        /\ \A d \in Calls \ {c} : value'[d] = value[d]
    BY <1>4, <1>t DEF Read, Turn, files
  <2>2. \A i \in 1..Len(line) : line[i] \in Calls /\ Writing(line[i])
    BY <1>t DEF Lined
  <2>3. \A i \in 1..Len(line) : line[i] \in Calls \ {c}
    BY <2>1, <2>2 DEF Writing
  <2> QED  BY <1>t, <2>1, <2>3, WaitingSame
<1>5. ASSUME NEW c \in Calls, Ask(c)
      PROVE  value[c] \in Contents /\ Waiting' = Append(Waiting, value[c]) /\ disk' = disk
  <2> DEFINE n == Len(line)
             w == Waiting
             a == Append(w, value[c])
  <2>1. line' = Append(line, c) /\ UNCHANGED <<disk, value>>
    BY <1>5 DEF Ask, files
  <2>2. /\ n \in Nat /\ Len(line') = n + 1 /\ line'[n + 1] = c
        /\ \A i \in 1..n : line'[i] = line[i]
    BY <1>t, <2>1
  <2>3. w \in Seq(Contents) /\ Len(w) = n /\ \A i \in 1..n : w[i] = value[line[i]]
    BY <1>t, WaitingIs
  <2>4. w' \in Seq(Contents) /\ Len(w') = n + 1 /\ \A i \in 1..n + 1 : w'[i] = value[line'[i]]
    <3>1. /\ Waiting' \in Seq(Contents) /\ Len(Waiting') = Len(line')
          /\ \A i \in 1..Len(line') : Waiting'[i] = value'[line'[i]]
      BY <1>t, WaitingBecomes
    <3> QED  BY <2>1, <2>2, <3>1
  <2>5. value[c] \in Contents
    BY <1>t
  <2> HIDE DEF n, w
  <2>6. /\ a \in Seq(Contents) /\ Len(a) = n + 1 /\ a[n + 1] = value[c]
        /\ \A i \in 1..n : a[i] = w[i]
    BY <2>2, <2>3, <2>5
  <2> HIDE DEF a
  <2>7. ASSUME NEW i \in 1..n + 1  PROVE w'[i] = a[i]
    <3>1. CASE i = n + 1
      BY <2>2, <2>4, <2>6, <3>1
    <3>2. CASE i \in 1..n
      BY <2>2, <2>3, <2>4, <2>6, <3>2
    <3> QED  BY <2>2, <3>1, <3>2
  <2>8. w' = a
    BY <2>2, <2>4, <2>6, <2>7, SameSeq
  <2> QED  BY <2>1, <2>5, <2>8 DEF w, a
<1>6. ASSUME NEW c \in Calls, Writing(c), pc[c] = "queued" => (after[c] # None => Settled(after[c])),
             line' = RemoveFirst(line, c), value' = value
      PROVE  Waiting # <<>> /\ Waiting' = Tail(Waiting) /\ Head(Waiting) = value[c]
  <2>1. line # <<>> /\ c = line[1]
    BY <1>6, <1>t, FirstGoes
  <2>2. line' = Tail(line)
    BY <1>6, <1>t, <2>1, RemoveHead
  <2>3. Waiting # <<>> /\ Waiting' = Tail(Waiting)
    BY <1>6, <1>t, <2>1, <2>2, WaitingTail
  <2>4. Waiting \in Seq(Contents) /\ Len(Waiting) = Len(line) /\ 1 \in 1..Len(line) /\ Waiting[1] = value[c]
    <3>1. 1 \in 1..Len(line)
      BY <1>t, <2>1
    <3> QED  BY <1>t, <2>1, <3>1, WaitingIs
  <2> QED  BY <2>3, <2>4
<1>7. ASSUME NEW c \in Calls, Open(c) \/ Fill(c)
      PROVE  \/ Waiting # <<>> /\ Waiting' = Tail(Waiting) /\ disk' = disk
             \/ Waiting' = Waiting /\ disk' = disk
  <2>1. /\ Writing(c) /\ (pc[c] = "queued" => (after[c] # None => Settled(after[c])))
        /\ UNCHANGED <<disk, value>>
        /\ line' = line \/ line' = RemoveFirst(line, c)
    BY <1>7 DEF Open, Fill, Ends, files, Writing
  <2> QED  BY <1>6, <1>s, <2>1
<1>8. ASSUME NEW c \in Calls, Rename(c)
      PROVE  \/ Waiting # <<>> /\ disk' = Head(Waiting) /\ Waiting' = Tail(Waiting)
             \/ Waiting # <<>> /\ Waiting' = Tail(Waiting) /\ disk' = disk
  <2>1. /\ pc[c] = "rename" /\ line' = RemoveFirst(line, c) /\ value' = value
        /\ disk' = tmp[c] \/ disk' = disk
    BY <1>8 DEF Rename, Ready, Ends, files
  <2>2. tmp[c] = value[c] /\ Writing(c)
    BY <1>t, <2>1 DEF Lined, Writing
  <2> QED  BY <1>6, <2>1, <2>2
<1>9. ASSUME NEW c \in Calls, Unlink(c) \/ Forget(c)  PROVE Waiting' = Waiting /\ disk' = disk
  BY <1>9, <1>s DEF Unlink, Forget, Ends, files
<1> QED  BY <1>1, <1>2, <1>3, <1>4, <1>5, <1>7, <1>8, <1>9 DEF Next, Step

\* What the safety of ImplementsAtomicFile says (atomic.ts:27), for any calls: the writes replace
\* the content or leave it alone, whole, one at a time and in the order in which they were asked
\* for.  That each of them ends is left to the run.
THEOREM StepsAreAtomic == Spec => AtomicSteps
<1>1. Init => Abstract!Init
  <2> SUFFICES ASSUME Init  PROVE Abstract!Init
    OBVIOUS
  <2>1. disk = {} /\ line = <<>>
    BY DEF Init
  <2>2. Waiting = <<>>
    <3>1. Waiting \in Seq(Contents) /\ Len(Waiting) = Len(line)
      BY InitHolds, WaitingIs DEF HomeInv
    <3> QED  BY <2>1, <3>1
  <2> QED  BY <2>1, <2>2 DEF Abstract!Init, Waiting
<1>2. HomeInv /\ HomeInv' /\ [Next]_vars => [Abstract!Next]_(Abstract!vars)
  BY NextIsAtomic, Zenon DEF Abstract!Next, Abstract!vars, Abstract!Ask, Abstract!Replace, Abstract!Refuse,
        Abstract!Crash, Waiting
<1> QED  BY <1>1, <1>2, AlwaysHome, PTL DEF Spec, AtomicSteps

=============================================================================
