------------------------ MODULE CatalogTorrentsProofs ------------------------
(***************************************************************************)
(* Proofs about CatalogTorrents.                                           *)
(***************************************************************************)
EXTENDS CatalogTorrents, FiniteSetTheorems, SequenceTheorems, TLAPS

Life == [ref : [Loads -> Ref], refs : [Infohashes -> Loads \cup {NoRef}],
         current : [Pubs -> Loads \cup {NoRef}], tail : [Infohashes -> Seq(Op)]]

\* A registered ref belongs to the infohash and its torrent was not reaped.
Registration(s) ==
    \A h \in Infohashes : s.refs[h] # NoRef =>
        s.ref[s.refs[h]].ih = h /\ s.ref[s.refs[h]].st \notin {"none", "reaped"}

Retention(s) ==
    \A pk \in Pubs, r \in Loads : s.current[pk] = r <=> pk \in s.ref[r].retainedBy

UseIsSafe(s) ==
    \A r \in Loads : InUse(s.ref[r]) => s.ref[r].st \notin {"none", "reaped"}

\* What is queued for destruction exists and is queued at its infohash.
Destructions(s) ==
    \A h \in Infohashes : \A i \in 1..Len(s.tail[h]) :
        LET o == s.tail[h][i] IN
        o.op # "acquire" => /\ s.ref[o.id].ih = h
                            /\ s.ref[o.id].st # "none"
                            /\ o.op = "rm" => s.ref[o.id].st = "reaped"

LifeInv(s) == /\ s \in Life
              /\ Registration(s)
              /\ Retention(s)
              /\ UseIsSafe(s)
              /\ Destructions(s)

\* What the synchronous methods leave alone: the torrents, the readers, the
\* registration of owned torrents, and what is queued already.
FrameRef(s, t) ==
    \A r \in Loads : /\ t.ref[r].readers = s.ref[r].readers
                     /\ t.ref[r].st = s.ref[r].st
                     /\ t.ref[r].ih = s.ref[r].ih
                     /\ t.ref[r].owned = s.ref[r].owned
FrameRefs(s, t) ==
    \A h \in Infohashes : t.refs[h] # s.refs[h] =>
        t.refs[h] = NoRef /\ ~s.ref[s.refs[h]].owned
FrameTail(s, t) ==
    \A h \in Infohashes :
        /\ Len(t.tail[h]) >= Len(s.tail[h])
        /\ \A i \in 1..Len(s.tail[h]) : t.tail[h][i] = s.tail[h][i]
        /\ \A i \in 1..Len(t.tail[h]) : i > Len(s.tail[h]) =>
              /\ t.tail[h][i].op = "destroy"
              /\ s.ref[t.tail[h][i].id].ih = h
              /\ s.ref[t.tail[h][i].id].st # "none"
Frame(s, t) == FrameRef(s, t) /\ FrameRefs(s, t) /\ FrameTail(s, t)

\* When the use of an owned torrent ends its destruction is queued.
Pending(s, r) ==
    \E i \in 1..Len(s.tail[s.ref[r].ih]) :
        s.tail[s.ref[r].ih][i].op # "acquire" /\ s.tail[s.ref[r].ih][i].id = r
Ends(s, t) ==
    \A r \in Loads : s.ref[r].owned /\ InUse(s.ref[r]) /\ ~InUse(t.ref[r]) => Pending(t, r)

\* One of the operations of q destroys r or empties its directory.
Condemned(q, r) == \E i \in 1..Len(q) : q[i].op # "acquire" /\ q[i].id = r

LEMMA PendingIn ==
    ASSUME NEW s, NEW r, NEW g, g = s.ref[r].ih
    PROVE  Pending(s, r) <=> Condemned(s.tail[g], r)
BY DEF Pending, Condemned

LEMMA LifeType ==
    ASSUME NEW s \in Life
    PROVE  /\ s.ref \in [Loads -> Ref] /\ s.refs \in [Infohashes -> Loads \cup {NoRef}]
           /\ s.current \in [Pubs -> Loads \cup {NoRef}]
           /\ s.tail \in [Infohashes -> Seq(Op)]
           /\ \A r \in Loads : /\ s.ref[r] \in Ref
                               /\ s.ref[r].ih \in Infohashes
                               /\ s.ref[r].readers \in Nat
                               /\ s.ref[r].retainedBy \subseteq Pubs
                               /\ s.ref[r].owned \in BOOLEAN
           /\ \A h \in Infohashes : /\ s.refs[h] \in Loads \cup {NoRef}
                                    /\ s.tail[h] \in Seq(Op)
                                    /\ Len(s.tail[h]) \in Nat
                                    /\ \A i \in 1..Len(s.tail[h]) :
                                         s.tail[h][i] \in Op /\ s.tail[h][i].id \in Loads
           /\ \A pk \in Pubs : s.current[pk] \in Loads \cup {NoRef}
<1>1. /\ s.ref \in [Loads -> Ref] /\ s.refs \in [Infohashes -> Loads \cup {NoRef}]
      /\ s.current \in [Pubs -> Loads \cup {NoRef}]
      /\ s.tail \in [Infohashes -> Seq(Op)]
  BY DEF Life
<1>2. \A r \in Loads : s.ref[r] \in Ref
  BY <1>1
<1>3. \A h \in Infohashes : s.tail[h] \in Seq(Op) /\ Len(s.tail[h]) \in Nat
  BY <1>1
<1>4. \A h \in Infohashes : \A i \in 1..Len(s.tail[h]) : s.tail[h][i] \in Op
  BY <1>3
<1>5. \A o \in Op : o.id \in Loads
  BY DEF Op
<1> QED  BY <1>1, <1>2, <1>3, <1>4, <1>5 DEF Ref


\* What the parts of the invariant and of the frame say of one place in a queue.
Doomed(s, o, h) == s.ref[o.id].ih = h /\ s.ref[o.id].st # "none"
Emptied(s, o) == o.op = "rm" => s.ref[o.id].st = "reaped"

LEMMA DestructionsAt ==
    ASSUME NEW s, Destructions(s), NEW h \in Infohashes, NEW i \in 1..Len(s.tail[h]),
           s.tail[h][i].op # "acquire"
    PROVE  Doomed(s, s.tail[h][i], h) /\ Emptied(s, s.tail[h][i])
BY DEF Destructions, Doomed, Emptied

LEMMA DestructionsIntro ==
    ASSUME NEW s,
           \A h \in Infohashes : \A i \in 1..Len(s.tail[h]) :
              s.tail[h][i].op # "acquire" =>
                 Doomed(s, s.tail[h][i], h) /\ Emptied(s, s.tail[h][i])
    PROVE  Destructions(s)
<1>1. ASSUME NEW h \in Infohashes, NEW i \in 1..Len(s.tail[h]), s.tail[h][i].op # "acquire"
      PROVE  /\ s.ref[s.tail[h][i].id].ih = h
             /\ s.ref[s.tail[h][i].id].st # "none"
             /\ s.tail[h][i].op = "rm" => s.ref[s.tail[h][i].id].st = "reaped"
  <2>1. Doomed(s, s.tail[h][i], h) /\ Emptied(s, s.tail[h][i])
    BY <1>1
  <2> QED  BY <2>1 DEF Doomed, Emptied
<1> QED  BY <1>1 DEF Destructions

LEMMA FrameTailAt ==
    ASSUME NEW s, NEW t, FrameTail(s, t), NEW h \in Infohashes
    PROVE  /\ Len(t.tail[h]) >= Len(s.tail[h])
           /\ \A i \in 1..Len(s.tail[h]) : t.tail[h][i] = s.tail[h][i]
           /\ \A i \in 1..Len(t.tail[h]) : i > Len(s.tail[h]) =>
                 t.tail[h][i].op = "destroy" /\ Doomed(s, t.tail[h][i], h)
BY DEF FrameTail, Doomed

LEMMA FrameTailIntro ==
    ASSUME NEW s, NEW t,
           \A h \in Infohashes :
              /\ Len(t.tail[h]) >= Len(s.tail[h])
              /\ \A i \in 1..Len(s.tail[h]) : t.tail[h][i] = s.tail[h][i]
              /\ \A i \in 1..Len(t.tail[h]) : i > Len(s.tail[h]) =>
                    t.tail[h][i].op = "destroy" /\ Doomed(s, t.tail[h][i], h)
    PROVE  FrameTail(s, t)
BY DEF FrameTail, Doomed

\* The torrents of t are those of s, and as far.
SameTorrents(s, t) == \A r \in Loads : t.ref[r].st = s.ref[r].st /\ t.ref[r].ih = s.ref[r].ih

LEMMA FrameTailRefl ==
    ASSUME NEW s \in Life, NEW t, t.tail = s.tail
    PROVE  FrameTail(s, t)
<1>1. ASSUME NEW h \in Infohashes
      PROVE  /\ Len(t.tail[h]) >= Len(s.tail[h])
             /\ \A i \in 1..Len(t.tail[h]) : ~(i > Len(s.tail[h]))
  <2>1. Len(s.tail[h]) \in Nat
    BY LifeType
  <2> QED  BY <2>1
<1> QED  BY <1>1, FrameTailIntro

LEMMA DoomedSame ==
    ASSUME NEW s, NEW t, SameTorrents(s, t), NEW o, o.id \in Loads, NEW h
    PROVE  /\ Doomed(t, o, h) <=> Doomed(s, o, h)
           /\ Emptied(t, o) <=> Emptied(s, o)
<1>1. t.ref[o.id].st = s.ref[o.id].st /\ t.ref[o.id].ih = s.ref[o.id].ih
  BY DEF SameTorrents
<1>2. Doomed(t, o, h) <=> Doomed(s, o, h)
  BY <1>1 DEF Doomed
<1>3. Emptied(t, o) <=> Emptied(s, o)
  BY <1>1 DEF Emptied
<1> QED  BY <1>2, <1>3

LEMMA DestructionsSame ==
    ASSUME NEW s \in Life, NEW t, Destructions(s), t.tail = s.tail, SameTorrents(s, t)
    PROVE  Destructions(t)
<1>1. ASSUME NEW h \in Infohashes, NEW i \in 1..Len(t.tail[h]), t.tail[h][i].op # "acquire"
      PROVE  Doomed(t, t.tail[h][i], h) /\ Emptied(t, t.tail[h][i])
  <2>1. PICK o : o = t.tail[h][i]
    OBVIOUS
  <2>2. i \in 1..Len(s.tail[h]) /\ s.tail[h][i] = o
    BY <2>1
  <2>3. o.id \in Loads
    BY <2>2, LifeType
  <2>4. Doomed(s, o, h) /\ Emptied(s, o)
    BY <1>1, <2>1, <2>2, DestructionsAt
  <2>5. Doomed(t, o, h) /\ Emptied(t, o)
    BY <2>3, <2>4, DoomedSame
  <2> QED  BY <2>1, <2>5
<1> QED  BY <1>1, DestructionsIntro

\* What was bound to be destroyed is so still, or has been.
StillDoomed(s, t) ==
    \A o \in Op, h \in Infohashes :
        Doomed(s, o, h) /\ Emptied(s, o) => Doomed(t, o, h) /\ Emptied(t, o)

LEMMA DestructionsFrom ==
    ASSUME NEW s \in Life, NEW t, Destructions(s), StillDoomed(s, t),
           \A h \in Infohashes : \A i \in 1..Len(t.tail[h]) :
              t.tail[h][i].op # "acquire" =>
                 \/ \E j \in 1..Len(s.tail[h]) : t.tail[h][i] = s.tail[h][j]
                 \/ Doomed(t, t.tail[h][i], h) /\ Emptied(t, t.tail[h][i])
    PROVE  Destructions(t)
<1>1. ASSUME NEW h \in Infohashes, NEW i \in 1..Len(t.tail[h]), t.tail[h][i].op # "acquire",
             NEW j \in 1..Len(s.tail[h]), t.tail[h][i] = s.tail[h][j]
      PROVE  Doomed(t, t.tail[h][i], h) /\ Emptied(t, t.tail[h][i])
  <2>1. PICK o : o = t.tail[h][i]
    OBVIOUS
  <2>2. o = s.tail[h][j] /\ o.op # "acquire"
    BY <1>1, <2>1
  <2>3. o \in Op
    BY <2>2, LifeType
  <2>4. Doomed(s, o, h) /\ Emptied(s, o)
    BY <2>2, DestructionsAt
  <2>5. Doomed(t, o, h) /\ Emptied(t, o)
    BY <2>3, <2>4 DEF StillDoomed
  <2> QED  BY <2>1, <2>5
<1>2. \A h \in Infohashes : \A i \in 1..Len(t.tail[h]) :
         t.tail[h][i].op # "acquire" => Doomed(t, t.tail[h][i], h) /\ Emptied(t, t.tail[h][i])
  BY <1>1
<1> QED  BY <1>2, DestructionsIntro

\* The queues that extend those of d extend those of s, which are the same.
LEMMA FrameTailSame ==
    ASSUME NEW s, NEW d, NEW t \in Life, FrameTail(d, t), d.tail = s.tail, SameTorrents(s, d)
    PROVE  FrameTail(s, t)
<1>1. ASSUME NEW h \in Infohashes
      PROVE  /\ Len(t.tail[h]) >= Len(s.tail[h])
             /\ \A i \in 1..Len(s.tail[h]) : t.tail[h][i] = s.tail[h][i]
  BY FrameTailAt
<1>2. ASSUME NEW h \in Infohashes, NEW i \in 1..Len(t.tail[h]), i > Len(s.tail[h])
      PROVE  t.tail[h][i].op = "destroy" /\ Doomed(s, t.tail[h][i], h)
  <2>1. i > Len(d.tail[h])
    BY <1>2
  <2>2. t.tail[h][i].op = "destroy" /\ Doomed(d, t.tail[h][i], h)
    BY <2>1, FrameTailAt
  <2>3. t.tail[h][i].id \in Loads
    BY LifeType
  <2> QED  BY <2>2, <2>3, DoomedSame
<1> QED  BY <1>1, <1>2, FrameTailIntro

\* f with the set of retaining publishers of r replaced.
With(f, r, X) == [f EXCEPT ![r].retainedBy = X]

LEMMA WithRetained ==
    ASSUME NEW f \in [Loads -> Ref], NEW r \in Loads, NEW X \in SUBSET Pubs
    PROVE  /\ With(f, r, X) \in [Loads -> Ref]
           /\ \A q \in Loads :
                /\ With(f, r, X)[q].retainedBy = IF q = r THEN X ELSE f[q].retainedBy
                /\ With(f, r, X)[q].readers = f[q].readers
                /\ With(f, r, X)[q].st = f[q].st
                /\ With(f, r, X)[q].ih = f[q].ih
                /\ With(f, r, X)[q].owned = f[q].owned
<1> DEFINE new == [f[r] EXCEPT !.retainedBy = X]
<1>1. f[r] \in Ref
  OBVIOUS
<1>2. /\ new \in Ref /\ new.retainedBy = X
      /\ new.readers = f[r].readers /\ new.st = f[r].st
      /\ new.ih = f[r].ih /\ new.owned = f[r].owned
  BY <1>1 DEF Ref
<1>3. With(f, r, X) = [f EXCEPT ![r] = new]
  BY DEF With
<1> HIDE DEF new
<1>4. \A q \in Loads : With(f, r, X)[q] = IF q = r THEN new ELSE f[q]
  BY <1>3
<1> QED  BY <1>2, <1>3, <1>4

LEMMA FrameTrans ==
    ASSUME NEW s \in Life, NEW t \in Life, NEW u \in Life, Frame(s, t), Frame(t, u)
    PROVE  Frame(s, u)
<1>1. FrameRef(s, u)
  BY DEF Frame, FrameRef
<1>2. FrameRefs(s, u)
  <2> SUFFICES ASSUME NEW h \in Infohashes, u.refs[h] # s.refs[h]
               PROVE  u.refs[h] = NoRef /\ ~s.ref[s.refs[h]].owned
    BY DEF FrameRefs
  <2>1. s.refs[h] \in Loads \cup {NoRef}
    BY LifeType
  <2>2. CASE t.refs[h] = s.refs[h]
    BY <2>1, <2>2 DEF Frame, FrameRef, FrameRefs
  <2>3. CASE t.refs[h] # s.refs[h]
    BY <2>3 DEF Frame, FrameRefs
  <2> QED  BY <2>2, <2>3
<1>3. FrameTail(s, u)
  <2>f. FrameTail(s, t) /\ FrameTail(t, u) /\ FrameRef(s, t)
    BY DEF Frame
  <2>s. SameTorrents(s, t)
    BY <2>f DEF FrameRef, SameTorrents
  <2>1. ASSUME NEW h \in Infohashes
        PROVE  /\ Len(s.tail[h]) \in Nat /\ Len(t.tail[h]) \in Nat /\ Len(u.tail[h]) \in Nat
               /\ Len(t.tail[h]) >= Len(s.tail[h]) /\ Len(u.tail[h]) >= Len(t.tail[h])
               /\ \A i \in 1..Len(s.tail[h]) : t.tail[h][i] = s.tail[h][i]
               /\ \A i \in 1..Len(t.tail[h]) : u.tail[h][i] = t.tail[h][i]
    BY <2>f, FrameTailAt, LifeType
  <2>2. ASSUME NEW h \in Infohashes
        PROVE  /\ Len(u.tail[h]) >= Len(s.tail[h])
               /\ \A i \in 1..Len(s.tail[h]) : u.tail[h][i] = s.tail[h][i]
    <3>1. Len(u.tail[h]) >= Len(s.tail[h])
      BY <2>1
    <3>2. ASSUME NEW i \in 1..Len(s.tail[h])
          PROVE  u.tail[h][i] = s.tail[h][i]
      <4>1. i \in 1..Len(t.tail[h])
        BY <2>1
      <4>2. u.tail[h][i] = t.tail[h][i]
        BY <2>1, <4>1, Zenon
      <4>3. t.tail[h][i] = s.tail[h][i]
        BY <2>1, Zenon
      <4> QED  BY <4>2, <4>3
    <3> QED  BY <3>1, <3>2
  <2>3. ASSUME NEW h \in Infohashes, NEW i \in 1..Len(u.tail[h]), i > Len(s.tail[h])
        PROVE  u.tail[h][i].op = "destroy" /\ Doomed(s, u.tail[h][i], h)
    <3>1. CASE i > Len(t.tail[h])
      <4>1. u.tail[h][i].op = "destroy" /\ Doomed(t, u.tail[h][i], h)
        BY <2>f, <3>1, FrameTailAt
      <4>2. u.tail[h][i].id \in Loads
        BY LifeType
      <4> QED  BY <4>1, <4>2, <2>s, DoomedSame
    <3>2. CASE i \in 1..Len(t.tail[h])
      <4>1. u.tail[h][i] = t.tail[h][i]
        BY <2>1, <3>2, Zenon
      <4>2. t.tail[h][i].op = "destroy" /\ Doomed(s, t.tail[h][i], h)
        BY <2>f, <2>3, <3>2, FrameTailAt
      <4> QED  BY <4>1, <4>2
    <3>3. i > Len(t.tail[h]) \/ i \in 1..Len(t.tail[h])
      BY <2>1
    <3> QED  BY <3>1, <3>2, <3>3
  <2> QED  BY <2>2, <2>3, FrameTailIntro
<1> QED  BY <1>1, <1>2, <1>3 DEF Frame

\* A method that keeps the frame, the retention relation and the safety of what
\* is used keeps the whole invariant.
LEMMA FrameInv ==
    ASSUME NEW s, LifeInv(s), NEW t \in Life, Frame(s, t), Retention(t), UseIsSafe(t)
    PROVE  LifeInv(t)
<1>0. s \in Life /\ Registration(s) /\ Destructions(s)
  BY DEF LifeInv
<1>f. FrameRef(s, t) /\ FrameRefs(s, t) /\ FrameTail(s, t)
  BY DEF Frame
<1>s. SameTorrents(s, t)
  BY <1>f DEF FrameRef, SameTorrents
<1>1. Registration(t)
  <2> SUFFICES ASSUME NEW h \in Infohashes, t.refs[h] # NoRef
               PROVE  t.ref[t.refs[h]].ih = h /\ t.ref[t.refs[h]].st \notin {"none", "reaped"}
    BY DEF Registration
  <2>1. t.refs[h] = s.refs[h]
    BY <1>f DEF FrameRefs
  <2>2. t.refs[h] \in Loads
    BY LifeType
  <2>3. s.ref[s.refs[h]].ih = h /\ s.ref[s.refs[h]].st \notin {"none", "reaped"}
    BY <1>0, <2>1 DEF Registration
  <2> QED  BY <2>1, <2>2, <2>3, <1>s DEF SameTorrents
<1>2. Destructions(t)
  <2>1. ASSUME NEW h \in Infohashes, NEW i \in 1..Len(t.tail[h]), t.tail[h][i].op # "acquire"
        PROVE  Doomed(t, t.tail[h][i], h) /\ Emptied(t, t.tail[h][i])
    <3>1. /\ Len(s.tail[h]) \in Nat /\ Len(t.tail[h]) \in Nat /\ t.tail[h][i].id \in Loads
      BY <1>0, LifeType
    <3>2. CASE i > Len(s.tail[h])
      <4>1. t.tail[h][i].op = "destroy" /\ Doomed(s, t.tail[h][i], h)
        BY <1>f, <3>2, FrameTailAt
      <4>2. Doomed(t, t.tail[h][i], h)
        BY <4>1, <3>1, <1>s, DoomedSame
      <4> QED  BY <4>1, <4>2 DEF Emptied
    <3>3. CASE i \in 1..Len(s.tail[h])
      <4>1. t.tail[h][i] = s.tail[h][i]
        BY <1>f, <3>3, FrameTailAt
      <4>2. Doomed(s, s.tail[h][i], h) /\ Emptied(s, s.tail[h][i])
        BY <1>0, <2>1, <3>3, <4>1, DestructionsAt
      <4>3. Doomed(s, t.tail[h][i], h) /\ Emptied(s, t.tail[h][i])
        BY <4>1, <4>2
      <4> QED  BY <4>3, <3>1, <1>s, DoomedSame
    <3>4. i > Len(s.tail[h]) \/ i \in 1..Len(s.tail[h])
      BY <3>1
    <3> QED  BY <3>2, <3>3, <3>4
  <2> QED  BY <2>1, DestructionsIntro
<1> QED  BY <1>1, <1>2 DEF LifeInv

LEMMA MaybeDestroyFrame ==
    ASSUME NEW s \in Life, NEW r \in Loads, s.ref[r].st # "none"
    PROVE  LET t == MaybeDestroy(s, r) IN
           t \in Life /\ Frame(s, t) /\ t.ref = s.ref /\ t.current = s.current
<1>0. /\ s.ref \in [Loads -> Ref] /\ s.refs \in [Infohashes -> Loads \cup {NoRef}]
      /\ s.current \in [Pubs -> Loads \cup {NoRef}]
      /\ s.tail \in [Infohashes -> Seq(Op)]
      /\ s.ref[r].ih \in Infohashes
  BY LifeType
<1>h. PICK h \in Infohashes : h = s.ref[r].ih
  BY <1>0
<1>t. PICK t : t = MaybeDestroy(s, r)
  OBVIOUS
<1>1. CASE InUse(s.ref[r])
  <2>1. t = s
    BY <1>1, <1>t DEF MaybeDestroy
  <2>2. Frame(s, s)
    BY <1>0, LifeType DEF Frame, FrameRef, FrameRefs, FrameTail
  <2> QED  BY <2>1, <2>2, <1>t, Zenon
<1>2. CASE ~InUse(s.ref[r]) /\ s.ref[r].owned
  <2> DEFINE o == [op |-> "destroy", id |-> r]
  <2>1. t = [s EXCEPT !.tail[h] = Append(@, o)]
    BY <1>2, <1>h, <1>t DEF MaybeDestroy
  <2>2. o \in Op /\ o.op = "destroy" /\ o.id = r
    BY DEF Op
  <2>n. \A k \in Infohashes : Len(s.tail[k]) \in Nat
    BY <1>0
  <2> HIDE DEF o
  <2>3. /\ t \in Life /\ t.ref = s.ref /\ t.refs = s.refs /\ t.current = s.current
        /\ \A k \in Infohashes : t.tail[k] = IF k = h THEN Append(s.tail[h], o) ELSE s.tail[k]
    <3>1. /\ t.ref = s.ref /\ t.refs = s.refs /\ t.current = s.current
          /\ t.tail = [s.tail EXCEPT ![h] = Append(s.tail[h], o)]
          /\ t = [ref |-> t.ref, refs |-> t.refs, current |-> t.current, tail |-> t.tail]
      BY <1>0, <2>1 DEF Life
    <3>2. Append(s.tail[h], o) \in Seq(Op)
      BY <1>0, <2>2, AppendProperties
    <3>3. t.tail \in [Infohashes -> Seq(Op)]
      BY <1>0, <3>1, <3>2
    <3>4. t \in Life
      BY <1>0, <3>1, <3>3 DEF Life
    <3> QED  BY <1>0, <3>1, <3>4
  <2>4. \A k \in Infohashes : k # h => t.tail[k] = s.tail[k]
    BY <2>3
  <2>5. t.tail[h] = Append(s.tail[h], o) /\ Len(t.tail[h]) = Len(s.tail[h]) + 1
        /\ t.tail[h][Len(s.tail[h]) + 1] = o
        /\ \A i \in 1..Len(s.tail[h]) : t.tail[h][i] = s.tail[h][i]
    <3>1. s.tail[h] \in Seq(Op) /\ t.tail[h] = Append(s.tail[h], o)
      BY <1>0, <2>3
    <3> QED  BY <3>1, <2>2, AppendProperties
  <2>7. Frame(s, t)
    <3>1. ASSUME NEW k \in Infohashes
          PROVE  /\ Len(t.tail[k]) >= Len(s.tail[k])
                 /\ \A i \in 1..Len(s.tail[k]) : t.tail[k][i] = s.tail[k][i]
                 /\ \A i \in 1..Len(t.tail[k]) : i > Len(s.tail[k]) =>
                      /\ t.tail[k][i].op = "destroy"
                      /\ s.ref[t.tail[k][i].id].ih = k
                      /\ s.ref[t.tail[k][i].id].st # "none"
      <4>1. CASE k = h
        <5>1. Len(s.tail[h]) \in Nat
          BY <2>n
        <5>2. \A i \in 1..Len(t.tail[h]) : i > Len(s.tail[h]) => t.tail[h][i] = o
          BY <5>1, <2>5
        <5>3. s.ref[o.id].ih = h /\ s.ref[o.id].st # "none"
          BY <2>2, <1>h
        <5>4. \A i \in 1..Len(t.tail[h]) : i > Len(s.tail[h]) =>
                 /\ t.tail[h][i].op = "destroy"
                 /\ s.ref[t.tail[h][i].id].ih = h
                 /\ s.ref[t.tail[h][i].id].st # "none"
          BY <5>2, <5>3, <2>2
        <5>5. Len(t.tail[h]) >= Len(s.tail[h])
          BY <5>1, <2>5
        <5> QED  BY <4>1, <5>4, <5>5, <2>5
      <4>2. CASE k # h
        <5>1. t.tail[k] = s.tail[k] /\ Len(s.tail[k]) \in Nat
          BY <4>2, <2>n, <2>4
        <5>2. Len(t.tail[k]) >= Len(s.tail[k])
          BY <5>1
        <5>3. ASSUME NEW i \in 1..Len(t.tail[k])
              PROVE  ~(i > Len(s.tail[k])) /\ t.tail[k][i] = s.tail[k][i]
          BY <5>1
        <5> QED  BY <5>1, <5>2, <5>3
      <4> QED  BY <4>1, <4>2
    <3> QED  BY <3>1, <2>3 DEF Frame, FrameRef, FrameRefs, FrameTail
  <2> QED
    BY <2>3, <2>7, <1>t
<1>3. CASE ~InUse(s.ref[r]) /\ ~s.ref[r].owned
  <2>1. t = [s EXCEPT !.refs[h] = IF @ = r THEN NoRef ELSE @]
    BY <1>3, <1>h, <1>t DEF MaybeDestroy
  <2>2. /\ t \in Life /\ t.ref = s.ref /\ t.tail = s.tail /\ t.current = s.current
        /\ \A k \in Infohashes :
             t.refs[k] = IF k = h /\ s.refs[h] = r THEN NoRef ELSE s.refs[k]
    BY <1>0, <2>1 DEF Life
  <2>3. Frame(s, t)
    <3>1. FrameRef(s, t)
      BY <2>2 DEF FrameRef
    <3>2. FrameRefs(s, t)
      BY <2>2, <1>3 DEF FrameRefs
    <3>3. FrameTail(s, t)
      BY <2>2, FrameTailRefl
    <3> QED  BY <3>1, <3>2, <3>3 DEF Frame
  <2> QED
    BY <2>2, <2>3, <1>t
<1> QED  BY <1>1, <1>2, <1>3

LEMMA MaybeDestroyEnds ==
    ASSUME NEW s \in Life, NEW r \in Loads, s.ref[r].owned, ~InUse(s.ref[r]),
           NEW t, t = MaybeDestroy(s, r)
    PROVE  Pending(t, r)
<1>h. PICK h \in Infohashes : h = s.ref[r].ih
  BY LifeType
<1>o. PICK o : o = [op |-> "destroy", id |-> r]
  OBVIOUS
<1>1. t = [s EXCEPT !.tail[h] = Append(@, o)]
  BY <1>h, <1>o DEF MaybeDestroy
<1>2. t.ref = s.ref /\ t.tail = [s.tail EXCEPT ![h] = Append(s.tail[h], o)]
  BY <1>1 DEF Life
<1>3. s.tail \in [Infohashes -> Seq(Op)] /\ s.tail[h] \in Seq(Op) /\ o \in Op
  BY <1>o, LifeType DEF Op
<1>4. t.tail[h] = Append(s.tail[h], o)
  BY <1>2, <1>3
<1>5. /\ Len(t.tail[h]) = Len(s.tail[h]) + 1 /\ Len(s.tail[h]) \in Nat
      /\ t.tail[h][Len(s.tail[h]) + 1] = o
  BY <1>3, <1>4, AppendProperties
<1>6. Len(s.tail[h]) + 1 \in 1..Len(t.tail[h])
  BY <1>5
<1>7. PICK i \in 1..Len(t.tail[h]) : t.tail[h][i] = o
  BY <1>5, <1>6
<1>8. t.ref[r].ih = h /\ o.op # "acquire" /\ o.id = r
  BY <1>2, <1>h, <1>o
<1> QED  BY <1>7, <1>8 DEF Pending

-----------------------------------------------------------------------------
LEMMA DropFields ==
    ASSUME NEW s \in Life, NEW pk \in Pubs, NEW prev \in Loads
    PROVE  LET d == Drop(s, prev, pk) IN
           /\ d \in Life /\ Frame(s, d) /\ d.current = s.current
           /\ \A q \in Loads : d.ref[q].retainedBy =
                IF q = prev THEN s.ref[q].retainedBy \ {pk} ELSE s.ref[q].retainedBy
<1>d. PICK d : d = Drop(s, prev, pk)
  OBVIOUS
<1>x. PICK X \in SUBSET Pubs : X = s.ref[prev].retainedBy \ {pk}
  BY LifeType
<1>c. /\ d.refs = s.refs /\ d.current = s.current /\ d.tail = s.tail
      /\ d.ref = With(s.ref, prev, X)
      /\ d = [ref |-> d.ref, refs |-> d.refs, current |-> d.current, tail |-> d.tail]
  BY <1>d, <1>x DEF Drop, Life, With
<1>e. /\ d.ref \in [Loads -> Ref]
      /\ \A q \in Loads :
            /\ d.ref[q].retainedBy = IF q = prev THEN X ELSE s.ref[q].retainedBy
            /\ d.ref[q].readers = s.ref[q].readers /\ d.ref[q].st = s.ref[q].st
            /\ d.ref[q].ih = s.ref[q].ih /\ d.ref[q].owned = s.ref[q].owned
  <2>1. s.ref \in [Loads -> Ref]
    BY LifeType
  <2> QED  BY <2>1, <1>c, WithRetained
<1>2. d \in Life /\ d.refs = s.refs /\ d.current = s.current /\ d.tail = s.tail
  BY <1>c, <1>e, LifeType DEF Life
<1>3. /\ FrameRef(s, d)
      /\ \A q \in Loads : d.ref[q].retainedBy =
           IF q = prev THEN s.ref[q].retainedBy \ {pk} ELSE s.ref[q].retainedBy
  BY <1>e, <1>x DEF FrameRef
<1>4. Frame(s, d)
  BY <1>2, <1>3, LifeType DEF Frame, FrameRefs, FrameTail
<1> QED  BY <1>d, <1>2, <1>3, <1>4

\* prev loses a publisher, and is destroyed if that was its last use.
LEMMA DropFrame ==
    ASSUME NEW s \in Life, NEW pk \in Pubs, NEW prev \in Loads, s.ref[prev].st # "none"
    PROVE  LET t == MaybeDestroy(Drop(s, prev, pk), prev) IN
           /\ t \in Life /\ Frame(s, t) /\ Ends(s, t) /\ t.current = s.current
           /\ \A q \in Loads : t.ref[q].retainedBy =
                IF q = prev THEN s.ref[q].retainedBy \ {pk} ELSE s.ref[q].retainedBy
<1>d. PICK d : d = Drop(s, prev, pk)
  OBVIOUS
<1>1. /\ d \in Life /\ Frame(s, d) /\ d.current = s.current
      /\ \A q \in Loads : d.ref[q].retainedBy =
           IF q = prev THEN s.ref[q].retainedBy \ {pk} ELSE s.ref[q].retainedBy
  <2>1. LET e == Drop(s, prev, pk) IN
        /\ e \in Life /\ Frame(s, e) /\ e.current = s.current
        /\ \A q \in Loads : e.ref[q].retainedBy =
             IF q = prev THEN s.ref[q].retainedBy \ {pk} ELSE s.ref[q].retainedBy
    BY DropFields, Zenon
  <2> QED  BY <2>1, <1>d
<1>2. d.ref[prev].st # "none"
  BY <1>1 DEF Frame, FrameRef
<1>t. PICK t : t = MaybeDestroy(d, prev)
  OBVIOUS
<1>3. t \in Life /\ Frame(d, t) /\ t.ref = d.ref /\ t.current = d.current
  <2>1. LET u == MaybeDestroy(d, prev) IN
        u \in Life /\ Frame(d, u) /\ u.ref = d.ref /\ u.current = d.current
    BY <1>1, <1>2, MaybeDestroyFrame
  <2> QED  BY <2>1, <1>t
<1>4. Frame(s, t)
  BY <1>1, <1>3, FrameTrans
<1>5. Ends(s, t)
  <2> SUFFICES ASSUME NEW q \in Loads, s.ref[q].owned, InUse(s.ref[q]), ~InUse(t.ref[q])
               PROVE  Pending(t, q)
    BY DEF Ends
  <2>1. q = prev
    <3>1. t.ref[q].readers = s.ref[q].readers
      BY <1>1, <1>3 DEF Frame, FrameRef
    <3>2. t.ref[q].retainedBy # s.ref[q].retainedBy
      BY <3>1 DEF InUse
    <3> QED  BY <3>2, <1>1, <1>3
  <2>2. d.ref[prev].owned /\ ~InUse(d.ref[prev])
    BY <2>1, <1>1, <1>3 DEF Frame, FrameRef
  <2> QED  BY <2>1, <2>2, <1>1, <1>t, MaybeDestroyEnds
<1> QED  BY <1>d, <1>t, <1>1, <1>3, <1>4, <1>5

\* retain, for a ref that is held, and not current already.
LEMMA RetainInv ==
    ASSUME NEW s, LifeInv(s), NEW pk \in Pubs, NEW r \in Loads,
           s.ref[r].readers > 0, s.current[pk] # r
    PROVE  LET t == Retain(s, pk, r) IN
           t \in Life /\ Frame(s, t) /\ LifeInv(t) /\ Ends(s, t)
<1>0. s \in Life /\ Retention(s) /\ UseIsSafe(s)
  BY DEF LifeInv
<1>t. PICK t : t = Retain(s, pk, r)
  OBVIOUS
<1>p. PICK prev : prev = s.current[pk]
  OBVIOUS
\* s1 is s after prev lost its retention.
<1>1. PICK s1 \in Life :
        /\ s1 = IF prev = NoRef THEN s ELSE MaybeDestroy(Drop(s, prev, pk), prev)
        /\ Frame(s, s1) /\ Ends(s, s1) /\ s1.current = s.current
        /\ \A q \in Loads : s1.ref[q].retainedBy =
             IF q = prev THEN s.ref[q].retainedBy \ {pk} ELSE s.ref[q].retainedBy
  <2>1. CASE prev = NoRef
    <3>1. Frame(s, s) /\ Ends(s, s)
      BY <1>0, LifeType DEF Frame, FrameRef, FrameRefs, FrameTail, Ends
    <3> QED  BY <3>1, <2>1, <1>0, NullsAssumption
  <2>2. CASE prev # NoRef
    <3>1. prev \in Loads
      BY <2>2, <1>0, <1>p, LifeType
    <3>2. s.ref[prev].st # "none"
      <4>1. pk \in s.ref[prev].retainedBy
        BY <1>0, <1>p, <3>1 DEF Retention
      <4> QED  BY <4>1, <1>0, <3>1 DEF UseIsSafe, InUse
    <3>3. PICK u : u = MaybeDestroy(Drop(s, prev, pk), prev)
      OBVIOUS
    <3>4. /\ u \in Life /\ Frame(s, u) /\ Ends(s, u) /\ u.current = s.current
          /\ \A q \in Loads : u.ref[q].retainedBy =
               IF q = prev THEN s.ref[q].retainedBy \ {pk} ELSE s.ref[q].retainedBy
      <4>1. LET v == MaybeDestroy(Drop(s, prev, pk), prev) IN
            /\ v \in Life /\ Frame(s, v) /\ Ends(s, v) /\ v.current = s.current
            /\ \A q \in Loads : v.ref[q].retainedBy =
                 IF q = prev THEN s.ref[q].retainedBy \ {pk} ELSE s.ref[q].retainedBy
        BY <3>1, <3>2, <1>0, DropFrame, SMTT(60)
      <4> QED  BY <4>1, <3>3
    <3> QED  BY <3>3, <3>4, <2>2
  <2> QED  BY <2>1, <2>2
<1>2. t = [s1 EXCEPT !.ref[r].retainedBy = @ \cup {pk}, !.current[pk] = r]
  BY <1>t, <1>p, <1>1 DEF Retain
<1>x. PICK X \in SUBSET Pubs : X = s1.ref[r].retainedBy \cup {pk}
  BY <1>1, LifeType
<1>c. /\ t.refs = s1.refs /\ t.tail = s1.tail
      /\ t.current = [s1.current EXCEPT ![pk] = r]
      /\ t.ref = With(s1.ref, r, X)
      /\ t = [ref |-> t.ref, refs |-> t.refs, current |-> t.current, tail |-> t.tail]
  BY <1>2, <1>x DEF Life, With
<1>e. /\ t.ref \in [Loads -> Ref]
      /\ \A q \in Loads :
            /\ t.ref[q].retainedBy = IF q = r THEN X ELSE s1.ref[q].retainedBy
            /\ t.ref[q].readers = s1.ref[q].readers /\ t.ref[q].st = s1.ref[q].st
            /\ t.ref[q].ih = s1.ref[q].ih /\ t.ref[q].owned = s1.ref[q].owned
  <2>1. s1.ref \in [Loads -> Ref]
    BY <1>1, LifeType
  <2> QED  BY <2>1, <1>c, WithRetained
<1>3. /\ t \in Life /\ t.refs = s1.refs /\ t.tail = s1.tail
      /\ \A q \in Pubs : t.current[q] = IF q = pk THEN r ELSE s1.current[q]
  <2>1. s1.current \in [Pubs -> Loads \cup {NoRef}] /\ t.current \in [Pubs -> Loads \cup {NoRef}]
    BY <1>c, <1>1, LifeType
  <2>2. t \in Life
    BY <2>1, <1>c, <1>e, <1>1, LifeType DEF Life
  <2> QED  BY <2>1, <2>2, <1>c
<1>4. /\ FrameRef(s1, t)
      /\ \A q \in Loads : t.ref[q].retainedBy =
           IF q = r THEN s1.ref[q].retainedBy \cup {pk} ELSE s1.ref[q].retainedBy
  BY <1>e, <1>x DEF FrameRef
<1>5. Frame(s, t)
  <2>1. Frame(s1, t)
    <3>1. FrameRef(s1, t)
      BY <1>4
    <3>2. FrameRefs(s1, t)
      BY <1>3 DEF FrameRefs
    <3>3. s1.tail \in [Infohashes -> Seq(Op)]
      BY <1>1, LifeType
    <3>4. FrameTail(s1, t)
      BY <3>3, <1>3 DEF FrameTail
    <3> QED  BY <3>1, <3>2, <3>4 DEF Frame
  <2> QED  BY <2>1, <1>0, <1>1, <1>3, FrameTrans
<1>6. Retention(t)
  <2> SUFFICES ASSUME NEW p \in Pubs, NEW q \in Loads
               PROVE  t.current[p] = q <=> p \in t.ref[q].retainedBy
    BY DEF Retention
  <2>1. s.current[p] = q <=> p \in s.ref[q].retainedBy
    BY <1>0 DEF Retention
  <2>2. s1.current[p] = s.current[p]
    BY <1>1
  <2>3. prev \in Loads => (pk \in s.ref[prev].retainedBy)
    BY <1>0, <1>p DEF Retention
  <2>4. s.current[pk] = q <=> pk \in s.ref[q].retainedBy
    BY <1>0 DEF Retention
  <2>5. CASE p = pk
    BY <2>4, <2>5, <1>1, <1>3, <1>4, <1>p, ZenonT(90)
  <2>6. CASE p # pk
    <3>1. t.current[p] = s.current[p]
      BY <2>2, <2>6, <1>3
    <3>2. p \in t.ref[q].retainedBy <=> p \in s1.ref[q].retainedBy
      <4>1. t.ref[q].retainedBy = IF q = r THEN s1.ref[q].retainedBy \cup {pk}
                                           ELSE s1.ref[q].retainedBy
        BY <1>4
      <4> QED  BY <4>1, <2>6
    <3>3. p \in s1.ref[q].retainedBy <=> p \in s.ref[q].retainedBy
      BY <1>1, <2>6
    <3> QED  BY <2>1, <3>1, <3>2, <3>3
  <2> QED  BY <2>5, <2>6
<1>7. UseIsSafe(t)
  <2> SUFFICES ASSUME NEW q \in Loads, InUse(t.ref[q])
               PROVE  t.ref[q].st \notin {"none", "reaped"}
    BY DEF UseIsSafe
  <2>1. InUse(s.ref[q]) \/ q = r
    BY <1>0, <1>1, <1>4, <1>5, ZenonT(60) DEF InUse, Frame, FrameRef
  <2>2. InUse(s.ref[q])
    BY <2>1 DEF InUse
  <2> QED  BY <2>2, <1>0, <1>5 DEF UseIsSafe, Frame, FrameRef
<1>8. Ends(s, t)
  <2> SUFFICES ASSUME NEW q \in Loads, s.ref[q].owned, InUse(s.ref[q]), ~InUse(t.ref[q])
               PROVE  Pending(t, q)
    BY DEF Ends
  <2>1. ~InUse(s1.ref[q])
    BY <1>4 DEF InUse, FrameRef
  <2>2. Pending(s1, q)
    BY <2>1, <1>1 DEF Ends
  <2>3. t.tail = s1.tail /\ t.ref[q].ih = s1.ref[q].ih
    BY <1>c, <1>e
  <2> QED  BY <2>2, <2>3 DEF Pending
<1> QED  BY <1>3, <1>5, <1>6, <1>7, <1>8, <1>t, FrameInv

LEMMA RetireInv ==
    ASSUME NEW s, LifeInv(s), NEW key \in Keys
    PROVE  LET t == Retire(s, key) IN t \in Life /\ Frame(s, t) /\ LifeInv(t) /\ Ends(s, t)
<1>0. s \in Life /\ Retention(s) /\ UseIsSafe(s)
  BY DEF LifeInv
<1>k. PICK pk \in Pubs : pk = key[1]
  BY DEF Keys
<1>r. PICK r : r = s.current[pk]
  OBVIOUS
<1>1. CASE r = NoRef \/ s.ref[r].ih # key[2]
  <2>1. Retire(s, key) = s
    BY <1>1, <1>k, <1>r DEF Retire
  <2>2. Frame(s, s) /\ Ends(s, s)
    <3>1. FrameRef(s, s) /\ FrameRefs(s, s) /\ Ends(s, s)
      BY DEF FrameRef, FrameRefs, Ends
    <3>2. FrameTail(s, s)
      BY <1>0, FrameTailRefl
    <3> QED  BY <3>1, <3>2 DEF Frame
  <2> QED  BY <2>1, <2>2, <1>0
<1>2. CASE r # NoRef /\ s.ref[r].ih = key[2]
  <2>1. r \in Loads /\ pk \in s.ref[r].retainedBy
    BY <1>2, <1>0, <1>r, LifeType DEF Retention
  <2>2. s.ref[r].st # "none"
    BY <2>1, <1>0 DEF UseIsSafe, InUse
  <2>3. PICK d : d = [s EXCEPT !.current[pk] = NoRef]
    OBVIOUS
  <2>4. /\ d.ref = s.ref /\ d.refs = s.refs /\ d.tail = s.tail
        /\ d.current = [s.current EXCEPT ![pk] = NoRef]
        /\ d = [ref |-> d.ref, refs |-> d.refs, current |-> d.current, tail |-> d.tail]
    BY <2>3, <1>0 DEF Life
  <2>5. d \in Life
    BY <2>4, <1>0, LifeType DEF Life
  <2>6. Frame(s, d)
    <3>1. FrameRef(s, d) /\ FrameRefs(s, d)
      BY <2>4 DEF FrameRef, FrameRefs
    <3>2. FrameTail(s, d)
      BY <2>4, <1>0, FrameTailRefl
    <3> QED  BY <3>1, <3>2 DEF Frame
  <2>7. PICK t : t = MaybeDestroy(Drop(d, r, pk), r)
    OBVIOUS
  <2>8. /\ t \in Life /\ Frame(d, t) /\ Ends(d, t) /\ t.current = d.current
        /\ \A q \in Loads : t.ref[q].retainedBy =
             IF q = r THEN s.ref[q].retainedBy \ {pk} ELSE s.ref[q].retainedBy
    <3>1. LET v == MaybeDestroy(Drop(d, r, pk), r) IN
          /\ v \in Life /\ Frame(d, v) /\ Ends(d, v) /\ v.current = d.current
          /\ \A q \in Loads : v.ref[q].retainedBy =
               IF q = r THEN d.ref[q].retainedBy \ {pk} ELSE d.ref[q].retainedBy
      <4>1. d.ref[r].st # "none"
        BY <2>2, <2>4
      <4> QED  BY <4>1, <2>1, <2>5, DropFrame, ZenonT(90)
    <3> QED  BY <3>1, <2>4, <2>7
  <2>9. Frame(s, t)
    BY <2>5, <2>6, <2>8, <1>0, FrameTrans
  <2>10. Retention(t)
    <3> SUFFICES ASSUME NEW p \in Pubs, NEW q \in Loads
                 PROVE  t.current[p] = q <=> p \in t.ref[q].retainedBy
      BY DEF Retention
    <3>1. s.current[p] = q <=> p \in s.ref[q].retainedBy
      BY <1>0 DEF Retention
    <3>2. t.current[p] = IF p = pk THEN NoRef ELSE s.current[p]
      BY <2>4, <2>8, <1>0, LifeType
    <3>3. CASE p = pk
      BY <3>1, <3>2, <3>3, <2>8, <1>r, NullsAssumption
    <3>4. CASE p # pk
      BY <3>1, <3>2, <3>4, <2>8
    <3> QED  BY <3>3, <3>4
  <2>11. UseIsSafe(t)
    <3> SUFFICES ASSUME NEW q \in Loads, InUse(t.ref[q])
                 PROVE  t.ref[q].st \notin {"none", "reaped"}
      BY DEF UseIsSafe
    <3>1. InUse(s.ref[q])
      BY <2>8, <2>9 DEF InUse, Frame, FrameRef
    <3> QED  BY <3>1, <1>0, <2>9 DEF UseIsSafe, Frame, FrameRef
  <2>12. t = Retire(s, key)
    BY <2>7, <2>3, <1>2, <1>k, <1>r DEF Retire
  <2>13. Ends(s, t)
    BY <2>4, <2>8 DEF Ends
  <2> QED  BY <2>8, <2>9, <2>10, <2>11, <2>12, <2>13, FrameInv
<1> QED  BY <1>1, <1>2

\* What capTorrents evicts is registered, owned and idle.
LEMMA VictimsIdle ==
    ASSUME NEW s, NEW V \in Victims(s)
    PROVE  /\ V \subseteq Loads
           /\ \A r \in V : /\ \E h \in Infohashes : s.refs[h] = r
                           /\ s.ref[r].owned /\ s.ref[r].st = "live"
                           /\ s.ref[r].readers = 0
BY DEF Victims, OwnedLive

LEMMA EvictInv ==
    ASSUME NEW s, LifeInv(s), NEW V \in Victims(s)
    PROVE  LET t == Evict(s, V) IN
           /\ t \in Life /\ Frame(s, t) /\ LifeInv(t) /\ Ends(s, t)
           /\ \A r \in Loads :
                t.ref[r].retainedBy = IF r \in V THEN {} ELSE s.ref[r].retainedBy
<1>0. s \in Life /\ Registration(s) /\ Retention(s) /\ UseIsSafe(s)
  BY DEF LifeInv
<1>t. PICK t : t = Evict(s, V)
  OBVIOUS
<1>1. /\ t.refs = s.refs
      /\ t.ref = [r \in Loads |-> IF r \in V THEN [s.ref[r] EXCEPT !.retainedBy = {}]
                                           ELSE s.ref[r]]
      /\ t.current = [pk \in Pubs |-> IF s.current[pk] \in V THEN NoRef ELSE s.current[pk]]
      /\ t.tail = [h \in Infohashes |->
                    IF s.refs[h] \in V
                    THEN Append(s.tail[h], [op |-> "destroy", id |-> s.refs[h]])
                    ELSE s.tail[h]]
      /\ t = [ref |-> t.ref, refs |-> t.refs, current |-> t.current, tail |-> t.tail]
  BY <1>t, <1>0 DEF Evict, Life
<1>2. \A r \in Loads : /\ t.ref[r] \in Ref
                       /\ t.ref[r].retainedBy = IF r \in V THEN {} ELSE s.ref[r].retainedBy
                       /\ t.ref[r].readers = s.ref[r].readers
                       /\ t.ref[r].st = s.ref[r].st
                       /\ t.ref[r].ih = s.ref[r].ih
                       /\ t.ref[r].owned = s.ref[r].owned
  <2> SUFFICES ASSUME NEW r \in Loads
               PROVE  /\ t.ref[r] \in Ref
                      /\ t.ref[r].retainedBy = IF r \in V THEN {} ELSE s.ref[r].retainedBy
                      /\ t.ref[r].readers = s.ref[r].readers
                      /\ t.ref[r].st = s.ref[r].st
                      /\ t.ref[r].ih = s.ref[r].ih
                      /\ t.ref[r].owned = s.ref[r].owned
    OBVIOUS
  <2>1. s.ref[r] \in Ref
    BY <1>0, LifeType
  <2>2. CASE r \in V
    BY <2>1, <2>2, <1>1, SMTT(60) DEF Ref
  <2>3. CASE r \notin V
    BY <2>1, <2>3, <1>1
  <2> QED  BY <2>2, <2>3
<1>3. \A h \in Infohashes :
        /\ t.tail[h] \in Seq(Op)
        /\ Len(t.tail[h]) >= Len(s.tail[h])
        /\ \A i \in 1..Len(s.tail[h]) : t.tail[h][i] = s.tail[h][i]
        /\ \A i \in 1..Len(t.tail[h]) : i > Len(s.tail[h]) =>
              /\ t.tail[h][i].op = "destroy"
              /\ s.ref[t.tail[h][i].id].ih = h
              /\ s.ref[t.tail[h][i].id].st # "none"
  <2> SUFFICES ASSUME NEW h \in Infohashes
               PROVE  /\ t.tail[h] \in Seq(Op)
                      /\ Len(t.tail[h]) >= Len(s.tail[h])
                      /\ \A i \in 1..Len(s.tail[h]) : t.tail[h][i] = s.tail[h][i]
                      /\ \A i \in 1..Len(t.tail[h]) : i > Len(s.tail[h]) =>
                            /\ t.tail[h][i].op = "destroy"
                            /\ s.ref[t.tail[h][i].id].ih = h
                            /\ s.ref[t.tail[h][i].id].st # "none"
    OBVIOUS
  <2>1. s.tail[h] \in Seq(Op) /\ Len(s.tail[h]) \in Nat
    BY <1>0, LifeType
  <2>2. CASE s.refs[h] \notin V
    <3>1. t.tail[h] = s.tail[h]
      BY <2>2, <1>1
    <3>2. t.tail[h] \in Seq(Op) /\ Len(t.tail[h]) >= Len(s.tail[h])
      BY <2>1, <3>1
    <3>3. ASSUME NEW i \in 1..Len(t.tail[h])
          PROVE  ~(i > Len(s.tail[h])) /\ t.tail[h][i] = s.tail[h][i]
      BY <2>1, <3>1
    <3> QED  BY <3>1, <3>2, <3>3
  <2>3. CASE s.refs[h] \in V
    <3>1. PICK o : o = [op |-> "destroy", id |-> s.refs[h]]
      OBVIOUS
    <3>2. s.refs[h] \in Loads /\ s.refs[h] # NoRef
      BY <2>3, VictimsIdle, NullsAssumption
    <3>3. o \in Op /\ o.op = "destroy" /\ o.id = s.refs[h]
      BY <3>1, <3>2 DEF Op
    <3>4. t.tail[h] = Append(s.tail[h], o)
      BY <3>1, <2>3, <1>1
    <3>5. s.ref[o.id].ih = h /\ s.ref[o.id].st # "none"
      BY <3>2, <3>3, <1>0 DEF Registration
    <3>6. /\ t.tail[h] \in Seq(Op) /\ Len(t.tail[h]) = Len(s.tail[h]) + 1
          /\ \A i \in 1..Len(s.tail[h]) : t.tail[h][i] = s.tail[h][i]
          /\ t.tail[h][Len(s.tail[h]) + 1] = o
      BY <3>3, <3>4, <2>1, AppendProperties
    <3>7. \A i \in 1..Len(t.tail[h]) : i > Len(s.tail[h]) => t.tail[h][i] = o
      BY <3>6, <2>1
    <3>8. \A i \in 1..Len(t.tail[h]) : i > Len(s.tail[h]) =>
             /\ t.tail[h][i].op = "destroy"
             /\ s.ref[t.tail[h][i].id].ih = h
             /\ s.ref[t.tail[h][i].id].st # "none"
      BY <3>3, <3>5, <3>7
    <3>9. Len(t.tail[h]) >= Len(s.tail[h])
      BY <3>6, <2>1
    <3> QED  BY <3>6, <3>8, <3>9
  <2> QED  BY <2>2, <2>3
<1>4. t \in Life
  <2>1. t.ref \in [Loads -> Ref]
    BY <1>1, <1>2
  <2>2. t.current \in [Pubs -> Loads \cup {NoRef}]
    BY <1>0, <1>1, LifeType
  <2>3. t.tail \in [Infohashes -> Seq(Op)]
    <3>1. \A h \in Infohashes : t.tail[h] \in Seq(Op)
      BY <1>3
    <3>2. t.tail = [h \in Infohashes |-> t.tail[h]]
      BY <1>1
    <3> QED  BY <3>1, <3>2
  <2> QED  BY <2>1, <2>2, <2>3, <1>0, <1>1, LifeType DEF Life
<1>5. Frame(s, t)
  BY <1>1, <1>2, <1>3 DEF Frame, FrameRef, FrameRefs, FrameTail
<1>6. Retention(t)
  <2> SUFFICES ASSUME NEW p \in Pubs, NEW q \in Loads
               PROVE  t.current[p] = q <=> p \in t.ref[q].retainedBy
    BY DEF Retention
  <2>1. s.current[p] = q <=> p \in s.ref[q].retainedBy
    BY <1>0 DEF Retention
  <2>2. t.current[p] = IF s.current[p] \in V THEN NoRef ELSE s.current[p]
    BY <1>1
  <2> QED  BY <2>1, <2>2, <1>2, NullsAssumption
<1>7. UseIsSafe(t)
  <2> SUFFICES ASSUME NEW q \in Loads, InUse(t.ref[q])
               PROVE  t.ref[q].st \notin {"none", "reaped"}
    BY DEF UseIsSafe
  <2>1. InUse(s.ref[q])
    BY <1>2 DEF InUse
  <2> QED  BY <2>1, <1>0, <1>2 DEF UseIsSafe
<1>8. Ends(s, t)
  <2> SUFFICES ASSUME NEW q \in Loads, s.ref[q].owned, InUse(s.ref[q]), ~InUse(t.ref[q])
               PROVE  Pending(t, q)
    BY DEF Ends
  <2>1. q \in V
    BY <1>2 DEF InUse
  <2>2. PICK h \in Infohashes : s.refs[h] = q
    BY <2>1, VictimsIdle
  <2>3. s.ref[q].ih = h /\ t.ref[q].ih = h
    BY <2>2, <1>0, <1>2, NullsAssumption DEF Registration
  <2>o. PICK o : o = [op |-> "destroy", id |-> q]
    OBVIOUS
  <2>4. t.tail[h] = Append(s.tail[h], o)
    BY <2>1, <2>2, <2>o, <1>1
  <2>5. s.tail[h] \in Seq(Op) /\ Len(s.tail[h]) \in Nat /\ o \in Op
    BY <1>0, <2>o, LifeType DEF Op
  <2>6. Len(t.tail[h]) = Len(s.tail[h]) + 1 /\ t.tail[h][Len(s.tail[h]) + 1] = o
    BY <2>4, <2>5, AppendProperties
  <2>7. Len(s.tail[h]) + 1 \in 1..Len(t.tail[h])
    BY <2>5, <2>6
  <2> QED  BY <2>3, <2>6, <2>7, <2>o, SMTT(60) DEF Pending
<1> QED  BY <1>2, <1>4, <1>5, <1>6, <1>7, <1>8, <1>t, FrameInv

-----------------------------------------------------------------------------
(***************************************************************************)
(* Updates of the torrents themselves.                                     *)
(***************************************************************************)
\* One field of one ref replaced: the number of readers, or the torrent's state.
Readers(f, r, n) == [f EXCEPT ![r].readers = n]
State(f, r, x) == [f EXCEPT ![r].st = x]

LEMMA ReadersProperties ==
    ASSUME NEW f \in [Loads -> Ref], NEW r \in Loads, NEW n \in Nat
    PROVE  /\ Readers(f, r, n) \in [Loads -> Ref]
           /\ \A q \in Loads :
                /\ Readers(f, r, n)[q].readers = IF q = r THEN n ELSE f[q].readers
                /\ Readers(f, r, n)[q].retainedBy = f[q].retainedBy
                /\ Readers(f, r, n)[q].st = f[q].st
                /\ Readers(f, r, n)[q].ih = f[q].ih
                /\ Readers(f, r, n)[q].owned = f[q].owned
<1> DEFINE new == [f[r] EXCEPT !.readers = n]
<1>1. f[r] \in Ref
  OBVIOUS
<1>2. /\ new \in Ref /\ new.retainedBy = f[r].retainedBy
      /\ new.readers = n /\ new.st = f[r].st
      /\ new.ih = f[r].ih /\ new.owned = f[r].owned
  BY <1>1 DEF Ref
<1>3. Readers(f, r, n) = [f EXCEPT ![r] = new]
  BY DEF Readers
<1> HIDE DEF new
<1>4. \A q \in Loads : Readers(f, r, n)[q] = IF q = r THEN new ELSE f[q]
  BY <1>3
<1> QED  BY <1>2, <1>3, <1>4

LEMMA StateProperties ==
    ASSUME NEW f \in [Loads -> Ref], NEW r \in Loads, NEW x \in States
    PROVE  /\ State(f, r, x) \in [Loads -> Ref]
           /\ \A q \in Loads :
                /\ State(f, r, x)[q].st = IF q = r THEN x ELSE f[q].st
                /\ State(f, r, x)[q].retainedBy = f[q].retainedBy
                /\ State(f, r, x)[q].readers = f[q].readers
                /\ State(f, r, x)[q].ih = f[q].ih
                /\ State(f, r, x)[q].owned = f[q].owned
<1> DEFINE new == [f[r] EXCEPT !.st = x]
<1>1. f[r] \in Ref
  OBVIOUS
<1>2. /\ new \in Ref /\ new.retainedBy = f[r].retainedBy
      /\ new.readers = f[r].readers /\ new.st = x
      /\ new.ih = f[r].ih /\ new.owned = f[r].owned
  BY <1>1 DEF Ref
<1>3. State(f, r, x) = [f EXCEPT ![r] = new]
  BY DEF State
<1> HIDE DEF new
<1>4. \A q \in Loads : State(f, r, x)[q] = IF q = r THEN new ELSE f[q]
  BY <1>3
<1> QED  BY <1>2, <1>3, <1>4

LEMMA StateFields ==
    ASSUME NEW f \in [Loads -> Ref], NEW r \in Loads, NEW x \in States, NEW g, g = State(f, r, x)
    PROVE  /\ g \in [Loads -> Ref]
           /\ \A q \in Loads : /\ g[q].st = IF q = r THEN x ELSE f[q].st
                               /\ g[q].retainedBy = f[q].retainedBy
                               /\ g[q].readers = f[q].readers
                               /\ g[q].ih = f[q].ih
                               /\ g[q].owned = f[q].owned
BY StateProperties

\* The whole of release: one reader less, then maybeDestroy.
LEMMA ReleaseInv ==
    ASSUME NEW s, LifeInv(s), NEW r \in Loads, s.ref[r].readers > 0
    PROVE  LET t == Release(s, r) IN
           /\ LifeInv(t) /\ FrameRefs(s, t) /\ FrameTail(s, t) /\ Ends(s, t)
           /\ \A q \in Loads :
                /\ t.ref[q].readers = IF q = r THEN s.ref[r].readers - 1
                                               ELSE s.ref[q].readers
                /\ t.ref[q].st = s.ref[q].st
                /\ t.ref[q].ih = s.ref[q].ih
                /\ t.ref[q].owned = s.ref[q].owned
<1>0. s \in Life /\ Registration(s) /\ Retention(s) /\ UseIsSafe(s) /\ Destructions(s)
  BY DEF LifeInv
<1>n. PICK n \in Nat : n = s.ref[r].readers - 1
  BY <1>0, LifeType
<1>d. PICK d : d = [s EXCEPT !.ref[r].readers = @ - 1]
  OBVIOUS
<1>1. /\ d.refs = s.refs /\ d.current = s.current /\ d.tail = s.tail
      /\ d.ref = Readers(s.ref, r, n)
      /\ d = [ref |-> d.ref, refs |-> d.refs, current |-> d.current, tail |-> d.tail]
  BY <1>d, <1>n, <1>0 DEF Life, Readers
<1>2. /\ d.ref \in [Loads -> Ref]
      /\ \A q \in Loads : /\ d.ref[q].readers = IF q = r THEN n ELSE s.ref[q].readers
                          /\ d.ref[q].retainedBy = s.ref[q].retainedBy
                          /\ d.ref[q].st = s.ref[q].st
                          /\ d.ref[q].ih = s.ref[q].ih
                          /\ d.ref[q].owned = s.ref[q].owned
  <2>1. s.ref \in [Loads -> Ref]
    BY <1>0, LifeType
  <2> QED  BY <2>1, <1>1, ReadersProperties
<1>3. d \in Life
  BY <1>1, <1>2, <1>0, LifeType DEF Life
<1>4. Registration(d)
  BY <1>0, <1>1, <1>2, LifeType DEF Registration
<1>5. Retention(d)
  BY <1>0, <1>1, <1>2 DEF Retention
<1>6. UseIsSafe(d)
  <2> SUFFICES ASSUME NEW q \in Loads, InUse(d.ref[q])
               PROVE  d.ref[q].st \notin {"none", "reaped"}
    BY DEF UseIsSafe
  <2>1. InUse(s.ref[q])
    BY <1>2, <1>n, SMTT(60) DEF InUse
  <2> QED  BY <2>1, <1>0, <1>2 DEF UseIsSafe
<1>7. Destructions(d)
  <2>1. SameTorrents(s, d)
    BY <1>2 DEF SameTorrents
  <2> QED  BY <2>1, <1>0, <1>1, DestructionsSame
<1>8. LifeInv(d)
  BY <1>3, <1>4, <1>5, <1>6, <1>7 DEF LifeInv
<1>9. d.ref[r].st # "none"
  BY <1>0, <1>2 DEF UseIsSafe, InUse
<1>10. LET v == MaybeDestroy(d, r) IN
       v \in Life /\ Frame(d, v) /\ v.ref = d.ref /\ v.current = d.current
  BY <1>3, <1>9, MaybeDestroyFrame
<1>t. PICK t : t = Release(s, r)
  OBVIOUS
<1>11. t \in Life /\ Frame(d, t) /\ t.ref = d.ref /\ t.current = d.current
  BY <1>10, <1>d, <1>t DEF Release
<1>12. LifeInv(t)
  <2>1. Retention(t) /\ UseIsSafe(t)
    BY <1>5, <1>6, <1>11 DEF Retention, UseIsSafe
  <2> QED  BY <2>1, <1>8, <1>11, FrameInv
<1>13. FrameRefs(s, t)
  BY <1>11, <1>1, <1>2, <1>0, LifeType, SMTT(60) DEF Frame, FrameRefs
<1>14. FrameTail(s, t)
  <2>1. FrameTail(d, t)
    BY <1>11 DEF Frame
  <2>2. SameTorrents(s, d)
    BY <1>2 DEF SameTorrents
  <2> QED  BY <2>1, <2>2, <1>1, <1>11, FrameTailSame
<1>15. Ends(s, t)
  <2> SUFFICES ASSUME NEW q \in Loads, s.ref[q].owned, InUse(s.ref[q]), ~InUse(t.ref[q])
               PROVE  Pending(t, q)
    BY DEF Ends
  <2>1. q = r
    BY <1>2, <1>11 DEF InUse
  <2>2. d.ref[r].owned /\ ~InUse(d.ref[r])
    BY <2>1, <1>2, <1>11
  <2>3. t = MaybeDestroy(d, r)
    BY <1>d, <1>t DEF Release
  <2> QED  BY <2>1, <2>2, <2>3, <1>3, MaybeDestroyEnds
<1> QED  BY <1>11, <1>12, <1>13, <1>14, <1>15, <1>2, <1>n, <1>t

\* An operation of a queue has run.
LEMMA PopInv ==
    ASSUME NEW s, LifeInv(s), NEW h \in Infohashes, s.tail[h] # <<>>
    PROVE  LET t == Pop(s, h) IN
           /\ LifeInv(t) /\ t.ref = s.ref /\ t.refs = s.refs
           /\ t.tail[h] = Tail(s.tail[h])
           /\ \A k \in Infohashes : k # h => t.tail[k] = s.tail[k]
<1>0. s \in Life /\ Registration(s) /\ Retention(s) /\ UseIsSafe(s) /\ Destructions(s)
  BY DEF LifeInv
<1>t. PICK t : t = Pop(s, h)
  OBVIOUS
<1>1. /\ t.ref = s.ref /\ t.refs = s.refs /\ t.current = s.current
      /\ t.tail = [s.tail EXCEPT ![h] = Tail(s.tail[h])]
      /\ t = [ref |-> t.ref, refs |-> t.refs, current |-> t.current, tail |-> t.tail]
  BY <1>t, <1>0 DEF Pop, Life
<1>2. s.tail[h] \in Seq(Op)
  BY <1>0, LifeType
<1>3. /\ Tail(s.tail[h]) \in Seq(Op) /\ Len(Tail(s.tail[h])) = Len(s.tail[h]) - 1
      /\ \A i \in 1..Len(Tail(s.tail[h])) :
            i + 1 \in 1..Len(s.tail[h]) /\ Tail(s.tail[h])[i] = s.tail[h][i + 1]
  BY <1>2
<1>4. t.tail \in [Infohashes -> Seq(Op)]
  BY <1>0, <1>1, <1>3, LifeType
<1>5. t \in Life
  BY <1>0, <1>1, <1>4, LifeType DEF Life
<1>6. Destructions(t)
  <2>1. ASSUME NEW k \in Infohashes, NEW i \in 1..Len(t.tail[k]), t.tail[k][i].op # "acquire"
        PROVE  Doomed(t, t.tail[k][i], k) /\ Emptied(t, t.tail[k][i])
    <3>1. PICK j \in 1..Len(s.tail[k]) : t.tail[k][i] = s.tail[k][j]
      <4>1. CASE k = h
        BY <4>1, <1>0, <1>1, <1>3, LifeType
      <4>2. CASE k # h
        BY <4>2, <1>0, <1>1, LifeType
      <4> QED  BY <4>1, <4>2
    <3>2. Doomed(s, s.tail[k][j], k) /\ Emptied(s, s.tail[k][j])
      BY <1>0, <2>1, <3>1, DestructionsAt
    <3> QED  BY <1>1, <3>1, <3>2 DEF Doomed, Emptied
  <2> QED  BY <2>1, DestructionsIntro
<1>7. t.tail[h] = Tail(s.tail[h]) /\ \A k \in Infohashes : k # h => t.tail[k] = s.tail[k]
  BY <1>0, <1>1, LifeType
<1>8. LifeInv(t)
  BY <1>0, <1>1, <1>5, <1>6 DEF LifeInv, Registration, Retention, UseIsSafe
<1> QED  BY <1>1, <1>7, <1>8, <1>t

\* r has one reader more, and the head of h's queue has run.
Taking(s, r, h) == Pop([s EXCEPT !.ref[r].readers = @ + 1], h)
Taken(s, t, h, r) ==
    /\ t.refs = s.refs
    /\ t.tail[h] = Tail(s.tail[h])
    /\ \A k \in Infohashes : k # h => t.tail[k] = s.tail[k]
    /\ \A q \in Loads : /\ t.ref[q].readers = IF q = r THEN s.ref[r].readers + 1
                                                      ELSE s.ref[q].readers
                        /\ t.ref[q].st = s.ref[q].st
                        /\ t.ref[q].retainedBy = s.ref[q].retainedBy
                        /\ t.ref[q].ih = s.ref[q].ih
                        /\ t.ref[q].owned = s.ref[q].owned

LEMMA TakeInv ==
    ASSUME NEW s, LifeInv(s), NEW h \in Infohashes, s.tail[h] # <<>>,
           NEW r \in Loads, s.ref[r].st \notin {"none", "reaped"}
    PROVE  LifeInv(Taking(s, r, h)) /\ Taken(s, Taking(s, r, h), h, r)
<1>0. s \in Life /\ Registration(s) /\ Retention(s) /\ UseIsSafe(s) /\ Destructions(s)
  BY DEF LifeInv
<1>n. PICK n \in Nat : n = s.ref[r].readers + 1
  BY <1>0, LifeType
<1>d. PICK d : d = [s EXCEPT !.ref[r].readers = @ + 1]
  OBVIOUS
<1>1. /\ d.refs = s.refs /\ d.current = s.current /\ d.tail = s.tail
      /\ d.ref = Readers(s.ref, r, n)
      /\ d = [ref |-> d.ref, refs |-> d.refs, current |-> d.current, tail |-> d.tail]
  BY <1>d, <1>n, <1>0 DEF Life, Readers
<1>2. /\ d.ref \in [Loads -> Ref]
      /\ \A q \in Loads : /\ d.ref[q].readers = IF q = r THEN n ELSE s.ref[q].readers
                          /\ d.ref[q].retainedBy = s.ref[q].retainedBy
                          /\ d.ref[q].st = s.ref[q].st
                          /\ d.ref[q].ih = s.ref[q].ih
                          /\ d.ref[q].owned = s.ref[q].owned
  <2>1. s.ref \in [Loads -> Ref]
    BY <1>0, LifeType
  <2> QED  BY <2>1, <1>1, ReadersProperties
<1>3. d \in Life
  BY <1>1, <1>2, <1>0, LifeType DEF Life
<1>4. Registration(d)
  BY <1>0, <1>1, <1>2, LifeType, SMTT(60) DEF Registration
<1>5. Retention(d)
  BY <1>0, <1>1, <1>2 DEF Retention
<1>6. UseIsSafe(d)
  BY <1>0, <1>2 DEF UseIsSafe, InUse
<1>7. Destructions(d)
  <2>1. SameTorrents(s, d)
    BY <1>2 DEF SameTorrents
  <2> QED  BY <2>1, <1>0, <1>1, DestructionsSame
<1>8. LifeInv(d)
  BY <1>3, <1>4, <1>5, <1>6, <1>7 DEF LifeInv
<1>t. PICK t : t = Pop(d, h)
  OBVIOUS
<1>9. /\ LifeInv(t) /\ t.ref = d.ref /\ t.refs = d.refs
      /\ t.tail[h] = Tail(d.tail[h]) /\ \A k \in Infohashes : k # h => t.tail[k] = d.tail[k]
  <2>1. LET v == Pop(d, h) IN
        /\ LifeInv(v) /\ v.ref = d.ref /\ v.refs = d.refs
        /\ v.tail[h] = Tail(d.tail[h])
        /\ \A k \in Infohashes : k # h => v.tail[k] = d.tail[k]
    BY <1>8, <1>1, PopInv
  <2> QED  BY <2>1, <1>t
<1>10. /\ t.refs = s.refs
       /\ t.tail[h] = Tail(s.tail[h]) /\ \A k \in Infohashes : k # h => t.tail[k] = s.tail[k]
  BY <1>1, <1>9
<1>11. \A q \in Loads : /\ t.ref[q].readers = IF q = r THEN s.ref[r].readers + 1
                                                        ELSE s.ref[q].readers
                        /\ t.ref[q].st = s.ref[q].st
                        /\ t.ref[q].retainedBy = s.ref[q].retainedBy
                        /\ t.ref[q].ih = s.ref[q].ih
                        /\ t.ref[q].owned = s.ref[q].owned
  BY <1>2, <1>9, <1>n
<1>12. t = Taking(s, r, h)
  BY <1>d, <1>t DEF Taking
<1>13. Taken(s, t, h, r)
  BY <1>10, <1>11 DEF Taken
<1> QED  BY <1>9, <1>12, <1>13

\* A stale record is detached from its publishers and its infohash.
LEMMA DetachInv ==
    ASSUME NEW s, LifeInv(s), NEW h \in Infohashes, s.refs[h] # NoRef
    PROVE  LET t == Detach(s, s.refs[h]) IN
           /\ LifeInv(t) /\ FrameRef(s, t) /\ FrameTail(s, t) /\ Ends(s, t)
           /\ t.refs[h] = NoRef
           /\ \A k \in Infohashes : t.refs[k] # s.refs[k] =>
                 t.refs[k] = NoRef /\ (k = h \/ ~s.ref[s.refs[k]].owned)
           /\ \A q \in Loads : t.ref[q].retainedBy \subseteq s.ref[q].retainedBy
<1>0. s \in Life /\ Registration(s) /\ Retention(s) /\ UseIsSafe(s) /\ Destructions(s)
  BY DEF LifeInv
<1>r. PICK r \in Loads : r = s.refs[h]
  BY <1>0, LifeType
<1>1. s.ref[r].ih = h /\ s.ref[r].st \notin {"none", "reaped"}
  BY <1>0, <1>r DEF Registration
<1>X. PICK X \in SUBSET Pubs : X = {}
  OBVIOUS
<1>d. PICK d : d = [s EXCEPT
        !.ref[r].retainedBy = {},
        !.refs[s.ref[r].ih] = NoRef,
        !.current = [pk \in Pubs |-> IF s.current[pk] = r /\ pk \in s.ref[r].retainedBy
                                     THEN NoRef ELSE s.current[pk]]]
  BY Zenon
<1>2. /\ d.tail = s.tail
      /\ d.ref = With(s.ref, r, X)
      /\ d.refs = [s.refs EXCEPT ![h] = NoRef]
      /\ d.current = [pk \in Pubs |-> IF s.current[pk] = r /\ pk \in s.ref[r].retainedBy
                                      THEN NoRef ELSE s.current[pk]]
      /\ d = [ref |-> d.ref, refs |-> d.refs, current |-> d.current, tail |-> d.tail]
  BY <1>d, <1>1, <1>X, <1>0 DEF Life, With
<1>3. /\ d.ref \in [Loads -> Ref]
      /\ \A q \in Loads :
            /\ d.ref[q].retainedBy = IF q = r THEN X ELSE s.ref[q].retainedBy
            /\ d.ref[q].readers = s.ref[q].readers /\ d.ref[q].st = s.ref[q].st
            /\ d.ref[q].ih = s.ref[q].ih /\ d.ref[q].owned = s.ref[q].owned
  <2>1. s.ref \in [Loads -> Ref]
    BY <1>0, LifeType
  <2> QED  BY <2>1, <1>2, WithRetained
<1>4. /\ d.refs \in [Infohashes -> Loads \cup {NoRef}]
      /\ \A k \in Infohashes : d.refs[k] = IF k = h THEN NoRef ELSE s.refs[k]
  BY <1>0, <1>2, LifeType
<1>5. /\ d.current \in [Pubs -> Loads \cup {NoRef}]
      /\ \A pk \in Pubs : d.current[pk] =
            IF s.current[pk] = r /\ pk \in s.ref[r].retainedBy THEN NoRef ELSE s.current[pk]
  BY <1>0, <1>2, LifeType
<1>6. d \in Life
  BY <1>2, <1>3, <1>4, <1>5, <1>0, LifeType DEF Life
<1>7. FrameRef(s, d)
  BY <1>3 DEF FrameRef
<1>8. Registration(d)
  <2> SUFFICES ASSUME NEW k \in Infohashes, d.refs[k] # NoRef
               PROVE  d.ref[d.refs[k]].ih = k /\ d.ref[d.refs[k]].st \notin {"none", "reaped"}
    BY DEF Registration
  <2>1. d.refs[k] = s.refs[k]
    BY <1>4
  <2>2. s.refs[k] \in Loads
    BY <2>1, <1>0, LifeType
  <2> QED  BY <2>1, <2>2, <1>0, <1>3 DEF Registration
<1>9. Retention(d)
  <2> SUFFICES ASSUME NEW p \in Pubs, NEW q \in Loads
               PROVE  d.current[p] = q <=> p \in d.ref[q].retainedBy
    BY DEF Retention
  <2>1. /\ s.current[p] = q <=> p \in s.ref[q].retainedBy
        /\ s.current[p] = r <=> p \in s.ref[r].retainedBy
    BY <1>0 DEF Retention
  <2> QED  BY <2>1, <1>3, <1>5, <1>X, NullsAssumption
<1>10. UseIsSafe(d)
  <2> SUFFICES ASSUME NEW q \in Loads, InUse(d.ref[q])
               PROVE  d.ref[q].st \notin {"none", "reaped"}
    BY DEF UseIsSafe
  <2>1. InUse(s.ref[q])
    BY <1>3, <1>X, SMTT(60) DEF InUse
  <2> QED  BY <2>1, <1>0, <1>3 DEF UseIsSafe
<1>11. Destructions(d)
  <2>1. SameTorrents(s, d)
    BY <1>3 DEF SameTorrents
  <2> QED  BY <2>1, <1>0, <1>2, DestructionsSame
<1>12. LifeInv(d)
  BY <1>6, <1>8, <1>9, <1>10, <1>11 DEF LifeInv
<1>13. LET v == MaybeDestroy(d, r) IN
       v \in Life /\ Frame(d, v) /\ v.ref = d.ref /\ v.current = d.current
  <2>1. d.ref[r].st # "none"
    BY <1>1, <1>3
  <2> QED  BY <2>1, <1>6, MaybeDestroyFrame
<1>t. PICK t : t = Detach(s, s.refs[h])
  OBVIOUS
<1>14. t \in Life /\ Frame(d, t) /\ t.ref = d.ref /\ t.current = d.current
  BY <1>13, <1>d, <1>r, <1>t, Zenon DEF Detach
<1>15. LifeInv(t)
  <2>1. Retention(t) /\ UseIsSafe(t)
    BY <1>9, <1>10, <1>14 DEF Retention, UseIsSafe
  <2> QED  BY <2>1, <1>12, <1>14, FrameInv
<1>16. FrameRef(s, t)
  BY <1>7, <1>14 DEF FrameRef
<1>17. FrameTail(s, t)
  <2>1. FrameTail(d, t)
    BY <1>14 DEF Frame
  <2>2. SameTorrents(s, d)
    BY <1>3 DEF SameTorrents
  <2> QED  BY <2>1, <2>2, <1>2, <1>14, FrameTailSame
<1>18. Ends(s, t)
  <2> SUFFICES ASSUME NEW q \in Loads, s.ref[q].owned, InUse(s.ref[q]), ~InUse(t.ref[q])
               PROVE  Pending(t, q)
    BY DEF Ends
  <2>1. q = r
    BY <1>3, <1>14 DEF InUse
  <2>2. d.ref[r].owned /\ ~InUse(d.ref[r])
    BY <2>1, <1>3, <1>14
  <2>3. t = MaybeDestroy(d, r)
    BY <1>d, <1>r, <1>t, Zenon DEF Detach
  <2> QED  BY <2>1, <2>2, <2>3, <1>6, MaybeDestroyEnds
<1>19. /\ t.refs[h] = NoRef
       /\ \A k \in Infohashes : t.refs[k] # s.refs[k] =>
              t.refs[k] = NoRef /\ (k = h \/ ~s.ref[s.refs[k]].owned)
  <2>1. FrameRefs(d, t) /\ t.refs[h] \in Loads \cup {NoRef}
    BY <1>14, LifeType DEF Frame
  <2>2. \A k \in Infohashes : s.refs[k] \in Loads \cup {NoRef}
    BY <1>0, LifeType
  <2>3. \A q \in Loads : d.ref[q].owned = s.ref[q].owned
    BY <1>3
  <2>4. t.refs[h] = NoRef
    BY <2>1, <1>4 DEF FrameRefs
  <2>5. ASSUME NEW k \in Infohashes, t.refs[k] # s.refs[k], k # h
        PROVE  t.refs[k] = NoRef /\ ~s.ref[s.refs[k]].owned
    <3>1. d.refs[k] = s.refs[k]
      BY <2>5, <1>4
    <3>2. t.refs[k] = NoRef /\ ~d.ref[s.refs[k]].owned
      BY <3>1, <2>5, <2>1 DEF FrameRefs
    <3>3. s.refs[k] \in Loads
      BY <3>2, <2>2, <2>5
    <3> QED  BY <3>2, <3>3, <2>3
  <2> QED  BY <2>4, <2>5
<1>20. \A q \in Loads : t.ref[q].retainedBy \subseteq s.ref[q].retainedBy
  BY <1>3, <1>14, <1>X
<1> QED  BY <1>15, <1>16, <1>17, <1>18, <1>19, <1>20, <1>t

\* A load has queued its acquisition.
LEMMA QueueInv ==
    ASSUME NEW s, LifeInv(s), NEW h \in Infohashes, NEW l \in Loads, NEW t,
           t = [s EXCEPT !.tail[h] = Append(@, [op |-> "acquire", id |-> l])]
    PROVE  LifeInv(t) /\ t.ref = s.ref /\ t.refs = s.refs /\ t.current = s.current
<1>0. s \in Life /\ Registration(s) /\ Retention(s) /\ UseIsSafe(s) /\ Destructions(s)
  BY DEF LifeInv
<1>o. PICK o : o = [op |-> "acquire", id |-> l]
  OBVIOUS
<1>1. /\ t.ref = s.ref /\ t.refs = s.refs /\ t.current = s.current
      /\ t.tail = [s.tail EXCEPT ![h] = Append(s.tail[h], o)]
      /\ t = [ref |-> t.ref, refs |-> t.refs, current |-> t.current, tail |-> t.tail]
  BY <1>0, <1>o DEF Life
<1>2. o \in Op /\ o.op = "acquire" /\ s.tail[h] \in Seq(Op) /\ Len(s.tail[h]) \in Nat
  BY <1>0, <1>o, LifeType DEF Op
<1>3. PICK q : q = Append(s.tail[h], o)
  OBVIOUS
<1>4. /\ q \in Seq(Op) /\ Len(q) = Len(s.tail[h]) + 1 /\ q[Len(s.tail[h]) + 1] = o
      /\ \A i \in 1..Len(s.tail[h]) : q[i] = s.tail[h][i]
  BY <1>2, <1>3, AppendProperties
<1>5. /\ t.tail \in [Infohashes -> Seq(Op)]
      /\ \A k \in Infohashes : t.tail[k] = IF k = h THEN q ELSE s.tail[k]
  BY <1>0, <1>1, <1>3, <1>4, LifeType, ZenonT(60)
<1>6. t \in Life
  BY <1>0, <1>1, <1>5, LifeType DEF Life
<1>7. Destructions(t)
  <2>1. ASSUME NEW k \in Infohashes, NEW i \in 1..Len(t.tail[k]), t.tail[k][i].op # "acquire"
        PROVE  \E j \in 1..Len(s.tail[k]) : t.tail[k][i] = s.tail[k][j]
    <3>1. CASE k = h
      <4>1. t.tail[h] = q
        BY <1>5
      <4>2. i # Len(s.tail[h]) + 1
        BY <2>1, <3>1, <4>1, <1>2, <1>4
      <4>3. i \in 1..Len(s.tail[h])
        BY <3>1, <4>1, <4>2, <1>2, <1>4
      <4> QED  BY <3>1, <4>1, <4>3, <1>4
    <3>2. CASE k # h
      BY <3>2, <1>5
    <3> QED  BY <3>1, <3>2
  <2>2. StillDoomed(s, t)
    BY <1>1 DEF StillDoomed, Doomed, Emptied
  <2>3. \A k \in Infohashes : \A i \in 1..Len(t.tail[k]) :
           t.tail[k][i].op # "acquire" =>
              \/ \E j \in 1..Len(s.tail[k]) : t.tail[k][i] = s.tail[k][j]
              \/ Doomed(t, t.tail[k][i], k) /\ Emptied(t, t.tail[k][i])
    BY <2>1
  <2> QED  BY <2>2, <2>3, <1>0, DestructionsFrom
<1>8. Registration(t)
  BY <1>0, <1>1 DEF Registration
<1>9. Retention(t) /\ UseIsSafe(t)
  BY <1>0, <1>1 DEF Retention, UseIsSafe
<1> QED  BY <1>1, <1>6, <1>7, <1>8, <1>9 DEF LifeInv

\* The torrent of a ref that nothing uses is destroyed by the queue.
Reap(s, h, r) == [s EXCEPT !.refs[h] = IF @ = r THEN NoRef ELSE @,
                           !.ref[r].st = "reaped",
                           !.tail[h] = <<[op |-> "rm", id |-> r]>> \o Tail(@)]

Reaped(s, t, h, r) ==
    /\ t.tail[h] = <<[op |-> "rm", id |-> r]>> \o Tail(s.tail[h])
    /\ \A k \in Infohashes : k # h => t.tail[k] = s.tail[k]
    /\ \A k \in Infohashes :
          t.refs[k] = IF k = h /\ s.refs[h] = r THEN NoRef ELSE s.refs[k]
    /\ \A k \in Loads : /\ t.ref[k].readers = s.ref[k].readers
                        /\ t.ref[k].st = IF k = r THEN "reaped" ELSE s.ref[k].st
                        /\ t.ref[k].retainedBy = s.ref[k].retainedBy
                        /\ t.ref[k].ih = s.ref[k].ih
                        /\ t.ref[k].owned = s.ref[k].owned

LEMMA ReapInv ==
    ASSUME NEW s, LifeInv(s), NEW h \in Infohashes, s.tail[h] # <<>>,
           NEW r \in Loads, r = Head(s.tail[h]).id, Head(s.tail[h]).op # "acquire",
           ~InUse(s.ref[r])
    PROVE  LifeInv(Reap(s, h, r)) /\ Reaped(s, Reap(s, h, r), h, r)
<1>0. s \in Life /\ Registration(s) /\ Retention(s) /\ UseIsSafe(s) /\ Destructions(s)
  BY DEF LifeInv
<1>t. PICK t : t = Reap(s, h, r)
  OBVIOUS
<1>o. PICK o : o = [op |-> "rm", id |-> r]
  OBVIOUS
<1>x. PICK x \in States : x = "reaped"
  BY DEF States, Destroyed
<1>q. PICK q : q = <<o>> \o Tail(s.tail[h])
  OBVIOUS
<1>1. /\ t.current = s.current
      /\ t.ref = State(s.ref, r, x)
      /\ t.refs = [s.refs EXCEPT ![h] = IF s.refs[h] = r THEN NoRef ELSE s.refs[h]]
      /\ t.tail = [s.tail EXCEPT ![h] = q]
      /\ t = [ref |-> t.ref, refs |-> t.refs, current |-> t.current, tail |-> t.tail]
  BY <1>0, <1>o, <1>q, <1>x, <1>t DEF Life, State, Reap
<1>r. t.ref = State(s.ref, r, x) /\ t.current = s.current
  BY <1>1
<1>2. /\ t.ref \in [Loads -> Ref]
      /\ \A k \in Loads : /\ t.ref[k].st = IF k = r THEN x ELSE s.ref[k].st
                          /\ t.ref[k].retainedBy = s.ref[k].retainedBy
                          /\ t.ref[k].readers = s.ref[k].readers
                          /\ t.ref[k].ih = s.ref[k].ih
                          /\ t.ref[k].owned = s.ref[k].owned
  <2>1. PICK f \in [Loads -> Ref] : f = s.ref
    BY <1>0, LifeType
  <2>2. PICK g : g = State(f, r, x)
    OBVIOUS
  <2>3. /\ g \in [Loads -> Ref]
        /\ \A k \in Loads : /\ g[k].st = IF k = r THEN x ELSE f[k].st
                            /\ g[k].retainedBy = f[k].retainedBy
                            /\ g[k].readers = f[k].readers
                            /\ g[k].ih = f[k].ih
                            /\ g[k].owned = f[k].owned
    BY <2>2, StateFields
  <2>4. t.ref = g /\ s.ref = f
    BY <2>1, <2>2, <1>r
  <2> QED  BY <2>3, <2>4
<1>3. /\ s.tail[h] \in Seq(Op) /\ Len(s.tail[h]) \in Nat
      /\ o \in Op /\ o.op = "rm" /\ o.id = r
  BY <1>0, <1>o, LifeType DEF Op
<1>5. /\ q \in Seq(Op) /\ Len(q) = Len(s.tail[h]) /\ q[1] = o
      /\ \A i \in 1..Len(s.tail[h]) : i # 1 => q[i] = s.tail[h][i]
  <2>1. PICK u : u = Tail(s.tail[h])
    OBVIOUS
  <2>2. /\ u \in Seq(Op) /\ Len(u) = Len(s.tail[h]) - 1
        /\ \A i \in 1..Len(u) : u[i] = s.tail[h][i + 1]
    BY <2>1, <1>3, HeadTailProperties
  <2>3. <<o>> \in Seq(Op) /\ Len(<<o>>) = 1 /\ <<o>>[1] = o
    BY <1>3
  <2>4. PICK v \in Seq(Op) : v = <<o>> /\ Len(v) = 1 /\ v[1] = o
    BY <2>3
  <2>5. q = v \o u
    BY <2>1, <2>4, <1>q
  <2>6. /\ q \in Seq(Op) /\ Len(q) = 1 + Len(u) /\ q[1] = o
        /\ \A i \in 2..Len(q) : q[i] = u[i - 1]
    BY <2>2, <2>4, <2>5, ConcatProperties
  <2>7. ASSUME NEW i \in 1..Len(s.tail[h]), i # 1
        PROVE  q[i] = s.tail[h][i]
    <3>1. i \in 2..Len(q) /\ i - 1 \in 1..Len(u) /\ (i - 1) + 1 = i
      BY <2>2, <2>6, <2>7, <1>3
    <3> QED  BY <3>1, <2>2, <2>6
  <2> QED  BY <2>2, <2>6, <2>7, <1>3
<1>6. /\ t.tail \in [Infohashes -> Seq(Op)]
      /\ \A k \in Infohashes : t.tail[k] = IF k = h THEN q ELSE s.tail[k]
  <2>1. t.tail = [s.tail EXCEPT ![h] = q] /\ q \in Seq(Op)
    BY <1>1, <1>5
  <2>2. s.tail \in [Infohashes -> Seq(Op)]
    BY <1>0, LifeType
  <2> QED  BY <2>1, <2>2
<1>7. /\ t.refs \in [Infohashes -> Loads \cup {NoRef}]
      /\ \A k \in Infohashes :
            t.refs[k] = IF k = h /\ s.refs[h] = r THEN NoRef ELSE s.refs[k]
  <2>1. t.refs = [s.refs EXCEPT ![h] = IF s.refs[h] = r THEN NoRef ELSE s.refs[h]]
    BY <1>1
  <2>2. s.refs \in [Infohashes -> Loads \cup {NoRef}]
    BY <1>0, LifeType
  <2> QED  BY <2>1, <2>2
<1>8. t \in Life
  <2>1. t.current \in [Pubs -> Loads \cup {NoRef}]
    BY <1>r, <1>0, LifeType
  <2>2. t = [ref |-> t.ref, refs |-> t.refs, current |-> t.current, tail |-> t.tail]
    BY <1>1, SMTT(60)
  <2> QED  BY <2>1, <2>2, <1>2, <1>6, <1>7 DEF Life
<1>9. s.ref[r].ih = h /\ s.ref[r].st # "none"
  <2>1. 1 \in 1..Len(s.tail[h]) /\ s.tail[h][1] = Head(s.tail[h])
    BY <1>3
  <2>2. s.tail[h][1].id = r /\ s.tail[h][1].op # "acquire"
    BY <2>1
  <2>3. Destructions(s)
    BY <1>0
  <2> QED  BY <2>1, <2>2, <2>3 DEF Destructions
<1>10. Registration(t)
  <2> SUFFICES ASSUME NEW k \in Infohashes, t.refs[k] # NoRef
               PROVE  t.ref[t.refs[k]].ih = k /\ t.ref[t.refs[k]].st \notin {"none", "reaped"}
    BY DEF Registration
  <2>1. t.refs[k] = s.refs[k] /\ s.refs[k] \in Loads
    BY <1>0, <1>7, LifeType
  <2>2. s.ref[s.refs[k]].ih = k /\ s.ref[s.refs[k]].st \notin {"none", "reaped"}
    BY <2>1, <1>0 DEF Registration
  <2>3. s.refs[k] # r
    BY <2>1, <2>2, <1>7, <1>9
  <2> QED  BY <2>1, <2>2, <2>3, <1>2
<1>11. Retention(t)
  <2>1. Retention(s)
    BY <1>0
  <2>2. \A k \in Loads : t.ref[k].retainedBy = s.ref[k].retainedBy
    BY <1>2
  <2>3. t.current = s.current
    BY <1>r
  <2> QED  BY <2>1, <2>2, <2>3 DEF Retention
<1>12. UseIsSafe(t)
  <2> SUFFICES ASSUME NEW k \in Loads, InUse(t.ref[k])
               PROVE  t.ref[k].st \notin {"none", "reaped"}
    BY SMTT(60) DEF UseIsSafe
  <2>1. InUse(s.ref[k])
    BY <1>2 DEF InUse
  <2>2. k # r
    BY <2>1
  <2>3. t.ref[k].st = s.ref[k].st
    BY <2>2, <1>2, SMTT(60)
  <2> QED  BY <2>1, <2>3, <1>0 DEF UseIsSafe
<1>13. Destructions(t)
  <2>1. ASSUME NEW k \in Infohashes, NEW i \in 1..Len(t.tail[k])
        PROVE  \/ \E j \in 1..Len(s.tail[k]) : t.tail[k][i] = s.tail[k][j]
               \/ k = h /\ t.tail[k][i] = o
    BY <1>5, <1>6
  <2>2. Doomed(t, o, h) /\ Emptied(t, o)
    <3>1. t.ref[r].ih = h /\ t.ref[r].st = "reaped"
      BY <1>2, <1>9, <1>x
    <3> QED  BY <3>1, <1>3 DEF Doomed, Emptied
  <2>3. StillDoomed(s, t)
    <3> SUFFICES ASSUME NEW p \in Op, NEW k \in Infohashes, Doomed(s, p, k), Emptied(s, p)
                 PROVE  Doomed(t, p, k) /\ Emptied(t, p)
      BY DEF StillDoomed
    <3>1. p.id \in Loads
      BY DEF Op
    <3>2. /\ t.ref[p.id].ih = s.ref[p.id].ih
          /\ t.ref[p.id].st = "reaped" \/ t.ref[p.id].st = s.ref[p.id].st
      BY <3>1, <1>2, <1>x
    <3> QED  BY <3>2 DEF Doomed, Emptied
  <2>4. \A k \in Infohashes : \A i \in 1..Len(t.tail[k]) :
           t.tail[k][i].op # "acquire" =>
              \/ \E j \in 1..Len(s.tail[k]) : t.tail[k][i] = s.tail[k][j]
              \/ Doomed(t, t.tail[k][i], k) /\ Emptied(t, t.tail[k][i])
    BY <2>1, <2>2
  <2> QED  BY <2>3, <2>4, <1>0, DestructionsFrom
<1>14. LifeInv(t)
  BY <1>8, <1>10, <1>11, <1>12, <1>13 DEF LifeInv
<1>15. /\ t.tail[h] = <<[op |-> "rm", id |-> r]>> \o Tail(s.tail[h])
       /\ \A k \in Infohashes : k # h => t.tail[k] = s.tail[k]
  BY <1>6, <1>q, <1>o
<1>16. Reaped(s, t, h, r)
  BY <1>2, <1>7, <1>15, <1>x, Zenon DEF Reaped
<1> QED  BY <1>t, <1>14, <1>16

\* A new ref is registered by the load that creates it.
Born(s, l, h, owned, st) ==
    [s EXCEPT !.ref[l] = [ih |-> h, owned |-> owned, st |-> st, prog |-> 0,
                          readers |-> 0, retainedBy |-> {}],
              !.refs[h] = l]

Added(s, t, h, l, owned, st) ==
    /\ t.tail = s.tail
    /\ \A k \in Infohashes : t.refs[k] = IF k = h THEN l ELSE s.refs[k]
    /\ t.ref[l].readers = 0 /\ t.ref[l].st = st
    /\ t.ref[l].owned = owned /\ t.ref[l].ih = h
    /\ \A q \in Loads : q # l => t.ref[q] = s.ref[q]

LEMMA BornInv ==
    ASSUME NEW s, LifeInv(s), NEW l \in Loads, s.ref[l].st = "none",
           NEW h \in Infohashes, NEW owned \in BOOLEAN, NEW st \in {"live", "failed"}
    PROVE  /\ LifeInv(Born(s, l, h, owned, st))
           /\ Added(s, Born(s, l, h, owned, st), h, l, owned, st)
<1>0. s \in Life /\ Registration(s) /\ Retention(s) /\ UseIsSafe(s) /\ Destructions(s)
  BY DEF LifeInv
<1>t. PICK t : t = Born(s, l, h, owned, st)
  OBVIOUS
<1>b. PICK b : b = [ih |-> h, owned |-> owned, st |-> st, prog |-> 0,
                    readers |-> 0, retainedBy |-> {}]
  OBVIOUS
<1>1. /\ t.current = s.current /\ t.tail = s.tail
      /\ t.ref = [s.ref EXCEPT ![l] = b]
      /\ t.refs = [s.refs EXCEPT ![h] = l]
      /\ t = [ref |-> t.ref, refs |-> t.refs, current |-> t.current, tail |-> t.tail]
  BY <1>0, <1>t, <1>b DEF Life, Born
<1>2. /\ b \in Ref /\ b.ih = h /\ b.st = st /\ b.readers = 0 /\ b.retainedBy = {}
      /\ b.owned = owned
  BY <1>b DEF Ref, States, Destroyed
<1>3. /\ t.ref \in [Loads -> Ref]
      /\ \A q \in Loads : t.ref[q] = IF q = l THEN b ELSE s.ref[q]
  <2>1. s.ref \in [Loads -> Ref] /\ t.ref = [s.ref EXCEPT ![l] = b]
    BY <1>0, <1>1, LifeType
  <2> QED  BY <2>1, <1>2
<1>4. /\ t.refs \in [Infohashes -> Loads \cup {NoRef}]
      /\ \A k \in Infohashes : t.refs[k] = IF k = h THEN l ELSE s.refs[k]
  <2>1. s.refs \in [Infohashes -> Loads \cup {NoRef}] /\ t.refs = [s.refs EXCEPT ![h] = l]
    BY <1>0, <1>1, LifeType
  <2> QED  BY <2>1
<1>5. t \in Life
  BY <1>0, <1>1, <1>3, <1>4, LifeType DEF Life
<1>6. Registration(t)
  <2> SUFFICES ASSUME NEW k \in Infohashes, t.refs[k] # NoRef
               PROVE  t.ref[t.refs[k]].ih = k /\ t.ref[t.refs[k]].st \notin {"none", "reaped"}
    BY DEF Registration
  <2>1. CASE k = h
    BY <2>1, <1>2, <1>3, <1>4
  <2>2. CASE k # h
    <3>1. t.refs[k] = s.refs[k] /\ s.refs[k] \in Loads
      BY <2>2, <1>0, <1>4, LifeType
    <3>2. s.ref[s.refs[k]].ih = k /\ s.ref[s.refs[k]].st \notin {"none", "reaped"}
      BY <3>1, <1>0 DEF Registration
    <3>3. s.refs[k] # l
      BY <3>2
    <3> QED  BY <3>1, <3>2, <3>3, <1>3
  <2> QED  BY <2>1, <2>2
<1>7. s.ref[l].retainedBy = {}
  BY <1>0 DEF UseIsSafe, InUse
<1>8. Retention(t)
  <2> SUFFICES ASSUME NEW p \in Pubs, NEW q \in Loads
               PROVE  t.current[p] = q <=> p \in t.ref[q].retainedBy
    BY DEF Retention
  <2>1. s.current[p] = q <=> p \in s.ref[q].retainedBy
    BY <1>0 DEF Retention
  <2>2. t.ref[q].retainedBy = s.ref[q].retainedBy
    BY <1>2, <1>3, <1>7
  <2> QED  BY <2>1, <2>2, <1>1
<1>9. UseIsSafe(t)
  <2> SUFFICES ASSUME NEW q \in Loads, InUse(t.ref[q])
               PROVE  t.ref[q].st \notin {"none", "reaped"}
    BY DEF UseIsSafe
  <2>1. q # l
    BY <1>2, <1>3 DEF InUse
  <2> QED  BY <2>1, <1>0, <1>3 DEF UseIsSafe
<1>10. Destructions(t)
  <2>1. StillDoomed(s, t)
    <3> SUFFICES ASSUME NEW p \in Op, NEW k \in Infohashes, Doomed(s, p, k), Emptied(s, p)
                 PROVE  Doomed(t, p, k) /\ Emptied(t, p)
      BY DEF StillDoomed
    <3>1. p.id \in Loads /\ p.id # l
      BY DEF Op, Doomed
    <3>2. t.ref[p.id] = s.ref[p.id]
      BY <3>1, <1>3
    <3> QED  BY <3>2 DEF Doomed, Emptied
  <2>2. ASSUME NEW k \in Infohashes, NEW i \in 1..Len(t.tail[k])
        PROVE  \E j \in 1..Len(s.tail[k]) : t.tail[k][i] = s.tail[k][j]
    BY <1>1
  <2>3. \A k \in Infohashes : \A i \in 1..Len(t.tail[k]) :
           t.tail[k][i].op # "acquire" =>
              \/ \E j \in 1..Len(s.tail[k]) : t.tail[k][i] = s.tail[k][j]
              \/ Doomed(t, t.tail[k][i], k) /\ Emptied(t, t.tail[k][i])
    BY <2>2
  <2> QED  BY <2>1, <2>3, <1>0, DestructionsFrom
<1>11. LifeInv(t)
  BY <1>5, <1>6, <1>8, <1>9, <1>10 DEF LifeInv
<1>12. Added(s, t, h, l, owned, st)
  BY <1>1, <1>2, <1>3, <1>4 DEF Added
<1> QED  BY <1>11, <1>12, <1>t

\* Torrents make progress, fail or are closed from outside the lifecycle.
LEMMA TorrentInv ==
    ASSUME NEW s, LifeInv(s), NEW t \in Life,
           t.refs = s.refs, t.current = s.current, t.tail = s.tail,
           \A r \in Loads : /\ t.ref[r].readers = s.ref[r].readers
                            /\ t.ref[r].retainedBy = s.ref[r].retainedBy
                            /\ t.ref[r].ih = s.ref[r].ih
                            /\ \/ t.ref[r].st = s.ref[r].st
                               \/ s.ref[r].st = "live" /\ t.ref[r].st \in {"failed", "closed"}
    PROVE  LifeInv(t)
<1>0. s \in Life /\ Registration(s) /\ Retention(s) /\ UseIsSafe(s) /\ Destructions(s)
  BY DEF LifeInv
<1>1. Registration(t)
  <2> SUFFICES ASSUME NEW k \in Infohashes, t.refs[k] # NoRef
               PROVE  t.ref[t.refs[k]].ih = k /\ t.ref[t.refs[k]].st \notin {"none", "reaped"}
    BY DEF Registration
  <2>1. s.refs[k] \in Loads
    BY <1>0, LifeType
  <2> QED  BY <2>1, <1>0 DEF Registration
<1>2. Retention(t)
  BY <1>0 DEF Retention
<1>3. UseIsSafe(t)
  <2> SUFFICES ASSUME NEW r \in Loads, InUse(t.ref[r])
               PROVE  t.ref[r].st \notin {"none", "reaped"}
    BY DEF UseIsSafe
  <2>1. InUse(s.ref[r])
    BY DEF InUse
  <2>2. s.ref[r].st \notin {"none", "reaped"}
    BY <2>1, <1>0 DEF UseIsSafe
  <2> QED  BY <2>2
<1>4. Destructions(t)
  <2>1. StillDoomed(s, t)
    <3> SUFFICES ASSUME NEW p \in Op, NEW k \in Infohashes, Doomed(s, p, k), Emptied(s, p)
                 PROVE  Doomed(t, p, k) /\ Emptied(t, p)
      BY DEF StillDoomed
    <3>1. p.id \in Loads
      BY DEF Op
    <3>2. /\ t.ref[p.id].ih = s.ref[p.id].ih
          /\ \/ t.ref[p.id].st = s.ref[p.id].st
             \/ s.ref[p.id].st = "live" /\ t.ref[p.id].st \in {"failed", "closed"}
      BY <3>1
    <3> QED  BY <3>2 DEF Doomed, Emptied
  <2>2. ASSUME NEW k \in Infohashes, NEW i \in 1..Len(t.tail[k])
        PROVE  \E j \in 1..Len(s.tail[k]) : t.tail[k][i] = s.tail[k][j]
    OBVIOUS
  <2>3. \A k \in Infohashes : \A i \in 1..Len(t.tail[k]) :
           t.tail[k][i].op # "acquire" =>
              \/ \E j \in 1..Len(s.tail[k]) : t.tail[k][i] = s.tail[k][j]
              \/ Doomed(t, t.tail[k][i], k) /\ Emptied(t, t.tail[k][i])
    BY <2>2
  <2> QED  BY <2>1, <2>3, <1>0, DestructionsFrom
<1> QED  BY <1>1, <1>2, <1>3, <1>4 DEF LifeInv

-----------------------------------------------------------------------------
LifeNow == LifeInv(Now)

LEMMA LifeStep ==
    ASSUME NEW t, LifeInv(t), Becomes(t)
    PROVE  LifeNow'
<1>1. t \in Life
  BY DEF LifeInv
<1>2. t = [ref |-> t.ref, refs |-> t.refs, current |-> t.current, tail |-> t.tail]
  BY <1>1 DEF Life
<1>3. t = Now'
  BY <1>2 DEF Becomes, Now
<1> QED  BY <1>3 DEF LifeNow

-----------------------------------------------------------------------------
(***************************************************************************)
(* The loads and their callers.                                            *)
(***************************************************************************)
CallsType ==
    /\ rec \in [Pubs -> Infohashes]
    /\ cache \in Seq(Keys)
    /\ inflight \in [Keys -> Loads \cup {NoLoad}]
    /\ load \in [Loads -> Load]
    /\ caller \in [Callers -> Loads \cup {NoLoad}]
    /\ ext \in [Infohashes -> BOOLEAN]
    /\ disk \subseteq Pubs \X Infohashes \X Loads
    /\ events \in Nat

Unstarted == \A l \in Loads : load[l].pc = "unused" => load[l].waiters = 0

\* Only a load that has started can be joined.
Joinable == \A k \in Keys : inflight[k] # NoLoad => load[inflight[k]].pc # "unused"

HoldRef == \A l \in Loads : load[l].pc \in Holding => load[l].ref \in Loads

Early == {"unused", "queued", "get", "mkdir"}
Pcs == Early \cup {"done"} \cup Holding

\* A load that has not acquired has not created its ref.
Unborn == \A l \in Loads : load[l].pc \in Early => ref[l].st = "none"

\* The inductive invariant.
IInv == /\ CallsType
        /\ LifeNow
        /\ WaitersCount
        /\ Unstarted
        /\ Joinable
        /\ HoldRef
        /\ ReaderCount
        /\ Unborn

LEMMA NowFields ==
    ASSUME LifeNow
    PROVE  /\ LifeInv(Now) /\ Now \in Life
           /\ Now.ref = ref /\ Now.refs = refs /\ Now.current = current /\ Now.tail = tail
BY DEF LifeNow, LifeInv, Now

LEMMA LoadType ==
    ASSUME CallsType
    PROVE  \A l \in Loads : /\ load[l] \in Load
                            /\ load[l].pc \in Pcs
                            /\ load[l].pk \in Pubs /\ load[l].ih \in Infohashes
                            /\ load[l].ref \in Loads \cup {NoRef}
                            /\ load[l].waiters \in Nat
                            /\ load[l].aborted \in BOOLEAN
                            /\ KeyOf(l) \in Keys
<1>1. \A l \in Loads : load[l] \in Load
  BY DEF CallsType
<1> QED  BY <1>1 DEF Load, Pcs, Early, KeyOf, Keys

\* A load at another control point.
Pc(f, l, x) == [f EXCEPT ![l].pc = x]

LEMMA PcProperties ==
    ASSUME NEW f \in [Loads -> Load], NEW l \in Loads, NEW x \in Pcs
    PROVE  /\ Pc(f, l, x) \in [Loads -> Load]
           /\ \A k \in Loads : /\ k # l => Pc(f, l, x)[k] = f[k]
                               /\ Pc(f, l, x)[k].pc = IF k = l THEN x ELSE f[k].pc
                               /\ Pc(f, l, x)[k].ref = f[k].ref
                               /\ Pc(f, l, x)[k].waiters = f[k].waiters
                               /\ Pc(f, l, x)[k].aborted = f[k].aborted
                               /\ Pc(f, l, x)[k].pk = f[k].pk
                               /\ Pc(f, l, x)[k].ih = f[k].ih
<1> DEFINE new == [f[l] EXCEPT !.pc = x]
<1>1. f[l] \in Load
  OBVIOUS
<1>2. /\ new \in Load /\ new.pc = x /\ new.ref = f[l].ref
      /\ new.waiters = f[l].waiters /\ new.aborted = f[l].aborted
      /\ new.pk = f[l].pk /\ new.ih = f[l].ih
  BY <1>1 DEF Load, Pcs, Early
<1>3. Pc(f, l, x) = [f EXCEPT ![l] = new]
  BY DEF Pc
<1> HIDE DEF new
<1>4. \A k \in Loads : Pc(f, l, x)[k] = IF k = l THEN new ELSE f[k]
  BY <1>3
<1> QED  BY <1>2, <1>3, <1>4

LEMMA HoldersFinite ==
    ASSUME NEW r
    PROVE  IsFiniteSet(Holders(r)) /\ Cardinality(Holders(r)) \in Nat
<1>1. Holders(r) \subseteq Loads
  BY DEF Holders
<1>2. IsFiniteSet(Loads)
  BY LoadsAssumption
<1>3. IsFiniteSet(Holders(r))
  BY <1>1, <1>2, FS_Subset
<1> QED  BY <1>3, FS_CardinalityType

LEMMA ReadersKeep ==
    ASSUME ReaderCount,
           \A r \in Loads : ref'[r].readers = ref[r].readers,
           \A k \in Loads : /\ load'[k].pc \in Holding <=> load[k].pc \in Holding
                            /\ load[k].pc \in Holding => load'[k].ref = load[k].ref
    PROVE  ReaderCount'
<1>1. \A r \in Loads : Holders(r)' = Holders(r)
  BY DEF Holders
<1> QED  BY <1>1 DEF ReaderCount

LEMMA ReadersTake ==
    ASSUME ReaderCount, NEW l \in Loads, NEW r \in Loads,
           load[l].pc \notin Holding, load'[l].pc \in Holding, load'[l].ref = r,
           \A k \in Loads : k # l => load'[k] = load[k],
           \A q \in Loads : ref'[q].readers = IF q = r THEN ref[r].readers + 1
                                                       ELSE ref[q].readers
    PROVE  ReaderCount'
<1> SUFFICES ASSUME NEW q \in Loads
             PROVE  ref'[q].readers = Cardinality(Holders(q)')
  BY DEF ReaderCount
<1>1. ref[q].readers = Cardinality(Holders(q))
  BY DEF ReaderCount
<1>2. CASE q = r
  <2>1. Holders(q)' = Holders(q) \cup {l} /\ l \notin Holders(q)
    BY <1>2 DEF Holders
  <2>2. Cardinality(Holders(q)') = Cardinality(Holders(q)) + 1
    BY <2>1, HoldersFinite, FS_AddElement, ZenonT(60)
  <2> QED  BY <2>2, <1>1, <1>2
<1>3. CASE q # r
  <2>1. Holders(q)' = Holders(q)
    BY <1>3 DEF Holders
  <2> QED  BY <2>1, <1>1, <1>3
<1> QED  BY <1>2, <1>3

LEMMA ReadersDrop ==
    ASSUME ReaderCount, NEW l \in Loads, NEW r \in Loads,
           load[l].pc \in Holding, load[l].ref = r, load'[l].pc \notin Holding,
           \A k \in Loads : k # l => load'[k] = load[k],
           \A q \in Loads : ref'[q].readers = IF q = r THEN ref[r].readers - 1
                                                       ELSE ref[q].readers
    PROVE  ReaderCount'
<1> SUFFICES ASSUME NEW q \in Loads
             PROVE  ref'[q].readers = Cardinality(Holders(q)')
  BY DEF ReaderCount
<1>1. ref[q].readers = Cardinality(Holders(q))
  BY DEF ReaderCount
<1>2. CASE q = r
  <2>1. Holders(q)' = Holders(q) \ {l} /\ l \in Holders(q)
    BY <1>2 DEF Holders
  <2>2. Cardinality(Holders(q)') = Cardinality(Holders(q)) - 1
    BY <2>1, HoldersFinite, FS_RemoveElement
  <2> QED  BY <2>2, <1>1, <1>2
<1>3. CASE q # r
  <2>1. Holders(q)' = Holders(q)
    BY <1>3 DEF Holders
  <2> QED  BY <2>1, <1>1, <1>3
<1> QED  BY <1>2, <1>3

\* A load that holds a ref is one of its readers.
LEMMA HeldHasReaders ==
    ASSUME IInv, NEW l \in Loads, load[l].pc \in Holding
    PROVE  load[l].ref \in Loads /\ ref[load[l].ref].readers > 0
<1>1. PICK r \in Loads : r = load[l].ref
  BY DEF IInv, HoldRef
<1>2. l \in Holders(r)
  BY <1>1 DEF Holders
<1>3. Cardinality(Holders(r)) # 0
  BY <1>2, HoldersFinite, FS_EmptySet
<1>4. ref[r].readers = Cardinality(Holders(r))
  BY DEF IInv, ReaderCount
<1> QED  BY <1>1, <1>3, <1>4, HoldersFinite

LEMMA WaitersKeep ==
    ASSUME WaitersCount, Unstarted, caller' = caller,
           \A k \in Loads : /\ load'[k].waiters = load[k].waiters
                            /\ load'[k].aborted = load[k].aborted
                            /\ load'[k].pc = "unused" => load[k].pc = "unused"
    PROVE  WaitersCount' /\ Unstarted'
BY DEF WaitersCount, Unstarted

LEMMA JoinableKeep ==
    ASSUME CallsType, Joinable,
           \A k \in Keys : inflight'[k] = inflight[k] \/ inflight'[k] = NoLoad,
           \A l \in Loads : load'[l].pc = "unused" => load[l].pc = "unused"
    PROVE  Joinable'
<1> SUFFICES ASSUME NEW k \in Keys, inflight'[k] # NoLoad
             PROVE  load'[inflight'[k]].pc # "unused"
  BY DEF Joinable
<1>1. inflight'[k] = inflight[k] /\ inflight[k] \in Loads
  BY DEF CallsType
<1>2. load[inflight[k]].pc # "unused"
  BY <1>1 DEF Joinable
<1> QED  BY <1>1, <1>2

LEMMA LifeSame ==
    ASSUME LifeNow, UNCHANGED life
    PROVE  LifeNow'
<1>1. Now' = Now
  BY DEF Now, life
<1> QED  BY <1>1 DEF LifeNow

LEMMA CapStep ==
    ASSUME NEW s, LifeInv(s), CapTorrents(s)
    PROVE  /\ LifeNow'
           /\ \A r \in Loads : /\ ref'[r].readers = s.ref[r].readers
                               /\ ref'[r].st = s.ref[r].st
<1>1. PICK V \in Victims(s) : Becomes(Evict(s, V))
  BY DEF CapTorrents
<1>2. LET t == Evict(s, V) IN t \in Life /\ Frame(s, t) /\ LifeInv(t)
  BY EvictInv
<1>3. LifeNow'
  BY <1>1, <1>2, LifeStep
<1>4. ref' = Evict(s, V).ref
  BY <1>1 DEF Becomes
<1> QED  BY <1>2, <1>3, <1>4 DEF Frame, FrameRef

LEMMA PcStep ==
    ASSUME IInv, NEW l \in Loads, NEW x \in Pcs, x # "unused",
           load' = Pc(load, l, x), caller' = caller,
           \A k \in Keys : inflight'[k] = inflight[k] \/ inflight'[k] = NoLoad,
           x \in Holding => load[l].pc \in Holding
    PROVE  /\ load' \in [Loads -> Load]
           /\ WaitersCount' /\ Unstarted' /\ HoldRef' /\ Joinable'
           /\ \A k \in Loads : /\ k # l => load'[k] = load[k]
                               /\ load'[k].pc = IF k = l THEN x ELSE load[k].pc
                               /\ load'[k].ref = load[k].ref
<1>1. load \in [Loads -> Load]
  BY DEF IInv, CallsType
<1>2. /\ load' \in [Loads -> Load]
      /\ \A k \in Loads : /\ k # l => load'[k] = load[k]
                          /\ load'[k].pc = IF k = l THEN x ELSE load[k].pc
                          /\ load'[k].ref = load[k].ref
                          /\ load'[k].waiters = load[k].waiters
                          /\ load'[k].aborted = load[k].aborted
  BY <1>1, PcProperties
<1>3. WaitersCount' /\ Unstarted'
  <2>1. WaitersCount /\ Unstarted
    BY DEF IInv
  <2> QED  BY <2>1, <1>2, WaitersKeep
<1>4. HoldRef'
  BY <1>2 DEF IInv, HoldRef
<1>5. Joinable'
  <2>1. CallsType /\ Joinable
    BY DEF IInv
  <2>2. \A k \in Loads : load'[k].pc = "unused" => load[k].pc = "unused"
    BY <1>2
  <2> QED  BY <2>1, <2>2, JoinableKeep
<1> QED  BY <1>2, <1>3, <1>4, <1>5

LEMMA UnbornKeep ==
    ASSUME Unborn,
           \A k \in Loads : load'[k].pc \in Early => load[k].pc \in Early,
           \A k \in Loads : ref[k].st = "none" => ref'[k].st = "none"
    PROVE  Unborn'
BY DEF Unborn

-----------------------------------------------------------------------------
(***************************************************************************)
(* One lemma per action.                                                   *)
(***************************************************************************)
LEMMA InitInv == Init => IInv
<1> SUFFICES ASSUME Init PROVE IInv
  OBVIOUS
<1>1. AnyPub \in Pubs /\ AnyInfohash \in Infohashes
  BY KeysAssumption DEF AnyPub, AnyInfohash
<1>2. \A l \in Loads : /\ load[l] \in Load /\ load[l].pc = "unused"
                       /\ load[l].waiters = 0 /\ load[l].aborted = FALSE
  BY <1>1 DEF Init, Load
<1>3. CallsType
  <2>1. load \in [Loads -> Load]
    BY <1>2 DEF Init
  <2>2. inflight \in [Keys -> Loads \cup {NoLoad}] /\ caller \in [Callers -> Loads \cup {NoLoad}]
    BY DEF Init
  <2>3. cache \in Seq(Keys)
    BY DEF Init
  <2> QED  BY <2>1, <2>2, <2>3 DEF Init, CallsType
<1>4. \A r \in Loads : /\ ref[r] \in Ref /\ ref[r].st = "none"
                       /\ ref[r].readers = 0 /\ ref[r].retainedBy = {}
  BY <1>1 DEF Init, Ref, States
<1>5. LifeNow
  <2>1. /\ Now.ref = ref /\ Now.refs = refs /\ Now.current = current /\ Now.tail = tail
    BY DEF Now
  <2>2. /\ ref \in [Loads -> Ref] /\ refs \in [Infohashes -> Loads \cup {NoRef}]
        /\ current \in [Pubs -> Loads \cup {NoRef}] /\ tail \in [Infohashes -> Seq(Op)]
    <3>1. ref \in [Loads -> Ref]
      BY <1>4 DEF Init
    <3>2. <<>> \in Seq(Op)
      OBVIOUS
    <3> QED  BY <3>1, <3>2 DEF Init
  <2>3. Now \in Life
    BY <2>2 DEF Now, Life
  <2>4. Registration(Now)
    BY <2>1 DEF Init, Registration
  <2>5. Retention(Now)
    BY <2>1, <1>4, NullsAssumption DEF Init, Retention
  <2>6. UseIsSafe(Now)
    BY <2>1, <1>4 DEF UseIsSafe, InUse
  <2>7. Destructions(Now)
    BY <2>1 DEF Init, Destructions
  <2> QED  BY <2>3, <2>4, <2>5, <2>6, <2>7 DEF LifeNow, LifeInv
<1>6. WaitersCount
  <2> SUFFICES ASSUME NEW l \in Loads
               PROVE  /\ load[l].waiters = Cardinality({c \in Callers : caller[c] = l})
                      /\ load[l].aborted => load[l].waiters = 0
    BY DEF WaitersCount
  <2>1. {c \in Callers : caller[c] = l} = {}
    BY NullsAssumption DEF Init
  <2> QED  BY <2>1, <1>2, FS_EmptySet
<1>7. Unstarted /\ Joinable /\ HoldRef /\ Unborn
  BY <1>2, <1>4 DEF Init, Unstarted, Joinable, HoldRef, Unborn, Holding, Waiting
<1>8. ReaderCount
  <2> SUFFICES ASSUME NEW r \in Loads
               PROVE  ref[r].readers = Cardinality(Holders(r))
    BY DEF ReaderCount
  <2>1. Holders(r) = {}
    BY <1>2 DEF Holders, Holding, Waiting
  <2> QED  BY <2>1, <1>4, FS_EmptySet
<1> QED  BY <1>3, <1>5, <1>6, <1>7, <1>8 DEF IInv

LEMMA HitInv ==
    ASSUME IInv, NEW c \in Callers, NEW pk \in Pubs, CatalogHit(c, pk)
    PROVE  IInv'
<1>1. UNCHANGED <<rec, inflight, load, caller, life, ext, disk, events>>
  BY DEF CatalogHit
<1>2. cache' \in Seq(Keys)
  <2>1. cache \in Seq(Keys)
    BY DEF IInv, CallsType
  <2>2. PICK i \in 1..Len(cache) :
          cache' = SubSeq(cache, 1, i - 1) \o SubSeq(cache, i + 1, Len(cache)) \o <<cache[i]>>
    BY DEF CatalogHit
  <2>3. SubSeq(cache, 1, i - 1) \in Seq(Keys) /\ SubSeq(cache, i + 1, Len(cache)) \in Seq(Keys)
    BY <2>1
  <2>4. <<cache[i]>> \in Seq(Keys)
    BY <2>1
  <2>5. SubSeq(cache, 1, i - 1) \o SubSeq(cache, i + 1, Len(cache)) \in Seq(Keys)
    BY <2>3, ConcatProperties
  <2> QED  BY <2>2, <2>4, <2>5, ConcatProperties
<1>3. CallsType'
  BY <1>1, <1>2 DEF IInv, CallsType
<1>4. LifeNow'
  BY <1>1, LifeSame DEF IInv
<1>5. WaitersCount' /\ Unstarted' /\ Joinable' /\ HoldRef' /\ ReaderCount' /\ Unborn'
  BY <1>1 DEF IInv, WaitersCount, Unstarted, Joinable, HoldRef, ReaderCount, Holders, Unborn, life
<1> QED  BY <1>3, <1>4, <1>5 DEF IInv

\* The callers that wait for a load.
Waits(l) == {c \in Callers : caller[c] = l}

LEMMA WaitsFinite ==
    ASSUME NEW l
    PROVE  IsFiniteSet(Waits(l)) /\ Cardinality(Waits(l)) \in Nat
<1>1. Waits(l) \subseteq Callers /\ IsFiniteSet(Callers)
  BY LoadsAssumption DEF Waits
<1>2. IsFiniteSet(Waits(l))
  BY <1>1, FS_Subset
<1> QED  BY <1>2, FS_CardinalityType

LEMMA JoinInv ==
    ASSUME IInv, NEW c \in Callers, NEW pk \in Pubs, CatalogJoin(c, pk)
    PROVE  IInv'
<1>1. PICK l : l = inflight[<<pk, rec[pk]>>]
  OBVIOUS
<1>2. /\ l # NoLoad /\ ~load[l].aborted /\ caller[c] = NoLoad
      /\ caller' = [caller EXCEPT ![c] = l]
      /\ load' = [load EXCEPT ![l].waiters = @ + 1]
      /\ UNCHANGED <<rec, cache, inflight, life, ext, disk, events>>
  BY <1>1 DEF CatalogJoin, Miss
<1>3. l \in Loads
  BY <1>1, <1>2 DEF IInv, CallsType, Keys
<1>4. load[l] \in Load /\ load \in [Loads -> Load] /\ load[l].waiters \in Nat
  BY <1>3, LoadType DEF IInv, CallsType
<1>5. PICK new : new = [load[l] EXCEPT !.waiters = @ + 1]
  OBVIOUS
<1>6. /\ new \in Load /\ new.waiters = load[l].waiters + 1 /\ new.pc = load[l].pc
      /\ new.ref = load[l].ref /\ new.aborted = load[l].aborted
  BY <1>4, <1>5 DEF Load
<1>7. load' = [load EXCEPT ![l] = new]
  BY <1>2, <1>5
<1>8. load' \in [Loads -> Load] /\ \A k \in Loads : load'[k] = IF k = l THEN new ELSE load[k]
  BY <1>4, <1>6, <1>7
<1>9. caller' \in [Callers -> Loads \cup {NoLoad}]
      /\ \A d \in Callers : caller'[d] = IF d = c THEN l ELSE caller[d]
  <2>1. caller \in [Callers -> Loads \cup {NoLoad}]
    BY DEF IInv, CallsType
  <2> QED  BY <2>1, <1>2, <1>3
<1>10. CallsType'
  BY <1>2, <1>8, <1>9 DEF IInv, CallsType
<1>11. LifeNow'
  BY <1>2, LifeSame DEF IInv
<1>12. WaitersCount'
  <2> SUFFICES ASSUME NEW k \in Loads
               PROVE  /\ load'[k].waiters = Cardinality(Waits(k)')
                      /\ load'[k].aborted => load'[k].waiters = 0
    BY DEF WaitersCount, Waits
  <2>1. load[k].waiters = Cardinality(Waits(k)) /\ (load[k].aborted => load[k].waiters = 0)
    BY DEF IInv, WaitersCount, Waits
  <2>2. CASE k = l
    <3>1. Waits(k)' = Waits(k) \cup {c} /\ c \notin Waits(k)
      BY <2>2, <1>2, <1>3, <1>9, NullsAssumption DEF Waits
    <3>2. Cardinality(Waits(k)') = Cardinality(Waits(k)) + 1
      BY <3>1, WaitsFinite, FS_AddElement
    <3> QED  BY <3>2, <2>1, <2>2, <1>2, <1>6, <1>8
  <2>3. CASE k # l
    <3>1. Waits(k)' = Waits(k)
      BY <2>3, <1>2, <1>9, NullsAssumption DEF Waits
    <3> QED  BY <3>1, <2>1, <2>3, <1>8
  <2> QED  BY <2>2, <2>3
<1>13. Unstarted' /\ Joinable' /\ HoldRef'
  <2>1. load[l].pc # "unused"
    BY <1>1, <1>2 DEF IInv, CallsType, Joinable, Keys
  <2>2. Unstarted'
    BY <2>1, <1>6, <1>8 DEF IInv, Unstarted
  <2>3. HoldRef'
    BY <1>6, <1>8 DEF IInv, HoldRef
  <2>4. CallsType /\ Joinable
    BY DEF IInv
  <2>5. \A k \in Loads : load'[k].pc = "unused" => load[k].pc = "unused"
    BY <1>6, <1>8
  <2>6. inflight' = inflight
    BY <1>2
  <2>7. Joinable'
    BY <2>4, <2>5, <2>6, JoinableKeep
  <2> QED  BY <2>2, <2>3, <2>7
<1>14. ref' = ref
  BY <1>2 DEF life
<1>15. ReaderCount'
  <2>1. ReaderCount
    BY DEF IInv
  <2>2. \A k \in Loads : /\ load'[k].pc \in Holding <=> load[k].pc \in Holding
                         /\ load[k].pc \in Holding => load'[k].ref = load[k].ref
    BY <1>6, <1>8
  <2> QED  BY <2>1, <2>2, <1>14, ReadersKeep
<1>16. Unborn'
  BY <1>6, <1>8, <1>14 DEF IInv, Unborn
<1> QED  BY <1>10, <1>11, <1>12, <1>13, <1>15, <1>16 DEF IInv

LEMMA StartInv ==
    ASSUME IInv, NEW c \in Callers, NEW pk \in Pubs, NEW l \in Loads,
           CatalogStart(c, pk, l)
    PROVE  IInv'
<1>h. PICK h \in Infohashes : h = rec[pk]
  BY DEF IInv, CallsType
<1>k. PICK key \in Keys : key = <<pk, h>>
  BY DEF Keys
<1>n. PICK new : new = [pc |-> "queued", pk |-> pk, ih |-> h, ref |-> NoRef,
                        waiters |-> 1, aborted |-> FALSE]
  OBVIOUS
<1>1. /\ caller[c] = NoLoad
      /\ load[l].pc = "unused"
      /\ load' = [load EXCEPT ![l] = new]
      /\ inflight' = [inflight EXCEPT ![key] = l]
      /\ caller' = [caller EXCEPT ![c] = l]
      /\ tail' = [tail EXCEPT ![h] = Append(@, [op |-> "acquire", id |-> l])]
      /\ UNCHANGED <<rec, cache, ref, refs, current, ext, disk, events>>
  BY <1>h, <1>k, <1>n DEF CatalogStart, Miss
<1>2. /\ new \in Load /\ new.waiters = 1 /\ new.pc = "queued" /\ new.aborted = FALSE
      /\ "queued" \in Early /\ "queued" \notin Holding /\ "unused" \in Early
      /\ "unused" \notin Holding
  BY <1>n DEF Load, Early, Holding, Waiting
<1>3. /\ load' \in [Loads -> Load]
      /\ \A k \in Loads : load'[k] = IF k = l THEN new ELSE load[k]
  BY <1>1, <1>2 DEF IInv, CallsType
<1>4. /\ inflight' \in [Keys -> Loads \cup {NoLoad}]
      /\ \A k \in Keys : inflight'[k] = IF k = key THEN l ELSE inflight[k]
  BY <1>1 DEF IInv, CallsType
<1>5. /\ caller' \in [Callers -> Loads \cup {NoLoad}]
      /\ \A d \in Callers : caller'[d] = IF d = c THEN l ELSE caller[d]
  <2>1. caller \in [Callers -> Loads \cup {NoLoad}]
    BY DEF IInv, CallsType
  <2> QED  BY <2>1, <1>1
<1>6. CallsType'
  BY <1>1, <1>3, <1>4, <1>5 DEF IInv, CallsType
<1>7. LifeNow'
  <2>0. LifeNow
    BY DEF IInv
  <2>1. PICK t : t = [Now EXCEPT !.tail[h] = Append(@, [op |-> "acquire", id |-> l])]
    OBVIOUS
  <2>2. LifeInv(t) /\ t.ref = ref /\ t.refs = refs /\ t.current = current
    BY <2>0, <2>1, QueueInv, NowFields
  <2>3. Becomes(t)
    BY <2>0, <2>1, <2>2, <1>1, NowFields DEF Becomes, Now
  <2> QED  BY <2>2, <2>3, LifeStep
<1>8. WaitersCount'
  <2> SUFFICES ASSUME NEW k \in Loads
               PROVE  /\ load'[k].waiters = Cardinality(Waits(k)')
                      /\ load'[k].aborted => load'[k].waiters = 0
    BY DEF WaitersCount, Waits
  <2>1. load[k].waiters = Cardinality(Waits(k)) /\ (load[k].aborted => load[k].waiters = 0)
    BY DEF IInv, WaitersCount, Waits
  <2>2. CASE k = l
    <3>1. Waits(k)' = Waits(k) \cup {c} /\ c \notin Waits(k)
      BY <2>2, <1>1, <1>5, NullsAssumption DEF Waits
    <3>2. Cardinality(Waits(k)') = Cardinality(Waits(k)) + 1
      BY <3>1, WaitsFinite, FS_AddElement
    <3>3. load[k].waiters = 0
      BY <2>2, <1>1 DEF IInv, Unstarted
    <3> QED  BY <3>2, <3>3, <2>1, <2>2, <1>2, <1>3
  <2>3. CASE k # l
    <3>1. Waits(k)' = Waits(k)
      BY <2>3, <1>1, <1>5, NullsAssumption DEF Waits
    <3> QED  BY <3>1, <2>1, <2>3, <1>3
  <2> QED  BY <2>2, <2>3
<1>9. Unstarted' /\ HoldRef'
  BY <1>2, <1>3 DEF IInv, Unstarted, HoldRef
<1>10. Joinable'
  <2> SUFFICES ASSUME NEW k \in Keys, inflight'[k] # NoLoad
               PROVE  load'[inflight'[k]].pc # "unused"
    BY DEF Joinable
  <2>1. inflight'[k] \in Loads
    BY <1>4
  <2>2. CASE inflight'[k] = l
    BY <2>2, <1>2, <1>3
  <2>3. CASE inflight'[k] # l
    <3>1. inflight[k] = inflight'[k]
      BY <2>3, <1>4
    <3> QED  BY <3>1, <2>1, <2>3, <1>3 DEF IInv, Joinable
  <2> QED  BY <2>2, <2>3
<1>11. ReaderCount'
  <2>1. ReaderCount
    BY DEF IInv
  <2>2. \A k \in Loads : /\ load'[k].pc \in Holding <=> load[k].pc \in Holding
                         /\ load[k].pc \in Holding => load'[k].ref = load[k].ref
    BY <1>1, <1>2, <1>3
  <2>3. ref' = ref
    BY <1>1
  <2> QED  BY <2>1, <2>2, <2>3, ReadersKeep
<1>12. Unborn'
  BY <1>1, <1>2, <1>3 DEF IInv, Unborn
<1> QED  BY <1>6, <1>7, <1>8, <1>9, <1>10, <1>11, <1>12 DEF IInv

LEMMA LeaveInv ==
    ASSUME IInv, NEW c \in Callers, Leave(c)
    PROVE  IInv'
<1>1. PICK l : l = caller[c]
  OBVIOUS
<1>2. PICK last \in BOOLEAN :
        last = (load[l].waiters = 1 /\ load[l].pc # "done" /\ ~load[l].aborted)
  OBVIOUS
<1>3. /\ l # NoLoad
      /\ caller' = [caller EXCEPT ![c] = NoLoad]
      /\ load' = [load EXCEPT ![l].waiters = @ - 1, ![l].aborted = @ \/ last]
      /\ inflight' = IF last /\ inflight[KeyOf(l)] = l
                     THEN [inflight EXCEPT ![KeyOf(l)] = NoLoad] ELSE inflight
      /\ UNCHANGED <<rec, cache, life, ext, disk, events>>
  BY <1>1, <1>2 DEF Leave
<1>4. l \in Loads
  BY <1>1, <1>3 DEF IInv, CallsType
<1>5. load \in [Loads -> Load] /\ load[l] \in Load /\ load[l].waiters \in Nat
      /\ load[l].aborted \in BOOLEAN /\ KeyOf(l) \in Keys
  BY <1>4, LoadType DEF IInv, CallsType
<1>6. load[l].waiters = Cardinality(Waits(l)) /\ (load[l].aborted => load[l].waiters = 0)
  BY <1>4 DEF IInv, WaitersCount, Waits
<1>7. c \in Waits(l)
  BY <1>1 DEF Waits
<1>8. load[l].waiters > 0
  <2>1. Cardinality(Waits(l)) # 0
    BY <1>7, WaitsFinite, FS_EmptySet
  <2> QED  BY <2>1, <1>5, <1>6
<1>9. ~load[l].aborted /\ load[l].pc # "unused"
  BY <1>4, <1>5, <1>6, <1>8 DEF IInv, Unstarted
<1>n. PICK new : new = [load[l] EXCEPT !.waiters = @ - 1, !.aborted = @ \/ last]
  OBVIOUS
<1>10. /\ new \in Load /\ new.waiters = load[l].waiters - 1 /\ new.pc = load[l].pc
       /\ new.ref = load[l].ref
       /\ new.aborted => new.waiters = 0
  <2>1. load[l].waiters - 1 \in Nat
    BY <1>5, <1>8
  <2>2. /\ new.waiters = load[l].waiters - 1 /\ new.pc = load[l].pc
        /\ new.ref = load[l].ref /\ new.aborted = (load[l].aborted \/ last)
    BY <1>5, <1>n DEF Load
  <2>3. new \in Load
    BY <2>1, <1>5, <1>n DEF Load
  <2> QED  BY <2>1, <2>2, <2>3, <1>2, <1>5, <1>9
<1>11. load' = [load EXCEPT ![l] = new]
  BY <1>3, <1>n
<1>12. load' \in [Loads -> Load] /\ \A k \in Loads : load'[k] = IF k = l THEN new ELSE load[k]
  BY <1>4, <1>5, <1>10, <1>11
<1>13. /\ caller' \in [Callers -> Loads \cup {NoLoad}]
       /\ \A d \in Callers : caller'[d] = IF d = c THEN NoLoad ELSE caller[d]
  <2>1. caller \in [Callers -> Loads \cup {NoLoad}]
    BY DEF IInv, CallsType
  <2> QED  BY <2>1, <1>3
<1>14. /\ inflight' \in [Keys -> Loads \cup {NoLoad}]
       /\ \A k \in Keys : inflight'[k] = inflight[k] \/ inflight'[k] = NoLoad
  <2>1. inflight \in [Keys -> Loads \cup {NoLoad}]
    BY DEF IInv, CallsType
  <2> QED  BY <2>1, <1>3, <1>5
<1>15. CallsType'
  BY <1>3, <1>12, <1>13, <1>14 DEF IInv, CallsType
<1>16. LifeNow'
  BY <1>3, LifeSame DEF IInv
<1>17. WaitersCount'
  <2> SUFFICES ASSUME NEW k \in Loads
               PROVE  /\ load'[k].waiters = Cardinality(Waits(k)')
                      /\ load'[k].aborted => load'[k].waiters = 0
    BY DEF WaitersCount, Waits
  <2>2. CASE k = l
    <3>1. Waits(k)' = Waits(k) \ {c}
      BY <2>2, <1>1, <1>3, <1>4, <1>13, NullsAssumption DEF Waits
    <3>2. Cardinality(Waits(k)') = Cardinality(Waits(k)) - 1
      BY <3>1, <2>2, <1>7, WaitsFinite, FS_RemoveElement, ZenonT(60)
    <3> QED  BY <3>2, <2>2, <1>6, <1>10, <1>12
  <2>3. CASE k # l
    <3>1. Waits(k)' = Waits(k)
      BY <2>3, <1>1, <1>13, NullsAssumption DEF Waits
    <3> QED  BY <3>1, <2>3, <1>12 DEF IInv, WaitersCount, Waits
  <2> QED  BY <2>2, <2>3
<1>18. Unstarted' /\ HoldRef'
  BY <1>9, <1>10, <1>12 DEF IInv, Unstarted, HoldRef
<1>19. Joinable'
  <2>1. CallsType /\ Joinable
    BY DEF IInv
  <2>2. \A k \in Loads : load'[k].pc = "unused" => load[k].pc = "unused"
    BY <1>10, <1>12
  <2> QED  BY <2>1, <2>2, <1>14, JoinableKeep
<1>20. ref' = ref
  BY <1>3 DEF life
<1>21. ReaderCount'
  <2>1. ReaderCount
    BY DEF IInv
  <2>2. \A k \in Loads : /\ load'[k].pc \in Holding <=> load[k].pc \in Holding
                         /\ load[k].pc \in Holding => load'[k].ref = load[k].ref
    BY <1>10, <1>12
  <2> QED  BY <2>1, <2>2, <1>20, ReadersKeep
<1>22. Unborn'
  BY <1>10, <1>12, <1>20 DEF IInv, Unborn
<1> QED  BY <1>15, <1>16, <1>17, <1>18, <1>19, <1>21, <1>22 DEF IInv

\* A load that goes from one control point to another; it gives its reference
\* up when it leaves the points that hold one.
LEMMA MoveInv ==
    ASSUME IInv, NEW l \in Loads, NEW x \in Pcs, x # "unused",
           load' = Pc(load, l, x),
           x \in Holding => load[l].pc \in Holding,
           x \in Early => load[l].pc \in Early,
           UNCHANGED <<rec, caller, ext, events>>,
           cache' \in Seq(Keys), disk' \subseteq Pubs \X Infohashes \X Loads,
           inflight' \in [Keys -> Loads \cup {NoLoad}],
           \A k \in Keys : inflight'[k] = inflight[k] \/ inflight'[k] = NoLoad,
           LifeNow',
           \A r \in Loads : ref'[r].readers =
                IF load[l].pc \in Holding /\ x \notin Holding /\ r = load[l].ref
                THEN ref[r].readers - 1 ELSE ref[r].readers,
           \A r \in Loads : ref[r].st = "none" => ref'[r].st = "none"
    PROVE  IInv'
<1>1. /\ load' \in [Loads -> Load]
      /\ WaitersCount' /\ Unstarted' /\ HoldRef' /\ Joinable'
      /\ \A k \in Loads : /\ k # l => load'[k] = load[k]
                          /\ load'[k].pc = IF k = l THEN x ELSE load[k].pc
                          /\ load'[k].ref = load[k].ref
  BY PcStep
<1>2. CallsType'
  BY <1>1 DEF IInv, CallsType
<1>3. ReaderCount'
  <2>0. ReaderCount
    BY DEF IInv
  <2>1. CASE load[l].pc \in Holding /\ x \notin Holding
    <3>1. PICK r \in Loads : r = load[l].ref
      BY <2>1 DEF IInv, HoldRef
    <3>2. \A q \in Loads : ref'[q].readers = IF q = r THEN ref[r].readers - 1
                                                       ELSE ref[q].readers
      BY <2>1, <3>1
    <3>3. load'[l].pc \notin Holding /\ \A k \in Loads : k # l => load'[k] = load[k]
      BY <2>1, <1>1
    <3> QED  BY <2>0, <2>1, <3>1, <3>2, <3>3, ReadersDrop
  <2>2. CASE ~(load[l].pc \in Holding /\ x \notin Holding)
    <3>1. \A q \in Loads : ref'[q].readers = ref[q].readers
      BY <2>2
    <3>2. \A k \in Loads : /\ load'[k].pc \in Holding <=> load[k].pc \in Holding
                           /\ load[k].pc \in Holding => load'[k].ref = load[k].ref
      BY <2>2, <1>1
    <3> QED  BY <2>0, <3>1, <3>2, ReadersKeep
  <2> QED  BY <2>1, <2>2
<1>4. Unborn'
  <2>1. Unborn
    BY DEF IInv
  <2>2. \A k \in Loads : load'[k].pc \in Early => load[k].pc \in Early
    BY <1>1
  <2> QED  BY <2>1, <2>2, UnbornKeep
<1> QED  BY <1>1, <1>2, <1>3, <1>4 DEF IInv

LEMMA SettleFields ==
    ASSUME IInv, NEW l \in Loads, Settle(l)
    PROVE  /\ load' = Pc(load, l, "done")
           /\ inflight' \in [Keys -> Loads \cup {NoLoad}]
           /\ \A k \in Keys : inflight'[k] = inflight[k] \/ inflight'[k] = NoLoad
<1>1. inflight \in [Keys -> Loads \cup {NoLoad}] /\ KeyOf(l) \in Keys
  BY LoadType DEF IInv, CallsType
<1>2. load' = Pc(load, l, "done")
  BY DEF Settle, Pc
<1>3. inflight' = IF inflight[KeyOf(l)] = l
                   THEN [inflight EXCEPT ![KeyOf(l)] = NoLoad] ELSE inflight
  BY DEF Settle
<1> QED  BY <1>1, <1>2, <1>3

LEMMA PcNames ==
    /\ "done" \in Pcs /\ "done" \notin Early /\ "done" \notin Holding
    /\ \A x \in {"get", "mkdir"} : x \in Early /\ x \in Pcs /\ x \notin Holding
    /\ \A x \in {"meta", "body", "read", "adopt"} :
         x \in Holding /\ x \in Pcs /\ x \notin Early
    /\ "queued" \in Early /\ "queued" \notin Holding
    /\ Waiting \subseteq Holding
    /\ "unused" \notin Holding
BY DEF Pcs, Early, Holding, Waiting

\* The variables no operation of a queue changes but through the load.
QueueTypes == /\ cache \in Seq(Keys)
              /\ inflight \in [Keys -> Loads \cup {NoLoad}]
              /\ disk \subseteq Pubs \X Infohashes \X Loads

LEMMA QueueHead ==
    ASSUME IInv, NEW h \in Infohashes, Front(h)
    PROVE  /\ LifeInv(Now) /\ Now \in Life /\ Now.ref = ref /\ Now.refs = refs
           /\ Now.tail[h] = tail[h] /\ Now.tail[h] # <<>>
           /\ Head(tail[h]) \in Op /\ Head(tail[h]).id \in Loads
           /\ QueueTypes
<1>1. LifeNow
  BY DEF IInv
<1>2. LifeInv(Now) /\ Now \in Life /\ Now.ref = ref /\ Now.refs = refs /\ Now.tail = tail
  BY <1>1, NowFields
<1>3. tail[h] \in Seq(Op) /\ tail[h] # <<>>
  BY <1>2, LifeType DEF Front
<1>4. Head(tail[h]) \in Op
  BY <1>3
<1>5. Head(tail[h]).id \in Loads
  BY <1>4 DEF Op
<1>6. QueueTypes
  BY DEF IInv, CallsType, QueueTypes
<1> QED  BY <1>2, <1>3, <1>4, <1>5, <1>6

\* An acquisition that ends without a reference.
LEMMA GiveUpInv ==
    ASSUME IInv, NEW h \in Infohashes, Front(h),
           load[Head(tail[h]).id].pc \in Early,
           Settle(Head(tail[h]).id), Becomes(Pop(Now, h)),
           UNCHANGED <<rec, cache, caller, ext, disk, events>>
    PROVE  IInv'
<1>1. PICK l \in Loads : l = Head(tail[h]).id
  BY QueueHead
<1>2. /\ load' = Pc(load, l, "done")
      /\ inflight' \in [Keys -> Loads \cup {NoLoad}]
      /\ \A k \in Keys : inflight'[k] = inflight[k] \/ inflight'[k] = NoLoad
  BY <1>1, SettleFields
<1>3. LET t == Pop(Now, h) IN LifeInv(t) /\ t.ref = Now.ref /\ t.refs = Now.refs
  BY QueueHead, PopInv
<1>4. LifeNow'
  BY <1>3, LifeStep
<1>5. ref' = ref
  BY <1>3, QueueHead DEF Becomes
<1>6. cache' \in Seq(Keys) /\ disk' \subseteq Pubs \X Infohashes \X Loads
  BY QueueHead DEF QueueTypes
<1>7. load[l].pc \notin Holding
  BY <1>1 DEF Early, Holding, Waiting
<1>8. \A r \in Loads : ref'[r].readers =
          IF load[l].pc \in Holding /\ "done" \notin Holding /\ r = load[l].ref
          THEN ref[r].readers - 1 ELSE ref[r].readers
  BY <1>5, <1>7
<1>9. \A r \in Loads : ref[r].st = "none" => ref'[r].st = "none"
  BY <1>5
<1> QED  BY <1>2, <1>4, <1>6, <1>8, <1>9, MoveInv, PcNames

LEMMA AcquireAbortedInv ==
    ASSUME IInv, NEW h \in Infohashes, AcquireAborted(h)
    PROVE  IInv'
BY GiveUpInv, PcNames DEF AcquireAborted, Acquiring, Tasks

LEMMA AcquireNoDirInv ==
    ASSUME IInv, NEW h \in Infohashes, AcquireNoDir(h)
    PROVE  IInv'
BY GiveUpInv, PcNames DEF AcquireNoDir, Acquiring, Tasks

LEMMA AcquireMissInv ==
    ASSUME IInv, NEW h \in Infohashes, AcquireMiss(h)
    PROVE  IInv'
<1>0. Front(h)
  BY DEF AcquireMiss, Acquiring, Tasks
<1>1. PICK l \in Loads : l = Head(tail[h]).id
  BY <1>0, QueueHead
<1>2. /\ load' = Pc(load, l, "mkdir") /\ load[l].pc = "get"
      /\ UNCHANGED <<rec, cache, inflight, caller, life, ext, disk, events>>
  BY <1>1 DEF AcquireMiss, Acquiring, Pc
<1>3. LifeNow' /\ ref' = ref
  <2>1. LifeNow /\ UNCHANGED life
    BY <1>2 DEF IInv
  <2> QED  BY <2>1, LifeSame DEF life
<1>4. /\ cache' \in Seq(Keys) /\ disk' \subseteq Pubs \X Infohashes \X Loads
      /\ inflight' \in [Keys -> Loads \cup {NoLoad}]
      /\ \A k \in Keys : inflight'[k] = inflight[k] \/ inflight'[k] = NoLoad
  BY <1>0, <1>2, QueueHead DEF QueueTypes
<1>5. \A r \in Loads : ref'[r].readers =
          IF load[l].pc \in Holding /\ "mkdir" \notin Holding /\ r = load[l].ref
          THEN ref[r].readers - 1 ELSE ref[r].readers
  BY <1>2, <1>3, PcNames
<1>6. \A r \in Loads : ref[r].st = "none" => ref'[r].st = "none"
  BY <1>3
<1> QED  BY <1>2, <1>3, <1>4, <1>5, <1>6, MoveInv, PcNames

LEMMA AcquireLookupInv ==
    ASSUME IInv, NEW h \in Infohashes, AcquireLookup(h)
    PROVE  IInv'
<1>0. Front(h)
  BY DEF AcquireLookup, Acquiring, Tasks
<1>1. PICK l \in Loads : l = Head(tail[h]).id
  BY <1>0, QueueHead
<1>2. /\ load' = Pc(load, l, "get") /\ load[l].pc = "queued"
      /\ Becomes(IF Stale(h) THEN Detach(Now, refs[h]) ELSE Now)
      /\ UNCHANGED <<rec, cache, inflight, caller, ext, disk, events>>
  BY <1>1 DEF AcquireLookup, Acquiring, Pc
<1>3. LifeNow' /\ \A r \in Loads : /\ ref'[r].readers = ref[r].readers
                                   /\ ref'[r].st = ref[r].st
  <2>1. CASE Stale(h)
    <3>1. refs[h] # NoRef
      BY <2>1 DEF Stale
    <3>2. LET t == Detach(Now, Now.refs[h]) IN LifeInv(t) /\ FrameRef(Now, t)
      BY <1>0, <3>1, QueueHead, DetachInv
    <3>3. PICK t : t = Detach(Now, Now.refs[h])
      OBVIOUS
    <3>4. Becomes(t)
      BY <2>1, <3>3, <1>0, <1>2, QueueHead
    <3>5. LifeNow'
      BY <3>2, <3>3, <3>4, LifeStep
    <3>6. FrameRef(Now, t) /\ ref' = t.ref /\ Now.ref = ref
      BY <3>2, <3>3, <3>4, <1>0, QueueHead DEF Becomes
    <3> QED  BY <3>5, <3>6 DEF FrameRef
  <2>2. CASE ~Stale(h)
    <3>1. Becomes(Now) /\ LifeInv(Now) /\ Now.ref = ref
      BY <2>2, <1>0, <1>2, QueueHead
    <3>2. LifeNow'
      BY <3>1, LifeStep
    <3> QED  BY <3>1, <3>2 DEF Becomes
  <2> QED  BY <2>1, <2>2
<1>4. /\ cache' \in Seq(Keys) /\ disk' \subseteq Pubs \X Infohashes \X Loads
      /\ inflight' \in [Keys -> Loads \cup {NoLoad}]
      /\ \A k \in Keys : inflight'[k] = inflight[k] \/ inflight'[k] = NoLoad
  BY <1>0, <1>2, QueueHead DEF QueueTypes
<1>5. \A r \in Loads : ref'[r].readers =
          IF load[l].pc \in Holding /\ "get" \notin Holding /\ r = load[l].ref
          THEN ref[r].readers - 1 ELSE ref[r].readers
  BY <1>2, <1>3, PcNames
<1>6. \A r \in Loads : ref[r].st = "none" => ref'[r].st = "none"
  BY <1>3
<1>7. UNCHANGED <<rec, caller, ext, events>>
  BY <1>2
<1> QED  BY <1>2, <1>3, <1>4, <1>5, <1>6, <1>7, MoveInv, PcNames

\* A load that has acquired: it holds r and waits for the metadata.
Held(f, l, r) == [f EXCEPT ![l].pc = "meta", ![l].ref = r]

LEMMA HeldProperties ==
    ASSUME NEW f \in [Loads -> Load], NEW l \in Loads, NEW r \in Loads
    PROVE  /\ Held(f, l, r) \in [Loads -> Load]
           /\ Held(f, l, r)[l].pc = "meta" /\ Held(f, l, r)[l].ref = r
           /\ \A k \in Loads : /\ k # l => Held(f, l, r)[k] = f[k]
                               /\ Held(f, l, r)[k].waiters = f[k].waiters
                               /\ Held(f, l, r)[k].aborted = f[k].aborted
                               /\ Held(f, l, r)[k].pk = f[k].pk
                               /\ Held(f, l, r)[k].ih = f[k].ih
<1> DEFINE new == [f[l] EXCEPT !.pc = "meta", !.ref = r]
<1>1. f[l] \in Load
  OBVIOUS
<1>2. /\ new \in Load /\ new.pc = "meta" /\ new.ref = r
      /\ new.waiters = f[l].waiters /\ new.aborted = f[l].aborted
      /\ new.pk = f[l].pk /\ new.ih = f[l].ih
  BY <1>1 DEF Load, Holding, Waiting
<1>3. Held(f, l, r) = [f EXCEPT ![l] = new]
  BY DEF Held
<1> HIDE DEF new
<1>4. \A k \in Loads : Held(f, l, r)[k] = IF k = l THEN new ELSE f[k]
  BY <1>3
<1> QED  BY <1>2, <1>3, <1>4

\* Every way acquire succeeds, given what the lifecycle records become.
LEMMA HoldInv ==
    ASSUME IInv, NEW l \in Loads, NEW r \in Loads, load[l].pc \in Early \ {"unused"},
           load' = Held(load, l, r),
           UNCHANGED <<rec, cache, inflight, caller, ext, events>>,
           disk' \subseteq Pubs \X Infohashes \X Loads,
           LifeNow',
           \A q \in Loads : ref'[q].readers = IF q = r THEN ref[r].readers + 1
                                                       ELSE ref[q].readers,
           \A q \in Loads : q # l /\ ref[q].st = "none" => ref'[q].st = "none"
    PROVE  IInv'
<1>0. load \in [Loads -> Load]
  BY DEF IInv, CallsType
<1>1. /\ load' \in [Loads -> Load] /\ load'[l].pc = "meta" /\ load'[l].ref = r
      /\ \A k \in Loads : /\ k # l => load'[k] = load[k]
                          /\ load'[k].waiters = load[k].waiters
                          /\ load'[k].aborted = load[k].aborted
  BY <1>0, HeldProperties
<1>2. CallsType'
  BY <1>1 DEF IInv, CallsType
<1>3. \A k \in Loads : load'[k].pc = "unused" => load[k].pc = "unused"
  BY <1>1
<1>4. WaitersCount' /\ Unstarted'
  <2>1. WaitersCount /\ Unstarted /\ caller' = caller
    BY DEF IInv
  <2> QED  BY <2>1, <1>1, <1>3, WaitersKeep
<1>5. Joinable'
  <2>1. CallsType /\ Joinable /\ inflight' = inflight
    BY DEF IInv
  <2> QED  BY <2>1, <1>3, JoinableKeep
<1>6. HoldRef'
  BY <1>1 DEF IInv, HoldRef
<1>7. ReaderCount'
  <2>1. ReaderCount
    BY DEF IInv
  <2>2. load[l].pc \notin Holding /\ load'[l].pc \in Holding
    BY <1>1, PcNames DEF Early, Holding, Waiting
  <2> QED  BY <2>1, <2>2, <1>1, ReadersTake
<1>8. Unborn'
  <2> SUFFICES ASSUME NEW k \in Loads, load'[k].pc \in Early
               PROVE  ref'[k].st = "none"
    BY DEF Unborn
  <2>1. k # l
    BY <1>1, PcNames
  <2>2. load[k].pc \in Early
    BY <2>1, <1>1
  <2> QED  BY <2>1, <2>2 DEF IInv, Unborn
<1> QED  BY <1>2, <1>4, <1>5, <1>6, <1>7, <1>8 DEF IInv

LEMMA AcquireReuseInv ==
    ASSUME IInv, NEW h \in Infohashes, AcquireReuse(h)
    PROVE  IInv'
<1>0. Front(h) /\ refs[h] # NoRef /\ ~Stale(h)
  BY DEF AcquireReuse, Acquiring, Tasks
<1>1. PICK l \in Loads : l = Head(tail[h]).id
  BY <1>0, QueueHead
<1>2. PICK r \in Loads : r = refs[h] /\ Now.refs[h] = r
  BY <1>0, QueueHead, LifeType
<1>3. PICK t : t = Taking(Now, r, h)
  OBVIOUS
<1>4. /\ load' = Held(load, l, r) /\ load[l].pc = "queued"
      /\ Becomes(t)
      /\ UNCHANGED <<rec, cache, inflight, caller, ext, disk, events>>
  BY <1>1, <1>2, <1>3 DEF AcquireReuse, Acquiring, Take, Taking, Held
<1>5. Now.ref[r].st \notin {"none", "reaped"}
  BY <1>0, <1>2, QueueHead DEF LifeInv, Registration
<1>6. /\ LifeInv(t)
      /\ \A q \in Loads : /\ t.ref[q].readers = IF q = r THEN ref[r].readers + 1
                                                         ELSE ref[q].readers
                          /\ t.ref[q].st = ref[q].st
  <2>1. LifeInv(Now) /\ Now.tail[h] # <<>> /\ Now.ref = ref
    BY <1>0, QueueHead
  <2>2. LifeInv(t) /\ Taken(Now, t, h, r)
    BY <2>1, <1>3, <1>5, TakeInv
  <2> QED  BY <2>1, <2>2 DEF Taken
<1>7. LifeNow' /\ ref' = t.ref
  <2>1. LifeNow'
    BY <1>4, <1>6, LifeStep
  <2> QED  BY <2>1, <1>4 DEF Becomes
<1>8. load[l].pc \in Early \ {"unused"} /\ disk' \subseteq Pubs \X Infohashes \X Loads
  BY <1>0, <1>4, QueueHead, PcNames DEF QueueTypes
<1> QED  BY <1>4, <1>6, <1>7, <1>8, HoldInv

\* A ref is created, for a torrent that is borrowed or added.
LEMMA CreateInv ==
    ASSUME IInv, NEW h \in Infohashes, Front(h), NEW owned \in BOOLEAN,
           NEW st \in {"live", "failed"},
           load[Head(tail[h]).id].pc \in Early \ {"unused"},
           Create(Head(tail[h]).id, h, owned, st),
           disk' \subseteq Pubs \X Infohashes \X Loads,
           UNCHANGED <<rec, cache, inflight, caller, ext, events>>
    PROVE  IInv'
<1>1. PICK l \in Loads : l = Head(tail[h]).id
  BY QueueHead
<1>2. PICK s : s = Born(Now, l, h, owned, st)
  OBVIOUS
<1>3. PICK t : t = Taking(s, l, h)
  OBVIOUS
<1>4. load' = Held(load, l, l) /\ Becomes(t)
  BY <1>1, <1>2, <1>3 DEF Create, Take, Taking, Held, Born
<1>5. LifeInv(Now) /\ Now.ref = ref /\ Now.tail[h] # <<>> /\ ref[l].st = "none"
  BY <1>1, QueueHead DEF IInv, Unborn
<1>6. /\ LifeInv(s) /\ s.tail[h] # <<>>
      /\ \A q \in Loads : /\ s.ref[q].readers = IF q = l THEN 0 ELSE ref[q].readers
                          /\ s.ref[q].st = IF q = l THEN st ELSE ref[q].st
  <2>1. LifeInv(s) /\ Added(Now, s, h, l, owned, st)
    BY <1>2, <1>5, BornInv
  <2> QED  BY <2>1, <1>5 DEF Added
<1>7. s.ref[l].st \notin {"none", "reaped"}
  BY <1>6
<1>8. /\ LifeInv(t)
      /\ \A q \in Loads : /\ t.ref[q].readers = IF q = l THEN s.ref[l].readers + 1
                                                         ELSE s.ref[q].readers
                          /\ t.ref[q].st = s.ref[q].st
  <2>1. LifeInv(t) /\ Taken(s, t, h, l)
    BY <1>3, <1>6, <1>7, TakeInv
  <2> QED  BY <2>1 DEF Taken
<1>9. ref[l].readers = 0
  <2>1. ref[l].readers \in Nat /\ UseIsSafe(Now)
    <3>1. Now \in Life
      BY QueueHead
    <3> QED  BY <3>1, <1>5, LifeType DEF LifeInv
  <2> QED  BY <2>1, <1>5 DEF UseIsSafe, InUse
<1>10. LifeNow' /\ ref' = t.ref
  <2>1. LifeNow'
    BY <1>4, <1>8, LifeStep
  <2> QED  BY <2>1, <1>4 DEF Becomes
<1>11. \A q \in Loads : ref'[q].readers = IF q = l THEN ref[l].readers + 1
                                                   ELSE ref[q].readers
  BY <1>6, <1>8, <1>9, <1>10
<1>12. \A q \in Loads : q # l /\ ref[q].st = "none" => ref'[q].st = "none"
  BY <1>6, <1>8, <1>10
<1>13. load[l].pc \in Early \ {"unused"}
  BY <1>1
<1> QED  BY <1>4, <1>10, <1>11, <1>12, <1>13, HoldInv

LEMMA AcquireBorrowInv ==
    ASSUME IInv, NEW h \in Infohashes, AcquireBorrow(h)
    PROVE  IInv'
<1>1. /\ Front(h) /\ load[Head(tail[h]).id].pc = "get"
      /\ Create(Head(tail[h]).id, h, FALSE, "live")
      /\ UNCHANGED <<rec, cache, inflight, caller, ext, disk, events>>
  BY DEF AcquireBorrow, Acquiring, Tasks
<1>2. disk' \subseteq Pubs \X Infohashes \X Loads
  BY <1>1, QueueHead DEF QueueTypes
<1> QED  BY <1>1, <1>2, CreateInv, PcNames

LEMMA AcquireAddInv ==
    ASSUME IInv, NEW h \in Infohashes, AcquireAdd(h)
    PROVE  IInv'
<1>0. Front(h)
  BY DEF AcquireAdd, Acquiring, Tasks
<1>1. PICK l \in Loads : l = Head(tail[h]).id
  BY <1>0, QueueHead
<1>2. PICK st \in {"live", "failed"} : st = IF ext[h] THEN "failed" ELSE "live"
  OBVIOUS
<1>3. /\ load[l].pc = "mkdir" /\ Create(l, h, TRUE, st)
      /\ disk' = disk \cup {DirOf(l)}
      /\ UNCHANGED <<rec, cache, inflight, caller, ext, events>>
  BY <1>1, <1>2 DEF AcquireAdd, Acquiring
<1>4. disk' \subseteq Pubs \X Infohashes \X Loads
  <2>1. DirOf(l) \in Pubs \X Infohashes \X Loads
    BY LoadType DEF IInv, DirOf
  <2> QED  BY <2>1, <1>0, <1>3, QueueHead DEF QueueTypes
<1> QED  BY <1>0, <1>1, <1>3, <1>4, CreateInv, PcNames

\* A step that leaves the calls alone and keeps every ref's readers.
LEMMA OutsideInv ==
    ASSUME IInv, UNCHANGED calls,
           rec' \in [Pubs -> Infohashes], ext' \in [Infohashes -> BOOLEAN],
           disk' \subseteq Pubs \X Infohashes \X Loads, events' \in Nat,
           LifeNow',
           \A q \in Loads : ref'[q].readers = ref[q].readers,
           \A q \in Loads : ref[q].st = "none" => ref'[q].st = "none"
    PROVE  IInv'
<1>1. load' = load /\ caller' = caller /\ inflight' = inflight /\ cache' = cache
  BY DEF calls
<1>2. CallsType'
  BY <1>1 DEF IInv, CallsType
<1>3. WaitersCount' /\ Unstarted' /\ Joinable' /\ HoldRef' /\ Unborn'
  BY <1>1 DEF IInv, WaitersCount, Unstarted, Joinable, HoldRef, Unborn
<1>4. ReaderCount'
  <2>1. ReaderCount
    BY DEF IInv
  <2> QED  BY <2>1, <1>1, ReadersKeep
<1> QED  BY <1>2, <1>3, <1>4 DEF IInv

LEMMA OutsideTypes ==
    ASSUME IInv
    PROVE  /\ rec \in [Pubs -> Infohashes] /\ ext \in [Infohashes -> BOOLEAN]
           /\ disk \subseteq Pubs \X Infohashes \X Loads /\ events \in Nat
BY DEF IInv, CallsType

LEMMA PopStep ==
    ASSUME IInv, NEW h \in Infohashes, Front(h), Becomes(Pop(Now, h))
    PROVE  LifeNow' /\ ref' = ref
<1>1. LET t == Pop(Now, h) IN LifeInv(t) /\ t.ref = Now.ref /\ t.refs = Now.refs
  BY QueueHead, PopInv
<1>2. LifeNow'
  BY <1>1, LifeStep
<1> QED  BY <1>1, <1>2, QueueHead DEF Becomes

LEMMA DestroyInv ==
    ASSUME IInv, NEW h \in Infohashes, Destroy(h)
    PROVE  IInv'
<1>0. Front(h) /\ Head(tail[h]).op = "destroy"
  BY DEF Destroy, Tasks
<1>1. PICK r \in Loads : r = Head(tail[h]).id
  BY <1>0, QueueHead
<1>2. /\ Becomes(IF InUse(ref[r]) THEN Pop(Now, h) ELSE Reap(Now, h, r))
      /\ UNCHANGED <<rec, calls, ext, disk, events>>
  BY <1>1 DEF Destroy, Reap
<1>3. /\ LifeNow'
      /\ \A q \in Loads : /\ ref'[q].readers = ref[q].readers
                          /\ ref[q].st = "none" => ref'[q].st = "none"
  <2>1. CASE InUse(ref[r])
    BY <2>1, <1>0, <1>2, PopStep
  <2>2. CASE ~InUse(ref[r])
    <3>1. PICK t : t = Reap(Now, h, r)
      OBVIOUS
    <3>2. /\ LifeInv(Now) /\ Now \in Life /\ Now.ref = ref /\ Now.tail[h] # <<>>
          /\ Now.tail[h] = tail[h]
      BY <1>0, QueueHead
    <3>3. /\ LifeInv(t)
          /\ \A k \in Loads : /\ t.ref[k].readers = ref[k].readers
                              /\ t.ref[k].st = IF k = r THEN "reaped" ELSE ref[k].st
      <4>1. /\ r = Head(Now.tail[h]).id /\ Head(Now.tail[h]).op # "acquire"
            /\ ~InUse(Now.ref[r])
        BY <3>2, <2>2, <1>0, <1>1
      <4>2. LifeInv(t) /\ Reaped(Now, t, h, r)
        BY <3>1, <3>2, <4>1, ReapInv
      <4> QED  BY <4>2, <3>2 DEF Reaped
    <3>4. ref[r].st # "none"
      <4>1. Destructions(Now) /\ tail[h] \in Seq(Op) /\ tail[h] # <<>>
        BY <3>2, <1>0, LifeType DEF LifeInv, Front
      <4>2. 1 \in 1..Len(tail[h]) /\ Head(tail[h]) = tail[h][1]
        BY <4>1
      <4> QED  BY <4>1, <4>2, <3>2, <1>0, <1>1 DEF Destructions
    <3>5. Becomes(t)
      BY <3>1, <2>2, <1>2
    <3>6. LifeNow'
      BY <3>3, <3>5, LifeStep
    <3>7. ref' = t.ref
      BY <3>5 DEF Becomes
    <3> QED  BY <3>3, <3>4, <3>6, <3>7
  <2> QED  BY <2>1, <2>2
<1> QED  BY <1>2, <1>3, OutsideInv, OutsideTypes

LEMMA RemoveInv ==
    ASSUME IInv, NEW h \in Infohashes, Remove(h)
    PROVE  IInv'
<1>1. /\ Front(h) /\ Becomes(Pop(Now, h))
      /\ disk' = disk \ {DirOf(Head(tail[h]).id)}
      /\ UNCHANGED <<rec, calls, ext, events>>
  BY DEF Remove, Tasks
<1>2. LifeNow' /\ ref' = ref
  BY <1>1, PopStep
<1>3. disk' \subseteq Pubs \X Infohashes \X Loads
  BY <1>1, OutsideTypes
<1> QED  BY <1>1, <1>2, <1>3, OutsideInv, OutsideTypes

\* A load that waits goes on, and the lifecycle is as it was.
LEMMA WaitInv ==
    ASSUME IInv, NEW l \in Loads, NEW x \in Holding, load[l].pc \in Holding,
           load' = Pc(load, l, x),
           UNCHANGED <<rec, cache, inflight, caller, life, ext, disk, events>>
    PROVE  IInv'
<1>1. LifeNow' /\ ref' = ref
  <2>1. LifeNow /\ UNCHANGED life
    BY DEF IInv
  <2> QED  BY <2>1, LifeSame DEF life
<1>2. x \in Pcs /\ x # "unused" /\ x \notin Early
  BY DEF Pcs, Holding, Waiting, Early
<1>3. /\ cache' \in Seq(Keys) /\ disk' \subseteq Pubs \X Infohashes \X Loads
      /\ inflight' \in [Keys -> Loads \cup {NoLoad}]
  BY DEF IInv, CallsType
<1>4. \A r \in Loads : ref'[r].readers =
          IF load[l].pc \in Holding /\ x \notin Holding /\ r = load[l].ref
          THEN ref[r].readers - 1 ELSE ref[r].readers
  BY <1>1
<1>5. \A r \in Loads : ref[r].st = "none" => ref'[r].st = "none"
  BY <1>1
<1> QED  BY <1>1, <1>2, <1>3, <1>4, <1>5, MoveInv

LEMMA MetadataInv ==
    ASSUME IInv, NEW l \in Loads, Metadata(l)
    PROVE  IInv'
<1>1. /\ load[l].pc \in Holding /\ load' = Pc(load, l, "body") /\ "body" \in Holding
      /\ UNCHANGED <<rec, cache, inflight, caller, life, ext, disk, events>>
  BY PcNames DEF Metadata, Pc
<1> QED  BY <1>1, WaitInv

LEMMA BodyInv ==
    ASSUME IInv, NEW l \in Loads, Body(l)
    PROVE  IInv'
<1>1. /\ load[l].pc \in Holding /\ load' = Pc(load, l, "read") /\ "read" \in Holding
      /\ UNCHANGED <<rec, cache, inflight, caller, life, ext, disk, events>>
  BY PcNames DEF Body, Pc
<1> QED  BY <1>1, WaitInv

LEMMA ReadInv ==
    ASSUME IInv, NEW l \in Loads, Read(l)
    PROVE  IInv'
<1>1. /\ load[l].pc = "read" /\ load[l].pc \in Holding /\ load' = Pc(load, l, "adopt")
      /\ "adopt" \in Holding
      /\ UNCHANGED <<rec, cache, inflight, caller, ext, disk, events>>
  BY PcNames DEF Read, Pc
<1>2. CASE current[load[l].pk] = load[l].ref
  <2>1. UNCHANGED life
    BY <1>2 DEF Read
  <2> QED  BY <1>1, <2>1, WaitInv
<1>3. CASE current[load[l].pk] # load[l].ref
  <2>1. PICK r \in Loads, pk \in Pubs : r = load[l].ref /\ pk = load[l].pk /\ ref[r].readers > 0
    BY <1>1, HeldHasReaders, LoadType DEF IInv
  <2>2. PICK s : s = Retain(Now, pk, r)
    OBVIOUS
  <2>3. CapTorrents(s)
    BY <1>3, <2>1, <2>2 DEF Read
  <2>4. LifeInv(Now) /\ Now.ref = ref /\ Now.current = current
    BY NowFields DEF IInv
  <2>5. /\ LifeInv(s)
        /\ \A q \in Loads : s.ref[q].readers = ref[q].readers /\ s.ref[q].st = ref[q].st
    <3>1. Now.ref[r].readers > 0 /\ Now.current[pk] # r
      BY <1>3, <2>1, <2>4
    <3>2. LET t == Retain(Now, pk, r) IN t \in Life /\ Frame(Now, t) /\ LifeInv(t)
      BY <2>4, <3>1, RetainInv
    <3> QED  BY <3>2, <2>2, <2>4 DEF Frame, FrameRef
  <2>6. /\ LifeNow'
        /\ \A q \in Loads : ref'[q].readers = s.ref[q].readers /\ ref'[q].st = s.ref[q].st
    BY <2>3, <2>5, CapStep
  <2>7. /\ cache' \in Seq(Keys) /\ disk' \subseteq Pubs \X Infohashes \X Loads
        /\ inflight' \in [Keys -> Loads \cup {NoLoad}]
        /\ \A k \in Keys : inflight'[k] = inflight[k] \/ inflight'[k] = NoLoad
    BY <1>1 DEF IInv, CallsType
  <2>8. \A q \in Loads : ref'[q].readers =
            IF load[l].pc \in Holding /\ "adopt" \notin Holding /\ q = load[l].ref
            THEN ref[q].readers - 1 ELSE ref[q].readers
    BY <1>1, <2>5, <2>6
  <2>9. \A q \in Loads : ref[q].st = "none" => ref'[q].st = "none"
    BY <2>5, <2>6
  <2> QED  BY <1>1, <2>6, <2>7, <2>8, <2>9, MoveInv, PcNames
<1> QED  BY <1>2, <1>3

\* A load that ends: it releases its reference to s, which keeps the readers.
LEMMA EndInv ==
    ASSUME IInv, NEW l \in Loads, load[l].pc \in Holding, Settle(l),
           NEW s, LifeInv(s),
           \A q \in Loads : s.ref[q].readers = ref[q].readers /\ s.ref[q].st = ref[q].st,
           CapTorrents(Release(s, load[l].ref)),
           cache' \in Seq(Keys), UNCHANGED <<rec, caller, ext, disk, events>>
    PROVE  IInv'
<1>1. PICK r \in Loads : r = load[l].ref /\ ref[r].readers > 0
  BY HeldHasReaders
<1>2. PICK t : t = Release(s, r)
  OBVIOUS
<1>3. /\ LifeInv(t)
      /\ \A q \in Loads : /\ t.ref[q].readers = IF q = r THEN s.ref[r].readers - 1
                                                         ELSE s.ref[q].readers
                          /\ t.ref[q].st = s.ref[q].st
  <2>1. s.ref[r].readers > 0
    BY <1>1
  <2>2. LET u == Release(s, r) IN
        /\ LifeInv(u) /\ FrameRefs(s, u) /\ FrameTail(s, u)
        /\ \A q \in Loads :
             /\ u.ref[q].readers = IF q = r THEN s.ref[r].readers - 1
                                            ELSE s.ref[q].readers
             /\ u.ref[q].st = s.ref[q].st
             /\ u.ref[q].ih = s.ref[q].ih
             /\ u.ref[q].owned = s.ref[q].owned
    BY <2>1, ReleaseInv
  <2> QED  BY <2>2, <1>2
<1>4. CapTorrents(t)
  BY <1>1, <1>2
<1>5. /\ LifeNow'
      /\ \A q \in Loads : ref'[q].readers = t.ref[q].readers /\ ref'[q].st = t.ref[q].st
  BY <1>3, <1>4, CapStep
<1>6. /\ load' = Pc(load, l, "done")
      /\ inflight' \in [Keys -> Loads \cup {NoLoad}]
      /\ \A k \in Keys : inflight'[k] = inflight[k] \/ inflight'[k] = NoLoad
  BY SettleFields
<1>7. \A q \in Loads : ref'[q].readers =
          IF load[l].pc \in Holding /\ "done" \notin Holding /\ q = load[l].ref
          THEN ref[q].readers - 1 ELSE ref[q].readers
  BY <1>1, <1>3, <1>5, PcNames
<1>8. \A q \in Loads : ref[q].st = "none" => ref'[q].st = "none"
  BY <1>3, <1>5
<1>9. disk' \subseteq Pubs \X Infohashes \X Loads
  BY OutsideTypes
<1> QED  BY <1>5, <1>6, <1>7, <1>8, <1>9, MoveInv, PcNames

LEMMA FailInv ==
    ASSUME IInv, NEW l \in Loads, Fail(l)
    PROVE  IInv'
<1>1. /\ load[l].pc \in Holding /\ Settle(l) /\ CapTorrents(Release(Now, load[l].ref))
      /\ UNCHANGED <<rec, caller, ext, disk, events>>
  BY PcNames DEF Fail
<1>2. LifeInv(Now) /\ Now.ref = ref /\ cache' \in Seq(Keys)
  BY NowFields DEF IInv, CallsType, Fail
<1> QED  BY <1>1, <1>2, EndInv

LEMMA FinishInv ==
    ASSUME IInv, NEW l \in Loads, Finish(l)
    PROVE  IInv'
<1>1. PICK full \in BOOLEAN :
        full = (CacheMax > 0 /\ ~Cached(KeyOf(l)) /\ Len(cache) = CacheMax)
  OBVIOUS
<1>2. PICK s : s = IF full THEN Retire(Now, Head(cache)) ELSE Now
  OBVIOUS
<1>3. /\ load[l].pc \in Holding /\ Settle(l) /\ CapTorrents(Release(s, load[l].ref))
      /\ cache' = IF CacheMax = 0 \/ Cached(KeyOf(l)) THEN cache
                  ELSE IF full THEN Append(Tail(cache), KeyOf(l))
                  ELSE Append(cache, KeyOf(l))
      /\ UNCHANGED <<rec, caller, ext, disk, events>>
  BY <1>1, <1>2, PcNames DEF Finish
<1>4. LifeInv(Now) /\ Now.ref = ref /\ cache \in Seq(Keys) /\ KeyOf(l) \in Keys
  BY NowFields, LoadType DEF IInv, CallsType
<1>5. full => cache # <<>> /\ Head(cache) \in Keys /\ Tail(cache) \in Seq(Keys)
  <2>0. full => CacheMax > 0 /\ Len(cache) = CacheMax
    BY <1>1, Zenon
  <2>1. full => Len(cache) # 0
    BY <2>0, LimitsAssumption
  <2>2. full => cache # <<>>
    BY <2>1
  <2> QED  BY <2>2, <1>4
<1>6. cache' \in Seq(Keys)
  BY <1>3, <1>4, <1>5, AppendProperties
<1>7. /\ LifeInv(s)
      /\ \A q \in Loads : s.ref[q].readers = ref[q].readers /\ s.ref[q].st = ref[q].st
  <2>1. CASE full
    <3>1. PICK key \in Keys : key = Head(cache)
      BY <2>1, <1>5
    <3>2. LET t == Retire(Now, key) IN t \in Life /\ Frame(Now, t) /\ LifeInv(t)
      BY <1>4, RetireInv
    <3>3. s = Retire(Now, key)
      BY <2>1, <3>1, <1>2
    <3> QED  BY <3>2, <3>3, <1>4 DEF Frame, FrameRef
  <2>2. CASE ~full
    BY <2>2, <1>2, <1>4
  <2> QED  BY <2>1, <2>2
<1> QED  BY <1>3, <1>6, <1>7, EndInv

\* Torrents make progress or end, and the lifecycle is told nothing.
LEMMA TorrentStep ==
    ASSUME IInv, UNCHANGED <<refs, current, tail>>, ref' \in [Loads -> Ref],
           \A r \in Loads : /\ ref'[r].readers = ref[r].readers
                            /\ ref'[r].retainedBy = ref[r].retainedBy
                            /\ ref'[r].ih = ref[r].ih
                            /\ \/ ref'[r].st = ref[r].st
                               \/ ref[r].st = "live" /\ ref'[r].st \in {"failed", "closed"}
    PROVE  /\ LifeNow'
           /\ \A q \in Loads : ref'[q].readers = ref[q].readers
           /\ \A q \in Loads : ref[q].st = "none" => ref'[q].st = "none"
<1>1. /\ LifeInv(Now) /\ Now \in Life /\ Now.ref = ref /\ Now.refs = refs
      /\ Now.current = current /\ Now.tail = tail
  BY NowFields DEF IInv
<1>2. PICK t : t = [ref |-> ref', refs |-> refs, current |-> current, tail |-> tail]
  OBVIOUS
<1>3. t \in Life /\ t.ref = ref' /\ t.refs = refs /\ t.current = current /\ t.tail = tail
  BY <1>1, <1>2, LifeType DEF Life
<1>4. LifeInv(t)
  BY <1>1, <1>3, TorrentInv
<1>5. Becomes(t)
  BY <1>3 DEF Becomes
<1>6. LifeNow'
  BY <1>4, <1>5, LifeStep
<1> QED  BY <1>6

LEMMA RefType ==
    ASSUME IInv
    PROVE  ref \in [Loads -> Ref] /\ \A r \in Loads : ref[r] \in Ref /\ ref[r].prog \in 0..2
<1>1. ref \in [Loads -> Ref]
  BY NowFields, LifeType DEF IInv
<1> QED  BY <1>1 DEF Ref

LEMMA ProgressInv ==
    ASSUME IInv, NEW r \in Loads, Progress(r)
    PROVE  IInv'
<1>1. PICK new : new = [ref[r] EXCEPT !.prog = @ + 1]
  OBVIOUS
<1>2. /\ ref[r].prog < 2 /\ ref' = [ref EXCEPT ![r] = new]
      /\ UNCHANGED <<rec, calls, refs, current, tail, ext, disk, events>>
  BY <1>1 DEF Progress
<1>3. ref \in [Loads -> Ref] /\ ref[r] \in Ref /\ ref[r].prog + 1 \in 0..2
  BY <1>2, RefType
<1>4. /\ new \in Ref /\ new.readers = ref[r].readers /\ new.retainedBy = ref[r].retainedBy
      /\ new.ih = ref[r].ih /\ new.st = ref[r].st
  BY <1>1, <1>3 DEF Ref
<1>5. ref' \in [Loads -> Ref] /\ \A q \in Loads : ref'[q] = IF q = r THEN new ELSE ref[q]
  BY <1>2, <1>3, <1>4
<1>6. /\ LifeNow'
      /\ \A q \in Loads : ref'[q].readers = ref[q].readers
      /\ \A q \in Loads : ref[q].st = "none" => ref'[q].st = "none"
  BY <1>2, <1>4, <1>5, TorrentStep
<1> QED  BY <1>2, <1>6, OutsideInv, OutsideTypes

\* A live torrent ends in state x.
LEMMA TorrentEnds ==
    ASSUME IInv, NEW r \in Loads, NEW x \in {"failed", "closed"}, Event,
           ref[r].st = "live", ref' = [ref EXCEPT ![r].st = x],
           UNCHANGED <<rec, calls, refs, current, tail, ext, disk>>
    PROVE  IInv'
<1>1. ref \in [Loads -> Ref] /\ x \in States /\ ref' = State(ref, r, x)
  BY RefType DEF States, Destroyed, State
<1>2. /\ ref' \in [Loads -> Ref]
      /\ \A q \in Loads : /\ ref'[q].st = IF q = r THEN x ELSE ref[q].st
                          /\ ref'[q].retainedBy = ref[q].retainedBy
                          /\ ref'[q].readers = ref[q].readers
                          /\ ref'[q].ih = ref[q].ih
  <2>1. PICK f : f = State(ref, r, x)
    OBVIOUS
  <2>2. /\ f \in [Loads -> Ref]
        /\ \A q \in Loads : /\ f[q].st = IF q = r THEN x ELSE ref[q].st
                            /\ f[q].retainedBy = ref[q].retainedBy
                            /\ f[q].readers = ref[q].readers
                            /\ f[q].ih = ref[q].ih
    BY <1>1, <2>1, StateProperties
  <2> QED  BY <1>1, <2>1, <2>2
<1>3. /\ LifeNow'
      /\ \A q \in Loads : ref'[q].readers = ref[q].readers
      /\ \A q \in Loads : ref[q].st = "none" => ref'[q].st = "none"
  BY <1>2, TorrentStep
<1>4. events' \in Nat
  BY OutsideTypes DEF Event
<1> QED  BY <1>3, <1>4, OutsideInv, OutsideTypes

LEMMA UnseedInv ==
    ASSUME IInv, NEW h \in Infohashes, Unseed(h)
    PROVE  IInv'
<1>1. /\ Event /\ ext' = [ext EXCEPT ![h] = FALSE]
      /\ UNCHANGED <<rec, calls, refs, current, tail, disk>>
  BY DEF Unseed
<1>2. \A r \in Loads : /\ [ref[r] EXCEPT !.st = "failed"] \in Ref
                       /\ [ref[r] EXCEPT !.st = "failed"].readers = ref[r].readers
                       /\ [ref[r] EXCEPT !.st = "failed"].retainedBy = ref[r].retainedBy
                       /\ [ref[r] EXCEPT !.st = "failed"].ih = ref[r].ih
                       /\ [ref[r] EXCEPT !.st = "failed"].st = "failed"
  BY RefType DEF Ref, States, Destroyed
<1>3. ref' = [r \in Loads |->
                IF ref[r].ih = h /\ ~ref[r].owned /\ ref[r].st = "live"
                THEN [ref[r] EXCEPT !.st = "failed"] ELSE ref[r]]
  BY DEF Unseed
<1>4. /\ ref' \in [Loads -> Ref]
      /\ \A q \in Loads : \/ ref'[q] = ref[q]
                          \/ ref[q].st = "live" /\ ref'[q] = [ref[q] EXCEPT !.st = "failed"]
  BY <1>2, <1>3, RefType
<1>5. /\ LifeNow'
      /\ \A q \in Loads : ref'[q].readers = ref[q].readers
      /\ \A q \in Loads : ref[q].st = "none" => ref'[q].st = "none"
  <2>1. \A r \in Loads : /\ ref'[r].readers = ref[r].readers
                         /\ ref'[r].retainedBy = ref[r].retainedBy
                         /\ ref'[r].ih = ref[r].ih
                         /\ \/ ref'[r].st = ref[r].st
                            \/ ref[r].st = "live" /\ ref'[r].st \in {"failed", "closed"}
    BY <1>2, <1>4
  <2> QED  BY <1>1, <1>4, <2>1, TorrentStep
<1>6. events' \in Nat /\ ext' \in [Infohashes -> BOOLEAN]
  BY <1>1, OutsideTypes DEF Event
<1> QED  BY <1>1, <1>5, <1>6, OutsideInv, OutsideTypes

LEMMA ReseedInv ==
    ASSUME IInv, NEW h \in Infohashes, Reseed(h)
    PROVE  IInv'
<1>1. Event /\ ext' = [ext EXCEPT ![h] = TRUE] /\ UNCHANGED <<rec, calls, life, disk>>
  BY DEF Reseed
<1>2. LifeNow' /\ ref' = ref
  <2>1. LifeNow
    BY DEF IInv
  <2> QED  BY <2>1, <1>1, LifeSame DEF life
<1>3. events' \in Nat /\ ext' \in [Infohashes -> BOOLEAN]
  BY <1>1, OutsideTypes DEF Event
<1> QED  BY <1>1, <1>2, <1>3, OutsideInv, OutsideTypes

LEMMA PublishInv ==
    ASSUME IInv, NEW pk \in Pubs, NEW h \in Infohashes, Publish(pk, h)
    PROVE  IInv'
<1>1. Event /\ rec' = [rec EXCEPT ![pk] = h] /\ UNCHANGED <<calls, life, ext, disk>>
  BY DEF Publish
<1>2. LifeNow' /\ ref' = ref
  <2>1. LifeNow
    BY DEF IInv
  <2> QED  BY <2>1, <1>1, LifeSame DEF life
<1>3. events' \in Nat /\ rec' \in [Pubs -> Infohashes]
  BY <1>1, OutsideTypes DEF Event
<1> QED  BY <1>1, <1>2, <1>3, OutsideInv, OutsideTypes

LEMMA RestInv ==
    ASSUME IInv, UNCHANGED vars
    PROVE  IInv'
<1>1. UNCHANGED <<rec, calls, life, ext, disk, events>>
  BY DEF vars
<1>2. LifeNow' /\ ref' = ref
  <2>1. LifeNow
    BY DEF IInv
  <2> QED  BY <2>1, <1>1, LifeSame DEF life
<1> QED  BY <1>1, <1>2, OutsideInv, OutsideTypes

-----------------------------------------------------------------------------
(***************************************************************************)
(* The theorems.                                                           *)
(***************************************************************************)
LEMMA NextInv == IInv /\ [Next]_vars => IInv'
<1> SUFFICES ASSUME IInv, [Next]_vars
             PROVE  IInv'
  OBVIOUS
<1>1. ASSUME NEW c \in Callers, NEW pk \in Pubs, CatalogHit(c, pk)
      PROVE  IInv'
  BY <1>1, HitInv
<1>2. ASSUME NEW c \in Callers, NEW pk \in Pubs, CatalogJoin(c, pk)
      PROVE  IInv'
  BY <1>2, JoinInv
<1>3. ASSUME NEW c \in Callers, NEW pk \in Pubs, NEW l \in Loads, CatalogStart(c, pk, l)
      PROVE  IInv'
  BY <1>3, StartInv
<1>4. ASSUME NEW c \in Callers, Leave(c)
      PROVE  IInv'
  BY <1>4, LeaveInv
<1>5. ASSUME NEW h \in Infohashes, Acquire(h)
      PROVE  IInv'
  BY <1>5, AcquireAbortedInv, AcquireReuseInv, AcquireLookupInv, AcquireBorrowInv,
     AcquireMissInv, AcquireAddInv, AcquireNoDirInv DEF Acquire
<1>6. ASSUME NEW h \in Infohashes, Destroy(h) \/ Remove(h)
      PROVE  IInv'
  BY <1>6, DestroyInv, RemoveInv
<1>7. ASSUME NEW l \in Loads, LoadStep(l)
      PROVE  IInv'
  BY <1>7, MetadataInv, BodyInv, ReadInv, FinishInv, FailInv DEF LoadStep
<1>8. ASSUME NEW pk \in Pubs, NEW h \in Infohashes, Publish(pk, h)
      PROVE  IInv'
  BY <1>8, PublishInv
<1>9. ASSUME NEW r \in Loads, Progress(r)
      PROVE  IInv'
  BY <1>9, ProgressInv
<1>10. ASSUME NEW r \in Loads, TorrentError(r)
       PROVE  IInv'
  BY <1>10, TorrentEnds DEF TorrentError
<1>11. ASSUME NEW r \in Loads, PublishCatalog(r)
       PROVE  IInv'
  BY <1>11, TorrentEnds DEF PublishCatalog
<1>12. ASSUME NEW h \in Infohashes, Reseed(h) \/ Unseed(h)
       PROVE  IInv'
  BY <1>12, ReseedInv, UnseedInv
<1>13. ASSUME Rest \/ UNCHANGED vars
       PROVE  IInv'
  BY <1>13, RestInv DEF Rest
<1> QED
  BY <1>1, <1>2, <1>3, <1>4, <1>5, <1>6, <1>7, <1>8, <1>9, <1>10, <1>11, <1>12, <1>13
  DEF Next

\* The inductive invariant holds in every reachable state, for any sets of
\* publishers, infohashes, loads and callers and any limits.
THEOREM Inductive == Spec => []IInv
<1>1. Init => IInv
  BY InitInv
<1>2. IInv /\ [Next]_vars => IInv'
  BY NextInv
<1> QED  BY <1>1, <1>2, PTL DEF Spec

LEMMA IInvImplies == IInv => TypeOK /\ ReaderCount /\ RetentionAgrees /\ InUseNotReaped
                                    /\ WaitersCount
<1> SUFFICES ASSUME IInv
             PROVE  TypeOK /\ ReaderCount /\ RetentionAgrees /\ InUseNotReaped /\ WaitersCount
  OBVIOUS
<1>1. /\ LifeInv(Now) /\ Now \in Life /\ Now.ref = ref /\ Now.refs = refs
      /\ Now.current = current /\ Now.tail = tail
  BY NowFields DEF IInv
<1>2. TypeOK
  <2>1. /\ ref \in [Loads -> Ref] /\ refs \in [Infohashes -> Loads \cup {NoRef}]
        /\ current \in [Pubs -> Loads \cup {NoRef}] /\ tail \in [Infohashes -> Seq(Op)]
    BY <1>1, LifeType
  <2> QED  BY <2>1 DEF IInv, CallsType, TypeOK
<1>3. RetentionAgrees
  BY <1>1 DEF LifeInv, Retention, RetentionAgrees
<1>4. InUseNotReaped
  BY <1>1 DEF LifeInv, UseIsSafe, InUseNotReaped
<1> QED  BY <1>2, <1>3, <1>4 DEF IInv

\* Every variable keeps its type: the unguarded decrements of readers and
\* waiters never go below zero.
THEOREM TypeCorrect == Spec => []TypeOK
BY Inductive, IInvImplies, PTL

\* However loads succeed, fail, are abandoned or lose their torrent, readers is
\* the number of loads between acquire and release.
THEOREM ReadersAreCounted == Spec => []ReaderCount
BY Inductive, IInvImplies, PTL

\* current and retainedBy never disagree, whichever of retain, retire,
\* capTorrents and the detaching of stale records ran last.
THEOREM RetentionIsConsistent == Spec => []RetentionAgrees
BY Inductive, IInvImplies, PTL

\* No queued destruction ever destroys a torrent that has been acquired or
\* retained again since it was queued.
THEOREM UsedIsNeverReaped == Spec => []InUseNotReaped
BY Inductive, IInvImplies, PTL

\* waiters is the number of waiting callers, and an aborted load has none: the
\* deadline of one caller never cancels a load another one waits for.
THEOREM AbortedHasNoWaiters == Spec => []WaitersCount
BY Inductive, IInvImplies, PTL

-----------------------------------------------------------------------------
(***************************************************************************)
(* One load per key.                                                       *)
(***************************************************************************)
\* Load l goes to x, and nothing else of any load changes but waiters and ref.
Moves(l, x) == /\ \A k \in Loads : k # l => load'[k] = load[k]
               /\ load'[l].pc = x
               /\ load'[l].pk = load[l].pk /\ load'[l].ih = load[l].ih
               /\ load'[l].aborted = load[l].aborted

LEMMA PcMoves ==
    ASSUME IInv, NEW l \in Loads, NEW x \in Pcs, load' = Pc(load, l, x)
    PROVE  Moves(l, x)
<1>1. load \in [Loads -> Load]
  BY DEF IInv, CallsType
<1> QED  BY <1>1, PcProperties DEF Moves

LEMMA HeldMoves ==
    ASSUME IInv, NEW l \in Loads, NEW r \in Loads, load' = Held(load, l, r)
    PROVE  Moves(l, "meta")
<1>1. load \in [Loads -> Load]
  BY DEF IInv, CallsType
<1> QED  BY <1>1, HeldProperties DEF Moves

\* No load starts or comes back from its end, and the load a newcomer joins
\* changes only for a key whose load has ended or has been aborted.
LEMMA OneLoadKeep ==
    ASSUME IInv, OneLoadPerKey,
           \A k \in Loads : /\ load'[k].pk = load[k].pk /\ load'[k].ih = load[k].ih
                            /\ load'[k].pc \notin {"unused", "done"}
                                 => load[k].pc \notin {"unused", "done"}
                            /\ load[k].aborted => load'[k].aborted,
           \A key \in Keys :
               inflight'[key] # inflight[key] =>
                   \/ load'[inflight[key]].pc = "done"
                   \/ load'[inflight[key]].aborted
    PROVE  OneLoadPerKey'
<1> SUFFICES ASSUME NEW k \in Loads, Running(k)', ~load'[k].aborted
             PROVE  inflight'[KeyOf(k)'] = k
  BY DEF OneLoadPerKey
<1>1. KeyOf(k)' = KeyOf(k) /\ KeyOf(k) \in Keys
  BY LoadType DEF IInv, KeyOf
<1>2. inflight[KeyOf(k)] = k
  BY DEF OneLoadPerKey, Running
<1> QED  BY <1>1, <1>2 DEF Running

LEMMA MoveOneLoad ==
    ASSUME IInv, OneLoadPerKey, NEW l \in Loads, NEW x, Moves(l, x),
           load[l].pc \notin {"unused", "done"}, inflight' = inflight
    PROVE  OneLoadPerKey'
BY OneLoadKeep DEF Moves

LEMMA SettleOneLoad ==
    ASSUME IInv, OneLoadPerKey, NEW l \in Loads, Settle(l)
    PROVE  OneLoadPerKey'
<1>1. Moves(l, "done")
  BY SettleFields, PcMoves, PcNames
<1>2. \A key \in Keys : inflight'[key] # inflight[key] => inflight[key] = l
  <2>1. inflight \in [Keys -> Loads \cup {NoLoad}]
    BY DEF IInv, CallsType
  <2>2. inflight' = IF inflight[KeyOf(l)] = l
                    THEN [inflight EXCEPT ![KeyOf(l)] = NoLoad] ELSE inflight
    BY DEF Settle
  <2> QED  BY <2>1, <2>2
<1> QED  BY <1>1, <1>2, OneLoadKeep DEF Moves

LEMMA StillOneLoad ==
    ASSUME IInv, OneLoadPerKey, load' = load, inflight' = inflight
    PROVE  OneLoadPerKey'
BY DEF OneLoadPerKey, Running, KeyOf

\* A newcomer starts a load only when its key has none, or an aborted one.
LEMMA StartOneLoad ==
    ASSUME IInv, OneLoadPerKey, NEW c \in Callers, NEW pk \in Pubs, NEW l \in Loads,
           CatalogStart(c, pk, l)
    PROVE  OneLoadPerKey'
<1>h. PICK h \in Infohashes : h = rec[pk]
  BY DEF IInv, CallsType
<1>k. PICK key \in Keys : key = <<pk, h>>
  BY DEF Keys
<1>n. PICK new : new = [pc |-> "queued", pk |-> pk, ih |-> h, ref |-> NoRef,
                        waiters |-> 1, aborted |-> FALSE]
  OBVIOUS
<1>1. /\ inflight[key] # NoLoad => load[inflight[key]].aborted
      /\ load' = [load EXCEPT ![l] = new]
      /\ inflight' = [inflight EXCEPT ![key] = l]
  BY <1>h, <1>k, <1>n DEF CatalogStart
<1>2. load \in [Loads -> Load] /\ inflight \in [Keys -> Loads \cup {NoLoad}]
  BY DEF IInv, CallsType
<1>3. /\ \A k \in Loads : k # l => load'[k] = load[k]
      /\ load'[l].pk = pk /\ load'[l].ih = h
      /\ \A y \in Keys : inflight'[y] = IF y = key THEN l ELSE inflight[y]
  BY <1>1, <1>2, <1>n
<1> SUFFICES ASSUME NEW k \in Loads, Running(k)', ~load'[k].aborted
             PROVE  inflight'[KeyOf(k)'] = k
  BY DEF OneLoadPerKey
<1>4. CASE k = l
  <2>1. KeyOf(k)' = key
    BY <1>4, <1>3, <1>k DEF KeyOf
  <2> QED  BY <2>1, <1>4, <1>3
<1>5. CASE k # l
  <2>1. KeyOf(k)' = KeyOf(k) /\ KeyOf(k) \in Keys /\ load'[k] = load[k]
    BY <1>5, <1>3, LoadType DEF IInv, KeyOf
  <2>2. inflight[KeyOf(k)] = k /\ ~load[k].aborted
    BY <2>1 DEF OneLoadPerKey, Running
  <2>3. KeyOf(k) # key
    BY <2>2, <1>1, NullsAssumption
  <2> QED  BY <2>1, <2>2, <2>3, <1>3
<1> QED  BY <1>4, <1>5

LEMMA JoinOneLoad ==
    ASSUME IInv, OneLoadPerKey, NEW c \in Callers, NEW pk \in Pubs, CatalogJoin(c, pk)
    PROVE  OneLoadPerKey'
<1>1. /\ \A k \in Loads : /\ load'[k].pc = load[k].pc /\ load'[k].aborted = load[k].aborted
                          /\ load'[k].pk = load[k].pk /\ load'[k].ih = load[k].ih
      /\ inflight' = inflight
  <2>1. load \in [Loads -> Load]
    BY DEF IInv, CallsType
  <2>2. PICK l : l = inflight[<<pk, rec[pk]>>] /\ load' = [load EXCEPT ![l].waiters = @ + 1]
    BY DEF CatalogJoin
  <2>3. PICK new : new = [load[l] EXCEPT !.waiters = @ + 1]
    OBVIOUS
  <2>4. load' = [load EXCEPT ![l] = new]
    BY <2>2, <2>3
  <2>5. l \in Loads => /\ new.pc = load[l].pc /\ new.aborted = load[l].aborted
                       /\ new.pk = load[l].pk /\ new.ih = load[l].ih
    BY <2>1, <2>3 DEF Load
  <2> QED  BY <2>1, <2>4, <2>5 DEF CatalogJoin
<1> QED  BY <1>1, OneLoadKeep

\* A load is forgotten by its last caller only together with its abort.
LEMMA LeaveOneLoad ==
    ASSUME IInv, OneLoadPerKey, NEW c \in Callers, Leave(c)
    PROVE  OneLoadPerKey'
<1>1. PICK l \in Loads : l = caller[c]
  BY DEF IInv, CallsType, Leave
<1>2. PICK last \in BOOLEAN :
        last = (load[l].waiters = 1 /\ load[l].pc # "done" /\ ~load[l].aborted)
  OBVIOUS
<1>3. /\ load' = [load EXCEPT ![l].waiters = @ - 1, ![l].aborted = @ \/ last]
      /\ inflight' = IF last /\ inflight[KeyOf(l)] = l
                     THEN [inflight EXCEPT ![KeyOf(l)] = NoLoad] ELSE inflight
  BY <1>1, <1>2 DEF Leave
<1>4. load \in [Loads -> Load] /\ inflight \in [Keys -> Loads \cup {NoLoad}]
  BY DEF IInv, CallsType
<1>n. PICK new : new = [load[l] EXCEPT !.waiters = @ - 1, !.aborted = @ \/ last]
  OBVIOUS
<1>5. /\ new.pc = load[l].pc /\ new.pk = load[l].pk /\ new.ih = load[l].ih
      /\ new.aborted = (load[l].aborted \/ last)
  BY <1>4, <1>n DEF Load
<1>6. load' = [load EXCEPT ![l] = new]
  BY <1>3, <1>n
<1>7. \A k \in Loads : load'[k] = IF k = l THEN new ELSE load[k]
  BY <1>4, <1>6
<1>8. \A k \in Loads : /\ load'[k].pc = load[k].pc
                       /\ load'[k].pk = load[k].pk /\ load'[k].ih = load[k].ih
                       /\ load[k].aborted => load'[k].aborted
  BY <1>5, <1>7
<1>9. \A key \in Keys : inflight'[key] # inflight[key] => inflight[key] = l /\ last
  BY <1>3, <1>4
<1>10. last => load'[l].aborted
  BY <1>5, <1>7
<1> QED  BY <1>8, <1>9, <1>10, OneLoadKeep

LEMMA AcquireOneLoad ==
    ASSUME IInv, OneLoadPerKey, NEW h \in Infohashes, Acquire(h)
    PROVE  OneLoadPerKey'
<1>0. Front(h)
  BY DEF Acquire, AcquireAborted, AcquireReuse, AcquireLookup, AcquireBorrow, AcquireMiss,
         AcquireAdd, AcquireNoDir, Acquiring, Tasks
<1>1. PICK l \in Loads : l = Head(tail[h]).id
  BY <1>0, QueueHead
<1>2. CASE AcquireAborted(h) \/ AcquireNoDir(h)
  BY <1>1, <1>2, SettleOneLoad DEF AcquireAborted, AcquireNoDir
<1>3. CASE AcquireReuse(h)
  <2>1. PICK r \in Loads : r = refs[h]
    BY <1>0, <1>3, QueueHead, LifeType DEF AcquireReuse
  <2>2. load' = Held(load, l, r) /\ load[l].pc = "queued" /\ inflight' = inflight
    BY <1>1, <1>3, <2>1 DEF AcquireReuse, Acquiring, Take, Held
  <2> QED  BY <2>2, HeldMoves, MoveOneLoad
<1>4. CASE AcquireLookup(h) \/ AcquireMiss(h)
  <2>1. PICK x \in {"get", "mkdir"} : load' = Pc(load, l, x)
    BY <1>1, <1>4 DEF AcquireLookup, AcquireMiss, Pc
  <2>2. load[l].pc \notin {"unused", "done"} /\ inflight' = inflight
    BY <1>1, <1>4 DEF AcquireLookup, AcquireMiss, Acquiring
  <2> QED  BY <2>1, <2>2, PcNames, PcMoves, MoveOneLoad
<1>5. CASE AcquireBorrow(h) \/ AcquireAdd(h)
  <2>1. load' = Held(load, l, l)
    BY <1>1, <1>5 DEF AcquireBorrow, AcquireAdd, Create, Take, Held
  <2>2. load[l].pc \notin {"unused", "done"} /\ inflight' = inflight
    BY <1>1, <1>5 DEF AcquireBorrow, AcquireAdd, Acquiring
  <2> QED  BY <2>1, <2>2, HeldMoves, MoveOneLoad
<1> QED  BY <1>2, <1>3, <1>4, <1>5 DEF Acquire

LEMMA LoadStepOneLoad ==
    ASSUME IInv, OneLoadPerKey, NEW l \in Loads, LoadStep(l)
    PROVE  OneLoadPerKey'
<1>1. CASE Metadata(l) \/ Body(l) \/ Read(l)
  <2>1. PICK x \in {"body", "read", "adopt"} : load' = Pc(load, l, x)
    BY <1>1 DEF Metadata, Body, Read, Pc
  <2>2. load[l].pc \notin {"unused", "done"} /\ inflight' = inflight
    BY <1>1 DEF Metadata, Body, Read
  <2> QED  BY <2>1, <2>2, PcNames, PcMoves, MoveOneLoad
<1>2. CASE Finish(l) \/ Fail(l)
  BY <1>2, SettleOneLoad DEF Finish, Fail
<1> QED  BY <1>1, <1>2 DEF LoadStep

LEMMA OneLoadStep ==
    ASSUME IInv, OneLoadPerKey, [Next]_vars
    PROVE  OneLoadPerKey'
<1>1. ASSUME NEW c \in Callers, NEW pk \in Pubs, CatalogHit(c, pk)
      PROVE  OneLoadPerKey'
  BY <1>1, StillOneLoad DEF CatalogHit
<1>2. ASSUME NEW c \in Callers, NEW pk \in Pubs, CatalogJoin(c, pk)
      PROVE  OneLoadPerKey'
  BY <1>2, JoinOneLoad
<1>3. ASSUME NEW c \in Callers, NEW pk \in Pubs, NEW l \in Loads, CatalogStart(c, pk, l)
      PROVE  OneLoadPerKey'
  BY <1>3, StartOneLoad
<1>4. ASSUME NEW c \in Callers, Leave(c)
      PROVE  OneLoadPerKey'
  BY <1>4, LeaveOneLoad
<1>5. ASSUME NEW h \in Infohashes, Acquire(h)
      PROVE  OneLoadPerKey'
  BY <1>5, AcquireOneLoad
<1>6. ASSUME NEW h \in Infohashes, Destroy(h) \/ Remove(h) \/ Reseed(h) \/ Unseed(h)
      PROVE  OneLoadPerKey'
  BY <1>6, StillOneLoad DEF Destroy, Remove, Reseed, Unseed, calls
<1>7. ASSUME NEW l \in Loads, LoadStep(l)
      PROVE  OneLoadPerKey'
  BY <1>7, LoadStepOneLoad
<1>8. ASSUME NEW pk \in Pubs, NEW h \in Infohashes, Publish(pk, h)
      PROVE  OneLoadPerKey'
  BY <1>8, StillOneLoad DEF Publish, calls
<1>9. ASSUME NEW r \in Loads, Progress(r) \/ TorrentError(r) \/ PublishCatalog(r)
      PROVE  OneLoadPerKey'
  BY <1>9, StillOneLoad DEF Progress, TorrentError, PublishCatalog, calls
<1>10. ASSUME Rest \/ UNCHANGED vars
       PROVE  OneLoadPerKey'
  BY <1>10, StillOneLoad DEF Rest, vars, calls
<1> QED
  BY <1>1, <1>2, <1>3, <1>4, <1>5, <1>6, <1>7, <1>8, <1>9, <1>10 DEF Next

LEMMA InitOneLoad == Init => OneLoadPerKey
BY DEF Init, OneLoadPerKey, Running

\* However calls join, start and abandon loads, the running loads of a key that
\* nobody has given up are one, and the next caller joins it.
THEOREM KeysShareLoads == Spec => []OneLoadPerKey
<1>1. Init => OneLoadPerKey
  BY InitOneLoad
<1>2. IInv /\ OneLoadPerKey /\ [Next]_vars => OneLoadPerKey'
  BY OneLoadStep
<1> QED  BY <1>1, <1>2, Inductive, PTL DEF Spec


-----------------------------------------------------------------------------
(***************************************************************************)
(* What is kept.                                                           *)
(***************************************************************************)
Acquires == {"queued", "get", "mkdir"}

\* An acquisition is queued once, at the infohash of its load; only the head of a
\* queue has begun, and then its infohash has no ref until it makes one.
Queued(q, h, ld, rf) ==
    \A i \in 1..Len(q) : q[i].op = "acquire" =>
        /\ ld[q[i].id].ih = h /\ ld[q[i].id].pc \in Acquires
        /\ ld[q[i].id].pc # "queued" => i = 1 /\ rf = NoRef
        /\ \A j \in 1..Len(q) : q[j].op = "acquire" /\ q[j].id = q[i].id => j = i
Queues(s, ld) == \A h \in Infohashes : Queued(s.tail[h], h, ld, s.refs[h])

\* Loads that acquire stay where they are.
LoadsStay(ld, ld2) ==
    \A k \in Loads : ld[k].pc \in Acquires => ld2[k].pc = ld[k].pc /\ ld2[k].ih = ld[k].ih

\* The synchronous methods only forget refs and queue destructions.
LEMMA QueuesFrame ==
    ASSUME NEW s \in Life, NEW t \in Life, NEW ld, NEW ld2, Queues(s, ld),
           \A k \in Infohashes : s.refs[k] = NoRef => t.refs[k] = NoRef,
           FrameTail(s, t), LoadsStay(ld, ld2)
    PROVE  Queues(t, ld2)
<1> SUFFICES ASSUME NEW h \in Infohashes
             PROVE  Queued(t.tail[h], h, ld2, t.refs[h])
  BY DEF Queues
<1>1. PICK p \in Seq(Op), q \in Seq(Op) : p = s.tail[h] /\ q = t.tail[h]
  BY LifeType
<1>2. /\ Len(p) \in Nat /\ Len(q) \in Nat /\ Len(q) >= Len(p)
      /\ \A i \in 1..Len(p) : q[i] = p[i]
      /\ \A i \in 1..Len(q) : i > Len(p) => q[i].op = "destroy"
  BY <1>1 DEF FrameTail
<1>3. \A i \in 1..Len(q) : q[i].op = "acquire" => i \in 1..Len(p) /\ p[i] = q[i]
  BY <1>2
<1>4. s.refs[h] = NoRef => t.refs[h] = NoRef
  OBVIOUS
<1>5. Queued(p, h, ld, s.refs[h]) /\ \A i \in 1..Len(p) : p[i].id \in Loads
  BY <1>1, LifeType DEF Queues
<1>6. Queued(q, h, ld2, t.refs[h])
  <2> SUFFICES ASSUME NEW i \in 1..Len(q), q[i].op = "acquire"
               PROVE  /\ ld2[q[i].id].ih = h /\ ld2[q[i].id].pc \in Acquires
                      /\ ld2[q[i].id].pc # "queued" => i = 1 /\ t.refs[h] = NoRef
                      /\ \A j \in 1..Len(q) : q[j].op = "acquire" /\ q[j].id = q[i].id => j = i
    BY DEF Queued
  <2>1. i \in 1..Len(p) /\ p[i] = q[i] /\ p[i].op = "acquire" /\ p[i].id \in Loads
    BY <1>3, <1>5
  <2>2. /\ ld[p[i].id].ih = h /\ ld[p[i].id].pc \in Acquires
        /\ ld[p[i].id].pc # "queued" => i = 1 /\ s.refs[h] = NoRef
        /\ \A j \in 1..Len(p) : p[j].op = "acquire" /\ p[j].id = p[i].id => j = i
    BY <2>1, <1>5 DEF Queued
  <2>3. ld2[p[i].id].pc = ld[p[i].id].pc /\ ld2[p[i].id].ih = ld[p[i].id].ih
    BY <2>1, <2>2 DEF LoadsStay
  <2> QED  BY <2>1, <2>2, <2>3, <1>3, <1>4
<1> QED  BY <1>1, <1>6

\* The head of h's queue has run; the load whose acquisition it was has left.
LEMMA QueuesPop ==
    ASSUME NEW s \in Life, NEW t \in Life, NEW ld, NEW ld2, Queues(s, ld),
           NEW h \in Infohashes, s.tail[h] # <<>>,
           t.tail[h] = Tail(s.tail[h]),
           \A k \in Infohashes : k # h => t.tail[k] = s.tail[k],
           \A k \in Infohashes : k # h => t.refs[k] = s.refs[k],
           \A k \in Loads :
               ld[k].pc \in Acquires /\ ~(Head(s.tail[h]).op = "acquire" /\ k = Head(s.tail[h]).id)
                   => ld2[k].pc = ld[k].pc /\ ld2[k].ih = ld[k].ih
    PROVE  Queues(t, ld2)
<1> SUFFICES ASSUME NEW g \in Infohashes
             PROVE  Queued(t.tail[g], g, ld2, t.refs[g])
  BY DEF Queues
<1>0. PICK p \in Seq(Op) : p = s.tail[h] /\ p # <<>>
  BY LifeType
<1>1. /\ Tail(p) \in Seq(Op) /\ Len(Tail(p)) = Len(p) - 1 /\ Len(p) \in Nat \ {0}
      /\ \A i \in 1..Len(Tail(p)) : Tail(p)[i] = p[i + 1]
      /\ Head(p) = p[1]
  BY <1>0
<1>2. t.tail[h] = Tail(p) /\ \A k \in Infohashes : k # h => t.tail[k] = s.tail[k]
  BY <1>0
<1>3. Queued(p, h, ld, s.refs[h]) /\ \A i \in 1..Len(p) : p[i].id \in Loads
  BY <1>0, LifeType DEF Queues
<1>4. CASE g = h
  <2>1. PICK q : q = Tail(p)
    OBVIOUS
  <2>0. t.tail[g] = q
    BY <1>2, <1>4, <2>1
  <2> SUFFICES ASSUME NEW i \in 1..Len(q), q[i].op = "acquire"
               PROVE  /\ ld2[q[i].id].ih = g /\ ld2[q[i].id].pc \in Acquires
                      /\ ld2[q[i].id].pc # "queued" => i = 1 /\ t.refs[g] = NoRef
                      /\ \A j \in 1..Len(q) : q[j].op = "acquire" /\ q[j].id = q[i].id => j = i
    BY <2>0 DEF Queued
  <2>2. /\ i + 1 \in 1..Len(p) /\ q[i] = p[i + 1] /\ i + 1 # 1 /\ 1 \in 1..Len(p)
        /\ \A j \in 1..Len(q) : j + 1 \in 1..Len(p) /\ q[j] = p[j + 1]
    BY <1>1, <2>1
  <2>3. /\ ld[q[i].id].ih = h /\ ld[q[i].id].pc \in Acquires /\ q[i].id \in Loads
        /\ ld[q[i].id].pc # "queued" => i + 1 = 1
        /\ \A j \in 1..Len(p) : p[j].op = "acquire" /\ p[j].id = q[i].id => j = i + 1
    BY <2>2, <1>3 DEF Queued
  <2>4. ~(Head(p).op = "acquire" /\ q[i].id = Head(p).id)
    BY <2>2, <2>3, <1>1
  <2>5. ld2[q[i].id].pc = ld[q[i].id].pc /\ ld2[q[i].id].ih = ld[q[i].id].ih
    BY <2>3, <2>4, <1>0
  <2>6. \A j \in 1..Len(q) : q[j].op = "acquire" /\ q[j].id = q[i].id => j = i
    BY <2>2, <2>3
  <2>7. ld2[q[i].id].pc = "queued"
    BY <2>2, <2>3, <2>5
  <2> QED  BY <2>3, <2>5, <2>6, <2>7, <1>4
<1>5. CASE g # h
  <2>1. PICK q : q = s.tail[g]
    OBVIOUS
  <2>2. Queued(q, g, ld, s.refs[g]) /\ \A i \in 1..Len(q) : q[i].id \in Loads
    BY <2>1, LifeType DEF Queues
  <2>3. \A i \in 1..Len(q) : q[i].op = "acquire" =>
            ld2[q[i].id].pc = ld[q[i].id].pc /\ ld2[q[i].id].ih = ld[q[i].id].ih
    <3> SUFFICES ASSUME NEW i \in 1..Len(q), q[i].op = "acquire"
                 PROVE  ld2[q[i].id].pc = ld[q[i].id].pc /\ ld2[q[i].id].ih = ld[q[i].id].ih
      OBVIOUS
    <3>1. q[i].id \in Loads /\ ld[q[i].id].ih = g /\ ld[q[i].id].pc \in Acquires
      BY <2>2 DEF Queued
    <3>2. Head(p).op = "acquire" => ld[Head(p).id].ih = h
      BY <1>1, <1>3 DEF Queued
    <3> QED  BY <3>1, <3>2, <1>5, <1>0
  <2>4. Queued(q, g, ld2, s.refs[g])
    BY <2>2, <2>3 DEF Queued
  <2> QED  BY <2>1, <2>4, <1>5, <1>2
<1> QED  BY <1>4, <1>5

\* The load at the head of h's queue goes on, for an infohash without a ref.
LEMMA QueuesBegin ==
    ASSUME NEW s \in Life, NEW ld, NEW ld2, Queues(s, ld),
           NEW h \in Infohashes, s.tail[h] # <<>>, s.refs[h] = NoRef,
           NEW l \in Loads, l = Head(s.tail[h]).id, Head(s.tail[h]).op = "acquire",
           ld2[l].pc \in Acquires, ld2[l].ih = ld[l].ih,
           \A k \in Loads : k # l => ld2[k] = ld[k]
    PROVE  Queues(s, ld2)
<1> SUFFICES ASSUME NEW g \in Infohashes
             PROVE  Queued(s.tail[g], g, ld2, s.refs[g])
  BY DEF Queues
<1>1. PICK q \in Seq(Op) : q = s.tail[g]
  BY LifeType
<1>2. Queued(q, g, ld, s.refs[g]) /\ \A i \in 1..Len(q) : q[i].id \in Loads
  <2>1. Queued(q, g, ld, s.refs[g])
    BY <1>1 DEF Queues
  <2>2. \A i \in 1..Len(q) : q[i].id \in Loads
    BY <1>1, LifeType
  <2> QED  BY <2>1, <2>2
<1> SUFFICES ASSUME NEW i \in 1..Len(q), q[i].op = "acquire"
             PROVE  /\ ld2[q[i].id].ih = g /\ ld2[q[i].id].pc \in Acquires
                    /\ ld2[q[i].id].pc # "queued" => i = 1 /\ s.refs[g] = NoRef
                    /\ \A j \in 1..Len(q) : q[j].op = "acquire" /\ q[j].id = q[i].id => j = i
  BY <1>1 DEF Queued
<1>3. /\ ld[q[i].id].ih = g /\ ld[q[i].id].pc \in Acquires /\ q[i].id \in Loads
      /\ ld[q[i].id].pc # "queued" => i = 1 /\ s.refs[g] = NoRef
      /\ \A j \in 1..Len(q) : q[j].op = "acquire" /\ q[j].id = q[i].id => j = i
  BY <1>2 DEF Queued
<1>4. CASE q[i].id # l
  BY <1>3, <1>4
<1>5. CASE q[i].id = l
  <2>1. PICK p \in Seq(Op) : p = s.tail[h] /\ p # <<>>
    BY LifeType
  <2>2. 1 \in 1..Len(p) /\ p[1] = Head(p)
    BY <2>1
  <2>3. ld[l].ih = h
    <3>1. Queued(p, h, ld, s.refs[h])
      BY <2>1 DEF Queues
    <3>2. p[1].op = "acquire" /\ p[1].id = l
      BY <2>1, <2>2
    <3> QED  BY <3>1, <3>2, <2>2 DEF Queued
  <2>4. g = h /\ q = p
    BY <1>3, <1>5, <2>3, <2>1, <1>1
  <2>5. i = 1
    BY <1>3, <1>5, <2>1, <2>2, <2>4
  <2> QED  BY <2>4, <2>5, <1>3, <1>5
<1> QED  BY <1>4, <1>5

\* The head of h's queue, a destruction, becomes the removal of the directory.
LEMMA QueuesReap ==
    ASSUME NEW s \in Life, NEW t \in Life, NEW ld, Queues(s, ld),
           NEW h \in Infohashes, s.tail[h] # <<>>, NEW o \in Op,
           o.op # "acquire",
           t.tail[h] = <<o>> \o Tail(s.tail[h]),
           \A k \in Infohashes : k # h => t.tail[k] = s.tail[k],
           \A k \in Infohashes : s.refs[k] = NoRef => t.refs[k] = NoRef
    PROVE  Queues(t, ld)
<1> SUFFICES ASSUME NEW g \in Infohashes
             PROVE  Queued(t.tail[g], g, ld, t.refs[g])
  BY DEF Queues
<1>1. PICK p \in Seq(Op), q \in Seq(Op) : p = s.tail[g] /\ q = t.tail[g]
  BY LifeType
<1>2. Queued(p, g, ld, s.refs[g])
  BY <1>1 DEF Queues
<1>3. Len(q) = Len(p) /\ \A i \in 1..Len(q) : q[i].op = "acquire" => q[i] = p[i]
  <2>1. CASE g = h
    <3>1. q = <<o>> \o Tail(p) /\ p # <<>>
      BY <2>1, <1>1
    <3>2. Len(Tail(p)) = Len(p) - 1 /\ Tail(p) \in Seq(Op) /\ Len(p) \in Nat \ {0}
          /\ \A i \in 1..Len(Tail(p)) : Tail(p)[i] = p[i + 1]
      BY <3>1
    <3>3. <<o>> \in Seq(Op) /\ Len(<<o>>) = 1 /\ <<o>>[1] = o
      OBVIOUS
    <3>4. Len(q) = Len(p) /\ \A i \in 1..Len(q) : q[i] = IF i = 1 THEN o ELSE Tail(p)[i - 1]
      BY <3>1, <3>2, <3>3, ConcatProperties
    <3> QED  BY <3>2, <3>4
  <2>2. CASE g # h
    BY <2>2, <1>1
  <2> QED  BY <2>1, <2>2
<1> SUFFICES ASSUME NEW i \in 1..Len(q), q[i].op = "acquire"
             PROVE  /\ ld[q[i].id].ih = g /\ ld[q[i].id].pc \in Acquires
                    /\ ld[q[i].id].pc # "queued" => i = 1 /\ t.refs[g] = NoRef
                    /\ \A j \in 1..Len(q) : q[j].op = "acquire" /\ q[j].id = q[i].id => j = i
  BY <1>1 DEF Queued
<1>4. i \in 1..Len(p) /\ p[i].op = "acquire" /\ q[i] = p[i]
  BY <1>3
<1>5. /\ ld[p[i].id].ih = g /\ ld[p[i].id].pc \in Acquires
      /\ ld[p[i].id].pc # "queued" => i = 1 /\ s.refs[g] = NoRef
      /\ \A j \in 1..Len(p) : p[j].op = "acquire" /\ p[j].id = p[i].id => j = i
  BY <1>2, <1>4 DEF Queued
<1>6. s.refs[g] = NoRef => t.refs[g] = NoRef
  OBVIOUS
<1>7. \A j \in 1..Len(q) : q[j].op = "acquire" /\ q[j].id = q[i].id => j = i
  <2> SUFFICES ASSUME NEW j \in 1..Len(q), q[j].op = "acquire", q[j].id = q[i].id
               PROVE  j = i
    OBVIOUS
  <2>1. q[j] = p[j] /\ j \in 1..Len(p)
    BY <1>3
  <2> QED  BY <2>1, <1>4, <1>5
<1> QED  BY <1>4, <1>5, <1>6, <1>7

\* A load that starts queues its acquisition.
LEMMA QueuesStart ==
    ASSUME NEW s \in Life, NEW t \in Life, NEW ld, NEW ld2, Queues(s, ld),
           NEW h \in Infohashes, NEW o \in Op, o.op = "acquire",
           t.tail[h] = Append(s.tail[h], o),
           \A k \in Infohashes : k # h => t.tail[k] = s.tail[k],
           t.refs = s.refs,
           ld[o.id].pc \notin Acquires, ld2[o.id].pc = "queued", ld2[o.id].ih = h,
           \A k \in Loads : k # o.id => ld2[k] = ld[k]
    PROVE  Queues(t, ld2)
<1> SUFFICES ASSUME NEW g \in Infohashes
             PROVE  Queued(t.tail[g], g, ld2, t.refs[g])
  BY DEF Queues
<1>1. PICK p \in Seq(Op), q \in Seq(Op) : p = s.tail[g] /\ q = t.tail[g]
  BY LifeType
<1>2. Queued(p, g, ld, s.refs[g]) /\ \A i \in 1..Len(p) : p[i].id \in Loads
  BY <1>1, LifeType DEF Queues
<1>3. \A i \in 1..Len(p) : p[i].op = "acquire" => p[i].id # o.id
  BY <1>2 DEF Queued
<1>4. Queued(p, g, ld2, t.refs[g])
  BY <1>2, <1>3 DEF Queued
<1>5. CASE g = h
  <2>1. Len(q) = Len(p) + 1 /\ q[Len(p) + 1] = o /\ (\A i \in 1..Len(p) : q[i] = p[i])
        /\ Len(p) \in Nat
    BY <1>1, <1>5, AppendProperties
  <2> SUFFICES ASSUME NEW i \in 1..Len(q), q[i].op = "acquire"
               PROVE  /\ ld2[q[i].id].ih = g /\ ld2[q[i].id].pc \in Acquires
                      /\ ld2[q[i].id].pc # "queued" => i = 1 /\ t.refs[g] = NoRef
                      /\ \A j \in 1..Len(q) : q[j].op = "acquire" /\ q[j].id = q[i].id => j = i
    BY <1>1 DEF Queued
  <2>2. CASE i = Len(p) + 1
    <3>1. q[i] = o
      BY <2>1, <2>2
    <3>2. \A j \in 1..Len(q) : q[j].op = "acquire" /\ q[j].id = o.id => j = i
      <4> SUFFICES ASSUME NEW j \in 1..Len(q), q[j].op = "acquire", q[j].id = o.id, j # i
                   PROVE  FALSE
        OBVIOUS
      <4>1. j \in 1..Len(p) /\ q[j] = p[j]
        BY <2>1, <2>2
      <4> QED  BY <4>1, <1>3
    <3> QED  BY <3>1, <3>2, <1>5 DEF Acquires
  <2>3. CASE i # Len(p) + 1
    <3>1. i \in 1..Len(p) /\ q[i] = p[i]
      BY <2>1, <2>3
    <3>2. /\ ld2[p[i].id].ih = g /\ ld2[p[i].id].pc \in Acquires
          /\ ld2[p[i].id].pc # "queued" => i = 1 /\ t.refs[g] = NoRef
          /\ \A j \in 1..Len(p) : p[j].op = "acquire" /\ p[j].id = p[i].id => j = i
      BY <3>1, <1>4 DEF Queued
    <3>3. \A j \in 1..Len(q) : q[j].op = "acquire" /\ q[j].id = q[i].id => j = i
      <4> SUFFICES ASSUME NEW j \in 1..Len(q), q[j].op = "acquire", q[j].id = q[i].id
                   PROVE  j = i
        OBVIOUS
      <4>1. j # Len(p) + 1
        BY <2>1, <3>1, <1>3
      <4>2. j \in 1..Len(p) /\ q[j] = p[j]
        BY <2>1, <4>1
      <4> QED  BY <4>2, <3>1, <3>2
    <3> QED  BY <3>1, <3>2, <3>3
  <2> QED  BY <2>2, <2>3
<1>6. CASE g # h
  BY <1>1, <1>4, <1>6, SMTT(60)
<1> QED  BY <1>5, <1>6


-----------------------------------------------------------------------------
(***************************************************************************)
(* The torrents that are kept, and their directories.                      *)
(***************************************************************************)
Registered(s) ==
    \A r \in Loads : s.ref[r].owned /\ s.ref[r].st = "live" => s.refs[s.ref[r].ih] = r

\* D: the loads whose directory is on disk.
Stored(s, D) == \A r \in Loads : s.ref[r].owned /\ s.ref[r].st = "live" => r \in D

\* A directory is that of a torrent that is used or whose end is queued.
Accounted(s, D) ==
    \A r \in D : /\ s.ref[r].owned /\ s.ref[r].st # "none"
                 /\ InUse(s.ref[r]) \/ Pending(s, r)

Keeps(s, D) == Registered(s) /\ Stored(s, D) /\ Accounted(s, D)

\* What publishers retain and no load reads.
Parked(s) ==
    {r \in Loads : s.ref[r].owned /\ s.ref[r].st = "live" /\ s.ref[r].readers = 0
                     /\ s.ref[r].retainedBy # {}}
Few(s) == Cardinality(Parked(s)) <= TorrentsMax

Same(s, t) == \A r \in Loads : /\ t.ref[r].st = s.ref[r].st
                               /\ t.ref[r].ih = s.ref[r].ih
                               /\ t.ref[r].owned = s.ref[r].owned

LEMMA PendingFrame ==
    ASSUME NEW s \in Life, NEW t \in Life, Same(s, t), FrameTail(s, t),
           NEW r \in Loads, Pending(s, r)
    PROVE  Pending(t, r)
<1>1. PICK h \in Infohashes : h = s.ref[r].ih /\ h = t.ref[r].ih
  BY LifeType DEF Same
<1>2. PICK i \in 1..Len(s.tail[h]) : s.tail[h][i].op # "acquire" /\ s.tail[h][i].id = r
  BY <1>1 DEF Pending
<1>3. Len(s.tail[h]) \in Nat /\ Len(t.tail[h]) \in Nat
  BY LifeType
<1>4. i \in 1..Len(t.tail[h]) /\ t.tail[h][i] = s.tail[h][i]
  BY <1>3, <1>2 DEF FrameTail
<1> QED  BY <1>1, <1>2, <1>4, ZenonT(60) DEF Pending

\* The synchronous methods keep what is kept.
LEMMA KeepsFrame ==
    ASSUME NEW s \in Life, NEW t \in Life, NEW D \in SUBSET Loads, Keeps(s, D),
           Same(s, t), FrameRefs(s, t), FrameTail(s, t), Ends(s, t)
    PROVE  Keeps(t, D)
<1>1. Registered(t)
  <2> SUFFICES ASSUME NEW r \in Loads, t.ref[r].owned, t.ref[r].st = "live"
               PROVE  t.refs[t.ref[r].ih] = r
    BY DEF Registered
  <2>1. s.refs[s.ref[r].ih] = r /\ t.ref[r].ih = s.ref[r].ih /\ s.ref[r].owned
    BY DEF Keeps, Registered, Same
  <2> QED  BY <2>1, LifeType DEF FrameRefs
<1>2. Stored(t, D)
  BY DEF Keeps, Stored, Same
<1>3. Accounted(t, D)
  <2> SUFFICES ASSUME NEW r \in D
               PROVE  /\ t.ref[r].owned /\ t.ref[r].st # "none"
                      /\ InUse(t.ref[r]) \/ Pending(t, r)
    BY DEF Accounted
  <2>1. /\ s.ref[r].owned /\ s.ref[r].st # "none"
        /\ InUse(s.ref[r]) \/ Pending(s, r)
    BY DEF Keeps, Accounted
  <2>2. Pending(s, r) => Pending(t, r)
    BY PendingFrame
  <2> QED  BY <2>1, <2>2 DEF Same, Ends
<1> QED  BY <1>1, <1>2, <1>3 DEF Keeps

\* capTorrents leaves at most TorrentsMax torrents parked.
LEMMA CapFew ==
    ASSUME NEW s, LifeInv(s), Registered(s), NEW V \in Victims(s), NEW t, t = Evict(s, V)
    PROVE  Few(t)
<1>0. s \in Life
  BY DEF LifeInv
<1>1. /\ t \in Life /\ FrameRef(s, t)
      /\ \A r \in Loads : t.ref[r].retainedBy = IF r \in V THEN {} ELSE s.ref[r].retainedBy
  <2>1. LET u == Evict(s, V) IN
        /\ u \in Life /\ Frame(s, u) /\ LifeInv(u) /\ Ends(s, u)
        /\ \A r \in Loads : u.ref[r].retainedBy = IF r \in V THEN {} ELSE s.ref[r].retainedBy
    BY EvictInv
  <2> QED  BY <2>1 DEF Frame
<1> DEFINE O == OwnedLive(s)
           P == Parked(t)
           idle == {r \in O : s.ref[r].readers = 0}
<1>2. P \subseteq idle \ V
  <2> SUFFICES ASSUME NEW r \in P
               PROVE  r \in idle \ V
    OBVIOUS
  <2>1. /\ r \in Loads /\ s.ref[r].owned /\ s.ref[r].st = "live" /\ s.ref[r].readers = 0
        /\ t.ref[r].retainedBy # {}
    BY <1>1 DEF Parked, FrameRef
  <2>2. s.refs[s.ref[r].ih] = r /\ s.ref[r].ih \in Infohashes
    BY <2>1, <1>0, LifeType DEF Registered
  <2> QED  BY <2>1, <2>2, <1>1 DEF OwnedLive
<1>3. /\ V \subseteq idle
      /\ IF Cardinality(O) <= TorrentsMax THEN V = {}
         ELSE \/ Cardinality(V) = Cardinality(O) - TorrentsMax
              \/ V = idle
  BY DEF Victims
<1>4. O \subseteq Loads /\ idle \subseteq O
  BY DEF OwnedLive
<1>5. IsFiniteSet(O) /\ IsFiniteSet(P) /\ IsFiniteSet(V)
  <2>1. IsFiniteSet(O)
    BY <1>4, LoadsAssumption, FS_Subset
  <2>2. P \subseteq O /\ V \subseteq O
    BY <1>2, <1>3, <1>4
  <2> QED  BY <2>1, <2>2, FS_Subset
<1>6. P \subseteq O \ V /\ V \subseteq O
  BY <1>2, <1>3, <1>4
<1>7. V = idle => P = {}
  BY <1>2
<1> HIDE DEF O, P, idle
<1>8. /\ Cardinality(O) \in Nat /\ Cardinality(P) \in Nat /\ Cardinality(V) \in Nat
      /\ TorrentsMax \in Nat
  BY <1>5, FS_CardinalityType, LimitsAssumption
<1>9. Cardinality(P) <= Cardinality(O \ V)
  <2>1. IsFiniteSet(O \ V)
    BY <1>5, FS_Difference
  <2> QED  BY <2>1, <1>6, FS_Subset
<1>10. Cardinality(O \ V) = Cardinality(O) - Cardinality(V)
  <2>1. O \cap V = V
    BY <1>6
  <2> QED  BY <2>1, <1>5, FS_Difference
<1>11. CASE Cardinality(O) <= TorrentsMax
  <2>1. Cardinality(P) <= Cardinality(O)
    BY <1>5, <1>6, FS_Subset
  <2> QED  BY <2>1, <1>8, <1>11 DEF Few, P
<1>12. CASE ~(Cardinality(O) <= TorrentsMax)
  <2>1. CASE V = idle
    <3>1. Cardinality(P) = 0
      BY <2>1, <1>7, FS_EmptySet
    <3> QED  BY <3>1, <1>8 DEF Few, P
  <2>2. CASE Cardinality(V) = Cardinality(O) - TorrentsMax
    <3>1. Cardinality(P) <= TorrentsMax
      BY <2>2, <1>8, <1>9, <1>10
    <3> QED  BY <3>1 DEF Few, P
  <2> QED  BY <2>1, <2>2, <1>3, <1>12
<1> QED  BY <1>11, <1>12

\* A queue has run its head: what is pending stays so, but for that operation.
LEMMA PendingPop ==
    ASSUME NEW s \in Life, NEW t \in Life, NEW h \in Infohashes, s.tail[h] # <<>>,
           t.tail[h] = Tail(s.tail[h]),
           \A k \in Infohashes : k # h => t.tail[k] = s.tail[k],
           NEW r \in Loads, t.ref[r].ih = s.ref[r].ih, Pending(s, r),
           ~(Head(s.tail[h]).op # "acquire" /\ Head(s.tail[h]).id = r)
    PROVE  Pending(t, r)
<1>1. PICK g \in Infohashes : g = s.ref[r].ih /\ g = t.ref[r].ih
  <2>1. s.ref[r].ih \in Infohashes
    BY LifeType
  <2> QED  BY <2>1
<1>c. Condemned(s.tail[g], r)
  BY <1>1, PendingIn
<1>2. PICK i \in 1..Len(s.tail[g]) : s.tail[g][i].op # "acquire" /\ s.tail[g][i].id = r
  BY <1>c DEF Condemned
<1>3. CASE g = h
  <2>1. PICK p \in Seq(Op) : p = s.tail[h] /\ p # <<>>
    BY LifeType
  <2>2. /\ Head(p) = p[1] /\ Len(Tail(p)) = Len(p) - 1 /\ Len(p) \in Nat
        /\ \A j \in 1..Len(Tail(p)) : Tail(p)[j] = p[j + 1]
    BY <2>1
  <2>3. i # 1
    BY <2>1, <2>2, <1>2, <1>3
  <2>i. i \in 1..Len(p)
    BY <2>1, <1>2, <1>3
  <2>j. i - 1 \in 1..Len(Tail(p))
    BY <2>i, <2>2, <2>3
  <2>4. i - 1 \in 1..Len(Tail(p)) /\ Tail(p)[i - 1] = p[i]
    BY <2>i, <2>j, <2>2
  <2>5. i - 1 \in 1..Len(t.tail[g]) /\ t.tail[g][i - 1].op # "acquire" /\ t.tail[g][i - 1].id = r
    BY <2>1, <2>4, <1>2, <1>3
  <2>6. Condemned(t.tail[g], r)
    BY <2>5 DEF Condemned
  <2> QED  BY <2>6, <1>1, PendingIn
<1>4. CASE g # h
  <2>1. t.tail[g] = s.tail[g]
    BY <1>4
  <2>2. Condemned(t.tail[g], r)
    BY <2>1, <1>c
  <2> QED  BY <2>2, <1>1, PendingIn
<1> QED  BY <1>3, <1>4

\* ... and so is what is kept, in the directories E that remain.
LEMMA KeepsPop ==
    ASSUME NEW s \in Life, NEW t \in Life, NEW D \in SUBSET Loads, NEW E \in SUBSET D,
           Keeps(s, D), Same(s, t), t.refs = s.refs,
           NEW h \in Infohashes, s.tail[h] # <<>>,
           t.tail[h] = Tail(s.tail[h]),
           \A k \in Infohashes : k # h => t.tail[k] = s.tail[k],
           \A r \in Loads : InUse(s.ref[r]) => InUse(t.ref[r]),
           \A r \in D : r \notin E => s.ref[r].st # "live",
           \A r \in E : Head(s.tail[h]).op # "acquire" /\ Head(s.tail[h]).id = r
                            => InUse(s.ref[r])
    PROVE  Keeps(t, E)
<1>1. Registered(t)
  BY DEF Keeps, Registered, Same
<1>2. Stored(t, E)
  BY DEF Keeps, Stored, Same
<1>3. Accounted(t, E)
  <2> SUFFICES ASSUME NEW r \in E
               PROVE  /\ t.ref[r].owned /\ t.ref[r].st # "none"
                      /\ InUse(t.ref[r]) \/ Pending(t, r)
    BY DEF Accounted
  <2>1. /\ s.ref[r].owned /\ s.ref[r].st # "none" /\ r \in Loads
        /\ InUse(s.ref[r]) \/ Pending(s, r)
    BY DEF Keeps, Accounted
  <2>2. t.ref[r].owned /\ t.ref[r].st # "none" /\ t.ref[r].ih = s.ref[r].ih
    BY <2>1 DEF Same
  <2>3. CASE InUse(s.ref[r])
    BY <2>1, <2>2, <2>3
  <2>4. CASE ~InUse(s.ref[r])
    <3>1. Pending(s, r) /\ ~(Head(s.tail[h]).op # "acquire" /\ Head(s.tail[h]).id = r)
      BY <2>1, <2>4
    <3>2. Pending(t, r)
      BY <3>1, <2>1, <2>2, PendingPop
    <3> QED  BY <3>2, <2>2
  <2> QED  BY <2>3, <2>4
<1> QED  BY <1>1, <1>2, <1>3 DEF Keeps

LEMMA KeepsReap ==
    ASSUME NEW s \in Life, NEW t \in Life, NEW D \in SUBSET Loads, Keeps(s, D),
           NEW h \in Infohashes, s.tail[h] # <<>>, NEW r \in Loads, s.ref[r].ih = h,
           Head(s.tail[h]).id = r, Reaped(s, t, h, r)
    PROVE  Keeps(t, D)
<1>1. Registered(t)
  <2> SUFFICES ASSUME NEW q \in Loads, t.ref[q].owned, t.ref[q].st = "live"
               PROVE  t.refs[t.ref[q].ih] = q
    BY DEF Registered
  <2>1. q # r /\ s.ref[q].owned /\ s.ref[q].st = "live" /\ t.ref[q].ih = s.ref[q].ih
    BY DEF Reaped
  <2>2. PICK k \in Infohashes : k = s.ref[q].ih
    BY LifeType
  <2>3. s.refs[k] = q
    BY <2>1, <2>2 DEF Keeps, Registered
  <2> QED  BY <2>1, <2>2, <2>3 DEF Reaped
<1>2. Stored(t, D)
  BY DEF Keeps, Stored, Reaped
<1>3. Accounted(t, D)
  <2> SUFFICES ASSUME NEW q \in D
               PROVE  /\ t.ref[q].owned /\ t.ref[q].st # "none"
                      /\ InUse(t.ref[q]) \/ Pending(t, q)
    BY DEF Accounted
  <2>1. /\ s.ref[q].owned /\ s.ref[q].st # "none" /\ q \in Loads
        /\ InUse(s.ref[q]) \/ Pending(s, q)
    BY DEF Keeps, Accounted
  <2>2. /\ t.ref[q].owned /\ t.ref[q].st # "none" /\ t.ref[q].ih = s.ref[q].ih
        /\ InUse(s.ref[q]) => InUse(t.ref[q])
    BY <2>1 DEF Reaped, InUse
  <2>3. Pending(s, q) => Pending(t, q)
    <3> SUFFICES ASSUME Pending(s, q)
                 PROVE  Pending(t, q)
      OBVIOUS
    <3>1. PICK g \in Infohashes : g = s.ref[q].ih /\ g = t.ref[q].ih
      <4>1. s.ref[q].ih \in Infohashes
        BY <2>1, LifeType
      <4> QED  BY <4>1, <2>2
    <3>c. Condemned(s.tail[g], q)
      BY <3>1, PendingIn
    <3>2. PICK i \in 1..Len(s.tail[g]) : s.tail[g][i].op # "acquire" /\ s.tail[g][i].id = q
      BY <3>c DEF Condemned
    <3>3. CASE g # h
      <4>1. t.tail[g] = s.tail[g]
        BY <3>3 DEF Reaped
      <4>2. Condemned(t.tail[g], q)
        BY <4>1, <3>c
      <4> QED  BY <4>2, <3>1, PendingIn
    <3>4. CASE g = h
      <4>o. PICK o \in Op : o = [op |-> "rm", id |-> r]
        BY DEF Op
      <4>1. PICK p \in Seq(Op), u \in Seq(Op) : p = s.tail[h] /\ p # <<>> /\ u = t.tail[h]
        BY LifeType
      <4>2. /\ Head(p) = p[1] /\ Len(Tail(p)) = Len(p) - 1 /\ Len(p) \in Nat
            /\ Tail(p) \in Seq(Op)
            /\ \A j \in 1..Len(Tail(p)) : Tail(p)[j] = p[j + 1]
        BY <4>1
      <4>3. u = <<o>> \o Tail(p)
        BY <4>1, <4>o DEF Reaped
      <4>4. <<o>> \in Seq(Op) /\ Len(<<o>>) = 1 /\ <<o>>[1] = o
        OBVIOUS
      <4>5. /\ Len(u) = Len(p)
            /\ \A j \in 1..Len(u) : u[j] = IF j = 1 THEN o ELSE p[j]
        <5>1. /\ Len(u) = 1 + Len(Tail(p))
              /\ \A j \in 1..Len(u) : u[j] = IF j = 1 THEN o ELSE Tail(p)[j - 1]
          BY <4>2, <4>3, <4>4, ConcatProperties
        <5> QED  BY <5>1, <4>2
      <4>6. CASE i = 1
        <5>1. q = r /\ 1 \in 1..Len(u) /\ u[1] = o
          BY <4>1, <4>2, <4>5, <4>6, <3>2, <3>4
        <5>2. o.op # "acquire" /\ o.id = q
          BY <5>1, <4>o
        <5>3. Condemned(u, q)
          BY <5>1, <5>2 DEF Condemned
        <5>4. Condemned(t.tail[g], q)
          BY <5>3, <4>1, <3>4
        <5> QED  BY <5>4, <3>1, PendingIn
      <4>7. CASE i # 1
        <5>1. i \in 1..Len(u) /\ u[i] = p[i]
          BY <4>1, <4>5, <4>7, <3>2, <3>4
        <5>2. u[i].op # "acquire" /\ u[i].id = q
          BY <5>1, <4>1, <3>2, <3>4
        <5>3. Condemned(u, q)
          BY <5>1, <5>2 DEF Condemned
        <5>4. Condemned(t.tail[g], q)
          BY <5>3, <4>1, <3>4
        <5> QED  BY <5>4, <3>1, PendingIn
      <4> QED  BY <4>6, <4>7
    <3> QED  BY <3>3, <3>4
  <2> QED  BY <2>1, <2>2, <2>3
<1> QED  BY <1>1, <1>2, <1>3 DEF Keeps

\* A new ref for an infohash without one, taken by the load that creates it.
LEMMA KeepsBorn ==
    ASSUME NEW s \in Life, NEW u \in Life, NEW t \in Life, NEW D \in SUBSET Loads,
           Keeps(s, D), NEW h \in Infohashes, s.tail[h] # <<>>, s.refs[h] = NoRef,
           Head(s.tail[h]).op = "acquire",
           NEW l \in Loads, s.ref[l].st = "none", NEW owned \in BOOLEAN,
           NEW st \in {"live", "failed"},
           Added(s, u, h, l, owned, st), Taken(u, t, h, l),
           NEW E, E = IF owned THEN D \cup {l} ELSE D
    PROVE  Keeps(t, E)
<1>1. /\ \A q \in Loads : q # l =>
            /\ t.ref[q].readers = s.ref[q].readers /\ t.ref[q].retainedBy = s.ref[q].retainedBy
            /\ t.ref[q].st = s.ref[q].st /\ t.ref[q].ih = s.ref[q].ih
            /\ t.ref[q].owned = s.ref[q].owned
      /\ t.ref[l].readers = 1 /\ t.ref[l].st = st /\ t.ref[l].ih = h /\ t.ref[l].owned = owned
      /\ \A k \in Infohashes : t.refs[k] = IF k = h THEN l ELSE s.refs[k]
      /\ t.tail[h] = Tail(s.tail[h]) /\ \A k \in Infohashes : k # h => t.tail[k] = s.tail[k]
  BY DEF Added, Taken
<1>2. l \notin D
  BY DEF Keeps, Accounted
<1>3. Registered(t)
  <2> SUFFICES ASSUME NEW q \in Loads, t.ref[q].owned, t.ref[q].st = "live"
               PROVE  t.refs[t.ref[q].ih] = q
    BY DEF Registered
  <2>1. CASE q = l
    BY <2>1, <1>1
  <2>2. CASE q # l
    <3>0. s.ref[q].owned /\ s.ref[q].st = "live" /\ t.ref[q].ih = s.ref[q].ih
      BY <2>2, <1>1
    <3>1. s.refs[s.ref[q].ih] = q /\ t.ref[q].ih = s.ref[q].ih /\ s.ref[q].ih \in Infohashes
      BY <3>0, LifeType DEF Keeps, Registered
    <3>2. s.ref[q].ih # h
      BY <3>1, NullsAssumption
    <3> QED  BY <3>1, <3>2, <1>1
  <2> QED  BY <2>1, <2>2
<1>4. Stored(t, E)
  BY <1>1 DEF Keeps, Stored
<1>5. Accounted(t, E)
  <2> SUFFICES ASSUME NEW q \in E
               PROVE  /\ t.ref[q].owned /\ t.ref[q].st # "none"
                      /\ InUse(t.ref[q]) \/ Pending(t, q)
    BY DEF Accounted
  <2>1. CASE q = l
    BY <2>1, <1>1, <1>2 DEF InUse
  <2>2. CASE q # l
    <3>1. /\ q \in Loads /\ s.ref[q].owned /\ s.ref[q].st # "none"
          /\ InUse(s.ref[q]) \/ Pending(s, q)
      BY <2>2 DEF Keeps, Accounted
    <3>2. InUse(s.ref[q]) => InUse(t.ref[q])
      BY <2>2, <3>1, <1>1 DEF InUse
    <3>3. Pending(s, q) => Pending(t, q)
      BY <2>2, <3>1, <1>1, PendingPop
    <3> QED  BY <2>2, <3>1, <3>2, <3>3, <1>1
  <2> QED  BY <2>1, <2>2
<1> QED  BY <1>3, <1>4, <1>5 DEF Keeps

\* A stale ref is forgotten; it was not live.
LEMMA KeepsDetach ==
    ASSUME NEW s \in Life, NEW t \in Life, NEW D \in SUBSET Loads, Keeps(s, D),
           NEW h \in Infohashes, s.ref[s.refs[h]].st # "live",
           Same(s, t), FrameTail(s, t), Ends(s, t),
           \A k \in Infohashes : t.refs[k] # s.refs[k] =>
                 t.refs[k] = NoRef /\ (k = h \/ ~s.ref[s.refs[k]].owned)
    PROVE  Keeps(t, D)
<1>1. Registered(t)
  <2> SUFFICES ASSUME NEW r \in Loads, t.ref[r].owned, t.ref[r].st = "live"
               PROVE  t.refs[t.ref[r].ih] = r
    BY DEF Registered
  <2>1. /\ s.refs[s.ref[r].ih] = r /\ t.ref[r].ih = s.ref[r].ih /\ s.ref[r].owned
        /\ s.ref[r].st = "live" /\ s.ref[r].ih \in Infohashes
    BY LifeType DEF Keeps, Registered, Same
  <2> QED  BY <2>1
<1>2. Stored(t, D)
  BY DEF Keeps, Stored, Same
<1>3. Accounted(t, D)
  <2> SUFFICES ASSUME NEW r \in D
               PROVE  /\ t.ref[r].owned /\ t.ref[r].st # "none"
                      /\ InUse(t.ref[r]) \/ Pending(t, r)
    BY DEF Accounted
  <2>1. /\ s.ref[r].owned /\ s.ref[r].st # "none"
        /\ InUse(s.ref[r]) \/ Pending(s, r)
    BY DEF Keeps, Accounted
  <2>2. Pending(s, r) => Pending(t, r)
    BY PendingFrame
  <2> QED  BY <2>1, <2>2 DEF Same, Ends
<1> QED  BY <1>1, <1>2, <1>3 DEF Keeps

\* A torrent that ends by itself is kept until its destruction.
LEMMA KeepsTorrents ==
    ASSUME NEW s \in Life, NEW t \in Life, NEW D \in SUBSET Loads, Keeps(s, D),
           t.refs = s.refs, t.tail = s.tail,
           \A r \in Loads : /\ t.ref[r].readers = s.ref[r].readers
                            /\ t.ref[r].retainedBy = s.ref[r].retainedBy
                            /\ t.ref[r].ih = s.ref[r].ih
                            /\ t.ref[r].owned = s.ref[r].owned
                            /\ t.ref[r].st # s.ref[r].st => t.ref[r].st \in {"failed", "closed"}
    PROVE  Keeps(t, D)
<1>1. Registered(t)
  BY DEF Keeps, Registered
<1>2. Stored(t, D)
  BY DEF Keeps, Stored
<1>3. Accounted(t, D)
  <2>1. \A r \in Loads : (InUse(s.ref[r]) <=> InUse(t.ref[r])) /\ (Pending(s, r) <=> Pending(t, r))
    BY DEF InUse, Pending
  <2> QED  BY <2>1 DEF Keeps, Accounted
<1> QED  BY <1>1, <1>2, <1>3 DEF Keeps

\* A load has queued its acquisition.
LEMMA KeepsQueue ==
    ASSUME NEW s \in Life, NEW t \in Life, NEW D \in SUBSET Loads, Keeps(s, D),
           t.ref = s.ref, t.refs = s.refs, NEW h \in Infohashes, NEW o \in Op,
           t.tail[h] = Append(s.tail[h], o),
           \A k \in Infohashes : k # h => t.tail[k] = s.tail[k]
    PROVE  Keeps(t, D)
<1>1. Registered(t) /\ Stored(t, D)
  BY SMTT(60) DEF Keeps, Registered, Stored
<1>2. ASSUME NEW r \in Loads, Pending(s, r)
      PROVE  Pending(t, r)
  <2>1. PICK g \in Infohashes : g = s.ref[r].ih /\ g = t.ref[r].ih
    BY LifeType
  <2>2. PICK i \in 1..Len(s.tail[g]) : s.tail[g][i].op # "acquire" /\ s.tail[g][i].id = r
    BY <1>2, <2>1 DEF Pending
  <2>3. i \in 1..Len(t.tail[g]) /\ t.tail[g][i] = s.tail[g][i]
    <3>1. s.tail[g] \in Seq(Op) /\ Len(s.tail[g]) \in Nat
      BY LifeType
    <3>2. CASE g = h
      <4>1. /\ Len(t.tail[g]) = Len(s.tail[g]) + 1
            /\ \A j \in 1..Len(s.tail[g]) : t.tail[g][j] = s.tail[g][j]
        BY <3>1, <3>2, AppendProperties
      <4> QED  BY <4>1, <3>1, <2>2
    <3> QED  BY <3>2, <2>2
  <2> QED  BY <2>1, <2>2, <2>3 DEF Pending
<1>3. Accounted(t, D)
  BY <1>2 DEF Keeps, Accounted
<1> QED  BY <1>1, <1>3 DEF Keeps


-----------------------------------------------------------------------------
(***************************************************************************)
(* The second inductive invariant.                                         *)
(***************************************************************************)
OnDisk == {r \in Loads : DirOf(r) \in disk}
Dirs == \A d \in disk : \E r \in Loads : d = DirOf(r)

Kept(s, ld, D) == Queues(s, ld) /\ Keeps(s, D)

KInv == IInv /\ Kept(Now, load, OnDisk) /\ Few(Now) /\ Dirs

LEMMA NowBecomes ==
    ASSUME NEW t \in Life, Becomes(t)
    PROVE  Now' = t
<1>1. t = [ref |-> t.ref, refs |-> t.refs, current |-> t.current, tail |-> t.tail]
  BY DEF Life
<1> QED  BY <1>1 DEF Becomes, Now

LEMMA FrameSelf ==
    ASSUME NEW s \in Life
    PROVE  FrameTail(s, s)
BY LifeType DEF FrameTail

\* Loads that do not acquire may change.
LEMMA KeptLoads ==
    ASSUME NEW s \in Life, NEW ld, NEW ld2, NEW D, Kept(s, ld, D), LoadsStay(ld, ld2)
    PROVE  Kept(s, ld2, D)
<1>1. Queues(s, ld) /\ Keeps(s, D)
  BY DEF Kept
<1>2. Queues(s, ld2)
  BY <1>1, FrameSelf, QueuesFrame
<1> QED  BY <1>1, <1>2 DEF Kept

LEMMA KeptFrame ==
    ASSUME NEW s \in Life, NEW t \in Life, NEW ld, NEW D \in SUBSET Loads, Kept(s, ld, D),
           Same(s, t), FrameRefs(s, t), FrameTail(s, t), Ends(s, t)
    PROVE  Kept(t, ld, D)
<1>1. Queues(s, ld) /\ Keeps(s, D)
  BY DEF Kept
<1>2. LoadsStay(ld, ld)
  BY DEF LoadsStay
<1>3. \A k \in Infohashes : s.refs[k] = NoRef => t.refs[k] = NoRef
  BY DEF FrameRefs
<1>4. Queues(t, ld)
  BY <1>1, <1>2, <1>3, QueuesFrame
<1>5. Keeps(t, D)
  BY <1>1, KeepsFrame
<1> QED  BY <1>4, <1>5 DEF Kept

LEMMA KeptCap ==
    ASSUME NEW s, LifeInv(s), NEW ld, NEW D \in SUBSET Loads, Kept(s, ld, D), CapTorrents(s)
    PROVE  Kept(Now', ld, D) /\ Few(Now')
<1>0. s \in Life /\ Registered(s)
  BY DEF LifeInv, Kept, Keeps
<1>1. PICK V \in Victims(s) : Becomes(Evict(s, V))
  BY DEF CapTorrents
<1>2. PICK t : t = Evict(s, V)
  OBVIOUS
<1>3. LET u == Evict(s, V) IN
      /\ u \in Life /\ Frame(s, u) /\ LifeInv(u) /\ Ends(s, u)
      /\ \A r \in Loads : u.ref[r].retainedBy = IF r \in V THEN {} ELSE s.ref[r].retainedBy
  BY EvictInv
<1>4. t \in Life /\ Frame(s, t) /\ Ends(s, t) /\ Becomes(t)
  BY <1>1, <1>2, <1>3
<1>5. Same(s, t) /\ FrameRefs(s, t) /\ FrameTail(s, t)
  BY <1>4 DEF Frame, FrameRef, Same
<1>6. Kept(t, ld, D)
  BY <1>0, <1>4, <1>5, KeptFrame
<1>7. Few(t)
  BY <1>0, <1>2, CapFew
<1>8. Now' = t
  BY <1>4, NowBecomes
<1> QED  BY <1>6, <1>7, <1>8

LEMMA FewShrinks ==
    ASSUME NEW s, NEW t, Few(s), Parked(t) \subseteq Parked(s)
    PROVE  Few(t)
<1>1. IsFiniteSet(Parked(s))
  <2>1. Parked(s) \subseteq Loads
    BY DEF Parked
  <2> QED  BY <2>1, LoadsAssumption, FS_Subset
<1>2. IsFiniteSet(Parked(t)) /\ Cardinality(Parked(t)) <= Cardinality(Parked(s))
  BY <1>1, FS_Subset
<1>3. Cardinality(Parked(t)) \in Nat /\ Cardinality(Parked(s)) \in Nat /\ TorrentsMax \in Nat
  BY <1>1, <1>2, FS_CardinalityType, LimitsAssumption
<1> QED  BY <1>2, <1>3 DEF Few

\* The keys of the loads stay.
KeysStay == \A k \in Loads : load'[k].pk = load[k].pk /\ load'[k].ih = load[k].ih

LEMMA DirsStay ==
    ASSUME Dirs, KeysStay, disk' = disk
    PROVE  Dirs' /\ OnDisk' = OnDisk
<1>1. \A r \in Loads : DirOf(r)' = DirOf(r)
  BY DEF KeysStay, DirOf
<1> QED  BY <1>1 DEF Dirs, OnDisk

LEMMA DirsGrow ==
    ASSUME Dirs, KeysStay, NEW l \in Loads, disk' = disk \cup {DirOf(l)}
    PROVE  Dirs' /\ OnDisk' = OnDisk \cup {l}
<1>1. \A r \in Loads : DirOf(r)' = DirOf(r)
  BY DEF KeysStay, DirOf
<1>2. \A r \in Loads : DirOf(r) = DirOf(l) => r = l
  BY DEF DirOf
<1>3. Dirs'
  BY <1>1 DEF Dirs
<1>4. OnDisk' = OnDisk \cup {l}
  BY <1>1, <1>2 DEF OnDisk
<1> QED  BY <1>3, <1>4

LEMMA DirsShrink ==
    ASSUME Dirs, KeysStay, NEW l \in Loads, disk' = disk \ {DirOf(l)}
    PROVE  Dirs' /\ OnDisk' = OnDisk \ {l}
<1>1. \A r \in Loads : DirOf(r)' = DirOf(r)
  BY DEF KeysStay, DirOf
<1>2. \A r \in Loads : DirOf(r) = DirOf(l) => r = l
  BY DEF DirOf
<1>3. Dirs'
  BY <1>1 DEF Dirs
<1>4. OnDisk' = OnDisk \ {l}
  BY <1>1, <1>2 DEF OnDisk
<1> QED  BY <1>3, <1>4

\* The lifecycle is as it was, and so are the loads that acquire.
LEMMA KSame ==
    ASSUME KInv, IInv', Now' = Now, KeysStay, disk' = disk, LoadsStay(load, load')
    PROVE  KInv'
<1>1. Now \in Life
  BY NowFields DEF KInv, IInv
<1>2. Kept(Now, load', OnDisk)
  BY <1>1, KeptLoads DEF KInv
<1>3. Dirs' /\ OnDisk' = OnDisk
  BY DirsStay DEF KInv
<1>4. Kept(Now', load', OnDisk') /\ Few(Now')
  BY <1>2, <1>3 DEF KInv
<1> QED  BY <1>3, <1>4 DEF KInv


\* What every step gives.
LEMMA KNow ==
    ASSUME KInv
    PROVE  /\ IInv /\ LifeInv(Now) /\ Now \in Life /\ Queues(Now, load) /\ Keeps(Now, OnDisk)
           /\ Few(Now) /\ Dirs /\ OnDisk \in SUBSET Loads
           /\ Now.ref = ref /\ Now.refs = refs /\ Now.current = current /\ Now.tail = tail
BY NowFields DEF KInv, IInv, Kept, OnDisk

\* A step to the lifecycle t that leaves the directories alone.
LEMMA KStep ==
    ASSUME KInv, IInv', NEW t \in Life, Becomes(t), KeysStay, disk' = disk,
           Queues(t, load'), Keeps(t, OnDisk), Few(t)
    PROVE  KInv'
<1>1. Now' = t
  BY NowBecomes
<1>2. Dirs' /\ OnDisk' = OnDisk
  BY DirsStay DEF KInv
<1>3. Kept(Now', load', OnDisk') /\ Few(Now')
  BY <1>1, <1>2 DEF Kept
<1> QED  BY <1>2, <1>3 DEF KInv

LEMMA MovesKeys ==
    ASSUME NEW l \in Loads, NEW x, Moves(l, x)
    PROVE  /\ KeysStay
           /\ load[l].pc \notin Acquires => LoadsStay(load, load')
BY DEF Moves, KeysStay, LoadsStay

\* A call that joins or leaves a load.
LEMMA JoinKept ==
    ASSUME KInv, IInv', NEW c \in Callers, NEW pk \in Pubs, CatalogJoin(c, pk)
    PROVE  KInv'
<1>1. \A k \in Loads : /\ load'[k].pc = load[k].pc
                       /\ load'[k].pk = load[k].pk /\ load'[k].ih = load[k].ih
  <2>1. load \in [Loads -> Load]
    BY DEF KInv, IInv, CallsType
  <2>2. PICK l : l = inflight[<<pk, rec[pk]>>] /\ load' = [load EXCEPT ![l].waiters = @ + 1]
    BY DEF CatalogJoin
  <2>3. PICK new : new = [load[l] EXCEPT !.waiters = @ + 1]
    OBVIOUS
  <2>4. load' = [load EXCEPT ![l] = new]
    BY <2>2, <2>3
  <2>5. l \in Loads => new.pc = load[l].pc /\ new.pk = load[l].pk /\ new.ih = load[l].ih
    BY <2>1, <2>3 DEF Load
  <2> QED  BY <2>1, <2>4, <2>5
<1>2. KeysStay /\ LoadsStay(load, load')
  BY <1>1 DEF KeysStay, LoadsStay
<1>3. Now' = Now /\ disk' = disk
  BY DEF CatalogJoin, Now, life
<1> QED  BY <1>2, <1>3, KSame

LEMMA LeaveKept ==
    ASSUME KInv, IInv', NEW c \in Callers, Leave(c)
    PROVE  KInv'
<1>1. \A k \in Loads : /\ load'[k].pc = load[k].pc
                       /\ load'[k].pk = load[k].pk /\ load'[k].ih = load[k].ih
  <2>1. load \in [Loads -> Load]
    BY DEF KInv, IInv, CallsType
  <2>2. PICK l : l = caller[c]
    OBVIOUS
  <2>3. PICK last : last = (load[l].waiters = 1 /\ load[l].pc # "done" /\ ~load[l].aborted)
    OBVIOUS
  <2>4. load' = [load EXCEPT ![l].waiters = @ - 1, ![l].aborted = @ \/ last]
    BY <2>2, <2>3 DEF Leave
  <2>5. PICK new : new = [load[l] EXCEPT !.waiters = @ - 1, !.aborted = @ \/ last]
    OBVIOUS
  <2>6. load' = [load EXCEPT ![l] = new]
    BY <2>4, <2>5
  <2>7. l \in Loads => new.pc = load[l].pc /\ new.pk = load[l].pk /\ new.ih = load[l].ih
    BY <2>1, <2>5 DEF Load
  <2> QED  BY <2>1, <2>6, <2>7
<1>2. KeysStay /\ LoadsStay(load, load')
  BY <1>1 DEF KeysStay, LoadsStay
<1>3. Now' = Now /\ disk' = disk
  BY DEF Leave, Now, life
<1> QED  BY <1>2, <1>3, KSame

\* A load that starts has no directory.
LEMMA StartKept ==
    ASSUME KInv, IInv', NEW c \in Callers, NEW pk \in Pubs, NEW l \in Loads,
           CatalogStart(c, pk, l)
    PROVE  KInv'
<1>0. /\ IInv /\ LifeInv(Now) /\ Now \in Life /\ Queues(Now, load) /\ Keeps(Now, OnDisk)
      /\ Few(Now) /\ Dirs /\ OnDisk \in SUBSET Loads
      /\ Now.ref = ref /\ Now.refs = refs /\ Now.current = current /\ Now.tail = tail
  BY KNow
<1>h. PICK h \in Infohashes : h = rec[pk]
  BY <1>0 DEF IInv, CallsType
<1>o. PICK o \in Op : o = [op |-> "acquire", id |-> l]
  BY DEF Op
<1>n. PICK new : new = [pc |-> "queued", pk |-> pk, ih |-> h, ref |-> NoRef,
                        waiters |-> 1, aborted |-> FALSE]
  OBVIOUS
<1>1. /\ load[l].pc = "unused" /\ load' = [load EXCEPT ![l] = new]
      /\ tail' = [tail EXCEPT ![h] = Append(@, o)]
      /\ ref' = ref /\ refs' = refs /\ current' = current /\ disk' = disk
  BY <1>h, <1>o, <1>n DEF CatalogStart
<1>2. load \in [Loads -> Load]
  BY <1>0 DEF IInv, CallsType
<1>3. load'[l] = new /\ \A k \in Loads : k # l => load'[k] = load[k]
  BY <1>1, <1>2
<1>t. PICK t : t = [Now EXCEPT !.tail[h] = Append(@, [op |-> "acquire", id |-> l])]
  OBVIOUS
<1>4. LifeInv(t) /\ t.ref = ref /\ t.refs = refs /\ t.current = current
  BY <1>0, <1>t, QueueInv
<1>5. t \in Life
  BY <1>4 DEF LifeInv
<1>6. /\ tail \in [Infohashes -> Seq(Op)] /\ t.tail = [tail EXCEPT ![h] = Append(tail[h], o)]
  <2>1. tail \in [Infohashes -> Seq(Op)]
    BY <1>0, LifeType
  <2>2. t.tail = [Now.tail EXCEPT ![h] = Append(Now.tail[h], o)]
    BY <1>0, <1>t, <1>o DEF Life
  <2> QED  BY <2>1, <2>2, <1>0
<1>7. Becomes(t)
  BY <1>1, <1>4, <1>6 DEF Becomes
<1>8. t.tail[h] = Append(Now.tail[h], o) /\ \A k \in Infohashes : k # h => t.tail[k] = Now.tail[k]
  BY <1>6, <1>0
<1>9. Queues(t, load')
  <2>1. load[l].pc \notin Acquires /\ load'[l].pc = "queued" /\ load'[l].ih = h /\ o.id = l
        /\ o.op = "acquire"
    BY <1>1, <1>3, <1>n, <1>o DEF Acquires
  <2>2. load[o.id].pc \notin Acquires /\ load'[o.id].pc = "queued" /\ load'[o.id].ih = h
    BY <2>1
  <2>3. \A k \in Loads : k # o.id => load'[k] = load[k]
    BY <2>1, <1>3
  <2>4. t.refs = Now.refs
    BY <1>0, <1>4
  <2>5. o.op = "acquire" /\ Queues(Now, load) /\ Now \in Life /\ t \in Life
    BY <2>1, <1>0, <1>5
  <2> QED  BY <2>2, <2>3, <2>4, <2>5, <1>8, QueuesStart, SMTT(60)
<1>10. Keeps(t, OnDisk)
  BY <1>0, <1>4, <1>5, <1>8, KeepsQueue
<1>11. Few(t)
  BY <1>0, <1>4 DEF Few, Parked
<1>12. l \notin OnDisk
  <2>1. ref[l].st = "none"
    BY <1>0, <1>1 DEF IInv, Unborn, Early
  <2> QED  BY <2>1, <1>0 DEF Keeps, Accounted
<1>13. Dirs' /\ OnDisk' = OnDisk
  <2>1. \A r \in Loads : r # l => DirOf(r)' = DirOf(r)
    BY <1>3 DEF DirOf
  <2>2. \A d \in disk : \E r \in Loads : r # l /\ d = DirOf(r)
    BY <1>0, <1>12 DEF Dirs, OnDisk
  <2>3. Dirs'
    BY <2>1, <2>2, <1>1 DEF Dirs
  <2>4. DirOf(l)' \notin disk
    <3>1. \A r \in Loads : r # l => DirOf(r) # DirOf(l)'
      BY DEF DirOf
    <3> QED  BY <3>1, <2>2
  <2> QED  BY <2>1, <2>3, <2>4, <1>1, <1>12 DEF OnDisk
<1>14. Now' = t
  BY <1>5, <1>7, NowBecomes
<1>15. Kept(Now', load', OnDisk') /\ Few(Now')
  BY <1>9, <1>10, <1>11, <1>13, <1>14 DEF Kept
<1> QED  BY <1>13, <1>15 DEF KInv

\* The head of h's queue has run, and its load, if it was an acquisition, is over.
LEMMA PopKept ==
    ASSUME KInv, IInv', NEW h \in Infohashes, Front(h), Becomes(Pop(Now, h)),
           KeysStay, disk' = disk,
           \A k \in Loads : load[k].pc \in Acquires /\
                ~(Head(tail[h]).op = "acquire" /\ k = Head(tail[h]).id) => load'[k].pc = load[k].pc,
           Head(tail[h]).op # "acquire" => InUse(ref[Head(tail[h]).id])
    PROVE  KInv'
<1>0. /\ IInv /\ LifeInv(Now) /\ Now \in Life /\ Queues(Now, load) /\ Keeps(Now, OnDisk)
      /\ Few(Now) /\ Dirs /\ OnDisk \in SUBSET Loads
      /\ Now.ref = ref /\ Now.refs = refs /\ Now.current = current /\ Now.tail = tail
  BY KNow
<1>t. PICK t : t = Pop(Now, h)
  OBVIOUS
<1>1. Now.tail[h] # <<>> /\ Now.tail[h] = tail[h]
  BY <1>0 DEF Front
<1>2. LET u == Pop(Now, h) IN
      /\ LifeInv(u) /\ u.ref = Now.ref /\ u.refs = Now.refs
      /\ u.tail[h] = Tail(Now.tail[h])
      /\ \A k \in Infohashes : k # h => u.tail[k] = Now.tail[k]
  BY <1>0, <1>1, PopInv
<1>3. /\ LifeInv(t) /\ t.ref = ref /\ t.refs = refs /\ t.tail[h] = Tail(Now.tail[h])
      /\ \A k \in Infohashes : k # h => t.tail[k] = Now.tail[k]
  BY <1>0, <1>2, <1>t
<1>4. t \in Life /\ Becomes(t)
  BY <1>3, <1>t DEF LifeInv
<1>5. Queues(t, load')
  <2>1. \A k \in Infohashes : k # h => t.refs[k] = Now.refs[k]
    BY <1>0, <1>3
  <2>2. \A k \in Loads :
            load[k].pc \in Acquires
              /\ ~(Head(Now.tail[h]).op = "acquire" /\ k = Head(Now.tail[h]).id)
                => load'[k].pc = load[k].pc /\ load'[k].ih = load[k].ih
    BY <1>1 DEF KeysStay
  <2>3. t.tail[h] = Tail(Now.tail[h]) /\ \A k \in Infohashes : k # h => t.tail[k] = Now.tail[k]
    BY <1>3
  <2>4. Queues(Now, load) /\ Now \in Life /\ t \in Life /\ Now.tail[h] # <<>>
    BY <1>0, <1>1, <1>4
  <2> QED  BY <2>1, <2>2, <2>3, <2>4, QueuesPop, SMTT(60)
<1>6. Keeps(t, OnDisk)
  <2>1. Same(Now, t) /\ t.refs = Now.refs
    BY <1>0, <1>3 DEF Same
  <2>2. \A r \in Loads : InUse(Now.ref[r]) => InUse(t.ref[r])
    BY <1>0, <1>3
  <2>3. \A r \in OnDisk : Head(Now.tail[h]).op # "acquire" /\ Head(Now.tail[h]).id = r
                              => InUse(Now.ref[r])
    BY <1>0, <1>1
  <2> QED  BY <2>1, <2>2, <2>3, <1>0, <1>1, <1>3, <1>4, KeepsPop
<1>7. Few(t)
  BY <1>0, <1>3 DEF Few, Parked
<1> QED  BY <1>4, <1>5, <1>6, <1>7, KStep

LEMMA GiveUpKept ==
    ASSUME KInv, IInv', NEW h \in Infohashes, AcquireAborted(h) \/ AcquireNoDir(h)
    PROVE  KInv'
<1>1. /\ Front(h) /\ Becomes(Pop(Now, h)) /\ disk' = disk /\ Settle(Head(tail[h]).id)
      /\ Head(tail[h]).op = "acquire"
  BY DEF AcquireAborted, AcquireNoDir, Acquiring, Tasks
<1>2. IInv
  BY DEF KInv
<1>3. PICK l \in Loads : l = Head(tail[h]).id
  BY <1>1, <1>2, QueueHead
<1>4. Moves(l, "done")
  BY <1>1, <1>2, <1>3, SettleFields, PcMoves, PcNames
<1>5. KeysStay /\ \A k \in Loads : k # l => load'[k].pc = load[k].pc
  BY <1>4 DEF Moves, KeysStay
<1> QED  BY <1>1, <1>3, <1>5, PopKept


\* The head of a queue that has begun is alone with its infohash.
LEMMA BegunHead ==
    ASSUME KInv, NEW h \in Infohashes, Tasks(h, "acquire"),
           load[Head(tail[h]).id].pc \in {"get", "mkdir"}
    PROVE  refs[h] = NoRef
<1>1. Queues(Now, load) /\ Now \in Life /\ Now.tail = tail /\ Now.refs = refs
  BY KNow
<1>2. PICK q \in Seq(Op) : q = Now.tail[h] /\ q # <<>>
  BY <1>1, LifeType DEF Tasks, Front
<1>3. 1 \in 1..Len(q) /\ Head(q) = q[1] /\ q = tail[h]
  BY <1>1, <1>2
<1>4. Queued(q, h, load, refs[h])
  BY <1>1, <1>2 DEF Queues
<1> QED  BY <1>3, <1>4 DEF Queued, Tasks

LEMMA ReuseKept ==
    ASSUME KInv, IInv', NEW h \in Infohashes, AcquireReuse(h)
    PROVE  KInv'
<1>0. /\ IInv /\ LifeInv(Now) /\ Now \in Life /\ Queues(Now, load) /\ Keeps(Now, OnDisk)
      /\ Few(Now) /\ Dirs /\ OnDisk \in SUBSET Loads
      /\ Now.ref = ref /\ Now.refs = refs /\ Now.current = current /\ Now.tail = tail
  BY KNow
<1>1. /\ Front(h) /\ refs[h] # NoRef /\ ~Stale(h) /\ Head(tail[h]).op = "acquire"
      /\ disk' = disk
  BY DEF AcquireReuse, Acquiring, Tasks
<1>2. PICK l \in Loads : l = Head(tail[h]).id
  BY <1>0, <1>1, QueueHead
<1>3. PICK r \in Loads : r = refs[h]
  BY <1>0, <1>1, LifeType
<1>4. PICK t : t = Taking(Now, r, h)
  OBVIOUS
<1>5. load' = Held(load, l, r) /\ Becomes(t)
  BY <1>2, <1>3, <1>4 DEF AcquireReuse, Take, Taking, Held
<1>6. Moves(l, "meta")
  BY <1>0, <1>5, HeldMoves
<1>7. KeysStay /\ \A k \in Loads : k # l => load'[k] = load[k]
  BY <1>6 DEF Moves, KeysStay
<1>8. Now.tail[h] # <<>> /\ Now.tail[h] = tail[h]
  BY <1>0, <1>1 DEF Front
<1>9. LifeInv(t) /\ Taken(Now, t, h, r)
  <2>1. Now.ref[r].st \notin {"none", "reaped"}
    BY <1>0, <1>1, <1>3 DEF LifeInv, Registration
  <2> QED  BY <2>1, <1>0, <1>4, <1>8, TakeInv
<1>10. t \in Life
  BY <1>9 DEF LifeInv
<1>11. /\ t.refs = Now.refs /\ t.tail[h] = Tail(Now.tail[h])
       /\ \A k \in Infohashes : k # h => t.tail[k] = Now.tail[k]
       /\ \A q \in Loads : /\ t.ref[q].readers = IF q = r THEN Now.ref[r].readers + 1
                                                          ELSE Now.ref[q].readers
                           /\ t.ref[q].st = Now.ref[q].st
                           /\ t.ref[q].retainedBy = Now.ref[q].retainedBy
                           /\ t.ref[q].ih = Now.ref[q].ih
                           /\ t.ref[q].owned = Now.ref[q].owned
  BY <1>9 DEF Taken
<1>12. \A q \in Loads : Now.ref[q].readers \in Nat
  BY <1>0, LifeType
<1>13. Queues(t, load')
  <2>1. \A k \in Infohashes : k # h => t.refs[k] = Now.refs[k]
    BY <1>11
  <2>2. \A k \in Loads :
            load[k].pc \in Acquires
              /\ ~(Head(Now.tail[h]).op = "acquire" /\ k = Head(Now.tail[h]).id)
                => load'[k].pc = load[k].pc /\ load'[k].ih = load[k].ih
    BY <1>1, <1>2, <1>7, <1>8
  <2>3. t.tail[h] = Tail(Now.tail[h]) /\ \A k \in Infohashes : k # h => t.tail[k] = Now.tail[k]
    BY <1>11
  <2>4. Queues(Now, load) /\ Now \in Life /\ t \in Life /\ Now.tail[h] # <<>>
    BY <1>0, <1>8, <1>10
  <2> QED  BY <2>1, <2>2, <2>3, <2>4, QueuesPop
<1>14. Keeps(t, OnDisk)
  <2>1. Same(Now, t) /\ t.refs = Now.refs
    BY <1>11 DEF Same
  <2>2. \A q \in Loads : InUse(Now.ref[q]) => InUse(t.ref[q])
    BY <1>11, <1>12 DEF InUse
  <2>3. t.tail[h] = Tail(Now.tail[h]) /\ \A k \in Infohashes : k # h => t.tail[k] = Now.tail[k]
    BY <1>11
  <2>4. Head(Now.tail[h]).op = "acquire"
    BY <1>1, <1>8
  <2>5. Keeps(Now, OnDisk) /\ Now \in Life /\ t \in Life /\ Now.tail[h] # <<>>
        /\ OnDisk \in SUBSET Loads
    BY <1>0, <1>8, <1>10
  <2> QED  BY <2>1, <2>2, <2>3, <2>4, <2>5, KeepsPop
<1>15. Few(t)
  <2>1. Parked(t) \subseteq Parked(Now)
    BY <1>11, <1>12 DEF Parked
  <2> QED  BY <2>1, <1>0, FewShrinks
<1> QED  BY <1>1, <1>5, <1>7, <1>10, <1>13, <1>14, <1>15, KStep

\* The load at the head of the queue goes on to ask the client.
LEMMA LookupKept ==
    ASSUME KInv, IInv', NEW h \in Infohashes, AcquireLookup(h)
    PROVE  KInv'
<1>0. /\ IInv /\ LifeInv(Now) /\ Now \in Life /\ Queues(Now, load) /\ Keeps(Now, OnDisk)
      /\ Few(Now) /\ Dirs /\ OnDisk \in SUBSET Loads
      /\ Now.ref = ref /\ Now.refs = refs /\ Now.current = current /\ Now.tail = tail
  BY KNow
<1>1. /\ Front(h) /\ Head(tail[h]).op = "acquire" /\ disk' = disk
      /\ refs[h] # NoRef => Stale(h)
      /\ Becomes(IF Stale(h) THEN Detach(Now, refs[h]) ELSE Now)
  BY DEF AcquireLookup, Acquiring, Tasks
<1>2. PICK l \in Loads : l = Head(tail[h]).id
  BY <1>0, <1>1, QueueHead
<1>3. load' = Pc(load, l, "get")
  BY <1>2 DEF AcquireLookup, Pc
<1>4. Moves(l, "get")
  BY <1>0, <1>3, PcMoves, PcNames
<1>5. /\ KeysStay /\ \A k \in Loads : k # l => load'[k] = load[k]
      /\ load'[l].pc \in Acquires /\ load'[l].ih = load[l].ih
  BY <1>4 DEF Moves, KeysStay, Acquires
<1>6. ASSUME NEW t \in Life, t.refs[h] = NoRef, Queues(t, load), FrameTail(Now, t)
      PROVE  Queues(t, load')
  <2>1. t.tail[h] # <<>> /\ Head(t.tail[h]) = Head(tail[h])
    <3>1. PICK p \in Seq(Op), q \in Seq(Op) : p = Now.tail[h] /\ q = t.tail[h]
      BY <1>0, <1>6, LifeType
    <3>2. p # <<>> /\ Len(p) \in Nat /\ Len(p) # 0 /\ Len(q) \in Nat
      BY <3>1, <1>0, <1>1 DEF Front
    <3>3. Len(q) >= Len(p) /\ \A i \in 1..Len(p) : q[i] = p[i]
      BY <3>1, <1>6 DEF FrameTail
    <3>4. q # <<>> /\ q[1] = p[1]
      BY <3>2, <3>3
    <3> QED  BY <3>1, <3>2, <3>4, <1>0
  <2>2. l = Head(t.tail[h]).id /\ Head(t.tail[h]).op = "acquire"
    BY <2>1, <1>1, <1>2
  <2> QED  BY <2>1, <2>2, <1>5, <1>6, QueuesBegin
<1>7. CASE Stale(h)
  <2>1. refs[h] # NoRef /\ ref[refs[h]].st # "live"
    BY <1>7 DEF Stale, Destroyed
  <2>2. LET t == Detach(Now, Now.refs[h]) IN
        /\ LifeInv(t) /\ FrameRef(Now, t) /\ FrameTail(Now, t) /\ Ends(Now, t)
        /\ t.refs[h] = NoRef
        /\ \A k \in Infohashes : t.refs[k] # Now.refs[k] =>
              t.refs[k] = NoRef /\ (k = h \/ ~Now.ref[Now.refs[k]].owned)
        /\ \A q \in Loads : t.ref[q].retainedBy \subseteq Now.ref[q].retainedBy
    BY <1>0, <2>1, DetachInv
  <2>t. PICK t : t = Detach(Now, Now.refs[h])
    OBVIOUS
  <2>3. /\ LifeInv(t) /\ FrameRef(Now, t) /\ FrameTail(Now, t) /\ Ends(Now, t)
        /\ t.refs[h] = NoRef
        /\ \A k \in Infohashes : t.refs[k] # Now.refs[k] =>
              t.refs[k] = NoRef /\ (k = h \/ ~Now.ref[Now.refs[k]].owned)
        /\ \A q \in Loads : t.ref[q].retainedBy \subseteq Now.ref[q].retainedBy
    BY <2>2, <2>t
  <2>4. t \in Life /\ Becomes(t)
    BY <2>3, <2>t, <1>0, <1>1, <1>7 DEF LifeInv
  <2>5. Same(Now, t)
    BY <2>3 DEF FrameRef, Same
  <2>6. Queues(t, load)
    <3>1. LoadsStay(load, load)
      BY DEF LoadsStay
    <3>2. \A k \in Infohashes : Now.refs[k] = NoRef => t.refs[k] = NoRef
      BY <2>3
    <3> QED  BY <3>1, <3>2, <2>3, <2>4, <1>0, QueuesFrame
  <2>7. Queues(t, load')
    BY <1>6, <2>3, <2>4, <2>6
  <2>8. Keeps(t, OnDisk)
    <3>1. Now.ref[Now.refs[h]].st # "live"
      BY <2>1, <1>0
    <3> QED  BY <3>1, <2>3, <2>4, <2>5, <1>0, KeepsDetach
  <2>9. Few(t)
    <3>1. Parked(t) \subseteq Parked(Now)
      BY <2>3 DEF Parked, FrameRef
    <3> QED  BY <3>1, <1>0, FewShrinks
  <2> QED  BY <2>4, <2>7, <2>8, <2>9, <1>1, <1>5, KStep
<1>8. CASE ~Stale(h)
  <2>1. Now.refs[h] = NoRef /\ Becomes(Now)
    BY <1>0, <1>1, <1>8
  <2>2. Queues(Now, load')
    BY <2>1, <1>0, <1>6, FrameSelf
  <2> QED  BY <2>1, <2>2, <1>0, <1>1, <1>5, KStep
<1> QED  BY <1>7, <1>8

LEMMA MissKept ==
    ASSUME KInv, IInv', NEW h \in Infohashes, AcquireMiss(h)
    PROVE  KInv'
<1>0. /\ IInv /\ LifeInv(Now) /\ Now \in Life /\ Queues(Now, load) /\ Keeps(Now, OnDisk)
      /\ Few(Now) /\ Dirs /\ OnDisk \in SUBSET Loads
      /\ Now.ref = ref /\ Now.refs = refs /\ Now.current = current /\ Now.tail = tail
  BY KNow
<1>1. /\ Tasks(h, "acquire") /\ Front(h) /\ Head(tail[h]).op = "acquire" /\ disk' = disk
      /\ load[Head(tail[h]).id].pc = "get" /\ UNCHANGED life
  BY DEF AcquireMiss, Acquiring, Tasks
<1>2. PICK l \in Loads : l = Head(tail[h]).id
  BY <1>0, <1>1, QueueHead
<1>3. load' = Pc(load, l, "mkdir")
  BY <1>2 DEF AcquireMiss, Pc
<1>4. Moves(l, "mkdir")
  BY <1>0, <1>3, PcMoves, PcNames
<1>5. /\ KeysStay /\ \A k \in Loads : k # l => load'[k] = load[k]
      /\ load'[l].pc \in Acquires /\ load'[l].ih = load[l].ih
  BY <1>4 DEF Moves, KeysStay, Acquires
<1>6. refs[h] = NoRef
  BY <1>1, BegunHead
<1>7. Queues(Now, load')
  <2>1. /\ Now.refs[h] = NoRef /\ Now.tail[h] # <<>>
        /\ l = Head(Now.tail[h]).id /\ Head(Now.tail[h]).op = "acquire"
    BY <1>0, <1>1, <1>2, <1>6 DEF Front
  <2> QED  BY <2>1, <1>0, <1>5, QueuesBegin
<1>8. Becomes(Now)
  BY <1>0, <1>1 DEF Becomes, life
<1> QED  BY <1>0, <1>1, <1>5, <1>7, <1>8, KStep


\* A ref is created for an infohash without one; a torrent of ours gets a directory.
LEMMA CreateKept ==
    ASSUME KInv, IInv', NEW h \in Infohashes, Front(h), Tasks(h, "acquire"),
           NEW owned \in BOOLEAN, NEW st \in {"live", "failed"},
           load[Head(tail[h]).id].pc \in {"get", "mkdir"},
           Create(Head(tail[h]).id, h, owned, st),
           disk' = IF owned THEN disk \cup {DirOf(Head(tail[h]).id)} ELSE disk
    PROVE  KInv'
<1>0. /\ IInv /\ LifeInv(Now) /\ Now \in Life /\ Queues(Now, load) /\ Keeps(Now, OnDisk)
      /\ Few(Now) /\ Dirs /\ OnDisk \in SUBSET Loads
      /\ Now.ref = ref /\ Now.refs = refs /\ Now.current = current /\ Now.tail = tail
  BY KNow
<1>1. Head(tail[h]).op = "acquire"
  BY DEF Tasks
<1>2. PICK l \in Loads : l = Head(tail[h]).id
  BY <1>0, QueueHead
<1>3. refs[h] = NoRef
  BY BegunHead
<1>s. PICK s : s = Born(Now, l, h, owned, st)
  OBVIOUS
<1>t. PICK t : t = Taking(s, l, h)
  OBVIOUS
<1>4. load' = Held(load, l, l) /\ Becomes(t)
  BY <1>2, <1>s, <1>t DEF Create, Take, Taking, Held, Born
<1>5. KeysStay /\ \A k \in Loads : k # l => load'[k] = load[k]
  <2>1. Moves(l, "meta")
    BY <1>0, <1>4, HeldMoves
  <2> QED  BY <2>1 DEF Moves, KeysStay
<1>6. ref[l].st = "none"
  BY <1>0, <1>2 DEF IInv, Unborn, Early
<1>7. Now.tail[h] # <<>> /\ Now.tail[h] = tail[h]
  BY <1>0 DEF Front
<1>8. LifeInv(s) /\ Added(Now, s, h, l, owned, st)
  BY <1>0, <1>6, <1>s, BornInv
<1>9. LifeInv(t) /\ Taken(s, t, h, l)
  <2>1. s.tail[h] # <<>> /\ s.ref[l].st \notin {"none", "reaped"}
    BY <1>7, <1>8 DEF Added
  <2> QED  BY <2>1, <1>8, <1>t, TakeInv
<1>10. s \in Life /\ t \in Life
  BY <1>8, <1>9 DEF LifeInv
<1>11. /\ \A q \in Loads : q # l =>
            /\ t.ref[q].readers = Now.ref[q].readers /\ t.ref[q].retainedBy = Now.ref[q].retainedBy
            /\ t.ref[q].st = Now.ref[q].st /\ t.ref[q].ih = Now.ref[q].ih
            /\ t.ref[q].owned = Now.ref[q].owned
       /\ t.ref[l].readers = 1
       /\ \A k \in Infohashes : t.refs[k] = IF k = h THEN l ELSE Now.refs[k]
       /\ t.tail[h] = Tail(Now.tail[h])
       /\ \A k \in Infohashes : k # h => t.tail[k] = Now.tail[k]
  BY <1>8, <1>9 DEF Added, Taken
<1>12. Queues(t, load')
  <2>1. \A k \in Infohashes : k # h => t.refs[k] = Now.refs[k]
    BY <1>11
  <2>2. \A k \in Loads :
            load[k].pc \in Acquires
              /\ ~(Head(Now.tail[h]).op = "acquire" /\ k = Head(Now.tail[h]).id)
                => load'[k].pc = load[k].pc /\ load'[k].ih = load[k].ih
    BY <1>1, <1>2, <1>5, <1>7
  <2>3. t.tail[h] = Tail(Now.tail[h]) /\ \A k \in Infohashes : k # h => t.tail[k] = Now.tail[k]
    BY <1>11
  <2>4. Queues(Now, load) /\ Now \in Life /\ t \in Life /\ Now.tail[h] # <<>>
    BY <1>0, <1>7, <1>10
  <2> QED  BY <2>1, <2>2, <2>3, <2>4, QueuesPop
<1>E. PICK E \in SUBSET Loads : E = IF owned THEN OnDisk \cup {l} ELSE OnDisk
  BY <1>0
<1>13. Keeps(t, E)
  <2>1. Now.refs[h] = NoRef /\ Now.ref[l].st = "none" /\ Head(Now.tail[h]).op = "acquire"
    BY <1>0, <1>1, <1>3, <1>6
  <2>2. /\ Keeps(Now, OnDisk) /\ Now \in Life /\ s \in Life /\ t \in Life /\ Now.tail[h] # <<>>
        /\ OnDisk \in SUBSET Loads
    BY <1>0, <1>7, <1>10
  <2> QED  BY <2>1, <2>2, <1>8, <1>9, <1>E, KeepsBorn
<1>14. Few(t)
  <2>1. Parked(t) \subseteq Parked(Now)
    BY <1>11 DEF Parked
  <2> QED  BY <2>1, <1>0, FewShrinks
<1>15. Dirs' /\ OnDisk' = E
  <2>1. CASE owned
    BY <2>1, <1>0, <1>2, <1>5, <1>E, DirsGrow
  <2>2. CASE ~owned
    BY <2>2, <1>0, <1>5, <1>E, DirsStay
  <2> QED  BY <2>1, <2>2
<1>16. Now' = t
  BY <1>4, <1>10, NowBecomes
<1>17. Kept(Now', load', OnDisk') /\ Few(Now')
  BY <1>12, <1>13, <1>14, <1>15, <1>16 DEF Kept
<1> QED  BY <1>15, <1>17 DEF KInv

LEMMA BorrowKept ==
    ASSUME KInv, IInv', NEW h \in Infohashes, AcquireBorrow(h)
    PROVE  KInv'
<1>1. /\ Front(h) /\ Tasks(h, "acquire") /\ load[Head(tail[h]).id].pc \in {"get", "mkdir"}
      /\ Create(Head(tail[h]).id, h, FALSE, "live") /\ disk' = disk
  BY DEF AcquireBorrow, Acquiring, Tasks
<1> QED  BY <1>1, CreateKept

LEMMA AddKept ==
    ASSUME KInv, IInv', NEW h \in Infohashes, AcquireAdd(h)
    PROVE  KInv'
<1>1. PICK st \in {"live", "failed"} : st = IF ext[h] THEN "failed" ELSE "live"
  OBVIOUS
<1>2. /\ Front(h) /\ Tasks(h, "acquire") /\ load[Head(tail[h]).id].pc \in {"get", "mkdir"}
      /\ Create(Head(tail[h]).id, h, TRUE, st)
      /\ disk' = disk \cup {DirOf(Head(tail[h]).id)}
  BY <1>1 DEF AcquireAdd, Acquiring, Tasks
<1> QED  BY <1>2, CreateKept

LEMMA DestroyKept ==
    ASSUME KInv, IInv', NEW h \in Infohashes, Destroy(h)
    PROVE  KInv'
<1>0. /\ IInv /\ LifeInv(Now) /\ Now \in Life /\ Queues(Now, load) /\ Keeps(Now, OnDisk)
      /\ Few(Now) /\ Dirs /\ OnDisk \in SUBSET Loads
      /\ Now.ref = ref /\ Now.refs = refs /\ Now.current = current /\ Now.tail = tail
  BY KNow
<1>1. /\ Front(h) /\ Head(tail[h]).op = "destroy" /\ disk' = disk
      /\ load' = load
  BY DEF Destroy, Tasks, calls
<1>2. PICK r \in Loads : r = Head(tail[h]).id
  BY <1>0, <1>1, QueueHead
<1>3. Becomes(IF InUse(ref[r]) THEN Pop(Now, h) ELSE Reap(Now, h, r))
  BY <1>2 DEF Destroy, Reap
<1>4. KeysStay
  BY <1>1 DEF KeysStay
<1>5. CASE InUse(ref[r])
  BY <1>1, <1>2, <1>3, <1>4, <1>5, PopKept
<1>6. CASE ~InUse(ref[r])
  <2>t. PICK t : t = Reap(Now, h, r)
    OBVIOUS
  <2>1. /\ Now.tail[h] # <<>> /\ r = Head(Now.tail[h]).id /\ Head(Now.tail[h]).op # "acquire"
        /\ ~InUse(Now.ref[r])
    BY <1>0, <1>1, <1>2, <1>6 DEF Front
  <2>2. LifeInv(t) /\ Reaped(Now, t, h, r)
    BY <2>t, <2>1, <1>0, ReapInv
  <2>3. t \in Life /\ Becomes(t)
    BY <2>2, <2>t, <1>3, <1>6 DEF LifeInv
  <2>4. Queues(t, load')
    <3>1. PICK o \in Op : o = [op |-> "rm", id |-> r]
      BY DEF Op
    <3>2. /\ o.op # "acquire" /\ t.tail[h] = <<o>> \o Tail(Now.tail[h])
          /\ \A k \in Infohashes : k # h => t.tail[k] = Now.tail[k]
          /\ \A k \in Infohashes : Now.refs[k] = NoRef => t.refs[k] = NoRef
      BY <2>2, <3>1 DEF Reaped
    <3>3. Queues(t, load)
      BY <3>2, <2>1, <2>3, <1>0, QueuesReap
    <3> QED  BY <3>3, <1>1
  <2>5. Keeps(t, OnDisk)
    <3>1. Now.ref[r].ih = h
      <4>1. PICK p \in Seq(Op) : p = Now.tail[h] /\ p # <<>>
        BY <1>0, <2>1, LifeType
      <4>2. 1 \in 1..Len(p) /\ Head(p) = p[1]
        BY <4>1
      <4>3. Destructions(Now)
        BY <1>0 DEF LifeInv
      <4>4. Now.tail[h][1].op # "acquire" /\ Now.tail[h][1].id = r /\ 1 \in 1..Len(Now.tail[h])
        BY <2>1, <4>1, <4>2
      <4> QED  BY <4>3, <4>4 DEF Destructions
    <3> QED  BY <3>1, <2>1, <2>2, <2>3, <1>0, KeepsReap
  <2>6. Few(t)
    <3>1. Parked(t) \subseteq Parked(Now)
      BY <2>2 DEF Parked, Reaped
    <3> QED  BY <3>1, <1>0, FewShrinks
  <2> QED  BY <2>3, <2>4, <2>5, <2>6, <1>1, <1>4, KStep
<1> QED  BY <1>5, <1>6

\* The directory that goes is that of a torrent that was reaped.
LEMMA RemoveKept ==
    ASSUME KInv, IInv', NEW h \in Infohashes, Remove(h)
    PROVE  KInv'
<1>0. /\ IInv /\ LifeInv(Now) /\ Now \in Life /\ Queues(Now, load) /\ Keeps(Now, OnDisk)
      /\ Few(Now) /\ Dirs /\ OnDisk \in SUBSET Loads
      /\ Now.ref = ref /\ Now.refs = refs /\ Now.current = current /\ Now.tail = tail
  BY KNow
<1>1. /\ Front(h) /\ Head(tail[h]).op = "rm" /\ load' = load /\ Becomes(Pop(Now, h))
      /\ disk' = disk \ {DirOf(Head(tail[h]).id)}
  BY DEF Remove, Tasks, calls
<1>2. PICK r \in Loads : r = Head(tail[h]).id
  BY <1>0, <1>1, QueueHead
<1>t. PICK t : t = Pop(Now, h)
  OBVIOUS
<1>3. Now.tail[h] # <<>> /\ Now.tail[h] = tail[h]
  BY <1>0, <1>1 DEF Front
<1>4. LET u == Pop(Now, h) IN
      /\ LifeInv(u) /\ u.ref = Now.ref /\ u.refs = Now.refs
      /\ u.tail[h] = Tail(Now.tail[h])
      /\ \A k \in Infohashes : k # h => u.tail[k] = Now.tail[k]
  BY <1>0, <1>3, PopInv
<1>5. /\ LifeInv(t) /\ t.ref = Now.ref /\ t.refs = Now.refs /\ t.tail[h] = Tail(Now.tail[h])
      /\ \A k \in Infohashes : k # h => t.tail[k] = Now.tail[k]
  BY <1>4, <1>t
<1>6. t \in Life /\ Becomes(t)
  BY <1>1, <1>5, <1>t DEF LifeInv
<1>7. ref[r].st = "reaped"
  <2>1. PICK p \in Seq(Op) : p = Now.tail[h] /\ p # <<>>
    BY <1>0, <1>3, LifeType
  <2>2. 1 \in 1..Len(p) /\ Head(p) = p[1]
    BY <2>1
  <2>3. Destructions(Now)
    BY <1>0 DEF LifeInv
  <2>4. /\ Now.tail[h][1].op = "rm" /\ Now.tail[h][1].id = r
        /\ 1 \in 1..Len(Now.tail[h])
    BY <1>1, <1>2, <1>3, <2>1, <2>2
  <2> QED  BY <2>3, <2>4, <1>0 DEF Destructions
<1>8. Queues(t, load')
  <2>1. \A k \in Infohashes : k # h => t.refs[k] = Now.refs[k]
    BY <1>5
  <2>2. \A k \in Loads :
            load[k].pc \in Acquires
              /\ ~(Head(Now.tail[h]).op = "acquire" /\ k = Head(Now.tail[h]).id)
                => load'[k].pc = load[k].pc /\ load'[k].ih = load[k].ih
    BY <1>1
  <2>3. t.tail[h] = Tail(Now.tail[h]) /\ \A k \in Infohashes : k # h => t.tail[k] = Now.tail[k]
    BY <1>5
  <2>4. Queues(Now, load) /\ Now \in Life /\ t \in Life /\ Now.tail[h] # <<>>
    BY <1>0, <1>3, <1>6
  <2> QED  BY <2>1, <2>2, <2>3, <2>4, QueuesPop
<1>E. PICK E \in SUBSET OnDisk : E = OnDisk \ {r}
  OBVIOUS
<1>9. Keeps(t, E)
  <2>1. Same(Now, t) /\ t.refs = Now.refs
    BY <1>5 DEF Same
  <2>2. \A q \in Loads : InUse(Now.ref[q]) => InUse(t.ref[q])
    BY <1>5
  <2>3. t.tail[h] = Tail(Now.tail[h]) /\ \A k \in Infohashes : k # h => t.tail[k] = Now.tail[k]
    BY <1>5
  <2>4. \A q \in OnDisk : q \notin E => Now.ref[q].st # "live"
    BY <1>0, <1>7, <1>E
  <2>5. \A q \in E : Head(Now.tail[h]).op # "acquire" /\ Head(Now.tail[h]).id = q
                        => InUse(Now.ref[q])
    BY <1>2, <1>3, <1>E
  <2>6. Keeps(Now, OnDisk) /\ Now \in Life /\ t \in Life /\ Now.tail[h] # <<>>
        /\ OnDisk \in SUBSET Loads
    BY <1>0, <1>3, <1>6
  <2> QED  BY <2>1, <2>2, <2>3, <2>4, <2>5, <2>6, KeepsPop
<1>10. Few(t)
  BY <1>0, <1>5 DEF Few, Parked
<1>11. Dirs' /\ OnDisk' = E
  <2>1. KeysStay
    BY <1>1 DEF KeysStay
  <2> QED  BY <2>1, <1>0, <1>1, <1>2, <1>E, DirsShrink
<1>12. Now' = t
  BY <1>6, NowBecomes
<1>13. Kept(Now', load', OnDisk') /\ Few(Now')
  BY <1>8, <1>9, <1>10, <1>11, <1>12 DEF Kept
<1> QED  BY <1>11, <1>13 DEF KInv


LEMMA ReadKept ==
    ASSUME KInv, IInv', NEW l \in Loads, Read(l)
    PROVE  KInv'
<1>0. /\ IInv /\ LifeInv(Now) /\ Now \in Life /\ Queues(Now, load) /\ Keeps(Now, OnDisk)
      /\ Few(Now) /\ Dirs /\ OnDisk \in SUBSET Loads
      /\ Now.ref = ref /\ Now.refs = refs /\ Now.current = current /\ Now.tail = tail
  BY KNow
<1>1. /\ load[l].pc = "read" /\ load[l].pc \in Holding /\ load' = Pc(load, l, "adopt")
      /\ disk' = disk
  BY PcNames DEF Read, Pc
<1>2. KeysStay /\ LoadsStay(load, load')
  <2>1. Moves(l, "adopt")
    BY <1>0, <1>1, PcMoves, PcNames
  <2>2. load[l].pc \notin Acquires
    BY <1>1 DEF Acquires
  <2> QED  BY <2>1, <2>2, MovesKeys
<1>3. CASE current[load[l].pk] = load[l].ref
  <2>1. UNCHANGED life
    BY <1>3 DEF Read
  <2>2. Now' = Now
    BY <2>1 DEF Now, life
  <2> QED  BY <2>2, <1>1, <1>2, KSame
<1>4. CASE current[load[l].pk] # load[l].ref
  <2>1. PICK r \in Loads, pk \in Pubs : r = load[l].ref /\ pk = load[l].pk /\ ref[r].readers > 0
    BY <1>0, <1>1, HeldHasReaders, LoadType DEF IInv
  <2>2. PICK s : s = Retain(Now, pk, r)
    OBVIOUS
  <2>3. CapTorrents(s)
    BY <1>4, <2>1, <2>2 DEF Read
  <2>4. Now.ref[r].readers > 0 /\ Now.current[pk] # r
    BY <1>0, <1>4, <2>1
  <2>5. LET t == Retain(Now, pk, r) IN t \in Life /\ Frame(Now, t) /\ LifeInv(t) /\ Ends(Now, t)
    BY <1>0, <2>4, RetainInv
  <2>6. s \in Life /\ LifeInv(s) /\ Frame(Now, s) /\ Ends(Now, s)
    BY <2>2, <2>5
  <2>7. Same(Now, s) /\ FrameRefs(Now, s) /\ FrameTail(Now, s)
    BY <2>6 DEF Frame, FrameRef, Same
  <2>8. Kept(Now, load', OnDisk)
    BY <1>0, <1>2, KeptLoads DEF Kept
  <2>9. Kept(s, load', OnDisk)
    BY <2>6, <2>7, <2>8, <1>0, KeptFrame
  <2>10. Kept(Now', load', OnDisk) /\ Few(Now')
    BY <2>3, <2>6, <2>9, <1>0, KeptCap
  <2>11. Dirs' /\ OnDisk' = OnDisk
    BY <1>0, <1>1, <1>2, DirsStay
  <2>12. Kept(Now', load', OnDisk') /\ Few(Now')
    BY <2>10, <2>11
  <2> QED  BY <2>11, <2>12 DEF KInv
<1> QED  BY <1>3, <1>4

LEMMA EndKept ==
    ASSUME KInv, IInv', NEW l \in Loads, load[l].pc \in Holding, Settle(l),
           NEW s, LifeInv(s), Kept(s, load, OnDisk),
           \A q \in Loads : s.ref[q].readers = ref[q].readers,
           CapTorrents(Release(s, load[l].ref)), disk' = disk
    PROVE  KInv'
<1>0. IInv /\ Dirs /\ OnDisk \in SUBSET Loads /\ s \in Life
  BY KNow DEF LifeInv
<1>1. PICK r \in Loads : r = load[l].ref /\ ref[r].readers > 0
  BY <1>0, HeldHasReaders
<1>2. KeysStay /\ LoadsStay(load, load')
  <2>1. Moves(l, "done")
    BY <1>0, SettleFields, PcMoves, PcNames
  <2>2. load[l].pc \notin Acquires
    BY DEF Acquires, Holding, Waiting
  <2> QED  BY <2>1, <2>2, MovesKeys
<1>3. PICK t : t = Release(s, r)
  OBVIOUS
<1>4. s.ref[r].readers > 0
  BY <1>1
<1>5. LET u == Release(s, r) IN
      /\ LifeInv(u) /\ FrameRefs(s, u) /\ FrameTail(s, u) /\ Ends(s, u)
      /\ \A q \in Loads :
           /\ u.ref[q].readers = IF q = r THEN s.ref[r].readers - 1
                                          ELSE s.ref[q].readers
           /\ u.ref[q].st = s.ref[q].st
           /\ u.ref[q].ih = s.ref[q].ih
           /\ u.ref[q].owned = s.ref[q].owned
  BY <1>4, ReleaseInv
<1>6. LifeInv(t) /\ t \in Life /\ FrameRefs(s, t) /\ FrameTail(s, t) /\ Ends(s, t) /\ Same(s, t)
  BY <1>3, <1>5 DEF Same, LifeInv
<1>7. Kept(s, load', OnDisk)
  BY <1>0, <1>2, KeptLoads
<1>8. Kept(t, load', OnDisk)
  BY <1>0, <1>6, <1>7, KeptFrame
<1>9. CapTorrents(t)
  BY <1>1, <1>3
<1>10. Kept(Now', load', OnDisk) /\ Few(Now')
  BY <1>0, <1>6, <1>8, <1>9, KeptCap
<1>11. Dirs' /\ OnDisk' = OnDisk
  BY <1>0, <1>2, DirsStay
<1>12. Kept(Now', load', OnDisk') /\ Few(Now')
  BY <1>10, <1>11
<1> QED  BY <1>11, <1>12 DEF KInv

LEMMA FailKept ==
    ASSUME KInv, IInv', NEW l \in Loads, Fail(l)
    PROVE  KInv'
<1>1. /\ load[l].pc \in Holding /\ Settle(l) /\ CapTorrents(Release(Now, load[l].ref))
      /\ disk' = disk
  BY PcNames DEF Fail
<1>2. LifeInv(Now) /\ Now.ref = ref /\ Kept(Now, load, OnDisk)
  BY KNow DEF KInv
<1> QED  BY <1>1, <1>2, EndKept

LEMMA FinishKept ==
    ASSUME KInv, IInv', NEW l \in Loads, Finish(l)
    PROVE  KInv'
<1>0. /\ IInv /\ LifeInv(Now) /\ Now \in Life /\ Kept(Now, load, OnDisk)
      /\ OnDisk \in SUBSET Loads /\ Now.ref = ref
  BY KNow DEF KInv
<1>1. PICK full \in BOOLEAN :
        full = (CacheMax > 0 /\ ~Cached(KeyOf(l)) /\ Len(cache) = CacheMax)
  OBVIOUS
<1>2. PICK s : s = IF full THEN Retire(Now, Head(cache)) ELSE Now
  OBVIOUS
<1>3. /\ load[l].pc \in Holding /\ Settle(l) /\ CapTorrents(Release(s, load[l].ref))
      /\ disk' = disk
  BY <1>1, <1>2, PcNames DEF Finish
<1>4. /\ LifeInv(s) /\ Kept(s, load, OnDisk)
      /\ \A q \in Loads : s.ref[q].readers = ref[q].readers
  <2>1. CASE full
    <3>1. cache \in Seq(Keys)
      BY <1>0 DEF IInv, CallsType
    <3>2. CacheMax > 0 /\ Len(cache) = CacheMax
      BY <2>1, <1>1, Zenon
    <3>3. Len(cache) # 0
      BY <3>2, LimitsAssumption
    <3>4. cache # <<>>
      BY <3>3
    <3>5. PICK key \in Keys : key = Head(cache)
      BY <3>1, <3>4
    <3>6. LET t == Retire(Now, key) IN t \in Life /\ Frame(Now, t) /\ LifeInv(t) /\ Ends(Now, t)
      BY <1>0, RetireInv
    <3>7. s = Retire(Now, key)
      BY <2>1, <3>5, <1>2
    <3>8. s \in Life /\ Frame(Now, s) /\ LifeInv(s) /\ Ends(Now, s)
      BY <3>6, <3>7
    <3>9. Same(Now, s) /\ FrameRefs(Now, s) /\ FrameTail(Now, s)
      BY <3>8 DEF Frame, FrameRef, Same
    <3>10. Kept(s, load, OnDisk)
      BY <3>8, <3>9, <1>0, KeptFrame
    <3> QED  BY <3>8, <3>10, <1>0 DEF Frame, FrameRef
  <2>2. CASE ~full
    BY <2>2, <1>0, <1>2
  <2> QED  BY <2>1, <2>2
<1> QED  BY <1>3, <1>4, EndKept

LEMMA WaitKept ==
    ASSUME KInv, IInv', NEW l \in Loads, Metadata(l) \/ Body(l)
    PROVE  KInv'
<1>1. PICK x \in {"body", "read"} : load' = Pc(load, l, x)
  BY DEF Metadata, Body, Pc
<1>2. load[l].pc \notin Acquires /\ UNCHANGED life /\ disk' = disk
  BY DEF Metadata, Body, Acquires
<1>3. KeysStay /\ LoadsStay(load, load')
  <2>1. IInv
    BY DEF KInv
  <2>2. Moves(l, x)
    BY <2>1, <1>1, PcMoves, PcNames
  <2> QED  BY <2>2, <1>2, MovesKeys
<1>4. Now' = Now
  BY <1>2 DEF Now, life
<1> QED  BY <1>2, <1>3, <1>4, KSame

\* Torrents make progress or end by themselves.
LEMMA TorrentKept ==
    ASSUME KInv, IInv', UNCHANGED <<refs, current, tail, load, disk>>,
           \A r \in Loads : /\ ref'[r].readers = ref[r].readers
                            /\ ref'[r].retainedBy = ref[r].retainedBy
                            /\ ref'[r].ih = ref[r].ih
                            /\ ref'[r].owned = ref[r].owned
                            /\ ref'[r].st # ref[r].st => ref'[r].st \in {"failed", "closed"}
    PROVE  KInv'
<1>0. /\ IInv /\ LifeInv(Now) /\ Now \in Life /\ Queues(Now, load) /\ Keeps(Now, OnDisk)
      /\ Few(Now) /\ Dirs /\ OnDisk \in SUBSET Loads
      /\ Now.ref = ref /\ Now.refs = refs /\ Now.current = current /\ Now.tail = tail
  BY KNow
<1>1. PICK t : t = Now'
  OBVIOUS
<1>2. /\ t.ref = ref' /\ t.refs = Now.refs /\ t.tail = Now.tail
  BY <1>0, <1>1 DEF Now
<1>3. t \in Life
  <2>1. LifeNow'
    BY DEF IInv
  <2> QED  BY <2>1, <1>1 DEF LifeNow, LifeInv
<1>4. Keeps(t, OnDisk)
  BY <1>0, <1>2, <1>3, KeepsTorrents
<1>5. Queues(t, load')
  BY <1>0, <1>2 DEF Queues
<1>6. Few(t)
  <2>1. Parked(t) \subseteq Parked(Now)
    BY <1>0, <1>2 DEF Parked
  <2> QED  BY <2>1, <1>0, FewShrinks
<1>7. Dirs' /\ OnDisk' = OnDisk
  BY <1>0, DirsStay DEF KeysStay
<1>8. Kept(Now', load', OnDisk') /\ Few(Now')
  BY <1>1, <1>4, <1>5, <1>6, <1>7 DEF Kept
<1> QED  BY <1>7, <1>8 DEF KInv

LEMMA ProgressKept ==
    ASSUME KInv, IInv', NEW r \in Loads, Progress(r)
    PROVE  KInv'
<1>1. PICK new : new = [ref[r] EXCEPT !.prog = @ + 1]
  OBVIOUS
<1>2. /\ ref' = [ref EXCEPT ![r] = new] /\ UNCHANGED <<refs, current, tail, load, disk>>
  BY <1>1 DEF Progress, calls
<1>3. ref \in [Loads -> Ref] /\ ref[r] \in Ref
  BY RefType DEF KInv
<1>4. /\ new.readers = ref[r].readers /\ new.retainedBy = ref[r].retainedBy
      /\ new.ih = ref[r].ih /\ new.st = ref[r].st /\ new.owned = ref[r].owned
  BY <1>1, <1>3 DEF Ref
<1>5. \A q \in Loads : ref'[q] = IF q = r THEN new ELSE ref[q]
  BY <1>2, <1>3
<1> QED  BY <1>2, <1>4, <1>5, TorrentKept

LEMMA EndsKept ==
    ASSUME KInv, IInv', NEW r \in Loads, TorrentError(r) \/ PublishCatalog(r)
    PROVE  KInv'
<1>1. PICK x \in {"failed", "closed"} : ref' = [ref EXCEPT ![r].st = x]
  BY DEF TorrentError, PublishCatalog
<1>2. UNCHANGED <<refs, current, tail, load, disk>>
  BY DEF TorrentError, PublishCatalog, calls
<1>3. ref \in [Loads -> Ref] /\ ref[r] \in Ref
  BY RefType DEF KInv
<1>4. PICK new : new = [ref[r] EXCEPT !.st = x]
  OBVIOUS
<1>5. /\ new.readers = ref[r].readers /\ new.retainedBy = ref[r].retainedBy
      /\ new.ih = ref[r].ih /\ new.st = x /\ new.owned = ref[r].owned
  BY <1>3, <1>4 DEF Ref
<1>6. ref' = [ref EXCEPT ![r] = new]
  BY <1>1, <1>4
<1>7. \A q \in Loads : ref'[q] = IF q = r THEN new ELSE ref[q]
  BY <1>3, <1>6
<1> QED  BY <1>2, <1>5, <1>7, TorrentKept

LEMMA UnseedKept ==
    ASSUME KInv, IInv', NEW h \in Infohashes, Unseed(h)
    PROVE  KInv'
<1>1. UNCHANGED <<refs, current, tail, load, disk>>
  BY DEF Unseed, calls
<1>2. \A r \in Loads : /\ [ref[r] EXCEPT !.st = "failed"].readers = ref[r].readers
                       /\ [ref[r] EXCEPT !.st = "failed"].retainedBy = ref[r].retainedBy
                       /\ [ref[r] EXCEPT !.st = "failed"].ih = ref[r].ih
                       /\ [ref[r] EXCEPT !.st = "failed"].owned = ref[r].owned
                       /\ [ref[r] EXCEPT !.st = "failed"].st = "failed"
  BY RefType DEF Ref, KInv
<1>3. \A q \in Loads : \/ ref'[q] = ref[q]
                       \/ ref'[q] = [ref[q] EXCEPT !.st = "failed"]
  BY DEF Unseed
<1>4. \A r \in Loads : /\ ref'[r].readers = ref[r].readers
                       /\ ref'[r].retainedBy = ref[r].retainedBy
                       /\ ref'[r].ih = ref[r].ih
                       /\ ref'[r].owned = ref[r].owned
                       /\ ref'[r].st # ref[r].st => ref'[r].st \in {"failed", "closed"}
  BY <1>2, <1>3
<1> QED  BY <1>1, <1>4, TorrentKept

\* Nothing of the loads, the lifecycle or the directories changes.
LEMMA StillKept ==
    ASSUME KInv, IInv', UNCHANGED <<life, load, disk>>
    PROVE  KInv'
<1>1. Now' = Now
  BY DEF Now, life
<1>2. KeysStay /\ LoadsStay(load, load')
  BY DEF KeysStay, LoadsStay
<1> QED  BY <1>1, <1>2, KSame

LEMMA KNext ==
    ASSUME KInv, IInv', [Next]_vars
    PROVE  KInv'
<1>1. ASSUME NEW c \in Callers, NEW pk \in Pubs, CatalogHit(c, pk)
      PROVE  KInv'
  BY <1>1, StillKept DEF CatalogHit
<1>2. ASSUME NEW c \in Callers, NEW pk \in Pubs, CatalogJoin(c, pk)
      PROVE  KInv'
  BY <1>2, JoinKept
<1>3. ASSUME NEW c \in Callers, NEW pk \in Pubs, NEW l \in Loads, CatalogStart(c, pk, l)
      PROVE  KInv'
  BY <1>3, StartKept
<1>4. ASSUME NEW c \in Callers, Leave(c)
      PROVE  KInv'
  BY <1>4, LeaveKept
<1>5. ASSUME NEW h \in Infohashes, Acquire(h)
      PROVE  KInv'
  BY <1>5, GiveUpKept, ReuseKept, LookupKept, BorrowKept, MissKept, AddKept DEF Acquire
<1>6. ASSUME NEW h \in Infohashes, Destroy(h)
      PROVE  KInv'
  BY <1>6, DestroyKept
<1>7. ASSUME NEW h \in Infohashes, Remove(h)
      PROVE  KInv'
  BY <1>7, RemoveKept
<1>8. ASSUME NEW l \in Loads, LoadStep(l)
      PROVE  KInv'
  BY <1>8, WaitKept, ReadKept, FinishKept, FailKept DEF LoadStep
<1>9. ASSUME NEW pk \in Pubs, NEW h \in Infohashes, Publish(pk, h)
      PROVE  KInv'
  BY <1>9, StillKept DEF Publish, calls
<1>10. ASSUME NEW r \in Loads, Progress(r) \/ TorrentError(r) \/ PublishCatalog(r)
      PROVE  KInv'
  BY <1>10, ProgressKept, EndsKept
<1>11. ASSUME NEW h \in Infohashes, Reseed(h) \/ Unseed(h)
      PROVE  KInv'
  <2>1. CASE Reseed(h)
    BY <2>1, StillKept DEF Reseed, calls
  <2>2. CASE Unseed(h)
    BY <2>2, UnseedKept
  <2> QED  BY <1>11, <2>1, <2>2
<1>12. ASSUME Rest \/ UNCHANGED vars
       PROVE  KInv'
  BY <1>12, StillKept DEF Rest, vars, calls
<1> QED
  BY <1>1, <1>2, <1>3, <1>4, <1>5, <1>6, <1>7, <1>8, <1>9, <1>10, <1>11, <1>12 DEF Next

LEMMA KInit == Init => KInv
<1> SUFFICES ASSUME Init
             PROVE  KInv
  OBVIOUS
<1>1. IInv
  BY InitInv
<1>2. LifeInv(Now) /\ Now \in Life /\ Now.ref = ref /\ Now.refs = refs /\ Now.tail = tail
  BY <1>1, NowFields DEF IInv
<1>3. \A h \in Infohashes : tail[h] = <<>>
  BY DEF Init
<1>4. Queues(Now, load)
  BY <1>2, <1>3 DEF Queues, Queued
<1>5. \A r \in Loads : ref[r].st = "none" /\ ref[r].retainedBy = {}
  BY DEF Init
<1>6. OnDisk = {} /\ Dirs
  BY DEF Init, OnDisk, Dirs
<1>7. Keeps(Now, OnDisk)
  BY <1>2, <1>5, <1>6 DEF Keeps, Registered, Stored, Accounted
<1>8. Few(Now)
  <2>1. Parked(Now) = {}
    BY <1>2, <1>5 DEF Parked
  <2>2. Cardinality({}) = 0 /\ TorrentsMax \in Nat
    BY FS_EmptySet, LimitsAssumption
  <2> QED  BY <2>1, <2>2 DEF Few
<1> QED  BY <1>1, <1>4, <1>6, <1>7, <1>8 DEF KInv, Kept

\* What is kept is an invariant on top of the first one.
THEOREM KInductive == Spec => []KInv
<1>1. Init => KInv
  BY KInit
<1>2. KInv /\ [Next]_vars => KInv'
  <2>1. KInv => IInv
    BY DEF KInv
  <2> QED  BY <2>1, NextInv, KNext
<1> QED  BY <1>1, <1>2, PTL DEF Spec

LEMMA KInvLive == KInv => LiveIsKept
BY KNow DEF Keeps, Registered, Stored, OnDisk, LiveIsKept, OwnedRegistered, LiveHasDir

LEMMA KInvLeaks == KInv => NothingLeaks
<1> SUFFICES ASSUME KInv, Idle
             PROVE  /\ Cardinality({r \in Loads : ref[r].owned /\ ref[r].st = "live"}) <= TorrentsMax
                    /\ \A r \in Loads : DirOf(r) \in disk => ref[r].retainedBy # {}
  BY DEF NothingLeaks
<1>1. /\ IInv /\ Now \in Life /\ Keeps(Now, OnDisk) /\ Few(Now)
      /\ Now.ref = ref /\ Now.tail = tail
  BY KNow
<1>2. \A r \in Loads : ref[r].readers = 0
  <2> SUFFICES ASSUME NEW r \in Loads
               PROVE  ref[r].readers = 0
    OBVIOUS
  <2>1. Holders(r) = {}
    BY DEF Holders, Idle, Running, Holding, Waiting
  <2>2. ReaderCount
    BY <1>1 DEF IInv
  <2> QED  BY <2>1, <2>2, FS_EmptySet DEF ReaderCount
<1>3. \A r \in Loads : ~Pending(Now, r)
  <2> SUFFICES ASSUME NEW r \in Loads
               PROVE  ~Pending(Now, r)
    OBVIOUS
  <2>1. PICK h \in Infohashes : h = Now.ref[r].ih
    BY <1>1, LifeType
  <2>2. Now.tail[h] = <<>>
    BY <1>1 DEF Idle, Front
  <2> QED  BY <2>1, <2>2 DEF Pending
<1>4. \A r \in OnDisk : ref[r].retainedBy # {}
  <2> SUFFICES ASSUME NEW r \in OnDisk
               PROVE  ref[r].retainedBy # {}
    OBVIOUS
  <2>1. r \in Loads /\ (InUse(Now.ref[r]) \/ Pending(Now, r))
    BY <1>1 DEF Keeps, Accounted, OnDisk
  <2> QED  BY <2>1, <1>1, <1>2, <1>3 DEF InUse
<1>5. {r \in Loads : ref[r].owned /\ ref[r].st = "live"} = Parked(Now)
  BY <1>1, <1>2, <1>4 DEF Keeps, Stored, Parked
<1>6. \A r \in Loads : DirOf(r) \in disk => ref[r].retainedBy # {}
  BY <1>4 DEF OnDisk
<1> QED  BY <1>1, <1>5, <1>6 DEF Few

\* A torrent of ours that lives is the one the next load of its infohash reuses,
\* and no cleanup of another generation takes its directory away.
THEOREM LiveAreKept == Spec => []LiveIsKept
BY KInductive, KInvLive, PTL

\* When the loads and the queues are at rest only retained torrents live, no more
\* than the limit, and only their directories are left.
THEOREM NothingIsLeaked == Spec => []NothingLeaks
BY KInductive, KInvLeaks, PTL
=============================================================================
