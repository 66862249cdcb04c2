--------------------------- MODULE PageView_proofs ----------------------------
(***************************************************************************)
(* What is on the screen is what the stream has sent, for any dictionaries, *)
(* nodes, updates and any number of messages; and when nothing is on the    *)
(* way between a page and its worker, the stream has the shapes of exactly  *)
(* the nodes that the page counts, and of every node it shows.             *)
(*                                                                         *)
(* The screen.                                                             *)
(* An update is a fold over its chunks, a function that is defined by        *)
(* recursion: that there is such a function, and what it does chunk by       *)
(* chunk, is shown by the least number at which it would fail.  The          *)
(* invariant says how the keys that the receiver holds mirror the words of   *)
(* the stream, and that the screen is that of a page rendered anew from the  *)
(* graph.  A component that was not called keeps what it has, and that is    *)
(* still there, since each chunk makes the names it changes dirty.           *)
(*                                                                         *)
(* The shapes.  The registry counts how often a node is mounted: a fold      *)
(* over the set of the nodes of a relation is followed node by node         *)
(* (SetInduction), and a good page counts no node less often than it has    *)
(* places on the page, and asks for what it counts.  What the stream will    *)
(* have been asked for is what it has, changed by the messages on the way.   *)
(* A connection is at home with its session, or the page has changed it,    *)
(* or the worker has come to the new one.                                   *)
(***************************************************************************)
EXTENDS PageView, FiniteSetTheorems, SequenceTheorems, TLAPS

(* A set of numbers has a least one. *)
LEMMA LeastNatural ==
  ASSUME NEW T, T \subseteq Nat, T # {}
  PROVE  \E m \in T : \A n \in T : m <= n
  <1> DEFINE Down == {0..n : n \in T}
  <1>1. Down # {} /\ Down \subseteq FiniteSubsetsOf(Nat)
    <2>1. ASSUME NEW n \in T PROVE 0..n \in FiniteSubsetsOf(Nat)
      <3>1. n \in Int /\ 0 \in Int /\ 0..n \subseteq Nat
        OBVIOUS
      <3>2. IsFiniteSet(0..n)
        BY <3>1, FS_Interval
      <3>3. QED
        BY <3>1, <3>2 DEF FiniteSubsetsOf
    <2>2. QED
      BY <2>1
  <1>2. IsWellFoundedOn(StrictSubsetOrdering(Nat), FiniteSubsetsOf(Nat))
    BY FS_StrictSubsetOrderingWellFounded
  <1> HIDE DEF Down
  <1>3. PICK D \in Down : \A E \in Down : ~(<<E, D>> \in StrictSubsetOrdering(Nat))
    BY <1>1, <1>2, WFMin
  <1>4. PICK m \in T : D = 0..m
    BY DEF Down
  <1>5. ASSUME NEW n \in T, ~(m <= n) PROVE FALSE
    <2>1. 0..n \in Down
      BY DEF Down
    <2>2. m \in Nat /\ n \in Nat /\ n < m
      BY <1>5
    <2>3. 0..n \in SUBSET Nat /\ 0..m \in SUBSET Nat /\ 0..n \subseteq 0..m
      BY <2>2
    <2>4. m \in 0..m /\ m \notin 0..n
      BY <2>2
    <2>5. 0..n # 0..m
      BY <2>4
    <2> DEFINE e == <<0..n, 0..m>>
    <2>6. e \in (SUBSET Nat) \X (SUBSET Nat) /\ e[1] = 0..n /\ e[2] = 0..m
      BY <2>3
    <2>7. e \in StrictSubsetOrdering(Nat)
      BY <2>3, <2>5, <2>6 DEF StrictSubsetOrdering
    <2>8. QED
      BY <1>3, <1>4, <2>1, <2>7
  <1>6. QED
    BY <1>5

-----------------------------------------------------------------------------
(* Folds. *)

LEMMA MaxOfSome ==
  ASSUME NEW k \in Nat, NEW s, s \subseteq 1..k, s # {}
  PROVE  Max(s) \in s /\ \A y \in s : y <= Max(s)
  <1> DEFINE T == {k - y : y \in s}
  <1>0. \A y \in s : y \in Nat /\ y <= k /\ k - y \in Nat /\ k - y \in T
    <2>1. ASSUME NEW y \in s PROVE y \in 1..k
      OBVIOUS
    <2>2. \A y \in 1..k : y \in Nat /\ y <= k /\ k - y \in Nat
      OBVIOUS
    <2>3. QED
      BY <2>1, <2>2
  <1>1. T # {} /\ T \subseteq Nat
    BY <1>0
  <1>2. PICK m \in T : \A n \in T : m <= n
    BY <1>1, LeastNatural
  <1>3. PICK x \in s : m = k - x
    OBVIOUS
  <1>4. ASSUME NEW y \in s PROVE x >= y
    <2>1. k - x <= k - y
      BY <1>0, <1>2, <1>3
    <2>2. x \in Nat /\ y \in Nat
      BY <1>0
    <2>3. QED
      BY <2>1, <2>2
  <1>5. Max(s) \in s /\ \A y \in s : Max(s) >= y
    BY <1>4 DEF Max
  <1>6. QED
    BY <1>5

LEMMA MaxOfAll ==
  ASSUME NEW k \in Nat, k # 0
  PROVE  Max(1..k) = k /\ (1..k) \ {k} = 1..(k - 1) /\ 1..k # {}
  <1>1. k \in 1..k
    OBVIOUS
  <1>2. Max(1..k) \in 1..k /\ \A y \in 1..k : y <= Max(1..k)
    BY <1>1, MaxOfSome
  <1>3. Max(1..k) = k
    BY <1>1, <1>2
  <1>4. \A y : y \in (1..k) \ {k} <=> y \in 1..(k - 1)
    OBVIOUS
  <1>5. QED
    BY <1>1, <1>3, <1>4

(* A step of one of the two folds of HandleSyncUpdate. *)
ChunkStep(fold, dict, x, c) ==
  IF fold = "sent" THEN Put(x, <<c[1], c[2]>>, c[3])
  ELSE IF c[2] \in AttrWords(c[1]) THEN ApplyAttrs(x, c[1], NumberIn(dict, c[2]), c[3])
  ELSE ApplyRel(x, c[1], NumberIn(dict, c[2]), c[3])

FoldsTo(fold, dict, base, chunks, it, k) ==
  it = [s \in SUBSET (1..k) |->
          IF s = {} THEN base ELSE ChunkStep(fold, dict, it[s \ {Max(s)}], chunks[Max(s)])]

LEMMA FoldExists ==
  ASSUME NEW fold, NEW dict, NEW base, NEW chunks, NEW k \in Nat
  PROVE  \E it : FoldsTo(fold, dict, base, chunks, it, k)
  <1> DEFINE Stuck == {j \in Nat : ~ \E it : FoldsTo(fold, dict, base, chunks, it, j)}
  <1>1. SUFFICES ASSUME Stuck # {} PROVE FALSE
    OBVIOUS
  <1>2. PICK m \in Stuck : \A j \in Stuck : m <= j
    BY <1>1, LeastNatural
  <1>3. m \in Nat /\ ~ \E it : FoldsTo(fold, dict, base, chunks, it, m)
    OBVIOUS
  <1>4. CASE m = 0
    <2> DEFINE h == [s \in SUBSET (1..m) |-> base]
    <2>1. \A s \in SUBSET (1..m) : s = {}
      BY <1>4
    <2>2. h = [s \in SUBSET (1..m) |->
                 IF s = {} THEN base ELSE ChunkStep(fold, dict, h[s \ {Max(s)}], chunks[Max(s)])]
      BY <2>1
    <2>3. QED
      BY <1>3, <2>2 DEF FoldsTo
  <1>5. CASE m # 0
    <2>1. m - 1 \in Nat /\ ~(m <= m - 1)
      BY <1>3, <1>5
    <2>2. m - 1 \notin Stuck
      BY <1>2, <2>1
    <2>3. PICK g : FoldsTo(fold, dict, base, chunks, g, m - 1)
      BY <2>1, <2>2
    <2> HIDE DEF Stuck
    <2> DEFINE value(f, s) == IF s = {} THEN base ELSE ChunkStep(fold, dict, f[s \ {Max(s)}], chunks[Max(s)])
               h == [s \in SUBSET (1..m) |-> value(g, s)]
    <2>4. ASSUME NEW s \in SUBSET (1..m), s # {}
          PROVE  s \ {Max(s)} \in SUBSET (1..(m - 1)) /\ s \ {Max(s)} \in SUBSET (1..m)
      <3>1. Max(s) \in s /\ \A y \in s : y <= Max(s)
        BY <1>3, <2>4, MaxOfSome
      <3>2. ASSUME NEW y \in s \ {Max(s)} PROVE y \in 1..(m - 1)
        <4>1. y \in s /\ y # Max(s) /\ y <= Max(s) /\ y \in 1..m /\ Max(s) \in 1..m
          BY <3>1
        <4>2. \A a, b \in 1..m : a # b /\ a <= b => a \in 1..(m - 1)
          BY <1>3
        <4>3. QED
          BY <4>1, <4>2
      <3>3. QED
        BY <3>2
    <2>5. ASSUME NEW s \in SUBSET (1..(m - 1)) PROVE h[s] = g[s]
      <3>1. s \in SUBSET (1..m)
        BY <1>3
      <3>2. g[s] = value(g, s)
        BY <2>3 DEF FoldsTo
      <3>3. QED
        BY <3>1, <3>2
    <2>6. ASSUME NEW s \in SUBSET (1..m) PROVE h[s] = value(h, s)
      <3>1. CASE s = {}
        BY <3>1
      <3>2. CASE s # {}
        <4>1. h[s \ {Max(s)}] = g[s \ {Max(s)}]
          BY <2>4, <2>5, <3>2
        <4>2. QED
          BY <4>1
      <3>3. QED
        BY <3>1, <3>2
    <2>7. h = [s \in SUBSET (1..m) |-> h[s]]
      OBVIOUS
    <2> HIDE DEF h
    <2>8. h = [s \in SUBSET (1..m) |-> value(h, s)]
      BY <2>6, <2>7
    <2>9. QED
      BY <1>3, <2>8 DEF FoldsTo
  <1>6. QED
    BY <1>4, <1>5

(* The values on the way, from nothing to all of the chunks. *)
Runs(fold, dict, base, chunks, f) ==
  /\ f[0] = base
  /\ \A k \in 1..Len(chunks) : f[k] = ChunkStep(fold, dict, f[k - 1], chunks[k])

LEMMA FoldRuns ==
  ASSUME NEW fold, NEW dict, NEW base, NEW chunks, Len(chunks) \in Nat,
         NEW it, FoldsTo(fold, dict, base, chunks, it, Len(chunks))
  PROVE  Runs(fold, dict, base, chunks, [k \in 0..Len(chunks) |-> it[1..k]])
  <1> DEFINE L == Len(chunks)
             f == [k \in 0..L |-> it[1..k]]
  <1>1. f[0] = base
    <2>1. 1..0 = {} /\ 0 \in 0..L
      OBVIOUS
    <2>2. it[{}] = base
      BY DEF FoldsTo
    <2>3. QED
      BY <2>1, <2>2
  <1>2. ASSUME NEW k \in 1..L PROVE f[k] = ChunkStep(fold, dict, f[k - 1], chunks[k])
    <2>1. k \in Nat /\ k # 0 /\ k \in 0..L /\ k - 1 \in 0..L /\ 1..k \in SUBSET (1..L)
      OBVIOUS
    <2>2. Max(1..k) = k /\ (1..k) \ {k} = 1..(k - 1) /\ 1..k # {}
      BY <2>1, MaxOfAll
    <2>3. it[1..k] = ChunkStep(fold, dict, it[1..(k - 1)], chunks[k])
      BY <2>1, <2>2 DEF FoldsTo
    <2>4. QED
      BY <2>1, <2>3
  <1>3. QED
    BY <1>1, <1>2 DEF Runs

LEMMA ApplyChunksRuns ==
  ASSUME NEW g, NEW dict, NEW S, NEW chunks \in Seq(S)
  PROVE  \E f : /\ Runs("graph", dict, [graph |-> g, dirty |-> {}], chunks, f)
                /\ ApplyChunks(g, dict, chunks) = f[Len(chunks)]
  <1> DEFINE L == Len(chunks)
             base == [graph |-> g, dirty |-> {}]
             it == CHOOSE i : FoldsTo("graph", dict, base, chunks, i, L)
  <1>1. L \in Nat /\ DOMAIN chunks = 1..L
    OBVIOUS
  <1>2. FoldsTo("graph", dict, base, chunks, it, L)
    BY <1>1, FoldExists
  <1>3. ApplyChunks(g, dict, chunks) = it[1..L]
    BY <1>1 DEF ApplyChunks, FoldLeft, MapThenFoldSet, FoldsTo, ChunkStep
  <1> HIDE DEF it
  <1>4. Runs("graph", dict, base, chunks, [k \in 0..L |-> it[1..k]])
    BY <1>1, <1>2, FoldRuns
  <1>5. [k \in 0..L |-> it[1..k]][L] = it[1..L]
    BY <1>1
  <1>6. QED
    BY <1>3, <1>4, <1>5

LEMMA SendChunksRuns ==
  ASSUME NEW sent, NEW dict, NEW S, NEW chunks \in Seq(S)
  PROVE  \E f : /\ Runs("sent", dict, sent, chunks, f)
                /\ SendChunks(sent, chunks) = f[Len(chunks)]
  <1> DEFINE L == Len(chunks)
             it == CHOOSE i : FoldsTo("sent", dict, sent, chunks, i, L)
  <1>1. L \in Nat /\ DOMAIN chunks = 1..L
    OBVIOUS
  <1>2. FoldsTo("sent", dict, sent, chunks, it, L)
    BY <1>1, FoldExists
  <1>3. SendChunks(sent, chunks) = it[1..L]
    BY <1>1 DEF SendChunks, FoldLeft, MapThenFoldSet, FoldsTo, ChunkStep
  <1> HIDE DEF it
  <1>4. Runs("sent", dict, sent, chunks, [k \in 0..L |-> it[1..k]])
    BY <1>1, <1>2, FoldRuns
  <1>5. [k \in 0..L |-> it[1..k]][L] = it[1..L]
    BY <1>1
  <1>6. QED
    BY <1>3, <1>4, <1>5
-----------------------------------------------------------------------------
(* The keys of the receiver, and the words of the stream.                    *)

Numbers(d) == {NumberIn(d, w) : w \in StreamWords}
ReadRels(n) == Reads(n) \ AttrWords(n)
IsGraph(g) == g = [root |-> g.root, dict |-> g.dict, attrs |-> g.attrs, rels |-> g.rels]

(* What is held under the number of a word is what was sent of it. *)
Mirrors(g, sent, d) ==
  /\ IsGraph(g)
  /\ \A k \in DOMAIN g.attrs \cup DOMAIN g.rels : k[2] \in Numbers(d)
  /\ \A n \in ViewNodes : \A w \in AttrWords(n) :
       /\ <<n, NumberIn(d, w)>> \in DOMAIN g.attrs <=> <<n, w>> \in DOMAIN sent
       /\ HeldAt(g.attrs, <<n, NumberIn(d, w)>>) = HeldAt(sent, <<n, w>>)
  /\ \A n \in ViewNodes : \A w \in ReadRels(n) :
       /\ HeldAt(g.rels, <<n, NumberIn(d, w)>>) = HeldAt(sent, <<n, w>>)
       /\ HeldAt(sent, <<n, w>>) \in Seq(ViewNodes)

LEMMA WordsRead ==
  ASSUME NEW n \in ViewNodes
  PROVE  /\ \A w \in Reads(n) : w \in StreamWords /\ <<n, w>> \in Readable
         /\ Reads(n) = AttrWords(n) \cup ReadRels(n)
         /\ OneWords(n) \cup ManyWords(n) \subseteq ReadRels(n)
  <1>1. Reads(n) \subseteq StreamWords
    BY DEF StreamWords
  <1>2. \A w \in Reads(n) : <<n, w>> \in Readable
    BY DEF Readable
  <1>3. OneWords(n) \subseteq {"selected", "text"}
    <2>1. OneWords(n) \in {{"selected"}, {"text"}, {}}
      BY DEF OneWords, ViewNodes
    <2>2. QED
      BY <2>1
  <1>4. AttrWords(n) \subseteq {"start"} /\ ManyWords(n) \subseteq {"clips"}
    BY DEF AttrWords, ManyWords
  <1>5. OneWords(n) \cup ManyWords(n) \subseteq Reads(n)
    BY DEF Reads
  <1>6. AttrWords(n) \subseteq Reads(n)
    BY DEF Reads
  <1>7. QED
    BY <1>1, <1>2, <1>3, <1>4, <1>5, <1>6 DEF ReadRels

LEMMA NumbersDiffer ==
  ASSUME NEW d \in DOMAIN Dictionaries, NEW v \in StreamWords, NEW w \in StreamWords,
         NumberIn(d, v) = NumberIn(d, w)
  PROVE  v = w
  <1>1. d # NoDict
    BY GraphViewAssumption
  <1>2. CASE v \in DOMAIN Dictionaries[d] /\ w \in DOMAIN Dictionaries[d]
    BY <1>1, <1>2, StreamAssumption DEF NumberIn
  <1>3. CASE v \in DOMAIN Dictionaries[d] /\ w \notin DOMAIN Dictionaries[d]
    BY <1>1, <1>3, StreamAssumption DEF NumberIn
  <1>4. CASE v \notin DOMAIN Dictionaries[d] /\ w \in DOMAIN Dictionaries[d]
    BY <1>1, <1>4, StreamAssumption DEF NumberIn
  <1>5. CASE v \notin DOMAIN Dictionaries[d] /\ w \notin DOMAIN Dictionaries[d]
    BY <1>1, <1>5 DEF NumberIn
  <1>6. QED
    BY <1>2, <1>3, <1>4, <1>5

(* A word that has a number is never a key itself. *)
LEMMA NumberedIsNoKey ==
  ASSUME NEW d \in DOMAIN Dictionaries, NEW w \in StreamWords, w \in DOMAIN Dictionaries[d]
  PROVE  w \notin Numbers(d)
  <1> SUFFICES ASSUME NEW v \in StreamWords, w = NumberIn(d, v) PROVE FALSE
    BY DEF Numbers
  <1>1. d # NoDict
    BY GraphViewAssumption
  <1>2. CASE v \in DOMAIN Dictionaries[d]
    BY <1>1, <1>2, StreamAssumption DEF NumberIn
  <1>3. CASE v \notin DOMAIN Dictionaries[d]
    BY <1>1, <1>3 DEF NumberIn
  <1>4. QED
    BY <1>2, <1>3

IsChunk(c) == c[2] \in StreamWords /\ (c[2] \in ReadRels(c[1]) => c[3] \in Seq(ViewNodes))
IsFolded(so) == so = [graph |-> so.graph, dirty |-> so.dirty]
Sent(sent, c) == Put(sent, <<c[1], c[2]>>, c[3])

(* What a chunk does to the graph: it puts its value under the key, in one of two places. *)
LEMMA ChunkGives ==
  ASSUME NEW so, IsFolded(so), IsGraph(so.graph), NEW d, NEW c
  PROVE  LET q == ChunkStep("graph", d, so, c)
             num == NumberIn(d, c[2])
             K == <<c[1], num>>
         IN /\ IsFolded(q) /\ IsGraph(q.graph)
            /\ q.graph.root = so.graph.root /\ q.graph.dict = so.graph.dict
            /\ q = so \/ q.dirty = so.dirty \cup ({c[1]} \X ResolveName(so.graph, c[1], num))
            /\ c[2] \in AttrWords(c[1]) =>
                 /\ q.graph.rels = so.graph.rels
                 /\ \/ q.graph.attrs = Put(so.graph.attrs, K, c[3])
                    \/ q = so /\ K \in DOMAIN so.graph.attrs /\ HeldAt(so.graph.attrs, K) = c[3]
            /\ c[2] \notin AttrWords(c[1]) =>
                 /\ q.graph.attrs = so.graph.attrs
                 /\ \/ q.graph.rels = Put(so.graph.rels, K, c[3])
                    \/ q = so /\ HeldAt(so.graph.rels, K) = c[3]
  <1> DEFINE q == ChunkStep("graph", d, so, c)
             num == NumberIn(d, c[2])
             K == <<c[1], num>>
             g == so.graph
  <1>0. "graph" # "sent"
    OBVIOUS
  <1>1. CASE c[2] \in AttrWords(c[1])
    <2>1. q = ApplyAttrs(so, c[1], num, c[3])
      BY <1>0, <1>1 DEF ChunkStep
    <2>2. CASE K \in DOMAIN g.attrs /\ g.attrs[K] = c[3]
      BY <1>1, <2>1, <2>2 DEF ApplyAttrs, HeldAt
    <2>3. CASE ~(K \in DOMAIN g.attrs /\ g.attrs[K] = c[3])
      <3> DEFINE h == Put(g.attrs, K, c[3])
      <3>1. q = [graph |-> [g EXCEPT !.attrs = h], dirty |-> PushDirtyName(so, c[1], num)]
        BY <2>1, <2>3 DEF ApplyAttrs
      <3> HIDE DEF h
      <3>2. [g EXCEPT !.attrs = h] = [root |-> g.root, dict |-> g.dict, attrs |-> h, rels |-> g.rels]
        BY DEF IsGraph
      <3>3. q.graph = [root |-> g.root, dict |-> g.dict, attrs |-> h, rels |-> g.rels]
            /\ q.dirty = PushDirtyName(so, c[1], num) /\ IsFolded(q)
        BY <3>1, <3>2 DEF IsFolded
      <3>4. QED
        BY <1>1, <3>3 DEF IsGraph, PushDirtyName, h
    <2>4. QED
      BY <2>2, <2>3
  <1>2. CASE c[2] \notin AttrWords(c[1])
    <2>1. q = ApplyRel(so, c[1], num, c[3])
      BY <1>0, <1>2 DEF ChunkStep
    <2>2. CASE HeldAt(g.rels, K) = c[3]
      BY <1>2, <2>1, <2>2 DEF ApplyRel
    <2>3. CASE HeldAt(g.rels, K) # c[3]
      <3> DEFINE h == Put(g.rels, K, c[3])
      <3>1. q = [graph |-> [g EXCEPT !.rels = h], dirty |-> PushDirtyName(so, c[1], num)]
        BY <2>1, <2>3 DEF ApplyRel
      <3> HIDE DEF h
      <3>2. [g EXCEPT !.rels = h] = [root |-> g.root, dict |-> g.dict, attrs |-> g.attrs, rels |-> h]
        BY DEF IsGraph
      <3>3. q.graph = [root |-> g.root, dict |-> g.dict, attrs |-> g.attrs, rels |-> h]
            /\ q.dirty = PushDirtyName(so, c[1], num) /\ IsFolded(q)
        BY <3>1, <3>2 DEF IsFolded
      <3>4. QED
        BY <1>2, <3>3 DEF IsGraph, PushDirtyName, h
    <2>4. QED
      BY <2>2, <2>3
  <1>3. QED
    BY <1>1, <1>2

LEMMA ChunkKeeps ==
  ASSUME NEW so, IsFolded(so), IsGraph(so.graph), NEW d, NEW c
  PROVE  LET q == ChunkStep("graph", d, so, c)
         IN /\ IsFolded(q) /\ q.graph.root = so.graph.root /\ q.graph.dict = so.graph.dict
            /\ so.dirty \subseteq q.dirty
  <1> DEFINE q == ChunkStep("graph", d, so, c)
             num == NumberIn(d, c[2])
             K == <<c[1], num>>
             g == so.graph
  <1>1. /\ IsFolded(q) /\ q.graph.root = g.root /\ q.graph.dict = g.dict
        /\ q = so \/ q.dirty = so.dirty \cup ({c[1]} \X ResolveName(g, c[1], num))
        /\ q.graph.rels = g.rels \/ q.graph.rels = Put(g.rels, K, c[3])
        /\ q.graph.attrs = g.attrs \/ q.graph.attrs = Put(g.attrs, K, c[3])
    BY ChunkGives
  <1> HIDE DEF q
  <1>2. QED
    BY <1>1 DEF q

LEMMA ChunkMirrors ==
  ASSUME NEW so, IsFolded(so), NEW sent, NEW d \in DOMAIN Dictionaries, Mirrors(so.graph, sent, d),
         NEW c, IsChunk(c)
  PROVE  Mirrors(ChunkStep("graph", d, so, c).graph, Sent(sent, c), d)
  <1> DEFINE q == ChunkStep("graph", d, so, c)
             num == NumberIn(d, c[2])
             K == <<c[1], num>>
             g == so.graph
             new == Sent(sent, c)
             place == <<c[1], c[2]>>
  <1>1. /\ IsGraph(q.graph)
        /\ c[2] \in AttrWords(c[1]) =>
                 /\ q.graph.rels = g.rels
                 /\ \/ q.graph.attrs = Put(g.attrs, K, c[3])
                    \/ q = so /\ K \in DOMAIN g.attrs /\ HeldAt(g.attrs, K) = c[3]
        /\ c[2] \notin AttrWords(c[1]) =>
                 /\ q.graph.attrs = g.attrs
                 /\ \/ q.graph.rels = Put(g.rels, K, c[3])
                    \/ q = so /\ HeldAt(g.rels, K) = c[3]
    BY ChunkGives DEF Mirrors
  <1>0. new = Put(sent, place, c[3])
    BY DEF Sent
  <1> HIDE DEF q, new, K, place
  <1>2. /\ DOMAIN new = DOMAIN sent \cup {place}
        /\ \A p : HeldAt(new, p) = IF p = place THEN c[3] ELSE HeldAt(sent, p)
    BY <1>0 DEF Put, HeldAt
  <1>3. ASSUME NEW h
        PROVE  /\ DOMAIN Put(h, K, c[3]) = DOMAIN h \cup {K}
               /\ \A p : HeldAt(Put(h, K, c[3]), p) = IF p = K THEN c[3] ELSE HeldAt(h, p)
    BY DEF Put, HeldAt
  <1>4. \A k \in DOMAIN q.graph.attrs \cup DOMAIN q.graph.rels : k[2] \in Numbers(d)
    <2>1. K[2] \in Numbers(d)
      BY DEF IsChunk, Numbers, K
    <2>2. \A k \in DOMAIN g.attrs \cup DOMAIN g.rels : k[2] \in Numbers(d)
      BY DEF Mirrors
    <2>3. \A k \in DOMAIN q.graph.attrs \cup DOMAIN q.graph.rels : k = K \/ k \in DOMAIN g.attrs \cup DOMAIN g.rels
      <3>1. CASE c[2] \in AttrWords(c[1])
        BY <1>1, <1>3, <3>1
      <3>2. CASE c[2] \notin AttrWords(c[1])
        BY <1>1, <1>3, <3>2
      <3>3. QED
        BY <3>1, <3>2
    <2>4. QED
      BY <2>1, <2>2, <2>3
  <1>5. ASSUME NEW n \in ViewNodes, NEW w \in Reads(n)
        PROVE  (<<n, NumberIn(d, w)>> = K) <=> (<<n, w>> = place)
    BY WordsRead, NumbersDiffer DEF IsChunk, K, place
  <1>6. ASSUME NEW n \in ViewNodes, NEW w \in AttrWords(n)
        PROVE  /\ <<n, NumberIn(d, w)>> \in DOMAIN q.graph.attrs <=> <<n, w>> \in DOMAIN new
               /\ HeldAt(q.graph.attrs, <<n, NumberIn(d, w)>>) = HeldAt(new, <<n, w>>)
    <2> DEFINE k == <<n, NumberIn(d, w)>>
               p == <<n, w>>
    <2>1. w \in Reads(n)
      BY DEF Reads
    <2>2. (k = K) <=> (p = place)
      BY <1>5, <2>1
    <2>3. (k \in DOMAIN g.attrs <=> p \in DOMAIN sent) /\ HeldAt(g.attrs, k) = HeldAt(sent, p)
      BY DEF Mirrors
    <2>4. p = place => c[2] \in AttrWords(c[1])
      BY DEF place
    <2> HIDE DEF k, p
    <2>5. (p \in DOMAIN new <=> p \in DOMAIN sent \/ p = place)
          /\ HeldAt(new, p) = IF p = place THEN c[3] ELSE HeldAt(sent, p)
      BY <1>2
    <2>6. ASSUME q.graph.attrs = Put(g.attrs, K, c[3])
          PROVE  (k \in DOMAIN q.graph.attrs <=> p \in DOMAIN new) /\ HeldAt(q.graph.attrs, k) = HeldAt(new, p)
      BY <1>3, <2>2, <2>3, <2>5, <2>6
    <2>7. ASSUME q.graph.attrs = g.attrs, p = place => K \in DOMAIN g.attrs /\ HeldAt(g.attrs, K) = c[3]
          PROVE  (k \in DOMAIN q.graph.attrs <=> p \in DOMAIN new) /\ HeldAt(q.graph.attrs, k) = HeldAt(new, p)
      BY <2>2, <2>3, <2>5, <2>7
    <2>8. (k \in DOMAIN q.graph.attrs <=> p \in DOMAIN new) /\ HeldAt(q.graph.attrs, k) = HeldAt(new, p)
      BY <1>1, <2>4, <2>6, <2>7
    <2>9. QED
      BY <2>8 DEF k, p
  <1>7. ASSUME NEW n \in ViewNodes, NEW w \in ReadRels(n)
        PROVE  /\ HeldAt(q.graph.rels, <<n, NumberIn(d, w)>>) = HeldAt(new, <<n, w>>)
               /\ HeldAt(new, <<n, w>>) \in Seq(ViewNodes)
    <2> DEFINE k == <<n, NumberIn(d, w)>>
               p == <<n, w>>
    <2>1. w \in Reads(n) /\ w \notin AttrWords(n)
      BY DEF ReadRels
    <2>2. (k = K) <=> (p = place)
      BY <1>5, <2>1
    <2>3. HeldAt(g.rels, k) = HeldAt(sent, p) /\ HeldAt(sent, p) \in Seq(ViewNodes)
      BY DEF Mirrors
    <2>4. p = place => c[2] \notin AttrWords(c[1]) /\ c[3] \in Seq(ViewNodes)
      BY <2>1 DEF IsChunk, ReadRels, place
    <2> HIDE DEF k, p
    <2>5. HeldAt(new, p) = IF p = place THEN c[3] ELSE HeldAt(sent, p)
      BY <1>2
    <2>6. ASSUME q.graph.rels = Put(g.rels, K, c[3])
          PROVE  HeldAt(q.graph.rels, k) = HeldAt(new, p)
      BY <1>3, <2>2, <2>3, <2>5, <2>6
    <2>7. ASSUME q.graph.rels = g.rels, p = place => HeldAt(g.rels, K) = c[3]
          PROVE  HeldAt(q.graph.rels, k) = HeldAt(new, p)
      BY <2>2, <2>3, <2>5, <2>7
    <2>8. HeldAt(q.graph.rels, k) = HeldAt(new, p)
      BY <1>1, <2>4, <2>6, <2>7
    <2>9. HeldAt(new, p) \in Seq(ViewNodes)
      BY <2>3, <2>4, <2>5
    <2>10. QED
      BY <2>8, <2>9 DEF k, p
  <1>8. QED
    BY <1>1, <1>4, <1>6, <1>7 DEF Mirrors, q, new

(* Whoever reads a word that a chunk changes will be called. *)
LEMMA ChunkIsSeen ==
  ASSUME NEW so, IsFolded(so), IsGraph(so.graph), NEW d, NEW c, NEW n \in ViewNodes, NEW w \in Reads(n),
         LET q == ChunkStep("graph", d, so, c) IN ReadWord(q.graph, n, w) # ReadWord(so.graph, n, w)
  PROVE  LET q == ChunkStep("graph", d, so, c) IN <<n, w>> \in q.dirty
  <1> DEFINE q == ChunkStep("graph", d, so, c)
             num == NumberIn(d, c[2])
             K == <<c[1], num>>
             g == so.graph
             key == NumberIn(g.dict, w)
  <1>1. /\ q.graph.dict = g.dict
        /\ q = so \/ q.dirty = so.dirty \cup ({c[1]} \X ResolveName(g, c[1], num))
        /\ q.graph.rels = g.rels \/ q.graph.rels = Put(g.rels, K, c[3])
        /\ q.graph.attrs = g.attrs \/ q.graph.attrs = Put(g.attrs, K, c[3])
    BY ChunkGives
  <1>2. ReadWord(q.graph, n, w) # ReadWord(g, n, w)
    OBVIOUS
  <1> HIDE DEF q
  <1>3. ASSUME NEW h, NEW f, f = h \/ f = Put(h, K, c[3]),
               ReadFromNode(g.dict, f, n, w) # ReadFromNode(g.dict, h, n, w)
        PROVE  K = <<n, key>> \/ K = <<n, w>>
    <2> DEFINE x == <<n, key>>
               y == <<n, w>>
    <2>1. SUFFICES ASSUME K # x, K # y, f = Put(h, K, c[3]) PROVE FALSE
      BY <1>3
    <2>2. /\ ReadFromNode(g.dict, f, n, w) = IF x \in DOMAIN f THEN f[x] ELSE HeldAt(f, y)
          /\ ReadFromNode(g.dict, h, n, w) = IF x \in DOMAIN h THEN h[x] ELSE HeldAt(h, y)
      BY DEF ReadFromNode
    <2> HIDE DEF x, y, K
    <2>3. DOMAIN f = DOMAIN h \cup {K} /\ HeldAt(f, y) = HeldAt(h, y) /\ (x \in DOMAIN h => f[x] = h[x])
      BY <2>1 DEF Put, HeldAt
    <2>4. QED
      BY <1>3, <2>1, <2>2, <2>3
  <1>4. K = <<n, key>> \/ K = <<n, w>>
    <2>1. CASE w \in AttrWords(n)
      BY <1>1, <1>2, <1>3, <2>1 DEF ReadWord, ReadAttrs
    <2>2. CASE w \notin AttrWords(n)
      BY <1>1, <1>2, <1>3, <2>2 DEF ReadWord, ReadRel
    <2>3. QED
      BY <2>1, <2>2
  <1>5. c[1] = n /\ (num = key \/ num = w)
    BY <1>4
  <1>6. w \in ResolveName(g, n, num)
    BY <1>5 DEF ResolveName, NumberIn
  <1>7. q # so
    BY <1>2
  <1>8. QED
    BY <1>1, <1>5, <1>6, <1>7 DEF q

-----------------------------------------------------------------------------
(* A whole update. *)

LEMMA ChunksOf ==
  ASSUME NEW update \in Updates
  PROVE  /\ update \in Seq(ToSet(update)) /\ Len(update) \in Nat
         /\ \A k \in 1..Len(update) : IsChunk(update[k])
  <1>1. update \in Seq(ToSet(update))
    BY StreamAssumption
  <1>2. Len(update) \in Nat /\ \A k \in 1..Len(update) : update[k] \in ToSet(update)
    BY <1>1
  <1>3. ASSUME NEW c \in ToSet(update) PROVE IsChunk(c)
    <2>1. c \in UNION {ToSet(u) : u \in Updates}
      OBVIOUS
    <2>2. QED
      BY <2>1, StreamAssumption DEF IsChunk, StreamWords, ReadRels
  <1>4. QED
    BY <1>1, <1>2, <1>3

LEMMA UpdateMirrors ==
  ASSUME NEW g, NEW sent, NEW d \in DOMAIN Dictionaries, Mirrors(g, sent, d), NEW update \in Updates
  PROVE  LET so == ApplyChunks(g, d, update)
         IN /\ Mirrors(so.graph, SendChunks(sent, update), d)
            /\ so.graph.root = g.root /\ so.graph.dict = g.dict
            /\ \A n \in ViewNodes : \A w \in Reads(n) :
                 ReadWord(so.graph, n, w) # ReadWord(g, n, w) => <<n, w>> \in so.dirty
  <1> DEFINE L == Len(update)
             base == [graph |-> g, dirty |-> {}]
  <1>1. /\ update \in Seq(ToSet(update)) /\ L \in Nat
        /\ \A k \in 1..L : IsChunk(update[k])
    BY ChunksOf
  <1>2. PICK f : Runs("graph", d, base, update, f) /\ ApplyChunks(g, d, update) = f[L]
    BY <1>1, ApplyChunksRuns
  <1>3. PICK s : Runs("sent", d, sent, update, s) /\ SendChunks(sent, update) = s[L]
    BY <1>1, SendChunksRuns
  <1> DEFINE Fine(k) ==
               /\ IsFolded(f[k]) /\ Mirrors(f[k].graph, s[k], d)
               /\ f[k].graph.root = g.root /\ f[k].graph.dict = g.dict
               /\ \A n \in ViewNodes : \A w \in Reads(n) :
                    ReadWord(f[k].graph, n, w) # ReadWord(g, n, w) => <<n, w>> \in f[k].dirty
  <1>4. Fine(0)
    <2>1. f[0] = base /\ s[0] = sent /\ base.graph = g /\ base.dirty = {}
      BY <1>2, <1>3 DEF Runs
    <2>2. QED
      BY <2>1 DEF IsFolded
  <1>5. ASSUME NEW k \in 1..L, Fine(k - 1) PROVE Fine(k)
    <2> DEFINE a == f[k - 1]
               q == f[k]
               c == update[k]
    <2>1. q = ChunkStep("graph", d, a, c) /\ s[k] = Sent(s[k - 1], c)
      BY <1>2, <1>3 DEF Runs, ChunkStep, Sent
    <2>2. IsChunk(c) /\ IsFolded(a) /\ Mirrors(a.graph, s[k - 1], d) /\ IsGraph(a.graph)
      BY <1>1, <1>5 DEF Mirrors
    <2>3. Mirrors(q.graph, s[k], d)
      BY <2>1, <2>2, ChunkMirrors
    <2>4. /\ IsFolded(q) /\ q.graph.root = a.graph.root /\ q.graph.dict = a.graph.dict
          /\ a.dirty \subseteq q.dirty
      BY <2>1, <2>2, ChunkKeeps
    <2>5. ASSUME NEW n \in ViewNodes, NEW w \in Reads(n), ReadWord(q.graph, n, w) # ReadWord(g, n, w)
          PROVE  <<n, w>> \in q.dirty
      <3>1. CASE ReadWord(q.graph, n, w) # ReadWord(a.graph, n, w)
        BY <2>1, <2>2, <3>1, ChunkIsSeen
      <3>2. CASE ReadWord(a.graph, n, w) # ReadWord(g, n, w)
        BY <1>5, <2>4, <3>2
      <3>3. QED
        BY <2>5, <3>1, <3>2
    <2>6. QED
      BY <1>5, <2>3, <2>4, <2>5
  <1> HIDE DEF Fine
  <1>6. Fine(L)
    <2> DEFINE T == {k \in 0..L : ~Fine(k)}
    <2>1. SUFFICES ASSUME T # {} PROVE FALSE
      BY <1>1
    <2>0. T \subseteq Nat
      BY <1>1
    <2>2. PICK m \in T : \A k \in T : m <= k
      BY <2>0, <2>1, LeastNatural
    <2>3. m \in Nat /\ m <= L /\ ~Fine(m) /\ m # 0
      BY <1>1, <1>4
    <2>4. m \in 1..L /\ m - 1 \in 0..L /\ ~(m <= m - 1)
      BY <1>1, <2>3
    <2>5. Fine(m - 1)
      BY <2>2, <2>4
    <2>6. QED
      BY <1>5, <2>3, <2>4, <2>5
  <1>7. QED
    BY <1>2, <1>3, <1>6 DEF Fine

(* What is read of the graph is what was sent. *)
LEMMA ReadsSent ==
  ASSUME NEW g, NEW sent, NEW d \in DOMAIN Dictionaries, Mirrors(g, sent, d), g.dict \in {NoDict, d},
         NEW n \in ViewNodes, NEW w \in Reads(n)
  PROVE  ReadWord(g, n, w) =
           IF <<n, w>> \in DOMAIN sent /\ (w \in DOMAIN Dictionaries[d] => g.dict # NoDict)
             THEN sent[<<n, w>>] ELSE <<>>
  <1> DEFINE p == <<n, w>>
             k == <<n, NumberIn(d, w)>>
             numbered == w \in DOMAIN Dictionaries[d]
  <1>1. d # NoDict /\ w \in StreamWords
    BY GraphViewAssumption, WordsRead
  <1>2. ASSUME NEW h, \A x \in DOMAIN h : x[2] \in Numbers(d), HeldAt(h, k) = HeldAt(sent, p)
        PROVE  ReadFromNode(g.dict, h, n, w) =
                 IF p \in DOMAIN sent /\ (numbered => g.dict # NoDict) THEN sent[p] ELSE <<>>
    <2>1. numbered => p \notin DOMAIN h
      BY <1>1, <1>2, NumberedIsNoKey
    <2>2. ~numbered => k = p
      BY DEF NumberIn
    <2>3. g.dict = NoDict => NumberIn(g.dict, w) = w
      BY DEF NumberIn
    <2>4. HeldAt(sent, p) = IF p \in DOMAIN sent THEN sent[p] ELSE <<>>
      BY DEF HeldAt
    <2>5. HeldAt(h, k) = IF k \in DOMAIN h THEN h[k] ELSE <<>>
      BY DEF HeldAt
    <2>6. ReadFromNode(g.dict, h, n, w) =
            IF <<n, NumberIn(g.dict, w)>> \in DOMAIN h THEN h[<<n, NumberIn(g.dict, w)>>]
            ELSE IF p \in DOMAIN h THEN h[p] ELSE <<>>
      BY DEF ReadFromNode, HeldAt
    <2>7. CASE g.dict = NoDict
      BY <1>2, <2>1, <2>2, <2>3, <2>4, <2>5, <2>6, <2>7
    <2>8. CASE g.dict = d
      BY <1>1, <1>2, <2>1, <2>2, <2>4, <2>5, <2>6, <2>8
    <2>9. QED
      BY <2>7, <2>8
  <1>3. CASE w \in AttrWords(n)
    <2>1. HeldAt(g.attrs, k) = HeldAt(sent, p) /\ \A x \in DOMAIN g.attrs : x[2] \in Numbers(d)
      BY <1>3 DEF Mirrors
    <2>2. ReadWord(g, n, w) = ReadFromNode(g.dict, g.attrs, n, w)
      BY <1>3 DEF ReadWord, ReadAttrs
    <2>3. QED
      BY <1>2, <2>1, <2>2
  <1>4. CASE w \notin AttrWords(n)
    <2>1. HeldAt(g.rels, k) = HeldAt(sent, p) /\ \A x \in DOMAIN g.rels : x[2] \in Numbers(d)
      BY <1>4 DEF Mirrors, ReadRels
    <2>2. ReadWord(g, n, w) = ReadFromNode(g.dict, g.rels, n, w)
      BY <1>4 DEF ReadWord, ReadRel
    <2>3. QED
      BY <1>2, <2>1, <2>2
  <1>5. QED
    BY <1>3, <1>4

(* A relation that is read leads to nodes. *)
LEMMA ReadsNodes ==
  ASSUME NEW g, NEW sent, NEW d \in DOMAIN Dictionaries, Mirrors(g, sent, d), g.dict \in {NoDict, d},
         NEW n \in ViewNodes, NEW w \in ReadRels(n)
  PROVE  ReadWord(g, n, w) \in Seq(ViewNodes)
  <1>1. w \in Reads(n)
    BY DEF ReadRels
  <1>2. HeldAt(sent, <<n, w>>) \in Seq(ViewNodes)
    BY DEF Mirrors
  <1>3. <<>> \in Seq(ViewNodes)
    OBVIOUS
  <1> DEFINE p == <<n, w>>
  <1>4. ReadWord(g, n, w) = <<>> \/ (p \in DOMAIN sent /\ ReadWord(g, n, w) = sent[p])
    BY <1>1, ReadsSent
  <1>5. p \in DOMAIN sent => sent[p] = HeldAt(sent, p)
    BY DEF HeldAt
  <1> HIDE DEF p
  <1>6. HeldAt(sent, p) \in Seq(ViewNodes)
    BY <1>2 DEF p
  <1>7. QED
    BY <1>3, <1>4, <1>5, <1>6

-----------------------------------------------------------------------------
(* What is rendered: a reader is a path of scopes and a word of the last one. *)

PlaceOf(reader) == <<Last(reader[1]), reader[2]>>
Found(g) == [place \in Readable |-> ReadWord(g, place[1], place[2])]
Agrees(kept, found) == \A reader \in DOMAIN kept : kept[reader] = found[PlaceOf(reader)]
GoodPath(path) == path \in Seq(ViewNodes \cup StreamWords) /\ path # <<>> /\ Last(path) \in ViewNodes
GoodFound(found) == \A n \in ViewNodes : \A w \in ReadRels(n) : found[<<n, w>>] \in Seq(ViewNodes)

(* A component that keeps what would be found again is as one that looks for the first time. *)
LEMMA ReadAtSame ==
  ASSUME NEW paths, NEW kept, NEW found, Agrees(kept, found)
  PROVE  /\ ReadAt(paths, kept, found) = ReadAt(paths, <<>>, found)
         /\ DOMAIN ReadAt(paths, <<>>, found) = UNION {{path} \X Reads(Last(path)) : path \in paths}
         /\ Agrees(ReadAt(paths, <<>>, found), found)
  <1> DEFINE S == UNION {{path} \X Reads(Last(path)) : path \in paths}
             plain == [reader \in S |-> found[PlaceOf(reader)]]
  <1>1. ReadAt(paths, kept, found) = plain
    <2>1. ASSUME NEW reader \in S
          PROVE  (IF reader \in DOMAIN kept THEN kept[reader] ELSE found[<<Last(reader[1]), reader[2]>>])
                   = found[PlaceOf(reader)]
      BY DEF Agrees, PlaceOf
    <2> HIDE DEF S
    <2>2. ReadAt(paths, kept, found) =
            [reader \in S |-> IF reader \in DOMAIN kept THEN kept[reader] ELSE found[<<Last(reader[1]), reader[2]>>]]
      BY DEF ReadAt, S
    <2>3. QED
      BY <2>1, <2>2
  <1>2. ReadAt(paths, <<>>, found) = plain
    <2>1. DOMAIN <<>> = {}
      OBVIOUS
    <2> HIDE DEF S
    <2>2. ReadAt(paths, <<>>, found) =
            [reader \in S |-> IF reader \in DOMAIN <<>> THEN <<>>[reader] ELSE found[<<Last(reader[1]), reader[2]>>]]
      BY DEF ReadAt, S
    <2>3. QED
      BY <2>1, <2>2 DEF PlaceOf
  <1> HIDE DEF S
  <1>3. DOMAIN plain = S /\ Agrees(plain, found)
    BY DEF Agrees
  <1> HIDE DEF plain
  <1>4. QED
    BY <1>1, <1>2, <1>3 DEF S

LEMMA RenderedSame ==
  ASSUME NEW root, NEW kept, NEW found, Agrees(kept, found)
  PROVE  /\ Rendered(root, kept, found) = Rendered(root, <<>>, found)
         /\ Agrees(Rendered(root, <<>>, found), found)
  <1>1. CASE root = NoRoot
    BY <1>1 DEF Rendered, Agrees
  <1>2. CASE root # NoRoot
    <2> DEFINE top == {<<root>>}
               clips == Below(ReadAt(top, <<>>, found))
               texts == Below(ReadAt(clips, <<>>, found))
               clipsK == Below(ReadAt(top, kept, found))
               textsK == Below(ReadAt(clipsK, kept, found))
    <2>1. ReadAt(top, kept, found) = ReadAt(top, <<>>, found)
      BY ReadAtSame
    <2>2. clipsK = clips
      BY <2>1
    <2>3. ReadAt(clips, kept, found) = ReadAt(clips, <<>>, found)
      BY ReadAtSame
    <2>4. textsK = texts
      BY <2>2, <2>3
    <2>5. Rendered(root, kept, found) = ReadAt(top \cup clipsK \cup textsK, kept, found)
      BY <1>2 DEF Rendered
    <2>6. Rendered(root, <<>>, found) = ReadAt(top \cup clips \cup texts, <<>>, found)
      BY <1>2 DEF Rendered
    <2> HIDE DEF top, clips, texts, clipsK, textsK
    <2>7. /\ ReadAt(top \cup clips \cup texts, kept, found) = ReadAt(top \cup clips \cup texts, <<>>, found)
          /\ Agrees(ReadAt(top \cup clips \cup texts, <<>>, found), found)
      BY ReadAtSame
    <2>8. QED
      BY <2>2, <2>4, <2>5, <2>6, <2>7
  <1>3. QED
    BY <1>1, <1>2

(* The scopes below good ones are good. *)
LEMMA BelowGood ==
  ASSUME NEW paths, \A path \in paths : GoodPath(path), NEW found, GoodFound(found)
  PROVE  \A path \in Below(ReadAt(paths, <<>>, found)) : GoodPath(path)
  <1> DEFINE at == ReadAt(paths, <<>>, found)
  <1>1. DOMAIN at = UNION {{path} \X Reads(Last(path)) : path \in paths} /\ Agrees(at, found)
    <2>1. Agrees(<<>>, found)
      BY DEF Agrees
    <2>2. QED
      BY <2>1, ReadAtSame
  <1> HIDE DEF at
  <1>2. ASSUME NEW r \in DOMAIN at, r[2] \in OneWords(Last(r[1])) \cup ManyWords(Last(r[1])),
               NEW path \in Under(at, r)
        PROVE  GoodPath(path)
    <2>1. r[1] \in paths
      BY <1>1
    <2>2. GoodPath(r[1])
      BY <2>1
    <2> DEFINE n == Last(r[1])
               w == r[2]
    <2>3. n \in ViewNodes /\ w \in ReadRels(n) /\ w \in StreamWords
      <3>1. n \in ViewNodes
        BY <2>2 DEF GoodPath
      <3> HIDE DEF n
      <3>2. w \in ReadRels(n)
        BY <1>2, <3>1, WordsRead DEF n
      <3>3. QED
        BY <3>1, <3>2, WordsRead DEF ReadRels
    <2>4. at[r] \in Seq(ViewNodes)
      BY <1>1, <2>3 DEF Agrees, PlaceOf, GoodFound
    <2>5. PICK node \in ToSet(at[r]) : path = r[1] \o <<w, node>>
      BY DEF Under
    <2>6. node \in ViewNodes
      BY <2>4, <2>5 DEF ToSet
    <2> DEFINE Words == ViewNodes \cup StreamWords
    <2>7. r[1] \in Seq(Words) /\ <<w, node>> \in Seq(Words)
      BY <2>2, <2>3, <2>6 DEF GoodPath
    <2> HIDE DEF Words, n, w
    <2>8. path \in Seq(Words) /\ Len(path) = Len(r[1]) + 2 /\ path[Len(r[1]) + 2] = node
      BY <2>5, <2>7
    <2>9. path # <<>> /\ Last(path) = node
      BY <2>7, <2>8 DEF Last
    <2>10. QED
      BY <2>6, <2>8, <2>9 DEF GoodPath, Words
  <1>3. QED
    BY <1>2 DEF Below, BelowOne, BelowMany, at

(* Whoever is on the screen reads a word of a node, and shows what is found there. *)
LEMMA RenderedReaders ==
  ASSUME NEW root \in ViewRoots \cup {NoRoot}, NEW found, GoodFound(found)
  PROVE  \A reader \in DOMAIN Rendered(root, <<>>, found) :
            Last(reader[1]) \in ViewNodes /\ reader[2] \in Reads(Last(reader[1]))
  <1>1. CASE root = NoRoot
    BY <1>1 DEF Rendered
  <1>2. CASE root # NoRoot
    <2> DEFINE top == {<<root>>}
               clips == Below(ReadAt(top, <<>>, found))
               texts == Below(ReadAt(clips, <<>>, found))
               all == top \cup clips \cup texts
    <2>1. root \in ViewNodes
      BY <1>2 DEF ViewNodes
    <2>2. \A path \in top : GoodPath(path)
      <3>1. <<root>> \in Seq(ViewNodes \cup StreamWords) /\ <<root>> # <<>> /\ Last(<<root>>) = root
        BY <2>1 DEF Last
      <3>2. QED
        BY <2>1, <3>1 DEF GoodPath
    <2> HIDE DEF top
    <2>3. \A path \in clips : GoodPath(path)
      BY <2>2, BelowGood
    <2> HIDE DEF clips
    <2>4. \A path \in texts : GoodPath(path)
      BY <2>3, BelowGood
    <2> HIDE DEF texts
    <2>5. \A path \in all : GoodPath(path)
      BY <2>2, <2>3, <2>4
    <2>6. Rendered(root, <<>>, found) = ReadAt(all, <<>>, found)
      BY <1>2 DEF Rendered, texts, clips, top
    <2> HIDE DEF all
    <2>7. Agrees(<<>>, found)
      BY DEF Agrees
    <2>8. DOMAIN ReadAt(all, <<>>, found) = UNION {{path} \X Reads(Last(path)) : path \in all}
      BY <2>7, ReadAtSame
    <2>9. QED
      BY <2>5, <2>6, <2>8 DEF GoodPath
  <1>3. QED
    BY <1>1, <1>2

-----------------------------------------------------------------------------
(* The invariant. *)

ScreenOf(g) == [root |-> g.root, at |-> Rendered(g.root, <<>>, Found(g))]

ViewInv ==
  /\ stream = [dict |-> stream.dict, root |-> stream.root, sent |-> stream.sent]
  /\ stream.dict \in DOMAIN Dictionaries /\ stream.root \in ViewRoots \cup {NoRoot}
  /\ graph.root = stream.root /\ graph.dict \in {NoDict, stream.dict}
  /\ Mirrors(graph, stream.sent, stream.dict)
  /\ screen = ScreenOf(graph)

LEMMA FoundReads ==
  ASSUME NEW g, NEW n \in ViewNodes, NEW w \in Reads(n)
  PROVE  Found(g)[<<n, w>>] = ReadWord(g, n, w)
  BY WordsRead DEF Found

LEMMA FoundIsGood ==
  ASSUME NEW g, NEW sent, NEW d \in DOMAIN Dictionaries, Mirrors(g, sent, d), g.dict \in {NoDict, d}
  PROVE  GoodFound(Found(g))
  <1> SUFFICES ASSUME NEW n \in ViewNodes, NEW w \in ReadRels(n)
               PROVE  Found(g)[<<n, w>>] \in Seq(ViewNodes)
    BY DEF GoodFound
  <1>1. ReadWord(g, n, w) \in Seq(ViewNodes)
    BY ReadsNodes
  <1>2. w \in Reads(n)
    BY DEF ReadRels
  <1>3. Found(g)[<<n, w>>] = ReadWord(g, n, w)
    BY <1>2, FoundReads
  <1>4. QED
    BY <1>1, <1>3

(* A step that calls whoever reads what it changes renders the whole screen of the new graph. *)
LEMMA RenderShows ==
  ASSUME ViewInv, NEW g, NEW called, Render(g, called),
         \A reader \in DOMAIN screen.at \ called :
            \A n \in ViewNodes : \A w \in Reads(n) :
               PlaceOf(reader) = <<n, w>> => ReadWord(g, n, w) = ReadWord(graph, n, w)
  PROVE  graph' = g /\ screen' = ScreenOf(g)
  <1> DEFINE kept == [r \in DOMAIN screen.at \ called |-> screen.at[r]]
             old == Found(graph)
             new == Found(g)
  <1>1. graph' = g /\ screen' = [root |-> g.root, at |-> Rendered(g.root, kept, new)]
    BY DEF Render, Found
  <1>2. screen.at = Rendered(graph.root, <<>>, old) /\ graph.root \in ViewRoots \cup {NoRoot}
    BY DEF ViewInv, ScreenOf
  <1>3. GoodFound(old)
    BY FoundIsGood DEF ViewInv
  <1> HIDE DEF old, new
  <1>4. Agrees(<<>>, old)
    BY DEF Agrees
  <1>5. Agrees(screen.at, old)
    BY <1>2, <1>4, RenderedSame
  <1>6. ASSUME NEW r \in DOMAIN screen.at \ called PROVE kept[r] = new[PlaceOf(r)]
    <2> DEFINE n == Last(r[1])
               w == r[2]
    <2>1. n \in ViewNodes /\ w \in Reads(n)
      BY <1>2, <1>3, RenderedReaders
    <2>2. PlaceOf(r) = <<n, w>>
      BY DEF PlaceOf
    <2> HIDE DEF n, w
    <2>3. ReadWord(g, n, w) = ReadWord(graph, n, w)
      BY <2>1, <2>2
    <2>4. old[<<n, w>>] = new[<<n, w>>]
      BY <2>1, <2>3, FoundReads DEF old, new
    <2>5. screen.at[r] = old[PlaceOf(r)]
      BY <1>5 DEF Agrees
    <2>6. QED
      BY <2>2, <2>4, <2>5
  <1>7. DOMAIN kept = DOMAIN screen.at \ called
    OBVIOUS
  <1> HIDE DEF kept
  <1>8. Agrees(kept, new)
    BY <1>6, <1>7 DEF Agrees
  <1>9. Rendered(g.root, kept, new) = Rendered(g.root, <<>>, new)
    BY <1>8, RenderedSame
  <1>10. QED
    BY <1>1, <1>9 DEF ScreenOf, new

LEMMA EmptyMirrors ==
  ASSUME NEW d \in DOMAIN Dictionaries
  PROVE  Mirrors(EmptyGraph, <<>>, d) /\ ScreenOf(EmptyGraph) = [root |-> NoRoot, at |-> <<>>]
  <1>1. IsGraph(EmptyGraph) /\ EmptyGraph.attrs = <<>> /\ EmptyGraph.rels = <<>>
        /\ EmptyGraph.root = NoRoot /\ EmptyGraph.dict = NoDict
    BY DEF EmptyGraph, IsGraph
  <1>2. DOMAIN <<>> = {} /\ <<>> \in Seq(ViewNodes)
    OBVIOUS
  <1>3. \A place : HeldAt(<<>>, place) = <<>>
    BY <1>2 DEF HeldAt
  <1>4. Mirrors(EmptyGraph, <<>>, d)
    BY <1>1, <1>2, <1>3 DEF Mirrors
  <1>5. QED
    BY <1>1, <1>4 DEF ScreenOf, Rendered

LEMMA ViewInit == ASSUME GraphViewInit PROVE ViewInv
  <1>1. PICK d \in DOMAIN Dictionaries : stream = [dict |-> d, root |-> NoRoot, sent |-> <<>>]
    BY DEF GraphViewInit
  <1>2. graph = EmptyGraph /\ screen = [root |-> NoRoot, at |-> <<>>]
    BY DEF GraphViewInit
  <1>3. EmptyGraph.root = NoRoot /\ EmptyGraph.dict = NoDict
    BY DEF EmptyGraph
  <1>4. QED
    BY <1>1, <1>2, <1>3, EmptyMirrors DEF ViewInv

LEMMA ViewResetGraph == ASSUME ViewInv, ResetGraph PROVE ViewInv'
  <1>1. PICK d \in DOMAIN Dictionaries : stream' = [dict |-> d, root |-> NoRoot, sent |-> <<>>]
    BY DEF ResetGraph
  <1>2. EmptyGraph.root = NoRoot /\ EmptyGraph.dict = NoDict
    BY DEF EmptyGraph
  <1>3. graph' = EmptyGraph /\ screen' = [root |-> NoRoot, at |-> <<>>]
    BY <1>2 DEF ResetGraph, Render, Rendered
  <1>4. QED
    BY <1>1, <1>2, <1>3, EmptyMirrors DEF ViewInv

LEMMA ViewSetDict == ASSUME ViewInv, SetDict PROVE ViewInv'
  <1> DEFINE g == [graph EXCEPT !.dict = stream.dict]
  <1>1. stream' = stream
    BY DEF SetDict
  <1>2. Subscribed = DOMAIN screen.at
    BY DEF Subscribed, SubscribedAttrs, SubscribedRels
  <1>3. Render(g, DOMAIN screen.at)
    BY <1>2 DEF SetDict, FlushAllNamed
  <1>4. g = [root |-> graph.root, dict |-> stream.dict, attrs |-> graph.attrs, rels |-> graph.rels]
    BY DEF ViewInv, Mirrors, IsGraph
  <1> HIDE DEF g
  <1>5. graph' = g /\ screen' = ScreenOf(g)
    BY <1>3, RenderShows
  <1>6. Mirrors(g, stream.sent, stream.dict)
    BY <1>4 DEF ViewInv, Mirrors, IsGraph
  <1>7. screen' = ScreenOf(graph')
    BY <1>5 DEF ScreenOf
  <1>8. QED
    BY <1>1, <1>4, <1>5, <1>6, <1>7 DEF ViewInv

LEMMA ViewHandleTreeRoot ==
  ASSUME ViewInv, NEW root \in ViewRoots, HandleTreeRoot(root) PROVE ViewInv'
  <1> DEFINE g == [graph EXCEPT !.root = root]
  <1>1. stream' = [dict |-> stream.dict, root |-> root, sent |-> stream.sent]
    BY DEF HandleTreeRoot, ViewInv
  <1>2. Render(g, {})
    BY DEF HandleTreeRoot
  <1>3. g = [root |-> root, dict |-> graph.dict, attrs |-> graph.attrs, rels |-> graph.rels]
    BY DEF ViewInv, Mirrors, IsGraph
  <1> HIDE DEF g
  <1>4. \A n, w : ReadWord(g, n, w) = ReadWord(graph, n, w)
    BY <1>3 DEF ReadWord, ReadAttrs, ReadRel
  <1>5. graph' = g /\ screen' = ScreenOf(g)
    BY <1>2, <1>4, RenderShows
  <1>6. Mirrors(g, stream.sent, stream.dict)
    BY <1>3 DEF ViewInv, Mirrors, IsGraph
  <1>7. screen' = ScreenOf(graph')
    BY <1>5 DEF ScreenOf
  <1>8. QED
    BY <1>1, <1>3, <1>5, <1>6, <1>7 DEF ViewInv

LEMMA ViewHandleSyncUpdate ==
  ASSUME ViewInv, NEW update \in Updates, HandleSyncUpdate(update) PROVE ViewInv'
  <1> DEFINE so == ApplyChunks(graph, stream.dict, update)
             called == FlushDirtyNamed(SubscribedAttrs, so.dirty) \cup FlushDirtyNamed(SubscribedRels, so.dirty)
             sent == SendChunks(stream.sent, update)
  <1>1. stream' = [dict |-> stream.dict, root |-> stream.root, sent |-> sent]
    BY DEF HandleSyncUpdate, ViewInv
  <1>2. Render(so.graph, called)
    BY DEF HandleSyncUpdate
  <1>3. Mirrors(graph, stream.sent, stream.dict) /\ stream.dict \in DOMAIN Dictionaries
    BY DEF ViewInv
  <1>4. /\ Mirrors(so.graph, sent, stream.dict)
        /\ so.graph.root = graph.root /\ so.graph.dict = graph.dict
        /\ \A n \in ViewNodes : \A w \in Reads(n) :
             ReadWord(so.graph, n, w) # ReadWord(graph, n, w) => <<n, w>> \in so.dirty
    BY <1>3, UpdateMirrors
  <1>5. called = {reader \in DOMAIN screen.at : PlaceOf(reader) \in so.dirty}
    BY DEF FlushDirtyNamed, SubscribedAttrs, SubscribedRels, PlaceOf
  <1> HIDE DEF so, called, sent
  <1>6. graph' = so.graph /\ screen' = ScreenOf(so.graph)
    BY <1>2, <1>4, <1>5, RenderShows
  <1>7. screen' = ScreenOf(graph')
    BY <1>6 DEF ScreenOf
  <1>8. QED
    BY <1>1, <1>4, <1>6, <1>7 DEF ViewInv

LEMMA ViewKeeps == ASSUME UNCHANGED graphViewVars, ViewInv PROVE ViewInv'
  BY DEF graphViewVars, ViewInv, ScreenOf, Mirrors, IsGraph, Found, Rendered

LEMMA ViewShows == ASSUME ViewInv PROVE ScreenShowsTheStream
  <1> DEFINE sent == [place \in Readable |-> SentWord(place[1], place[2])]
  <1>1. ASSUME NEW place \in Readable PROVE ReadWord(graph, place[1], place[2]) = SentWord(place[1], place[2])
    <2>1. PICK n \in ViewNodes : place \in {n} \X Reads(n)
      BY DEF Readable
    <2>2. place[1] = n /\ place[2] \in Reads(n)
      BY <2>1
    <2> DEFINE w == place[2]
    <2>3. Mirrors(graph, stream.sent, stream.dict) /\ stream.dict \in DOMAIN Dictionaries
          /\ graph.dict \in {NoDict, stream.dict}
      BY DEF ViewInv
    <2>4. ReadWord(graph, n, w) =
            IF <<n, w>> \in DOMAIN stream.sent /\ (w \in DOMAIN Dictionaries[stream.dict] => graph.dict # NoDict)
              THEN stream.sent[<<n, w>>] ELSE <<>>
      BY <2>2, <2>3, ReadsSent
    <2>5. QED
      BY <2>2, <2>4 DEF SentWord
  <1>2. Found(graph) = sent
    BY <1>1 DEF Found
  <1> HIDE DEF sent
  <1>3. screen = [root |-> stream.root, at |-> Rendered(stream.root, <<>>, sent)]
    BY <1>2 DEF ViewInv, ScreenOf
  <1>4. QED
    BY <1>3 DEF ScreenShowsTheStream, sent

(* The screen is always that of a page rendered anew from what its stream has sent: flushDirtyNamed, *)
(* setDict, handleTreeRoot and resetGraph call everyone whose word has changed, and leave nobody      *)
(* behind on a node that is no longer reached.                                                       *)
THEOREM ScreenIsTheStream == PageViewSpec => []ScreenShowsTheStream
  <1>1. PageViewInit => ViewInv
    BY ViewInit DEF PageViewInit
  <1>2. ViewInv /\ [PageViewNext]_pageViewVars => ViewInv'
    <2> SUFFICES ASSUME ViewInv, [PageViewNext]_pageViewVars PROVE ViewInv'
      OBVIOUS
    <2>1. CASE UNCHANGED graphViewVars
      BY <2>1, ViewKeeps
    <2>2. CASE GraphViewNext
      <3>1. CASE SetDict
        BY <3>1, ViewSetDict
      <3>2. CASE ResetGraph
        BY <3>2, ViewResetGraph
      <3>3. CASE \E root \in ViewRoots : HandleTreeRoot(root)
        BY <3>3, ViewHandleTreeRoot
      <3>4. CASE \E update \in Updates : HandleSyncUpdate(update)
        BY <3>4, ViewHandleSyncUpdate
      <3>5. QED
        BY <2>2, <3>1, <3>2, <3>3, <3>4 DEF GraphViewNext
    <2>3. QED
      BY <2>1, <2>2 DEF PageViewNext, pageViewVars
  <1>3. ViewInv => ScreenShowsTheStream
    BY ViewShows
  <1>4. QED
    BY <1>1, <1>2, <1>3, PTL DEF PageViewSpec

-----------------------------------------------------------------------------
(* Folds over the nodes and mount points of a page. *)

Picked(s) == CHOOSE x \in s : TRUE

PageStep(kind, via, x, q) ==
  CASE kind = "retain" -> Retain(q, x)
    [] kind = "release" -> Release(q, x)
    [] kind = "mount" -> MountClip(q, via, x)
    [] kind = "unmount" -> UnmountClip(q, via, x)
    [] kind = "follow" -> SyncLeaves(q, x)

FoldsUpTo(kind, via, base, it, S, n) ==
  it = [s \in {r \in SUBSET S : Cardinality(r) <= n} |->
          IF s = {} THEN base ELSE PageStep(kind, via, Picked(s), it[s \ {Picked(s)}])]

FoldsSet(kind, via, base, it, S) ==
  it = [s \in SUBSET S |-> IF s = {} THEN base ELSE PageStep(kind, via, Picked(s), it[s \ {Picked(s)}])]

LEMMA PickedIsIn ==
  ASSUME NEW S, IsFiniteSet(S), S # {}
  PROVE  /\ Picked(S) \in S /\ S \ {Picked(S)} \in SUBSET S
         /\ IsFiniteSet(S \ {Picked(S)}) /\ Cardinality(S) \in Nat /\ Cardinality(S) # 0
         /\ Cardinality(S \ {Picked(S)}) = Cardinality(S) - 1
  <1>1. Picked(S) \in S
    BY DEF Picked
  <1> HIDE DEF Picked
  <1>2. QED
    BY <1>1, FS_RemoveElement, FS_CardinalityType, FS_EmptySet

(* What is true of the empty set, and of a set when it is of the set without the element picked. *)
LEMMA SetInduction ==
  ASSUME NEW S, IsFiniteSet(S), NEW T, {} \in T,
         \A s \in SUBSET S : s # {} /\ s \ {Picked(s)} \in T => s \in T
  PROVE  S \in T
  <1> DEFINE Sizes == {n \in Nat : \E s \in SUBSET S : s \notin T /\ Cardinality(s) = n}
  <1>1. SUFFICES ASSUME S \notin T PROVE FALSE
    OBVIOUS
  <1>2. Cardinality(S) \in Sizes
    BY <1>1, FS_CardinalityType
  <1>3. PICK n \in Sizes : \A m \in Sizes : n <= m
    BY <1>2, LeastNatural
  <1>4. PICK s \in SUBSET S : s \notin T /\ Cardinality(s) = n
    OBVIOUS
  <1>5. IsFiniteSet(s) /\ s # {}
    BY <1>4, FS_Subset
  <1>6. s \ {Picked(s)} \in SUBSET S /\ Cardinality(s \ {Picked(s)}) = n - 1 /\ n \in Nat /\ n # 0
    BY <1>4, <1>5, PickedIsIn
  <1>7. s \ {Picked(s)} \notin T
    BY <1>4, <1>5
  <1>8. n - 1 \in Sizes /\ ~(n <= n - 1)
    BY <1>6, <1>7
  <1>9. QED
    BY <1>3, <1>8

LEMMA PageFoldExists ==
  ASSUME NEW kind, NEW via, NEW base, NEW S, IsFiniteSet(S)
  PROVE  \E it : FoldsSet(kind, via, base, it, S)
  <1> DEFINE Stuck == {j \in Nat : ~ \E it : FoldsUpTo(kind, via, base, it, S, j)}
             Small(j) == {r \in SUBSET S : Cardinality(r) <= j}
             value(f, s) == IF s = {} THEN base ELSE PageStep(kind, via, Picked(s), f[s \ {Picked(s)}])
  <1>0. \A s \in SUBSET S : IsFiniteSet(s) /\ Cardinality(s) \in Nat /\ Cardinality(s) <= Cardinality(S)
    BY FS_Subset, FS_CardinalityType
  <1>1. ASSUME Stuck # {} PROVE FALSE
    <2>2. PICK m \in Stuck : \A j \in Stuck : m <= j
      BY <1>1, LeastNatural
    <2>3. m \in Nat /\ ~ \E it : FoldsUpTo(kind, via, base, it, S, m)
      OBVIOUS
    <2>4. CASE m = 0
      <3> DEFINE h == [s \in Small(m) |-> base]
      <3>1. \A s \in Small(m) : s = {}
        BY <1>0, <2>4, FS_EmptySet
      <3>2. h = [s \in Small(m) |-> value(h, s)]
        BY <3>1
      <3>3. QED
        BY <2>3, <3>2 DEF FoldsUpTo
    <2>5. CASE m # 0
      <3>1. m - 1 \in Nat /\ ~(m <= m - 1)
        BY <2>3, <2>5
      <3>2. m - 1 \notin Stuck
        BY <2>2, <3>1
      <3>3. PICK g : FoldsUpTo(kind, via, base, g, S, m - 1)
        BY <3>1, <3>2
      <3> DEFINE h == [s \in Small(m) |-> value(g, s)]
      <3>4. ASSUME NEW s \in Small(m), s # {}
            PROVE  s \ {Picked(s)} \in Small(m - 1) /\ s \ {Picked(s)} \in Small(m)
        <4>1. IsFiniteSet(s)
          BY <1>0
        <4>2. /\ s \ {Picked(s)} \in SUBSET S /\ Cardinality(s \ {Picked(s)}) = Cardinality(s) - 1
              /\ Cardinality(s) \in Nat /\ Cardinality(s) <= m
          BY <3>4, <4>1, PickedIsIn
        <4>3. QED
          BY <2>3, <4>2
      <3>5. ASSUME NEW s \in Small(m - 1) PROVE h[s] = g[s]
        <4>1. s \in Small(m)
          <5>1. Cardinality(s) \in Nat /\ Cardinality(s) <= m - 1
            BY <1>0
          <5>2. QED
            BY <2>3, <5>1
        <4>2. g[s] = value(g, s)
          BY <3>3 DEF FoldsUpTo
        <4>3. QED
          BY <4>1, <4>2
      <3>6. ASSUME NEW s \in Small(m) PROVE h[s] = value(h, s)
        <4>1. CASE s = {}
          BY <4>1
        <4>2. CASE s # {}
          <5>1. h[s \ {Picked(s)}] = g[s \ {Picked(s)}]
            BY <3>4, <3>5, <4>2
          <5>2. QED
            BY <5>1
        <4>3. QED
          BY <4>1, <4>2
      <3>7. h = [s \in Small(m) |-> h[s]]
        OBVIOUS
      <3> HIDE DEF h
      <3>8. h = [s \in Small(m) |-> value(h, s)]
        BY <3>6, <3>7
      <3>9. QED
        BY <2>3, <3>8 DEF FoldsUpTo
    <2>6. QED
      BY <2>4, <2>5
  <1>2. Cardinality(S) \in Nat
    BY FS_CardinalityType
  <1>3. PICK it : FoldsUpTo(kind, via, base, it, S, Cardinality(S))
    BY <1>1, <1>2
  <1>4. Small(Cardinality(S)) = SUBSET S
    BY <1>0
  <1>5. QED
    BY <1>3, <1>4 DEF FoldsUpTo, FoldsSet

(* The folds of the registry and of the listeners. *)
LEMMA PageFolds ==
  ASSUME NEW p, NEW via, NEW S, IsFiniteSet(S)
  PROVE  /\ \E it : FoldsSet("retain", via, p, it, S) /\ RetainAll(p, S) = it[S]
         /\ \E it : FoldsSet("release", via, p, it, S) /\ ReleaseAll(p, S) = it[S]
         /\ \E it : FoldsSet("mount", via, p, it, S) /\ MountClips(p, via, S) = it[S]
         /\ \E it : FoldsSet("unmount", via, p, it, S) /\ UnmountClips(p, via, S) = it[S]
         /\ \E it : FoldsSet("follow", via, p, it, S) /\ SyncWays(p, S) = it[S]
  <1> DEFINE it(kind) == CHOOSE i : FoldsSet(kind, via, p, i, S)
  <1>1. \A kind : FoldsSet(kind, via, p, it(kind), S)
    BY PageFoldExists
  <1>2. RetainAll(p, S) = it("retain")[S]
    BY DEF RetainAll, FoldSet, MapThenFoldSet, FoldsSet, PageStep, Picked
  <1>3. ReleaseAll(p, S) = it("release")[S]
    BY DEF ReleaseAll, FoldSet, MapThenFoldSet, FoldsSet, PageStep, Picked
  <1>4. MountClips(p, via, S) = it("mount")[S]
    BY DEF MountClips, FoldSet, MapThenFoldSet, FoldsSet, PageStep, Picked
  <1>5. UnmountClips(p, via, S) = it("unmount")[S]
    BY DEF UnmountClips, FoldSet, MapThenFoldSet, FoldsSet, PageStep, Picked
  <1>7. SyncWays(p, S) = it("follow")[S]
    BY DEF SyncWays, FoldSet, MapThenFoldSet, FoldsSet, PageStep, Picked
  <1> HIDE DEF it
  <1>8. QED
    BY <1>1, <1>2, <1>3, <1>4, <1>5, <1>7

-----------------------------------------------------------------------------
(* The registry: what is mounted is counted.                                *)

Answers == {"unset", "yes", "no"}
UnderLink(l) == IF l[2] \in RootRels THEN Clips ELSE Leaves
HeldValues == {h \in [Links -> SUBSET (Clips \cup Leaves)] : \A l \in Links : h[l] \subseteq UnderLink(l)}

PageStates ==
  [conn : Connections \cup {0}, gone : BOOLEAN, booted : BOOLEAN, ready : BOOLEAN, session : Sessions \cup {None},
   key : Sessions \cup {None}, error : BOOLEAN, opened : {"unknown", "ready", "failed"}, root : Sessions \cup {None},
   held : HeldValues, refs : [Nodes -> Nat], asked : [Nodes -> Answers], published : BOOLEAN,
   mounted : Sessions \cup {None}, clips : [RootRels -> SUBSET Clips], leaves : [Ways -> SUBSET Leaves]]

Tallied(p, refs, asked) == [p EXCEPT !.refs = refs, !.asked = asked]
MoreRefs(p, S) == [m \in Nodes |-> IF m \in S THEN p.refs[m] + 1 ELSE p.refs[m]]
MoreAsked(p, S) == [m \in Nodes |-> IF m \in S /\ p.refs[m] = 0 THEN "yes" ELSE p.asked[m]]
LessRefs(p, S) == [m \in Nodes |-> IF m \in S /\ p.refs[m] > 0 THEN p.refs[m] - 1 ELSE p.refs[m]]
LessAsked(p, S) == [m \in Nodes |-> IF m \in S /\ p.refs[m] = 1 THEN "no" ELSE p.asked[m]]

LEMMA TalliedPage ==
  ASSUME NEW p \in PageStates, NEW refs \in [Nodes -> Nat], NEW asked \in [Nodes -> Answers]
  PROVE  /\ Tallied(p, refs, asked) \in PageStates
         /\ Tallied(p, refs, asked).refs = refs /\ Tallied(p, refs, asked).asked = asked
         /\ \A r, a : Tallied(Tallied(p, refs, asked), r, a) = Tallied(p, r, a)
         /\ Tallied(p, p.refs, p.asked) = p
  BY DEF Tallied, PageStates

LEMMA TallyTypes ==
  ASSUME NEW p \in PageStates, NEW S
  PROVE  /\ MoreRefs(p, S) \in [Nodes -> Nat] /\ MoreAsked(p, S) \in [Nodes -> Answers]
         /\ LessRefs(p, S) \in [Nodes -> Nat] /\ LessAsked(p, S) \in [Nodes -> Answers]
  <1>1. p.refs \in [Nodes -> Nat] /\ p.asked \in [Nodes -> Answers]
    BY DEF PageStates
  <1>2. QED
    BY <1>1 DEF MoreRefs, MoreAsked, LessRefs, LessAsked, Answers

LEMMA RetainOne ==
  ASSUME NEW p \in PageStates, NEW n \in Nodes
  PROVE  Retain(p, n) = Tallied(p, MoreRefs(p, {n}), MoreAsked(p, {n}))
  <1>1. p.refs \in [Nodes -> Nat] /\ p.asked \in [Nodes -> Answers]
    BY DEF PageStates
  <1> DEFINE q == [p EXCEPT !.refs[n] = @ + 1]
  <1>2. q = Tallied(p, MoreRefs(p, {n}), p.asked)
    BY <1>1 DEF Tallied, MoreRefs, PageStates
  <1>3. CASE p.refs[n] = 0
    <2>1. q.refs[n] > 0
      BY <1>1, <1>2, <1>3, TalliedPage, TallyTypes DEF MoreRefs
    <2>2. SyncNodeShapes(q, n) = [q EXCEPT !.asked[n] = "yes"]
      BY <2>1 DEF SyncNodeShapes
    <2>3. [q EXCEPT !.asked[n] = "yes"] = Tallied(p, MoreRefs(p, {n}), MoreAsked(p, {n}))
      BY <1>1, <1>2, <1>3 DEF Tallied, MoreAsked, PageStates
    <2>4. QED
      BY <1>3, <2>2, <2>3 DEF Retain
  <1>4. CASE p.refs[n] # 0
    <2>1. MoreAsked(p, {n}) = p.asked
      BY <1>1, <1>4 DEF MoreAsked
    <2>2. QED
      BY <1>2, <1>4, <2>1 DEF Retain
  <1>5. QED
    BY <1>3, <1>4

LEMMA ReleaseOne ==
  ASSUME NEW p \in PageStates, NEW n \in Nodes
  PROVE  Release(p, n) = Tallied(p, LessRefs(p, {n}), LessAsked(p, {n}))
  <1>1. p.refs \in [Nodes -> Nat] /\ p.asked \in [Nodes -> Answers]
    BY DEF PageStates
  <1> DEFINE q == [p EXCEPT !.refs[n] = @ - 1]
  <1>2. CASE p.refs[n] = 0
    <2>1. LessRefs(p, {n}) = p.refs /\ LessAsked(p, {n}) = p.asked
      BY <1>1, <1>2 DEF LessRefs, LessAsked
    <2>2. QED
      BY <1>1, <1>2, <2>1, TalliedPage DEF Release
  <1>3. ASSUME p.refs[n] # 0 PROVE q = Tallied(p, LessRefs(p, {n}), p.asked)
    <2>1. LessRefs(p, {n}) = [p.refs EXCEPT ![n] = @ - 1]
      <3>1. p.refs[n] > 0
        BY <1>1, <1>3
      <3>2. QED
        BY <1>1, <3>1 DEF LessRefs
    <2>2. q = Tallied(p, [p.refs EXCEPT ![n] = @ - 1], p.asked)
      BY <1>1 DEF Tallied, PageStates
    <2>3. QED
      BY <2>1, <2>2
  <1>4. CASE p.refs[n] = 1
    <2>0. p.refs[n] # 0
      BY <1>4
    <2>1. q.refs[n] = 0
      BY <1>1, <1>4 DEF PageStates
    <2>2. SyncNodeShapes(q, n) = [q EXCEPT !.asked[n] = "no"]
      <3> HIDE DEF q
      <3>1. ~(q.refs[n] > 0)
        BY <2>1
      <3>2. QED
        BY <3>1, Zenon DEF SyncNodeShapes
    <2>3. [q EXCEPT !.asked[n] = "no"] = Tallied(p, LessRefs(p, {n}), LessAsked(p, {n}))
      <3>1. LessAsked(p, {n}) = [p.asked EXCEPT ![n] = "no"]
        BY <1>1, <1>4 DEF LessAsked
      <3>2. q = Tallied(p, LessRefs(p, {n}), p.asked)
        BY <1>3, <2>0
      <3> HIDE DEF q
      <3>3. [q EXCEPT !.asked[n] = "no"] = Tallied(p, LessRefs(p, {n}), [p.asked EXCEPT ![n] = "no"])
        BY <1>1, <3>2 DEF Tallied, PageStates
      <3>4. QED
        BY <3>1, <3>3
    <2>4. QED
      BY <1>4, <2>2, <2>3 DEF Release
  <1>5. CASE p.refs[n] # 0 /\ p.refs[n] # 1
    <2>1. LessAsked(p, {n}) = p.asked
      BY <1>1, <1>5 DEF LessAsked
    <2>2. QED
      BY <1>3, <1>5, <2>1 DEF Release
  <1>6. QED
    BY <1>2, <1>4, <1>5

LEMMA FiniteParts ==
  /\ \A S \in SUBSET (Clips \cup Leaves) : IsFiniteSet(S)
  /\ RootRels \subseteq {"selectedClip", "clips"} /\ ClipRels = {"text", "effects"}
  BY PageSyncAssumption, FS_Subset DEF Leaves, RootRels, ClipRels

LEMMA RetainMany ==
  ASSUME NEW p \in PageStates, NEW S \in SUBSET Nodes, IsFiniteSet(S)
  PROVE  RetainAll(p, S) = Tallied(p, MoreRefs(p, S), MoreAsked(p, S))
  <1>1. PICK it : FoldsSet("retain", "", p, it, S) /\ RetainAll(p, S) = it[S]
    BY PageFolds
  <1>2. p.refs \in [Nodes -> Nat] /\ p.asked \in [Nodes -> Answers]
    BY DEF PageStates
  <1> DEFINE T == {s \in SUBSET S : it[s] = Tallied(p, MoreRefs(p, s), MoreAsked(p, s))}
  <1>3. {} \in T
    <2>1. it[{}] = p
      BY <1>1 DEF FoldsSet
    <2>2. MoreRefs(p, {}) = p.refs /\ MoreAsked(p, {}) = p.asked
      BY <1>2 DEF MoreRefs, MoreAsked
    <2>3. QED
      BY <1>2, <2>1, <2>2, TalliedPage
  <1>4. ASSUME NEW s \in SUBSET S, s # {}, s \ {Picked(s)} \in T PROVE s \in T
    <2> DEFINE x == Picked(s)
               r == s \ {x}
               q == Tallied(p, MoreRefs(p, r), MoreAsked(p, r))
    <2>1. x \in s /\ x \in Nodes
      BY <1>4 DEF Picked
    <2> HIDE DEF x
    <2>2. it[s] = Retain(it[r], x)
      BY <1>1, <1>4 DEF FoldsSet, PageStep, x
    <2>3. it[r] = q
      BY <1>4 DEF x
    <2>4. q \in PageStates /\ q.refs = MoreRefs(p, r) /\ q.asked = MoreAsked(p, r)
      BY TalliedPage, TallyTypes
    <2>5. Retain(q, x) = Tallied(p, MoreRefs(q, {x}), MoreAsked(q, {x}))
      BY <2>1, <2>4, RetainOne, TalliedPage, TallyTypes
    <2> HIDE DEF q
    <2>6. MoreRefs(q, {x}) = MoreRefs(p, s)
      BY <2>1, <2>4 DEF MoreRefs
    <2>7. MoreAsked(q, {x}) = MoreAsked(p, s)
      BY <2>1, <2>4 DEF MoreRefs, MoreAsked
    <2>8. QED
      BY <2>2, <2>3, <2>5, <2>6, <2>7
  <1> HIDE DEF T
  <1>5. S \in T
    BY <1>3, <1>4, SetInduction
  <1>6. QED
    BY <1>1, <1>5 DEF T

LEMMA ReleaseMany ==
  ASSUME NEW p \in PageStates, NEW S \in SUBSET Nodes, IsFiniteSet(S)
  PROVE  ReleaseAll(p, S) = Tallied(p, LessRefs(p, S), LessAsked(p, S))
  <1>1. PICK it : FoldsSet("release", "", p, it, S) /\ ReleaseAll(p, S) = it[S]
    BY PageFolds
  <1>2. p.refs \in [Nodes -> Nat] /\ p.asked \in [Nodes -> Answers]
    BY DEF PageStates
  <1> DEFINE T == {s \in SUBSET S : it[s] = Tallied(p, LessRefs(p, s), LessAsked(p, s))}
  <1>3. {} \in T
    <2>1. it[{}] = p
      BY <1>1 DEF FoldsSet
    <2>2. LessRefs(p, {}) = p.refs /\ LessAsked(p, {}) = p.asked
      BY <1>2 DEF LessRefs, LessAsked
    <2>3. QED
      BY <1>2, <2>1, <2>2, TalliedPage
  <1>4. ASSUME NEW s \in SUBSET S, s # {}, s \ {Picked(s)} \in T PROVE s \in T
    <2> DEFINE x == Picked(s)
               r == s \ {x}
               q == Tallied(p, LessRefs(p, r), LessAsked(p, r))
    <2>1. x \in s /\ x \in Nodes
      BY <1>4 DEF Picked
    <2> HIDE DEF x
    <2>2. it[s] = Release(it[r], x)
      BY <1>1, <1>4 DEF FoldsSet, PageStep, x
    <2>3. it[r] = q
      BY <1>4 DEF x
    <2>4. q \in PageStates /\ q.refs = LessRefs(p, r) /\ q.asked = LessAsked(p, r)
      BY TalliedPage, TallyTypes
    <2>5. Release(q, x) = Tallied(p, LessRefs(q, {x}), LessAsked(q, {x}))
      BY <2>1, <2>4, ReleaseOne, TalliedPage, TallyTypes
    <2> HIDE DEF q
    <2>6. LessRefs(q, {x}) = LessRefs(p, s)
      BY <2>1, <2>4 DEF LessRefs
    <2>7. LessAsked(q, {x}) = LessAsked(p, s)
      BY <2>1, <2>4 DEF LessRefs, LessAsked
    <2>8. QED
      BY <2>2, <2>3, <2>5, <2>6, <2>7
  <1> HIDE DEF T
  <1>5. S \in T
    BY <1>3, <1>4, SetInduction
  <1>6. QED
    BY <1>1, <1>5 DEF T

-----------------------------------------------------------------------------
(* The places a page mounts shapes at: its root, the clips of each relation of the root, and the leaves. *)

RootPlace == <<None, None, "root">>
ClipPlace(via) == <<via, None, "clip">>
Places == {RootPlace} \cup {ClipPlace(via) : via \in RootRels} \cup Ways

Spots(p) == [x \in Places |-> CASE x[3] = "root" -> {p.mounted} \ {None}
                                [] x[3] = "clip" -> p.clips[x[1]]
                                [] OTHER -> p.leaves[x]]

CountedIn(spots, refs) == \A n \in Nodes : Cardinality({x \in Places : n \in spots[x]}) <= refs[n]

LEMMA FinitePair ==
  ASSUME NEW a, NEW b
  PROVE  IsFiniteSet({a, b})
  <1>1. IsFiniteSet({a}) /\ {a, b} = {a} \cup {b}
    BY FS_Singleton
  <1>2. IsFiniteSet({a} \cup {b})
    BY <1>1, FS_AddElement
  <1>3. QED
    BY <1>1, <1>2

LEMMA FinitePlaces == IsFiniteSet(Places)
  <1>1. IsFiniteSet(Clips)
    BY FiniteParts
  <1>2. IsFiniteSet(RootRels) /\ IsFiniteSet(ClipRels)
    BY FinitePair DEF RootRels, ClipRels
  <1>3. IsFiniteSet(RootRels \X Clips)
    BY <1>1, <1>2, FS_Product
  <1>4. IsFiniteSet((RootRels \X Clips) \X ClipRels)
    BY <1>2, <1>3, FS_Product
  <1>5. IsFiniteSet(Ways)
    <2> DEFINE f == [w \in Ways |-> <<<<w[1], w[2]>>, w[3]>>]
    <2>1. f \in Injection(Ways, (RootRels \X Clips) \X ClipRels)
      <3>1. f \in [Ways -> (RootRels \X Clips) \X ClipRels]
        BY DEF Ways
      <3>2. \A v, w \in Ways : f[v] = f[w] => v = w
        BY DEF Ways
      <3>3. QED
        BY <3>1, <3>2 DEF Injection, IsInjective
    <2>2. QED
      BY <1>4, <2>1, FS_Injection
  <1>6. IsFiniteSet({ClipPlace(via) : via \in RootRels})
    <2>1. {ClipPlace(via) : via \in RootRels} = {ClipPlace("selectedClip"), ClipPlace("clips")}
      BY DEF RootRels
    <2>2. QED
      BY <2>1, FinitePair
  <1>7. QED
    BY <1>5, <1>6, FS_Union, FS_Singleton DEF Places

MoreAt(spots, after, S, x) == (\A y \in Places : y # x => after[y] = spots[y]) /\ after[x] \subseteq spots[x] \cup S
LessAt(spots, after, S, x) ==
  (\A y \in Places : y # x => after[y] = spots[y]) /\ S \subseteq spots[x] /\ after[x] \subseteq spots[x] \ S
CountsMore(refs, more, S) == \A n \in Nodes : more[n] = IF n \in S THEN refs[n] + 1 ELSE refs[n]
CountsLess(refs, less, S) == \A n \in Nodes : less[n] = IF n \in S /\ refs[n] > 0 THEN refs[n] - 1 ELSE refs[n]

(* Something is mounted at a place and counted. *)
LEMMA MoreCounted ==
  ASSUME NEW spots, NEW after, NEW S, NEW x \in Places,
         NEW refs \in [Nodes -> Nat], NEW more \in [Nodes -> Nat], CountedIn(spots, refs),
         MoreAt(spots, after, S, x), CountsMore(refs, more, S)
  PROVE  CountedIn(after, more)
  <1> SUFFICES ASSUME NEW n \in Nodes PROVE Cardinality({y \in Places : n \in after[y]}) <= more[n]
    BY DEF CountedIn
  <1> DEFINE A == {y \in Places : n \in spots[y]}
             B == {y \in Places : n \in after[y]}
  <1>1. IsFiniteSet(A) /\ IsFiniteSet(B) /\ IsFiniteSet(A \cup {x}) /\ Cardinality(A) \in Nat /\ Cardinality(B) \in Nat
    BY FinitePlaces, FS_Subset, FS_CardinalityType, FS_AddElement
  <1>2. Cardinality(A) <= refs[n]
    BY DEF CountedIn
  <1>3. CASE n \in S
    <2>1. B \subseteq A \cup {x}
      BY DEF MoreAt
    <2>2. Cardinality(B) <= Cardinality(A \cup {x})
      BY <1>1, <2>1, FS_Subset
    <2>3. Cardinality(A \cup {x}) <= Cardinality(A) + 1
      <3> HIDE DEF A
      <3>1. Cardinality(A \cup {x}) = IF x \in A THEN Cardinality(A) ELSE Cardinality(A) + 1
        BY <1>1, FS_AddElement
      <3>2. QED
        BY <1>1, <3>1
    <2>4. Cardinality(A \cup {x}) \in Nat
      BY <1>1, FS_CardinalityType
    <2> HIDE DEF A, B
    <2>5. QED
      BY <1>1, <1>2, <1>3, <2>2, <2>3, <2>4 DEF B, CountsMore
  <1>4. CASE n \notin S
    <2>1. B \subseteq A
      BY <1>4 DEF MoreAt
    <2>2. Cardinality(B) <= Cardinality(A)
      BY <1>1, <2>1, FS_Subset
    <2> HIDE DEF A, B
    <2>3. QED
      BY <1>1, <1>2, <1>4, <2>2 DEF B, CountsMore
  <1>5. QED
    BY <1>3, <1>4

(* Something that was mounted at a place is taken away and no longer counted. *)
LEMMA LessCounted ==
  ASSUME NEW spots, NEW after, NEW S, NEW x \in Places,
         NEW refs \in [Nodes -> Nat], NEW less \in [Nodes -> Nat], CountedIn(spots, refs),
         LessAt(spots, after, S, x), CountsLess(refs, less, S)
  PROVE  CountedIn(after, less)
  <1> SUFFICES ASSUME NEW n \in Nodes PROVE Cardinality({y \in Places : n \in after[y]}) <= less[n]
    BY DEF CountedIn
  <1> DEFINE A == {y \in Places : n \in spots[y]}
             B == {y \in Places : n \in after[y]}
  <1>1. IsFiniteSet(A) /\ IsFiniteSet(B) /\ IsFiniteSet(A \ {x}) /\ Cardinality(A) \in Nat /\ Cardinality(B) \in Nat
    BY FinitePlaces, FS_Subset, FS_CardinalityType, FS_RemoveElement
  <1>2. Cardinality(A) <= refs[n]
    BY DEF CountedIn
  <1>3. CASE n \in S
    <2>1. B \subseteq A \ {x} /\ x \in A
      BY <1>3 DEF LessAt
    <2>2. Cardinality(B) <= Cardinality(A \ {x})
      BY <1>1, <2>1, FS_Subset
    <2>3. Cardinality(A \ {x}) = Cardinality(A) - 1
      BY <1>1, <2>1, FS_RemoveElement
    <2> HIDE DEF A, B
    <2>4. QED
      BY <1>1, <1>2, <1>3, <2>2, <2>3 DEF B, CountsLess
  <1>4. CASE n \notin S
    <2>1. B \subseteq A
      BY <1>4 DEF LessAt
    <2>2. Cardinality(B) <= Cardinality(A)
      BY <1>1, <2>1, FS_Subset
    <2> HIDE DEF A, B
    <2>3. QED
      BY <1>1, <1>2, <1>4, <2>2 DEF B, CountsLess
  <1>5. QED
    BY <1>3, <1>4

Counted(p) == CountedIn(Spots(p), p.refs)
AsksWhatCounts(p) == \A n \in Nodes : p.asked[n] = "yes" <=> p.refs[n] > 0
Idle(p) == \A n \in Nodes : p.refs[n] = 0 /\ p.asked[n] = "unset"

(* All but the registry and what is mounted below the root. *)
Alike(p, q) ==
  /\ q.conn = p.conn /\ q.gone = p.gone /\ q.booted = p.booted /\ q.ready = p.ready /\ q.session = p.session
  /\ q.key = p.key /\ q.error = p.error /\ q.opened = p.opened /\ q.root = p.root /\ q.held = p.held
  /\ q.published = p.published

(* A change of the page that leaves the registry as good as it was. *)
Keeps(p, q) ==
  /\ q \in PageStates /\ Alike(p, q)
  /\ AsksWhatCounts(p) => AsksWhatCounts(q)
  /\ Counted(p) => Counted(q)
  /\ \A n \in Nodes : p.asked[n] # "unset" => q.asked[n] # "unset"

LEMMA KeepsAll ==
  ASSUME NEW p, NEW q, NEW r, Keeps(p, q), Keeps(q, r)
  PROVE  Keeps(p, r)
  BY DEF Keeps, Alike

LEMMA KeepsSelf ==
  ASSUME NEW p \in PageStates
  PROVE  Keeps(p, p)
  BY DEF Keeps, Alike

LEMMA PageTypes ==
  ASSUME NEW p \in PageStates
  PROVE  /\ p.refs \in [Nodes -> Nat] /\ p.asked \in [Nodes -> Answers] /\ p.held \in HeldValues
         /\ p.mounted \in Sessions \cup {None} /\ p.root \in Sessions \cup {None}
         /\ p.clips \in [RootRels -> SUBSET Clips] /\ p.leaves \in [Ways -> SUBSET Leaves]
         /\ \A r \in ClipRels, c \in Clips : p.held[<<c, r>>] \subseteq Leaves /\ p.held[<<c, r>>] \subseteq Nodes
         /\ \A via \in RootRels, s \in Sessions : p.held[<<s, via>>] \subseteq Clips
         /\ \A S \in SUBSET Nodes : S \subseteq Clips \/ S \subseteq Leaves \/ (\E x : S = {x}) => IsFiniteSet(S)
  <1>1. /\ p.refs \in [Nodes -> Nat] /\ p.asked \in [Nodes -> Answers] /\ p.held \in HeldValues
        /\ p.mounted \in Sessions \cup {None} /\ p.root \in Sessions \cup {None}
        /\ p.clips \in [RootRels -> SUBSET Clips] /\ p.leaves \in [Ways -> SUBSET Leaves]
    BY DEF PageStates
  <1>2. ASSUME NEW r \in ClipRels, NEW c \in Clips PROVE p.held[<<c, r>>] \subseteq Leaves
    <2>1. <<c, r>> \in Links /\ r \notin RootRels
      BY DEF Links, RootRels, ClipRels
    <2>2. QED
      BY <1>1, <2>1 DEF HeldValues, UnderLink
  <1>3. ASSUME NEW via \in RootRels, NEW s \in Sessions PROVE p.held[<<s, via>>] \subseteq Clips
    <2>1. <<s, via>> \in Links
      BY DEF Links
    <2>2. QED
      BY <1>1, <2>1 DEF HeldValues, UnderLink
  <1>4. ASSUME NEW S \in SUBSET Nodes, S \subseteq Clips \/ S \subseteq Leaves \/ (\E x : S = {x}) PROVE IsFiniteSet(S)
    BY <1>4, FiniteParts, FS_Singleton
  <1>5. Leaves \subseteq Nodes
    BY DEF Nodes
  <1>6. QED
    BY <1>1, <1>2, <1>3, <1>4, <1>5

LEMMA PlacesOf ==
  /\ \A x \in Places : x = RootPlace \/ (\E via \in RootRels : x = ClipPlace(via)) \/ x \in Ways
  /\ RootPlace \in Places /\ \A via \in RootRels : ClipPlace(via) \in Places /\ ClipPlace(via) # RootPlace
  /\ \A w \in Ways : w \in Places /\ w # RootPlace /\ \A via \in RootRels : w # ClipPlace(via)
  /\ \A v, via \in RootRels : ClipPlace(v) = ClipPlace(via) => v = via
  BY DEF Places, RootPlace, ClipPlace, Ways, RootRels, ClipRels

LEMMA SpotsOf ==
  ASSUME NEW p
  PROVE  /\ Spots(p)[RootPlace] = {p.mounted} \ {None}
         /\ \A via \in RootRels : Spots(p)[ClipPlace(via)] = p.clips[via]
         /\ \A w \in Ways : Spots(p)[w] = p.leaves[w]
  <1>1. RootPlace[3] = "root" /\ \A via \in RootRels : ClipPlace(via)[3] = "clip" /\ ClipPlace(via)[1] = via
    BY DEF RootPlace, ClipPlace
  <1>2. \A w \in Ways : w[3] # "root" /\ w[3] # "clip"
    BY DEF Ways, ClipRels
  <1>3. QED
    BY <1>1, <1>2, PlacesOf DEF Spots

LEMMA TallyKeeps ==
  ASSUME NEW p \in PageStates, NEW S \in SUBSET Nodes
  PROVE  /\ LET q == Tallied(p, MoreRefs(p, S), MoreAsked(p, S))
            IN /\ AsksWhatCounts(p) => AsksWhatCounts(q)
               /\ \A n \in Nodes : p.asked[n] # "unset" => q.asked[n] # "unset"
         /\ LET q == Tallied(p, LessRefs(p, S), LessAsked(p, S))
            IN /\ AsksWhatCounts(p) => AsksWhatCounts(q)
               /\ Idle(p) => Idle(q)
               /\ \A n \in Nodes : p.asked[n] # "unset" => q.asked[n] # "unset"
  <1> DEFINE more == Tallied(p, MoreRefs(p, S), MoreAsked(p, S))
             less == Tallied(p, LessRefs(p, S), LessAsked(p, S))
  <1>1. /\ more.refs = MoreRefs(p, S) /\ more.asked = MoreAsked(p, S)
        /\ less.refs = LessRefs(p, S) /\ less.asked = LessAsked(p, S)
    BY TalliedPage, TallyTypes
  <1>2. p.refs \in [Nodes -> Nat]
    BY DEF PageStates
  <1> HIDE DEF more, less
  <1>3. (AsksWhatCounts(p) => AsksWhatCounts(more)) /\ \A n \in Nodes : p.asked[n] # "unset" => more.asked[n] # "unset"
    BY <1>1, <1>2 DEF AsksWhatCounts, MoreRefs, MoreAsked
  <1>4. (AsksWhatCounts(p) => AsksWhatCounts(less)) /\ \A n \in Nodes : p.asked[n] # "unset" => less.asked[n] # "unset"
    BY <1>1, <1>2 DEF AsksWhatCounts, LessRefs, LessAsked
  <1>5. Idle(p) => Idle(less)
    BY <1>1, <1>2 DEF Idle, LessRefs, LessAsked
  <1>6. QED
    BY <1>3, <1>4, <1>5 DEF more, less

LEMMA TallySame ==
  ASSUME NEW p \in PageStates, NEW refs \in [Nodes -> Nat], NEW asked \in [Nodes -> Answers]
  PROVE  LET q == Tallied(p, refs, asked) IN Alike(p, q) /\ q.mounted = p.mounted /\ q.clips = p.clips /\ q.leaves = p.leaves
  BY DEF Tallied, PageStates, Alike

(* Nodes are mounted at a place, and retained. *)
LEMMA Retained ==
  ASSUME NEW p \in PageStates, NEW r \in PageStates, NEW S \in SUBSET Nodes, NEW x \in Places,
         Alike(p, r), r.refs = p.refs, r.asked = p.asked,
         \A y \in Places : y # x => Spots(r)[y] = Spots(p)[y],
         Spots(r)[x] \subseteq Spots(p)[x] \cup S
  PROVE  LET q == Tallied(r, MoreRefs(r, S), MoreAsked(r, S))
         IN Keeps(p, q) /\ q.mounted = r.mounted /\ q.clips = r.clips /\ q.leaves = r.leaves
  <1> DEFINE q == Tallied(r, MoreRefs(r, S), MoreAsked(r, S))
  <1>1. q \in PageStates /\ q.refs = MoreRefs(r, S) /\ Alike(r, q) /\ q.mounted = r.mounted /\ q.clips = r.clips /\ q.leaves = r.leaves
    BY TalliedPage, TallyTypes, TallySame
  <1>2. (AsksWhatCounts(r) => AsksWhatCounts(q)) /\ \A n \in Nodes : r.asked[n] # "unset" => q.asked[n] # "unset"
    BY TallyKeeps
  <1> HIDE DEF q
  <1>3. Counted(p) => Counted(q)
    <2>1. Spots(q) = Spots(r)
      BY <1>1 DEF Spots
    <2>2. CountsMore(p.refs, q.refs, S) /\ MoreAt(Spots(p), Spots(r), S, x)
      BY <1>1 DEF MoreRefs, CountsMore, MoreAt
    <2>3. p.refs \in [Nodes -> Nat] /\ q.refs \in [Nodes -> Nat]
      BY <1>1, PageTypes
    <2>4. ASSUME CountedIn(Spots(p), p.refs) PROVE CountedIn(Spots(r), q.refs)
      BY <2>2, <2>3, <2>4, MoreCounted
    <2>5. QED
      BY <2>1, <2>4 DEF Counted
  <1>4. AsksWhatCounts(p) => AsksWhatCounts(r)
    BY DEF AsksWhatCounts
  <1>5. Keeps(p, q)
    BY <1>1, <1>2, <1>3, <1>4 DEF Keeps, Alike
  <1>6. QED
    BY <1>1, <1>5 DEF q

(* Nodes are no longer mounted at a place, and released. *)
LEMMA Released ==
  ASSUME NEW p \in PageStates, NEW r \in PageStates, NEW S \in SUBSET Nodes, NEW x \in Places,
         Alike(p, r), r.refs = p.refs, r.asked = p.asked,
         \A y \in Places : y # x => Spots(r)[y] = Spots(p)[y],
         S \subseteq Spots(p)[x], Spots(r)[x] \subseteq Spots(p)[x] \ S
  PROVE  LET q == Tallied(r, LessRefs(r, S), LessAsked(r, S))
         IN Keeps(p, q) /\ (Idle(p) => Idle(q)) /\ q.mounted = r.mounted /\ q.clips = r.clips /\ q.leaves = r.leaves
  <1> DEFINE q == Tallied(r, LessRefs(r, S), LessAsked(r, S))
  <1>1. q \in PageStates /\ q.refs = LessRefs(r, S) /\ Alike(r, q) /\ q.mounted = r.mounted /\ q.clips = r.clips /\ q.leaves = r.leaves
    BY TalliedPage, TallyTypes, TallySame
  <1>2. (AsksWhatCounts(r) => AsksWhatCounts(q)) /\ (Idle(r) => Idle(q)) /\ \A n \in Nodes : r.asked[n] # "unset" => q.asked[n] # "unset"
    BY TallyKeeps
  <1> HIDE DEF q
  <1>3. Counted(p) => Counted(q)
    <2>1. Spots(q) = Spots(r)
      BY <1>1 DEF Spots
    <2>2. CountsLess(p.refs, q.refs, S) /\ LessAt(Spots(p), Spots(r), S, x)
      BY <1>1 DEF LessRefs, CountsLess, LessAt
    <2>3. p.refs \in [Nodes -> Nat] /\ q.refs \in [Nodes -> Nat]
      BY <1>1, PageTypes
    <2>4. ASSUME CountedIn(Spots(p), p.refs) PROVE CountedIn(Spots(r), q.refs)
      BY <2>2, <2>3, <2>4, LessCounted
    <2>5. QED
      BY <2>1, <2>4 DEF Counted
  <1>4. (AsksWhatCounts(p) => AsksWhatCounts(r)) /\ (Idle(p) => Idle(r))
    BY DEF AsksWhatCounts, Idle
  <1>5. Keeps(p, q)
    BY <1>1, <1>2, <1>3, <1>4 DEF Keeps, Alike
  <1>6. QED
    BY <1>1, <1>2, <1>4, <1>5 DEF q

(* Only the leaves of a way, or only the clips of a relation, are set. *)
LeavesAre(p, r, w, S) ==
  /\ r \in PageStates /\ Alike(p, r) /\ r.refs = p.refs /\ r.asked = p.asked /\ r.mounted = p.mounted
  /\ r.clips = p.clips /\ r.leaves = [p.leaves EXCEPT ![w] = S]
  /\ \A y \in Places : y # w => Spots(r)[y] = Spots(p)[y]
  /\ Spots(r)[w] = S

ClipsAre(p, r, via, S) ==
  /\ r \in PageStates /\ Alike(p, r) /\ r.refs = p.refs /\ r.asked = p.asked /\ r.mounted = p.mounted
  /\ r.clips = [p.clips EXCEPT ![via] = S] /\ r.leaves = p.leaves
  /\ \A y \in Places : y # ClipPlace(via) => Spots(r)[y] = Spots(p)[y]
  /\ Spots(r)[ClipPlace(via)] = S

LEMMA LeavesSet ==
  ASSUME NEW p \in PageStates, NEW w \in Ways, NEW S \in SUBSET Leaves
  PROVE  LeavesAre(p, [p EXCEPT !.leaves[w] = S], w, S)
  <1> DEFINE r == [p EXCEPT !.leaves[w] = S]
  <1>1. /\ r \in PageStates /\ Alike(p, r) /\ r.refs = p.refs /\ r.asked = p.asked /\ r.mounted = p.mounted
        /\ r.clips = p.clips /\ r.leaves = [p.leaves EXCEPT ![w] = S]
    BY DEF PageStates, Alike
  <1> HIDE DEF r
  <1>2. p.leaves \in [Ways -> SUBSET Leaves]
    BY PageTypes
  <1>3. ASSUME NEW y \in Places, y # w PROVE Spots(r)[y] = Spots(p)[y]
    <2>1. CASE y = RootPlace
      <3>1. Spots(r)[RootPlace] = {r.mounted} \ {None} /\ Spots(p)[RootPlace] = {p.mounted} \ {None}
        BY SpotsOf
      <3>2. QED
        BY <1>1, <2>1, <3>1
    <2>2. CASE \E via \in RootRels : y = ClipPlace(via)
      <3>1. PICK via \in RootRels : y = ClipPlace(via)
        BY <2>2
      <3>2. Spots(r)[ClipPlace(via)] = r.clips[via] /\ Spots(p)[ClipPlace(via)] = p.clips[via]
        BY SpotsOf
      <3>3. QED
        BY <1>1, <3>1, <3>2
    <2>3. CASE y \in Ways
      BY <1>1, <1>2, <1>3, <2>3, SpotsOf
    <2>4. QED
      BY <2>1, <2>2, <2>3, PlacesOf
  <1>4. Spots(r)[w] = S
    BY <1>1, <1>2, SpotsOf
  <1>5. QED
    BY <1>1, <1>3, <1>4 DEF r, LeavesAre

LEMMA ClipsSet ==
  ASSUME NEW p \in PageStates, NEW via \in RootRels, NEW S \in SUBSET Clips
  PROVE  ClipsAre(p, [p EXCEPT !.clips[via] = S], via, S)
  <1> DEFINE r == [p EXCEPT !.clips[via] = S]
  <1>1. /\ r \in PageStates /\ Alike(p, r) /\ r.refs = p.refs /\ r.asked = p.asked /\ r.mounted = p.mounted
        /\ r.clips = [p.clips EXCEPT ![via] = S] /\ r.leaves = p.leaves
    BY DEF PageStates, Alike
  <1> HIDE DEF r
  <1>2. p.clips \in [RootRels -> SUBSET Clips]
    BY PageTypes
  <1>3. ASSUME NEW y \in Places, y # ClipPlace(via) PROVE Spots(r)[y] = Spots(p)[y]
    <2>1. CASE y = RootPlace
      <3>1. Spots(r)[RootPlace] = {r.mounted} \ {None} /\ Spots(p)[RootPlace] = {p.mounted} \ {None}
        BY SpotsOf
      <3>2. QED
        BY <1>1, <2>1, <3>1
    <2>2. CASE \E v \in RootRels : y = ClipPlace(v)
      <3>1. PICK v \in RootRels : y = ClipPlace(v)
        BY <2>2
      <3>2. v # via /\ r.clips[v] = p.clips[v]
        BY <1>1, <1>2, <1>3, <3>1
      <3>3. QED
        BY <3>1, <3>2, SpotsOf
    <2>3. CASE y \in Ways
      BY <1>1, <2>3, SpotsOf
    <2>4. QED
      BY <2>1, <2>2, <2>3, PlacesOf
  <1>4. Spots(r)[ClipPlace(via)] = S
    BY <1>1, <1>2, SpotsOf
  <1>5. QED
    BY <1>1, <1>3, <1>4 DEF r, ClipsAre

LEMMA MountLeavesKeeps ==
  ASSUME NEW p \in PageStates, NEW via \in RootRels, NEW c \in Clips, NEW r \in ClipRels
  PROVE  LET q == MountLeaves(p, via, c, r)
         IN /\ Keeps(p, q) /\ q.mounted = p.mounted /\ q.clips = p.clips
            /\ q.leaves = [p.leaves EXCEPT ![<<via, c, r>>] = p.held[<<c, r>>]]
  <1> DEFINE w == <<via, c, r>>
             S == p.held[<<c, r>>]
             s == [p EXCEPT !.leaves[w] = S]
             q == Tallied(s, MoreRefs(s, S), MoreAsked(s, S))
  <1>1. w \in Ways /\ w \in Places /\ S \in SUBSET Leaves /\ S \in SUBSET Nodes /\ IsFiniteSet(S)
    BY PageTypes, PlacesOf DEF Ways
  <1> HIDE DEF w, S
  <1>2. LeavesAre(p, s, w, S)
    BY <1>1, LeavesSet
  <1>3. MountLeaves(p, via, c, r) = RetainAll(s, S)
    BY DEF MountLeaves, w, S
  <1> HIDE DEF s
  <1>4. RetainAll(s, S) = q
    BY <1>1, <1>2, RetainMany DEF LeavesAre
  <1>5. Spots(s)[w] \subseteq Spots(p)[w] \cup S
    BY <1>2 DEF LeavesAre
  <1>6. Keeps(p, q) /\ q.mounted = s.mounted /\ q.clips = s.clips /\ q.leaves = s.leaves
    BY <1>1, <1>2, <1>5, Retained DEF LeavesAre
  <1> HIDE DEF q
  <1>7. QED
    BY <1>2, <1>3, <1>4, <1>6 DEF w, S, LeavesAre

LEMMA UnmountLeavesKeeps ==
  ASSUME NEW p \in PageStates, NEW via \in RootRels, NEW c \in Clips, NEW r \in ClipRels
  PROVE  LET q == UnmountLeaves(p, via, c, r)
         IN /\ Keeps(p, q) /\ (Idle(p) => Idle(q)) /\ q.mounted = p.mounted /\ q.clips = p.clips
            /\ q.leaves = [p.leaves EXCEPT ![<<via, c, r>>] = {}]
  <1> DEFINE w == <<via, c, r>>
             S == p.leaves[w]
             s == [p EXCEPT !.leaves[w] = {}]
             q == Tallied(s, LessRefs(s, S), LessAsked(s, S))
  <1>1. w \in Ways /\ w \in Places
    BY PlacesOf DEF Ways
  <1> HIDE DEF w
  <1>2. S \in SUBSET Leaves /\ S \in SUBSET Nodes /\ IsFiniteSet(S) /\ Spots(p)[w] = S
    BY <1>1, PageTypes, SpotsOf DEF Nodes
  <1> HIDE DEF S
  <1>3. LeavesAre(p, s, w, {})
    <2>1. {} \in SUBSET Leaves
      OBVIOUS
    <2>2. QED
      BY <1>1, <2>1, LeavesSet
  <1>4. UnmountLeaves(p, via, c, r) = ReleaseAll(s, S)
    BY DEF UnmountLeaves, w, S
  <1> HIDE DEF s
  <1>5. ReleaseAll(s, S) = q
    BY <1>2, <1>3, ReleaseMany DEF LeavesAre
  <1>6. S \subseteq Spots(p)[w] /\ Spots(s)[w] \subseteq Spots(p)[w] \ S
    BY <1>2, <1>3 DEF LeavesAre
  <1>7. Keeps(p, q) /\ (Idle(p) => Idle(q)) /\ q.mounted = s.mounted /\ q.clips = s.clips /\ q.leaves = s.leaves
    BY <1>1, <1>2, <1>3, <1>6, Released DEF LeavesAre
  <1> HIDE DEF q
  <1>8. QED
    BY <1>3, <1>4, <1>5, <1>7 DEF w, LeavesAre

LEMMA MountClipKeeps ==
  ASSUME NEW p \in PageStates, NEW via \in RootRels, NEW c \in Clips
  PROVE  LET q == MountClip(p, via, c)
         IN /\ Keeps(p, q) /\ q.mounted = p.mounted
            /\ q.clips = [p.clips EXCEPT ![via] = @ \cup {c}]
            /\ \A w \in Ways : q.leaves[w] = IF w[1] = via /\ w[2] = c THEN p.held[<<c, w[3]>>] ELSE p.leaves[w]
  <1> DEFINE S == p.clips[via] \cup {c}
             r == [p EXCEPT !.clips[via] = S]
             a == Retain(r, c)
             b == MountLeaves(a, via, c, "text")
             q == MountLeaves(b, via, c, "effects")
             x == ClipPlace(via)
  <1>0. p.clips \in [RootRels -> SUBSET Clips] /\ p.leaves \in [Ways -> SUBSET Leaves] /\ c \in Nodes
        /\ "text" \in ClipRels /\ "effects" \in ClipRels
    BY PageTypes DEF Nodes, ClipRels
  <1>1. S \in SUBSET Clips /\ {c} \in SUBSET Nodes /\ x \in Places /\ Spots(p)[x] = p.clips[via]
    BY <1>0, PlacesOf, SpotsOf
  <1>2. ClipsAre(p, r, via, S)
    BY <1>1, ClipsSet
  <1>3. MountClip(p, via, c) = q
    BY DEF MountClip
  <1> HIDE DEF r, x
  <1>4. a = Tallied(r, MoreRefs(r, {c}), MoreAsked(r, {c}))
    BY <1>0, <1>2, RetainOne DEF ClipsAre
  <1>5. Keeps(p, a) /\ a.mounted = r.mounted /\ a.clips = r.clips /\ a.leaves = r.leaves
    <2>1. Spots(r)[x] \subseteq Spots(p)[x] \cup {c}
      BY <1>1, <1>2 DEF x, ClipsAre
    <2>2. \A y \in Places : y # x => Spots(r)[y] = Spots(p)[y]
      BY <1>2 DEF x, ClipsAre
    <2>3. QED
      BY <1>1, <1>2, <1>4, <2>1, <2>2, Retained DEF ClipsAre
  <1> HIDE DEF a
  <1>6. a \in PageStates /\ a.held = p.held
    BY <1>5 DEF Keeps, Alike
  <1>7. /\ Keeps(a, b) /\ b.mounted = a.mounted /\ b.clips = a.clips
        /\ b.leaves = [a.leaves EXCEPT ![<<via, c, "text">>] = a.held[<<c, "text">>]]
    BY <1>0, <1>6, MountLeavesKeeps
  <1> HIDE DEF b
  <1>8. b \in PageStates /\ b.held = p.held
    BY <1>6, <1>7 DEF Keeps, Alike
  <1>9. /\ Keeps(b, q) /\ q.mounted = b.mounted /\ q.clips = b.clips
        /\ q.leaves = [b.leaves EXCEPT ![<<via, c, "effects">>] = b.held[<<c, "effects">>]]
    BY <1>0, <1>8, MountLeavesKeeps
  <1> HIDE DEF q
  <1>10. Keeps(p, q)
    BY <1>5, <1>7, <1>9, KeepsAll
  <1>11. q.mounted = p.mounted /\ q.clips = [p.clips EXCEPT ![via] = @ \cup {c}]
    BY <1>2, <1>5, <1>7, <1>9 DEF ClipsAre
  <1>12. ASSUME NEW w \in Ways
         PROVE  q.leaves[w] = IF w[1] = via /\ w[2] = c THEN p.held[<<c, w[3]>>] ELSE p.leaves[w]
    <2>1. w = <<w[1], w[2], w[3]>> /\ w[3] \in {"text", "effects"}
      BY DEF Ways, ClipRels
    <2>2. q.leaves = [p.leaves EXCEPT ![<<via, c, "text">>] = p.held[<<c, "text">>], ![<<via, c, "effects">>] = p.held[<<c, "effects">>]]
      BY <1>2, <1>5, <1>6, <1>7, <1>8, <1>9 DEF ClipsAre
    <2>3. <<via, c, "text">> \in Ways /\ <<via, c, "effects">> \in Ways
      BY <1>0 DEF Ways
    <2>4. QED
      BY <1>0, <2>1, <2>2, <2>3
  <1>13. QED
    BY <1>3, <1>10, <1>11, <1>12

LEMMA UnmountClipKeeps ==
  ASSUME NEW p \in PageStates, NEW via \in RootRels, NEW c \in Clips, c \in p.clips[via]
  PROVE  LET q == UnmountClip(p, via, c)
         IN /\ Keeps(p, q) /\ (Idle(p) => Idle(q)) /\ q.mounted = p.mounted
            /\ q.clips = [p.clips EXCEPT ![via] = @ \ {c}]
            /\ \A w \in Ways : q.leaves[w] = IF w[1] = via /\ w[2] = c THEN {} ELSE p.leaves[w]
  <1> DEFINE a == UnmountLeaves(p, via, c, "effects")
             b == UnmountLeaves(a, via, c, "text")
             S == b.clips[via] \ {c}
             r == [b EXCEPT !.clips[via] = S]
             q == Release(r, c)
             x == ClipPlace(via)
  <1>0. p.clips \in [RootRels -> SUBSET Clips] /\ p.leaves \in [Ways -> SUBSET Leaves] /\ c \in Nodes
        /\ "text" \in ClipRels /\ "effects" \in ClipRels /\ x \in Places
    BY PageTypes, PlacesOf DEF Nodes, ClipRels
  <1>1. /\ Keeps(p, a) /\ (Idle(p) => Idle(a)) /\ a.mounted = p.mounted /\ a.clips = p.clips
        /\ a.leaves = [p.leaves EXCEPT ![<<via, c, "effects">>] = {}]
    BY <1>0, UnmountLeavesKeeps
  <1> HIDE DEF a
  <1>2. a \in PageStates
    BY <1>1 DEF Keeps
  <1>3. /\ Keeps(a, b) /\ (Idle(a) => Idle(b)) /\ b.mounted = a.mounted /\ b.clips = a.clips
        /\ b.leaves = [a.leaves EXCEPT ![<<via, c, "text">>] = {}]
    BY <1>0, <1>2, UnmountLeavesKeeps
  <1>4. UnmountClip(p, via, c) = q
    BY DEF UnmountClip, a
  <1> HIDE DEF b
  <1>5. b \in PageStates /\ b.clips = p.clips
    BY <1>1, <1>3 DEF Keeps
  <1>6. S \in SUBSET Clips /\ {c} \in SUBSET Nodes /\ Spots(b)[x] = p.clips[via]
    BY <1>0, <1>5, SpotsOf
  <1> HIDE DEF S
  <1>7. ClipsAre(b, r, via, S)
    BY <1>5, <1>6, ClipsSet
  <1>8. /\ Spots(r)[x] \subseteq Spots(b)[x] \ {c} /\ {c} \subseteq Spots(b)[x]
        /\ \A y \in Places : y # x => Spots(r)[y] = Spots(b)[y]
    BY <1>5, <1>6, <1>7 DEF S, ClipsAre
  <1> HIDE DEF r, x
  <1>9. q = Tallied(r, LessRefs(r, {c}), LessAsked(r, {c}))
    BY <1>0, <1>7, ReleaseOne DEF ClipsAre
  <1>10. Keeps(b, q) /\ (Idle(b) => Idle(q)) /\ q.mounted = r.mounted /\ q.clips = r.clips /\ q.leaves = r.leaves
    BY <1>0, <1>5, <1>6, <1>7, <1>8, <1>9, Released DEF ClipsAre
  <1> HIDE DEF q
  <1>11. Keeps(p, q)
    BY <1>1, <1>3, <1>10, KeepsAll
  <1>12. (Idle(p) => Idle(q)) /\ q.mounted = p.mounted /\ q.clips = [p.clips EXCEPT ![via] = @ \ {c}]
    BY <1>1, <1>3, <1>5, <1>7, <1>10 DEF S, ClipsAre
  <1>13. ASSUME NEW w \in Ways
         PROVE  q.leaves[w] = IF w[1] = via /\ w[2] = c THEN {} ELSE p.leaves[w]
    <2>1. w = <<w[1], w[2], w[3]>> /\ w[3] \in {"text", "effects"}
      BY DEF Ways, ClipRels
    <2>2. q.leaves = [p.leaves EXCEPT ![<<via, c, "effects">>] = {}, ![<<via, c, "text">>] = {}]
      BY <1>1, <1>3, <1>7, <1>10 DEF ClipsAre
    <2>3. <<via, c, "text">> \in Ways /\ <<via, c, "effects">> \in Ways
      BY <1>0 DEF Ways
    <2> DEFINE d == <<via, c, "effects">>
               e == <<via, c, "text">>
               h == p.leaves
    <2>4. (w = d \/ w = e) <=> (w[1] = via /\ w[2] = c)
      BY <2>1
    <2>5. d \in Ways /\ e \in Ways /\ q.leaves = [h EXCEPT ![d] = {}, ![e] = {}]
      BY <2>2, <2>3
    <2>6. h \in [Ways -> SUBSET Leaves]
      BY <1>0
    <2> HIDE DEF d, e, h
    <2>7. q.leaves[w] = IF w = d \/ w = e THEN {} ELSE h[w]
      BY <2>5, <2>6
    <2>8. QED
      BY <2>4, <2>7 DEF h
  <1>14. QED
    BY <1>4, <1>11, <1>12, <1>13

MountedAt(p, q, via, clips) ==
  /\ Keeps(p, q) /\ q.mounted = p.mounted /\ q.clips = [p.clips EXCEPT ![via] = @ \cup clips]
  /\ \A w \in Ways : q.leaves[w] = IF w[1] = via /\ w[2] \in clips THEN p.held[<<w[2], w[3]>>] ELSE p.leaves[w]

UnmountedAt(p, q, via, clips) ==
  /\ Keeps(p, q) /\ (Idle(p) => Idle(q)) /\ q.mounted = p.mounted /\ q.clips = [p.clips EXCEPT ![via] = @ \ clips]
  /\ \A w \in Ways : q.leaves[w] = IF w[1] = via /\ w[2] \in clips THEN {} ELSE p.leaves[w]

LEMMA MountClipsKeeps ==
  ASSUME NEW p \in PageStates, NEW via \in RootRels, NEW S \in SUBSET Clips
  PROVE  MountedAt(p, MountClips(p, via, S), via, S)
  <1>0. IsFiniteSet(S) /\ p.clips \in [RootRels -> SUBSET Clips] /\ p.leaves \in [Ways -> SUBSET Leaves]
    BY FiniteParts, PageTypes
  <1>1. PICK it : FoldsSet("mount", via, p, it, S) /\ MountClips(p, via, S) = it[S]
    BY <1>0, PageFolds
  <1> DEFINE T == {s \in SUBSET S : MountedAt(p, it[s], via, s)}
  <1>2. {} \in T
    <2>1. it[{}] = p
      BY <1>1 DEF FoldsSet
    <2>2. MountedAt(p, p, via, {})
      BY <1>0, KeepsSelf DEF MountedAt
    <2>3. QED
      BY <2>1, <2>2
  <1>3. ASSUME NEW s \in SUBSET S, s # {}, s \ {Picked(s)} \in T PROVE s \in T
    <2> DEFINE c == Picked(s)
               r == s \ {c}
               q == it[r]
               n == MountClip(q, via, c)
    <2>1. c \in s /\ c \in Clips
      BY <1>3 DEF Picked
    <2>2. it[s] = n
      BY <1>1, <1>3 DEF FoldsSet, PageStep
    <2>3. MountedAt(p, q, via, r)
      BY <1>3
    <2> HIDE DEF c, q
    <2>4. q \in PageStates /\ q.held = p.held
      BY <2>3 DEF MountedAt, Keeps, Alike
    <2>5. /\ Keeps(q, n) /\ n.mounted = q.mounted
          /\ n.clips = [q.clips EXCEPT ![via] = @ \cup {c}]
          /\ \A w \in Ways : n.leaves[w] = IF w[1] = via /\ w[2] = c THEN q.held[<<c, w[3]>>] ELSE q.leaves[w]
      BY <2>1, <2>4, MountClipKeeps
    <2> HIDE DEF n
    <2>6. Keeps(p, n) /\ n.mounted = p.mounted
      BY <2>3, <2>5, KeepsAll DEF MountedAt
    <2>7. n.clips = [p.clips EXCEPT ![via] = @ \cup s]
      <3>1. n.clips = [[p.clips EXCEPT ![via] = @ \cup r] EXCEPT ![via] = @ \cup {c}]
        BY <2>3, <2>5 DEF MountedAt
      <3>2. (p.clips[via] \cup r) \cup {c} = p.clips[via] \cup s
        BY <2>1
      <3>3. QED
        BY <1>0, <3>1, <3>2
    <2>8. ASSUME NEW w \in Ways
          PROVE  n.leaves[w] = IF w[1] = via /\ w[2] \in s THEN p.held[<<w[2], w[3]>>] ELSE p.leaves[w]
      <3>1. q.leaves[w] = IF w[1] = via /\ w[2] \in r THEN p.held[<<w[2], w[3]>>] ELSE p.leaves[w]
        BY <2>3 DEF MountedAt
      <3>2. w[2] \in s <=> w[2] = c \/ w[2] \in r
        BY <2>1
      <3>3. QED
        BY <2>4, <2>5, <3>1, <3>2
    <2>9. MountedAt(p, n, via, s)
      BY <2>6, <2>7, <2>8 DEF MountedAt
    <2>10. QED
      BY <2>2, <2>9
  <1> HIDE DEF T
  <1>4. S \in T
    BY <1>0, <1>2, <1>3, SetInduction
  <1>5. QED
    BY <1>1, <1>4 DEF T

LEMMA UnmountClipsKeeps ==
  ASSUME NEW p \in PageStates, NEW via \in RootRels, NEW S \in SUBSET Clips, S \subseteq p.clips[via]
  PROVE  UnmountedAt(p, UnmountClips(p, via, S), via, S)
  <1>0. IsFiniteSet(S) /\ p.clips \in [RootRels -> SUBSET Clips] /\ p.leaves \in [Ways -> SUBSET Leaves]
    BY FiniteParts, PageTypes
  <1>1. PICK it : FoldsSet("unmount", via, p, it, S) /\ UnmountClips(p, via, S) = it[S]
    BY <1>0, PageFolds
  <1> DEFINE T == {s \in SUBSET S : UnmountedAt(p, it[s], via, s)}
  <1>2. {} \in T
    <2>1. it[{}] = p
      BY <1>1 DEF FoldsSet
    <2>2. UnmountedAt(p, p, via, {})
      BY <1>0, KeepsSelf DEF UnmountedAt
    <2>3. QED
      BY <2>1, <2>2
  <1>3. ASSUME NEW s \in SUBSET S, s # {}, s \ {Picked(s)} \in T PROVE s \in T
    <2> DEFINE c == Picked(s)
               r == s \ {c}
               q == it[r]
               n == UnmountClip(q, via, c)
    <2>1. c \in s /\ c \in Clips
      BY <1>3 DEF Picked
    <2>2. it[s] = n
      BY <1>1, <1>3 DEF FoldsSet, PageStep
    <2>3. UnmountedAt(p, q, via, r)
      BY <1>3
    <2> HIDE DEF c, q
    <2>4. q \in PageStates /\ c \in q.clips[via]
      BY <1>0, <2>1, <2>3 DEF UnmountedAt, Keeps
    <2>5. /\ Keeps(q, n) /\ (Idle(q) => Idle(n)) /\ n.mounted = q.mounted
          /\ n.clips = [q.clips EXCEPT ![via] = @ \ {c}]
          /\ \A w \in Ways : n.leaves[w] = IF w[1] = via /\ w[2] = c THEN {} ELSE q.leaves[w]
      BY <2>1, <2>4, UnmountClipKeeps
    <2> HIDE DEF n
    <2>6. Keeps(p, n) /\ (Idle(p) => Idle(n)) /\ n.mounted = p.mounted
      BY <2>3, <2>5, KeepsAll DEF UnmountedAt
    <2>7. n.clips = [p.clips EXCEPT ![via] = @ \ s]
      <3>1. n.clips = [[p.clips EXCEPT ![via] = @ \ r] EXCEPT ![via] = @ \ {c}]
        BY <2>3, <2>5 DEF UnmountedAt
      <3>2. (p.clips[via] \ r) \ {c} = p.clips[via] \ s
        BY <2>1
      <3>3. QED
        BY <1>0, <3>1, <3>2
    <2>8. ASSUME NEW w \in Ways
          PROVE  n.leaves[w] = IF w[1] = via /\ w[2] \in s THEN {} ELSE p.leaves[w]
      <3>1. q.leaves[w] = IF w[1] = via /\ w[2] \in r THEN {} ELSE p.leaves[w]
        BY <2>3 DEF UnmountedAt
      <3>2. w[2] \in s <=> w[2] = c \/ w[2] \in r
        BY <2>1
      <3>3. QED
        BY <2>5, <3>1, <3>2
    <2>9. UnmountedAt(p, n, via, s)
      BY <2>6, <2>7, <2>8 DEF UnmountedAt
    <2>10. QED
      BY <2>2, <2>9
  <1> HIDE DEF T
  <1>4. S \in T
    BY <1>0, <1>2, <1>3, SetInduction
  <1>5. QED
    BY <1>1, <1>4 DEF T

LEMMA SyncLeavesKeeps ==
  ASSUME NEW p \in PageStates, NEW w \in Ways
  PROVE  LET q == SyncLeaves(p, w)
         IN /\ Keeps(p, q) /\ q.mounted = p.mounted /\ q.clips = p.clips
            /\ q.leaves = IF w[2] \in p.clips[w[1]] THEN [p.leaves EXCEPT ![w] = p.held[<<w[2], w[3]>>]] ELSE p.leaves
  <1> DEFINE now == p.held[<<w[2], w[3]>>]
             was == p.leaves[w]
             gone == was \ now
             new == now \ was
             q == [p EXCEPT !.leaves[w] = now]
  <1>0. /\ w[1] \in RootRels /\ w[2] \in Clips /\ w[3] \in ClipRels /\ w = <<w[1], w[2], w[3]>>
        /\ w \in Places /\ RootPlace \in Places
    BY PlacesOf DEF Ways
  <1>1. /\ now \in SUBSET Leaves /\ now \in SUBSET Nodes /\ IsFiniteSet(now) /\ was \in SUBSET Leaves
        /\ Spots(p)[w] = was
    BY <1>0, PageTypes, SpotsOf
  <1>2. /\ new \in SUBSET Leaves /\ new \in SUBSET Nodes /\ IsFiniteSet(new)
        /\ gone \in SUBSET Leaves /\ gone \in SUBSET Nodes /\ IsFiniteSet(gone)
    BY <1>1, FiniteParts DEF Nodes
  <1> HIDE DEF now, was
  <1>3. CASE w[2] \notin p.clips[w[1]]
    <2>1. SyncLeaves(p, w) = RetainAll(p, now)
      BY <1>3 DEF SyncLeaves, now
    <2>2. RetainAll(p, now) = Tallied(p, MoreRefs(p, now), MoreAsked(p, now))
      BY <1>1, RetainMany
    <2>3. Alike(p, p) /\ Spots(p)[RootPlace] \subseteq Spots(p)[RootPlace] \cup now
      BY DEF Alike
    <2> DEFINE n == Tallied(p, MoreRefs(p, now), MoreAsked(p, now))
    <2>4. Keeps(p, n) /\ n.mounted = p.mounted /\ n.clips = p.clips /\ n.leaves = p.leaves
      BY <1>0, <1>1, <2>3, Retained
    <2> HIDE DEF n
    <2>5. SyncLeaves(p, w) = n
      BY <2>1, <2>2 DEF n
    <2>6. QED
      BY <1>3, <2>4, <2>5
  <1>4. q \in PageStates /\ q.refs = p.refs /\ q.asked = p.asked
    BY <1>1, LeavesSet DEF LeavesAre
  <1>5. CASE w[2] \in p.clips[w[1]] /\ w[3] \in One
    <2> DEFINE rest == was \ gone
               a == [p EXCEPT !.leaves[w] = rest]
               b == Tallied(a, LessRefs(a, gone), LessAsked(a, gone))
               c == [b EXCEPT !.leaves[w] = now]
               d == Tallied(c, MoreRefs(c, new), MoreAsked(c, new))
               e == Tallied(q, LessRefs(q, gone), LessAsked(q, gone))
    <2>1. rest \in SUBSET Leaves
      BY <1>1
    <2> HIDE DEF gone, new, rest
    <2>2. LeavesAre(p, a, w, rest)
      BY <2>1, LeavesSet
    <2>3. gone \subseteq Spots(p)[w] /\ Spots(a)[w] \subseteq Spots(p)[w] \ gone
      BY <1>1, <2>2 DEF gone, rest, LeavesAre
    <2>4. c = e
      <3>1. LessRefs(a, gone) = LessRefs(q, gone) /\ LessAsked(a, gone) = LessAsked(q, gone)
        BY <1>4, <2>2 DEF LessRefs, LessAsked, LeavesAre
      <3>2. LessRefs(q, gone) \in [Nodes -> Nat] /\ LessAsked(q, gone) \in [Nodes -> Answers]
        BY <1>4, TallyTypes
      <3> DEFINE R == LessRefs(q, gone)
                 A == LessAsked(q, gone)
      <3>3. c = [Tallied(a, R, A) EXCEPT !.leaves[w] = now]
        BY <3>1
      <3>4. R \in [Nodes -> Nat] /\ A \in [Nodes -> Answers] /\ now \in SUBSET Leaves
        BY <1>1, <3>2
      <3> HIDE DEF R, A
      <3>5. [Tallied(a, R, A) EXCEPT !.leaves[w] = now] = Tallied(q, R, A)
        BY <2>1, <3>4 DEF Tallied, PageStates
      <3>6. QED
        BY <3>3, <3>5 DEF R, A
    <2> HIDE DEF a
    <2>5. Keeps(p, b) /\ b.mounted = a.mounted /\ b.clips = a.clips /\ b.leaves = a.leaves
      BY <1>0, <1>2, <2>2, <2>3, Released DEF LeavesAre
    <2> HIDE DEF b
    <2>6. b \in PageStates
      BY <2>5 DEF Keeps
    <2>7. LeavesAre(b, c, w, now)
      BY <1>1, <2>6, LeavesSet
    <2>8. Spots(c)[w] \subseteq Spots(b)[w] \cup new
      <3>1. Spots(b)[w] = b.leaves[w]
        BY SpotsOf
      <3>2. b.leaves[w] = rest
        BY <2>2, <2>5, PageTypes DEF LeavesAre
      <3>3. QED
        BY <2>7, <3>1, <3>2 DEF gone, new, rest, LeavesAre
    <2> HIDE DEF c
    <2>9. Keeps(b, d) /\ d.mounted = c.mounted /\ d.clips = c.clips /\ d.leaves = c.leaves
      BY <1>0, <1>2, <2>6, <2>7, <2>8, Retained DEF LeavesAre
    <2>10. RetainAll(c, new) = d
      BY <1>2, <2>7, RetainMany DEF LeavesAre
    <2> HIDE DEF d
    <2>11. ReleaseAll(q, gone) = e
      BY <1>2, <1>4, ReleaseMany
    <2>12. SyncLeaves(p, w) = RetainAll(ReleaseAll(q, gone), new)
      BY <1>5 DEF SyncLeaves, gone, new, now, was
    <2> HIDE DEF e, q
    <2>13. SyncLeaves(p, w) = d
      BY <2>4, <2>10, <2>11, <2>12
    <2>14. Keeps(p, d)
      BY <2>5, <2>9, KeepsAll
    <2>15. d.leaves = [p.leaves EXCEPT ![w] = now]
      BY <2>2, <2>5, <2>7, <2>9, PageTypes DEF LeavesAre
    <2>16. QED
      BY <1>5, <2>2, <2>5, <2>7, <2>9, <2>13, <2>14, <2>15 DEF now, LeavesAre
  <1>6. CASE w[2] \in p.clips[w[1]] /\ w[3] \notin One
    <2> DEFINE both == was \cup now
               a == [p EXCEPT !.leaves[w] = both]
               b == Tallied(a, MoreRefs(a, new), MoreAsked(a, new))
               c == [b EXCEPT !.leaves[w] = now]
               d == Tallied(c, LessRefs(c, gone), LessAsked(c, gone))
               e == Tallied(q, MoreRefs(q, new), MoreAsked(q, new))
    <2>1. both \in SUBSET Leaves
      BY <1>1
    <2> HIDE DEF gone, new, both
    <2>2. LeavesAre(p, a, w, both)
      BY <2>1, LeavesSet
    <2>3. Spots(a)[w] \subseteq Spots(p)[w] \cup new
      BY <1>1, <2>2 DEF new, both, LeavesAre
    <2>4. c = e
      <3>1. MoreRefs(a, new) = MoreRefs(q, new) /\ MoreAsked(a, new) = MoreAsked(q, new)
        BY <1>4, <2>2 DEF MoreRefs, MoreAsked, LeavesAre
      <3>2. MoreRefs(q, new) \in [Nodes -> Nat] /\ MoreAsked(q, new) \in [Nodes -> Answers]
        BY <1>4, TallyTypes
      <3> DEFINE R == MoreRefs(q, new)
                 A == MoreAsked(q, new)
      <3>3. c = [Tallied(a, R, A) EXCEPT !.leaves[w] = now]
        BY <3>1
      <3>4. R \in [Nodes -> Nat] /\ A \in [Nodes -> Answers] /\ now \in SUBSET Leaves
        BY <1>1, <3>2
      <3> HIDE DEF R, A
      <3>5. [Tallied(a, R, A) EXCEPT !.leaves[w] = now] = Tallied(q, R, A)
        BY <2>1, <3>4 DEF Tallied, PageStates
      <3>6. QED
        BY <3>3, <3>5 DEF R, A
    <2> HIDE DEF a
    <2>5. Keeps(p, b) /\ b.mounted = a.mounted /\ b.clips = a.clips /\ b.leaves = a.leaves
      BY <1>0, <1>2, <2>2, <2>3, Retained DEF LeavesAre
    <2> HIDE DEF b
    <2>6. b \in PageStates
      BY <2>5 DEF Keeps
    <2>7. LeavesAre(b, c, w, now)
      BY <1>1, <2>6, LeavesSet
    <2>8. gone \subseteq Spots(b)[w] /\ Spots(c)[w] \subseteq Spots(b)[w] \ gone
      <3>1. Spots(b)[w] = b.leaves[w]
        BY SpotsOf
      <3>2. b.leaves[w] = both
        BY <2>2, <2>5, PageTypes DEF LeavesAre
      <3>3. QED
        BY <2>7, <3>1, <3>2 DEF gone, both, LeavesAre
    <2> HIDE DEF c
    <2>9. Keeps(b, d) /\ d.mounted = c.mounted /\ d.clips = c.clips /\ d.leaves = c.leaves
      BY <1>0, <1>2, <2>6, <2>7, <2>8, Released DEF LeavesAre
    <2>10. ReleaseAll(c, gone) = d
      BY <1>2, <2>7, ReleaseMany DEF LeavesAre
    <2> HIDE DEF d
    <2>11. RetainAll(q, new) = e
      BY <1>2, <1>4, RetainMany
    <2>12. SyncLeaves(p, w) = ReleaseAll(RetainAll(q, new), gone)
      BY <1>6 DEF SyncLeaves, gone, new, now, was
    <2> HIDE DEF e, q
    <2>13. SyncLeaves(p, w) = d
      BY <2>4, <2>10, <2>11, <2>12
    <2>14. Keeps(p, d)
      BY <2>5, <2>9, KeepsAll
    <2>15. d.leaves = [p.leaves EXCEPT ![w] = now]
      BY <2>2, <2>5, <2>7, <2>9, PageTypes DEF LeavesAre
    <2>16. QED
      BY <1>6, <2>2, <2>5, <2>7, <2>9, <2>13, <2>14, <2>15 DEF now, LeavesAre
  <1>7. QED
    BY <1>3, <1>5, <1>6

(* What is mounted is what the page has received. *)
ClipsRight(p, via) == p.clips[via] = IF p.mounted = None THEN {} ELSE p.held[<<p.mounted, via>>]
LeavesRight(p, w) == p.leaves[w] = IF w[2] \in p.clips[w[1]] THEN p.held[<<w[2], w[3]>>] ELSE {}
NoStray(p) == \A w \in Ways : w[2] \notin p.clips[w[1]] => p.leaves[w] = {}
InPlace(p) == (\A via \in RootRels : ClipsRight(p, via)) /\ (\A w \in Ways : LeavesRight(p, w))

FollowedAt(p, q, ways) ==
  /\ Keeps(p, q) /\ q.mounted = p.mounted /\ q.clips = p.clips
  /\ \A w \in Ways : q.leaves[w] = IF w \in ways /\ w[2] \in p.clips[w[1]] THEN p.held[<<w[2], w[3]>>] ELSE p.leaves[w]

LEMMA SyncWaysKeeps ==
  ASSUME NEW p \in PageStates, NEW S \in SUBSET Ways
  PROVE  FollowedAt(p, SyncWays(p, S), S)
  <1>0. IsFiniteSet(S) /\ p.leaves \in [Ways -> SUBSET Leaves]
    <2>1. S \in SUBSET Places
      BY PlacesOf
    <2>2. QED
      BY <2>1, FinitePlaces, FS_Subset, PageTypes
  <1>1. PICK it : FoldsSet("follow", "", p, it, S) /\ SyncWays(p, S) = it[S]
    <2>1. IsFiniteSet(S)
      BY <1>0
    <2>2. ASSUME NEW via PROVE \E it : FoldsSet("follow", via, p, it, S) /\ SyncWays(p, S) = it[S]
      BY <2>1, PageFolds, ZenonT(60)
    <2>3. QED
      BY <2>2
  <1> DEFINE T == {s \in SUBSET S : FollowedAt(p, it[s], s)}
  <1>2. {} \in T
    <2>1. it[{}] = p
      BY <1>1 DEF FoldsSet
    <2>2. FollowedAt(p, p, {})
      BY <1>0, KeepsSelf DEF FollowedAt
    <2>3. QED
      BY <2>1, <2>2
  <1>3. ASSUME NEW s \in SUBSET S, s # {}, s \ {Picked(s)} \in T PROVE s \in T
    <2> DEFINE x == Picked(s)
               r == s \ {x}
               q == it[r]
               n == SyncLeaves(q, x)
    <2>1. x \in s /\ x \in Ways
      BY <1>3 DEF Picked
    <2>2. it[s] = n
      BY <1>1, <1>3 DEF FoldsSet, PageStep
    <2>3. FollowedAt(p, q, r)
      BY <1>3
    <2> HIDE DEF x, q
    <2>4. q \in PageStates /\ q.held = p.held /\ q.leaves \in [Ways -> SUBSET Leaves]
      BY <2>3, PageTypes DEF FollowedAt, Keeps, Alike
    <2>5. /\ Keeps(q, n) /\ n.mounted = q.mounted /\ n.clips = q.clips
          /\ n.leaves = IF x[2] \in q.clips[x[1]] THEN [q.leaves EXCEPT ![x] = q.held[<<x[2], x[3]>>]] ELSE q.leaves
      BY <2>1, <2>4, SyncLeavesKeeps
    <2> HIDE DEF n
    <2>6. Keeps(p, n) /\ n.mounted = p.mounted /\ n.clips = p.clips
      BY <2>3, <2>5, KeepsAll DEF FollowedAt
    <2>7. ASSUME NEW w \in Ways
          PROVE  n.leaves[w] = IF w \in s /\ w[2] \in p.clips[w[1]] THEN p.held[<<w[2], w[3]>>] ELSE p.leaves[w]
      <3>1. q.leaves[w] = IF w \in r /\ w[2] \in p.clips[w[1]] THEN p.held[<<w[2], w[3]>>] ELSE p.leaves[w]
        BY <2>3 DEF FollowedAt
      <3>2. CASE w = x
        BY <2>1, <2>3, <2>4, <2>5, <3>1, <3>2 DEF FollowedAt
      <3>3. CASE w # x
        <4>1. w \in s <=> w \in r
          BY <3>3
        <4>2. n.leaves[w] = q.leaves[w]
          BY <2>1, <2>4, <2>5, <3>3
        <4>3. QED
          BY <3>1, <4>1, <4>2
      <3>4. QED
        BY <3>2, <3>3
    <2>8. FollowedAt(p, n, s)
      BY <2>6, <2>7 DEF FollowedAt
    <2>9. QED
      BY <2>2, <2>8
  <1> HIDE DEF T
  <1>4. S \in T
    BY <1>0, <1>2, <1>3, SetInduction
  <1>5. QED
    BY <1>1, <1>4 DEF T

(* The clips of a relation of the root are brought up to date. *)
LEMMA SyncClipsKeeps ==
  ASSUME NEW p \in PageStates, p.mounted \in Sessions, NEW via \in RootRels
  PROVE  LET q == SyncClips(p, via)
         IN /\ Keeps(p, q) /\ q.mounted = p.mounted /\ ClipsRight(q, via)
            /\ \A v \in RootRels : v # via => q.clips[v] = p.clips[v]
            /\ \A w \in Ways : LeavesRight(p, w) => LeavesRight(q, w)
            /\ NoStray(p) => NoStray(q)
  <1> DEFINE now == p.held[<<p.mounted, via>>]
             was == p.clips[via]
             gone == was \ now
             new == now \ was
             q == SyncClips(p, via)
  <1>1. /\ now \in SUBSET Clips /\ was \in SUBSET Clips /\ p.clips \in [RootRels -> SUBSET Clips]
        /\ p.mounted # None
    BY PageTypes, PageSyncAssumption
  <1>2. /\ Keeps(p, q) /\ q.mounted = p.mounted /\ q.clips = [p.clips EXCEPT ![via] = now]
        /\ \A w \in Ways : q.leaves[w] = IF w[1] = via /\ w[2] \in new THEN p.held[<<w[2], w[3]>>]
                                         ELSE IF w[1] = via /\ w[2] \in gone THEN {} ELSE p.leaves[w]
    <2>1. CASE via \in One
      <3> DEFINE a == UnmountClips(p, via, gone)
                 b == MountClips(a, via, new)
      <3>1. gone \in SUBSET Clips /\ gone \subseteq p.clips[via] /\ new \in SUBSET Clips
        BY <1>1
      <3>2. q = b
        BY <2>1 DEF SyncClips
      <3> HIDE DEF q, now, was
      <3>3. UnmountedAt(p, a, via, gone)
        BY <3>1, UnmountClipsKeeps
      <3> HIDE DEF a, gone, new
      <3>4. a \in PageStates /\ a.held = p.held
        BY <3>3 DEF UnmountedAt, Keeps, Alike
      <3>5. MountedAt(a, b, via, new)
        BY <3>1, <3>4, MountClipsKeeps
      <3> HIDE DEF b
      <3>6. Keeps(p, b) /\ b.mounted = p.mounted
        BY <3>3, <3>5, KeepsAll DEF MountedAt, UnmountedAt
      <3>7. b.clips = [p.clips EXCEPT ![via] = now]
        <4>1. b.clips = [[p.clips EXCEPT ![via] = @ \ gone] EXCEPT ![via] = @ \cup new]
          BY <3>3, <3>5 DEF MountedAt, UnmountedAt
        <4>2. (p.clips[via] \ gone) \cup new = now
          BY DEF gone, new, was
        <4>3. QED
          BY <1>1, <4>1, <4>2
      <3>8. ASSUME NEW w \in Ways
            PROVE  b.leaves[w] = IF w[1] = via /\ w[2] \in new THEN p.held[<<w[2], w[3]>>]
                                 ELSE IF w[1] = via /\ w[2] \in gone THEN {} ELSE p.leaves[w]
        BY <3>3, <3>4, <3>5 DEF MountedAt, UnmountedAt
      <3>9. QED
        BY <3>2, <3>6, <3>7, <3>8
    <2>2. CASE via \notin One
      <3> DEFINE a == MountClips(p, via, new)
                 b == UnmountClips(a, via, gone)
      <3>1. gone \in SUBSET Clips /\ new \in SUBSET Clips
        BY <1>1
      <3>2. q = b
        BY <2>2 DEF SyncClips
      <3> HIDE DEF q, now, was
      <3>3. MountedAt(p, a, via, new)
        BY <3>1, MountClipsKeeps
      <3> HIDE DEF a, gone, new
      <3>4. a \in PageStates /\ a.held = p.held /\ a.clips = [p.clips EXCEPT ![via] = @ \cup new]
        BY <3>3 DEF MountedAt, Keeps, Alike
      <3>5. gone \subseteq a.clips[via]
        BY <1>1, <3>4 DEF gone, was
      <3>6. UnmountedAt(a, b, via, gone)
        BY <3>1, <3>4, <3>5, UnmountClipsKeeps
      <3> HIDE DEF b
      <3>7. Keeps(p, b) /\ b.mounted = p.mounted
        BY <3>3, <3>6, KeepsAll DEF MountedAt, UnmountedAt
      <3>8. b.clips = [p.clips EXCEPT ![via] = now]
        <4>1. b.clips = [[p.clips EXCEPT ![via] = @ \cup new] EXCEPT ![via] = @ \ gone]
          BY <3>4, <3>6 DEF UnmountedAt
        <4>2. (p.clips[via] \cup new) \ gone = now
          BY DEF gone, new, was
        <4>3. QED
          BY <1>1, <4>1, <4>2
      <3>9. ASSUME NEW w \in Ways
            PROVE  b.leaves[w] = IF w[1] = via /\ w[2] \in new THEN p.held[<<w[2], w[3]>>]
                                 ELSE IF w[1] = via /\ w[2] \in gone THEN {} ELSE p.leaves[w]
        <4>1. ~(w[2] \in new /\ w[2] \in gone)
          BY DEF new, gone
        <4>2. QED
          BY <3>3, <3>4, <3>6, <4>1 DEF MountedAt, UnmountedAt
      <3>10. QED
        BY <3>2, <3>7, <3>8, <3>9
    <2>3. QED
      BY <2>1, <2>2
  <1> HIDE DEF q
  <1>3. q.held = p.held
    BY <1>2 DEF Keeps, Alike
  <1>4. ClipsRight(q, via)
    BY <1>1, <1>2, <1>3 DEF ClipsRight
  <1>5. \A v \in RootRels : v # via => q.clips[v] = p.clips[v]
    BY <1>1, <1>2
  <1>6. ASSUME NEW w \in Ways
        PROVE  /\ LeavesRight(p, w) => LeavesRight(q, w)
               /\ (w[2] \notin p.clips[w[1]] => p.leaves[w] = {}) => (w[2] \notin q.clips[w[1]] => q.leaves[w] = {})
    <2>0. w[1] \in RootRels
      BY DEF Ways
    <2>1. CASE w[1] = via
      <3>1. q.clips[w[1]] = now /\ p.clips[w[1]] = was
        BY <1>1, <1>2, <2>1
      <3>2. w[2] \in new <=> w[2] \in now /\ w[2] \notin was
        OBVIOUS
      <3>3. w[2] \in gone <=> w[2] \in was /\ w[2] \notin now
        OBVIOUS
      <3> HIDE DEF now, was, gone, new
      <3>4. QED
        BY <1>2, <1>3, <2>1, <3>1, <3>2, <3>3 DEF LeavesRight
    <2>2. CASE w[1] # via
      BY <1>2, <1>3, <1>5, <2>0, <2>2 DEF LeavesRight
    <2>3. QED
      BY <2>1, <2>2
  <1>7. QED
    BY <1>2, <1>4, <1>5, <1>6 DEF q, NoStray

(* What two flushes of an update have to bring about: right is what was right, and what is flushed. *)
Unmounted(p) == \A via \in RootRels : p.clips[via] = {}
Settling(p, q, outer, inner) ==
  /\ Keeps(p, q) /\ q.mounted = p.mounted /\ NoStray(q) /\ (p.mounted = None => Unmounted(q))
  /\ \A via \in RootRels : via = outer \/ ClipsRight(p, via) => ClipsRight(q, via)
  /\ \A w \in Ways : w[3] = inner \/ LeavesRight(p, w) => LeavesRight(q, w)

LEMMA FlushDirtySettles ==
  ASSUME NEW p \in PageStates, NEW dirty, NEW outer \in RootRels, NEW inner \in ClipRels, NEW outerFirst \in BOOLEAN,
         NoStray(p), p.mounted = None => Unmounted(p),
         <<p.mounted, outer>> \notin dirty => ClipsRight(p, outer),
         \A w \in Ways : w[3] = inner /\ <<w[2], inner>> \notin dirty => LeavesRight(p, w)
  PROVE  Settling(p, FlushDirty(p, dirty, outer, inner, outerFirst), outer, inner)
  <1> DEFINE ways == {w \in Ways : w[3] = inner /\ w[2] \in p.clips[w[1]] /\ <<w[2], inner>> \in dirty}
             flushed(q) == IF p.mounted # None /\ <<p.mounted, outer>> \in dirty THEN SyncClips(q, outer) ELSE q
             f == FlushDirty(p, dirty, outer, inner, outerFirst)
  <1>1. ways \in SUBSET Ways
    OBVIOUS
  <1>2. (outerFirst => f = SyncWays(flushed(p), ways)) /\ (~outerFirst => f = flushed(SyncWays(p, ways)))
    <2>1. ASSUME outerFirst PROVE f = SyncWays(flushed(p), ways)
      BY <2>1, Zenon DEF FlushDirty
    <2>2. ASSUME ~outerFirst PROVE f = flushed(SyncWays(p, ways))
      BY <2>2, Zenon DEF FlushDirty
    <2>3. QED
      BY <2>1, <2>2
  <1>3. \A w \in Ways : w[3] = inner /\ w \notin ways => LeavesRight(p, w)
    BY DEF NoStray, LeavesRight
  <1> HIDE DEF ways, f
  (* the outer flush *)
  <1>4. ASSUME NEW q \in PageStates, q.mounted = p.mounted, q.held = p.held, NoStray(q), q.clips = p.clips
        PROVE  /\ Keeps(q, flushed(q)) /\ flushed(q).mounted = q.mounted /\ NoStray(flushed(q))
               /\ (q.mounted = None => Unmounted(flushed(q)))
               /\ \A via \in RootRels : via = outer \/ ClipsRight(q, via) => ClipsRight(flushed(q), via)
               /\ \A w \in Ways : LeavesRight(q, w) => LeavesRight(flushed(q), w)
    <2>1. CASE q.mounted # None /\ <<q.mounted, outer>> \in dirty
      <3>1. q.mounted \in Sessions
        BY <2>1, PageTypes
      <3> DEFINE s == SyncClips(q, outer)
      <3>2. /\ Keeps(q, s) /\ s.mounted = q.mounted /\ ClipsRight(s, outer)
            /\ \A v \in RootRels : v # outer => s.clips[v] = q.clips[v]
            /\ \A w \in Ways : LeavesRight(q, w) => LeavesRight(s, w)
            /\ NoStray(q) => NoStray(s)
        BY <3>1, SyncClipsKeeps
      <3>3. flushed(q) = s
        BY <1>4, <2>1
      <3> HIDE DEF s, flushed
      <3>4. s.held = q.held
        BY <3>2 DEF Keeps, Alike
      <3>5. QED
        BY <1>4, <2>1, <3>2, <3>3, <3>4 DEF ClipsRight
    <2>2. CASE ~(q.mounted # None /\ <<q.mounted, outer>> \in dirty)
      <3>1. flushed(q) = q
        BY <1>4, <2>2
      <3> HIDE DEF flushed
      <3>2. Keeps(q, q)
        BY KeepsSelf
      <3>3. ClipsRight(q, outer)
        BY <1>4, <2>2 DEF ClipsRight, Unmounted
      <3>4. QED
        BY <1>4, <3>1, <3>2, <3>3 DEF Unmounted
    <2>3. QED
      BY <2>1, <2>2
  (* the inner flush *)
  <1>5. ASSUME NEW q \in PageStates, NoStray(q), q.held = p.held
        PROVE  LET s == SyncWays(q, ways)
               IN /\ Keeps(q, s) /\ s.mounted = q.mounted /\ s.clips = q.clips /\ s.held = p.held /\ NoStray(s)
                  /\ \A via \in RootRels : ClipsRight(q, via) => ClipsRight(s, via)
                  /\ \A w \in Ways : w \in ways \/ LeavesRight(q, w) => LeavesRight(s, w)
    <2> DEFINE s == SyncWays(q, ways)
    <2>1. FollowedAt(q, s, ways)
      BY <1>1, SyncWaysKeeps
    <2> HIDE DEF s
    <2>2. s.held = q.held /\ s.clips = q.clips /\ s.mounted = q.mounted /\ Keeps(q, s)
      BY <2>1 DEF FollowedAt, Keeps, Alike
    <2>3. NoStray(s)
      BY <1>5, <2>1, <2>2 DEF FollowedAt, NoStray
    <2>4. \A via \in RootRels : ClipsRight(q, via) => ClipsRight(s, via)
      BY <2>2 DEF ClipsRight
    <2>5. ASSUME NEW w \in Ways, w \in ways \/ LeavesRight(q, w) PROVE LeavesRight(s, w)
      <3>1. s.leaves[w] = IF w \in ways /\ w[2] \in q.clips[w[1]] THEN q.held[<<w[2], w[3]>>] ELSE q.leaves[w]
        BY <2>1 DEF FollowedAt
      <3>2. QED
        BY <1>5, <2>2, <2>5, <3>1 DEF LeavesRight, NoStray
    <2>6. QED
      BY <1>5, <2>2, <2>3, <2>4, <2>5 DEF s
  <1>6. CASE outerFirst
    <2> DEFINE a == flushed(p)
    <2>1. /\ Keeps(p, a) /\ a.mounted = p.mounted /\ NoStray(a) /\ (p.mounted = None => Unmounted(a))
          /\ \A via \in RootRels : via = outer \/ ClipsRight(p, via) => ClipsRight(a, via)
          /\ \A w \in Ways : LeavesRight(p, w) => LeavesRight(a, w)
      BY <1>4
    <2>2. f = SyncWays(a, ways)
      BY <1>2, <1>6
    <2> HIDE DEF flushed, a
    <2>3. a \in PageStates /\ a.held = p.held
      BY <2>1 DEF Keeps, Alike
    <2>4. /\ Keeps(a, f) /\ f.mounted = a.mounted /\ f.clips = a.clips /\ NoStray(f)
          /\ \A via \in RootRels : ClipsRight(a, via) => ClipsRight(f, via)
          /\ \A w \in Ways : w \in ways \/ LeavesRight(a, w) => LeavesRight(f, w)
      BY <1>5, <2>1, <2>2, <2>3
    <2>5. Keeps(p, f)
      BY <2>1, <2>4, KeepsAll
    <2>6. p.mounted = None => Unmounted(f)
      BY <2>1, <2>4 DEF Unmounted
    <2>7. \A w \in Ways : w[3] = inner \/ LeavesRight(p, w) => LeavesRight(f, w)
      BY <1>3, <2>1, <2>4
    <2>8. QED
      BY <2>1, <2>4, <2>5, <2>6, <2>7 DEF Settling, f
  <1>7. CASE ~outerFirst
    <2> DEFINE a == SyncWays(p, ways)
    <2>1. /\ Keeps(p, a) /\ a.mounted = p.mounted /\ a.clips = p.clips /\ a.held = p.held /\ NoStray(a)
          /\ \A via \in RootRels : ClipsRight(p, via) => ClipsRight(a, via)
          /\ \A w \in Ways : w \in ways \/ LeavesRight(p, w) => LeavesRight(a, w)
      BY <1>5
    <2>2. f = flushed(a)
      BY <1>2, <1>7
    <2> HIDE DEF a
    <2>3. a \in PageStates
      BY <2>1 DEF Keeps
    <2>4. /\ Keeps(a, f) /\ f.mounted = a.mounted /\ NoStray(f) /\ (a.mounted = None => Unmounted(f))
          /\ \A via \in RootRels : via = outer \/ ClipsRight(a, via) => ClipsRight(f, via)
          /\ \A w \in Ways : LeavesRight(a, w) => LeavesRight(f, w)
      BY <1>4, <2>1, <2>2, <2>3
    <2> HIDE DEF flushed
    <2>5. Keeps(p, f)
      BY <2>1, <2>4, KeepsAll
    <2>6. \A w \in Ways : w[3] = inner \/ LeavesRight(p, w) => LeavesRight(f, w)
      BY <1>3, <2>1, <2>4
    <2>7. QED
      BY <2>1, <2>4, <2>5, <2>6 DEF Settling, f
  <1>8. QED
    BY <1>6, <1>7

(* A value an update may carry. *)
IsUpdate(update) == DOMAIN update \subseteq Links /\ \A l \in DOMAIN update : update[l] \subseteq UnderLink(l)

(* A page as it is between two messages. *)
GoodPage(p) ==
  /\ p \in PageStates /\ AsksWhatCounts(p) /\ Counted(p) /\ InPlace(p) /\ p.mounted = p.root
  /\ p.mounted # None => p.published

Updated(p, update) == [p EXCEPT !.held = [l \in Links |-> IF l \in DOMAIN update THEN update[l] ELSE p.held[l]]]

LEMMA HandleUpdateKeeps ==
  ASSUME NEW p, GoodPage(p), NEW update, IsUpdate(update), NEW outerFirst \in BOOLEAN
  PROVE  LET q == HandleUpdate(p, update, outerFirst)
         IN GoodPage(q) /\ Keeps(Updated(p, update), q) /\ q.mounted = p.mounted
  <1> DEFINE dirty == {l \in DOMAIN update : update[l] # p.held[l]}
             h == [l \in Links |-> IF l \in dirty THEN update[l] ELSE p.held[l]]
             q == [p EXCEPT !.held = h]
             a == FlushDirty(q, dirty, "selectedClip", "text", outerFirst)
             b == FlushDirty(a, dirty, "clips", "effects", outerFirst)
  <1>0. p \in PageStates /\ p.held \in HeldValues
    BY PageTypes DEF GoodPage
  <1>1. h \in HeldValues
    <2>1. \A l \in Links : h[l] \subseteq UnderLink(l)
      BY <1>0 DEF IsUpdate, HeldValues
    <2>2. \A l \in Links : h[l] \subseteq Clips \cup Leaves
      BY <2>1 DEF UnderLink
    <2> HIDE DEF h
    <2>3. h = [l \in Links |-> h[l]]
      BY DEF h
    <2>4. QED
      BY <2>1, <2>2, <2>3 DEF HeldValues
  <1>2. HandleUpdate(p, update, outerFirst) = b
    BY <1>0 DEF HandleUpdate, PageStates
  <1>3. q = Updated(p, update)
    <2>1. h = [l \in Links |-> IF l \in DOMAIN update THEN update[l] ELSE p.held[l]]
      OBVIOUS
    <2>2. QED
      BY <2>1 DEF Updated
  <1>4. /\ q \in PageStates /\ q.held = h /\ q.mounted = p.mounted /\ q.clips = p.clips /\ q.leaves = p.leaves
        /\ q.refs = p.refs /\ q.asked = p.asked /\ q.root = p.root /\ q.published = p.published
    BY <1>0, <1>1 DEF PageStates
  <1> HIDE DEF q
  <1>5. AsksWhatCounts(q) /\ Counted(q)
    <2>1. Spots(q) = Spots(p)
      BY <1>4 DEF Spots
    <2>2. QED
      BY <1>4, <2>1 DEF GoodPage, AsksWhatCounts, Counted
  <1>6. \A l \in Links : l \notin dirty => h[l] = p.held[l]
    OBVIOUS
  <1> HIDE DEF h, dirty
  <1>7. NoStray(q) /\ (q.mounted = None => Unmounted(q))
    BY <1>4 DEF GoodPage, InPlace, ClipsRight, LeavesRight, NoStray, Unmounted
  <1>8. ASSUME NEW via \in RootRels, <<q.mounted, via>> \notin dirty PROVE ClipsRight(q, via)
    <2>1. q.mounted = None \/ <<q.mounted, via>> \in Links
      BY <1>0, <1>4, PageTypes DEF Links
    <2>2. QED
      BY <1>4, <1>6, <1>8, <2>1 DEF GoodPage, InPlace, ClipsRight
  <1>9. ASSUME NEW w \in Ways, <<w[2], w[3]>> \notin dirty PROVE LeavesRight(q, w)
    <2>1. <<w[2], w[3]>> \in Links
      BY DEF Links, Ways
    <2>2. QED
      BY <1>4, <1>6, <1>9, <2>1 DEF GoodPage, InPlace, LeavesRight
  <1>10. "selectedClip" \in RootRels /\ "clips" \in RootRels /\ "text" \in ClipRels /\ "effects" \in ClipRels
    BY DEF RootRels, ClipRels
  <1>11. Settling(q, a, "selectedClip", "text")
    <2>1. \A w \in Ways : w[3] = "text" /\ <<w[2], "text">> \notin dirty => LeavesRight(q, w)
      BY <1>9
    <2>2. QED
      BY <1>4, <1>7, <1>8, <1>10, <2>1, FlushDirtySettles
  <1> HIDE DEF a
  <1>12. a \in PageStates /\ NoStray(a) /\ a.mounted = q.mounted /\ (a.mounted = None => Unmounted(a))
    BY <1>11 DEF Settling, Keeps
  <1>13. Settling(a, b, "clips", "effects")
    <2>1. \A w \in Ways : w[3] = "effects" /\ <<w[2], "effects">> \notin dirty => LeavesRight(a, w)
      BY <1>9, <1>11 DEF Settling
    <2>2. <<a.mounted, "clips">> \notin dirty => ClipsRight(a, "clips")
      BY <1>8, <1>10, <1>11, <1>12 DEF Settling
    <2>3. QED
      BY <1>10, <1>12, <2>1, <2>2, FlushDirtySettles
  <1> HIDE DEF b
  <1>14. Keeps(q, b) /\ b.mounted = p.mounted
    BY <1>4, <1>11, <1>12, <1>13, KeepsAll DEF Settling
  <1>15. InPlace(b)
    <2>1. ASSUME NEW via \in RootRels PROVE ClipsRight(b, via)
      <3>1. via = "selectedClip" \/ via = "clips"
        BY DEF RootRels
      <3>2. QED
        BY <1>11, <1>13, <3>1 DEF Settling
    <2>2. ASSUME NEW w \in Ways PROVE LeavesRight(b, w)
      <3>1. w[3] = "text" \/ w[3] = "effects"
        BY DEF Ways, ClipRels
      <3>2. QED
        BY <1>11, <1>13, <3>1 DEF Settling
    <2>3. QED
      BY <2>1, <2>2 DEF InPlace
  <1>16. GoodPage(b)
    BY <1>4, <1>5, <1>14, <1>15 DEF GoodPage, Keeps, Alike
  <1>17. QED
    BY <1>2, <1>3, <1>14, <1>16

(* Nothing below the root is counted or asked for. *)
Fresh(p) == Idle(p) /\ ~p.published /\ p.root = None

LEMMA UnmountKeeps ==
  ASSUME NEW p \in PageStates, NoStray(p), p.mounted # None \/ Unmounted(p)
  PROVE  LET q == Unmount(p)
         IN Keeps(p, q) /\ (Idle(p) => Idle(q)) /\ q.mounted = None /\ Unmounted(q) /\ NoStray(q)
  <1> DEFINE q == Unmount(p)
  <1>1. CASE p.mounted = None
    <2>1. q = p
      BY <1>1 DEF Unmount
    <2>2. QED
      BY <1>1, <2>1, KeepsSelf
  <1>2. CASE p.mounted # None
    <2> DEFINE s1 == p.clips["clips"]
               s2 == p.clips["selectedClip"]
               a == UnmountClips(p, "clips", s1)
               b == UnmountClips(a, "selectedClip", s2)
               r == [b EXCEPT !.mounted = None]
    <2>1. "selectedClip" \in RootRels /\ "clips" \in RootRels /\ \A via \in RootRels : via = "selectedClip" \/ via = "clips"
      BY DEF RootRels
    <2>2. p.clips \in [RootRels -> SUBSET Clips] /\ p.mounted \in Sessions
      BY <1>2, PageTypes
    <2>3. q = [Release(b, p.mounted) EXCEPT !.mounted = None]
      BY <1>2 DEF Unmount
    <2> HIDE DEF q
    <2>4. UnmountedAt(p, a, "clips", s1)
      BY <2>1, <2>2, UnmountClipsKeeps
    <2> HIDE DEF a
    <2>5. a \in PageStates /\ Keeps(p, a) /\ (Idle(p) => Idle(a)) /\ a.mounted = p.mounted /\ a.clips["clips"] = {} /\ a.clips["selectedClip"] = s2
      BY <2>1, <2>2, <2>4 DEF UnmountedAt, Keeps
    <2>6. UnmountedAt(a, b, "selectedClip", s2)
      BY <2>1, <2>2, <2>5, UnmountClipsKeeps
    <2>7. a.clips \in [RootRels -> SUBSET Clips]
      BY <2>5, PageTypes
    <2> HIDE DEF b
    <2>8. b \in PageStates /\ Keeps(p, b) /\ (Idle(p) => Idle(b)) /\ b.mounted = p.mounted
      BY <2>5, <2>6, KeepsAll DEF UnmountedAt, Keeps
    <2>9. b.clips["clips"] = {} /\ b.clips["selectedClip"] = {}
      BY <2>1, <2>5, <2>6, <2>7 DEF UnmountedAt
    <2>10. Unmounted(b)
      BY <2>1, <2>9 DEF Unmounted
    <2>11. ASSUME NEW w \in Ways PROVE b.leaves[w] = {}
      <3>1. w[1] \in RootRels
        BY DEF Ways
      <3>2. w[2] \notin p.clips[w[1]] => p.leaves[w] = {}
        BY DEF NoStray
      <3>3. QED
        BY <2>1, <2>4, <2>6, <3>1, <3>2 DEF UnmountedAt
    <2>12. /\ r \in PageStates /\ Alike(b, r) /\ r.refs = b.refs /\ r.asked = b.asked /\ r.mounted = None
           /\ r.clips = b.clips /\ r.leaves = b.leaves
      BY <2>8 DEF PageStates, Alike
    <2> DEFINE S == {p.mounted}
    <2>13. S \in SUBSET Nodes
      BY <2>2 DEF Nodes
    <2>14. q = Tallied(r, LessRefs(r, S), LessAsked(r, S))
      <3>1. Release(b, p.mounted) = Tallied(b, LessRefs(b, S), LessAsked(b, S))
        BY <2>8, <2>13, ReleaseOne
      <3>2. LessRefs(b, S) = LessRefs(r, S) /\ LessAsked(b, S) = LessAsked(r, S)
        BY <2>12 DEF LessRefs, LessAsked
      <3>3. \A x, y : [Tallied(b, x, y) EXCEPT !.mounted = None] = Tallied(r, x, y)
        BY <2>8 DEF Tallied, PageStates
      <3>4. QED
        BY <2>3, <3>1, <3>2, <3>3
    <2> HIDE DEF r
    <2>15. \A y \in Places : y # RootPlace => Spots(r)[y] = Spots(b)[y]
      BY <2>12, SpotsOf, PlacesOf
    <2>16. S \subseteq Spots(b)[RootPlace] /\ Spots(r)[RootPlace] \subseteq Spots(b)[RootPlace] \ S
      BY <1>2, <2>8, <2>12, SpotsOf
    <2>17. Keeps(b, q) /\ (Idle(b) => Idle(q)) /\ q.mounted = r.mounted /\ q.clips = r.clips /\ q.leaves = r.leaves
      BY <2>8, <2>12, <2>13, <2>14, <2>15, <2>16, PlacesOf, Released
    <2>18. Keeps(p, q)
      BY <2>8, <2>17, KeepsAll
    <2>19. Unmounted(q) /\ NoStray(q) /\ q.mounted = None
      BY <2>10, <2>11, <2>12, <2>17 DEF Unmounted, NoStray
    <2>20. QED
      BY <2>8, <2>17, <2>18, <2>19 DEF q
  <1>3. QED
    BY <1>1, <1>2

LEMMA MountKeeps ==
  ASSUME NEW p \in PageStates, p.root \in Sessions, p.mounted = None, Unmounted(p), NoStray(p)
  PROVE  LET q == Mount(p)
         IN Keeps([p EXCEPT !.published = TRUE], q) /\ q.mounted = p.root /\ InPlace(q)
  <1> DEFINE pp == [p EXCEPT !.published = TRUE]
             r == [p EXCEPT !.mounted = p.root, !.published = TRUE]
             S == {p.root}
             a == Retain(r, p.root)
             b == SyncClips(a, "selectedClip")
             d == SyncClips(b, "clips")
  <1>1. Mount(p) = d
    BY PageSyncAssumption DEF Mount
  <1>2. /\ pp \in PageStates /\ r \in PageStates /\ Alike(pp, r) /\ r.refs = pp.refs /\ r.asked = pp.asked
        /\ r.mounted = p.root /\ pp.mounted = None /\ r.clips = pp.clips /\ r.leaves = pp.leaves
        /\ pp.clips = p.clips /\ pp.leaves = p.leaves
    BY DEF PageStates, Alike
  <1>3. S \in SUBSET Nodes
    BY DEF Nodes
  <1> HIDE DEF r, pp
  <1>4. a = Tallied(r, MoreRefs(r, S), MoreAsked(r, S))
    BY <1>2, <1>3, RetainOne
  <1> HIDE DEF a
  <1>5. \A y \in Places : y # RootPlace => Spots(r)[y] = Spots(pp)[y]
    BY <1>2, SpotsOf, PlacesOf
  <1>6. Spots(r)[RootPlace] \subseteq Spots(pp)[RootPlace] \cup S
    BY <1>2, SpotsOf
  <1>7. Keeps(pp, a) /\ a.mounted = p.root /\ a.clips = p.clips /\ a.leaves = p.leaves
    BY <1>2, <1>3, <1>4, <1>5, <1>6, PlacesOf, Retained
  <1>8. a \in PageStates /\ NoStray(a) /\ \A w \in Ways : LeavesRight(a, w)
    <2>1. \A w \in Ways : w[1] \in RootRels
      BY DEF Ways
    <2>2. QED
      BY <1>7, <2>1 DEF Keeps, NoStray, Unmounted, LeavesRight
  <1>9. "selectedClip" \in RootRels /\ "clips" \in RootRels /\ \A via \in RootRels : via = "selectedClip" \/ via = "clips"
    BY DEF RootRels
  <1>10. /\ Keeps(a, b) /\ b.mounted = a.mounted /\ ClipsRight(b, "selectedClip")
         /\ \A w \in Ways : LeavesRight(b, w)
    BY <1>7, <1>8, <1>9, SyncClipsKeeps
  <1> HIDE DEF b
  <1>11. b \in PageStates
    BY <1>10 DEF Keeps
  <1>12. /\ Keeps(b, d) /\ d.mounted = b.mounted /\ ClipsRight(d, "clips")
         /\ d.clips["selectedClip"] = b.clips["selectedClip"]
         /\ \A w \in Ways : LeavesRight(d, w)
    BY <1>7, <1>9, <1>10, <1>11, SyncClipsKeeps
  <1> HIDE DEF d
  <1>13. ClipsRight(d, "selectedClip")
    BY <1>10, <1>12 DEF ClipsRight, Keeps, Alike
  <1>14. InPlace(d)
    BY <1>9, <1>12, <1>13 DEF InPlace
  <1>15. Keeps(pp, d) /\ d.mounted = p.root
    BY <1>7, <1>10, <1>12, KeepsAll
  <1>16. QED
    BY <1>1, <1>14, <1>15 DEF pp

(* The registry goes on from p, and the shapes may have been published. *)
Grows(p, q) == Keeps([p EXCEPT !.published = q.published], q) /\ (p.published => q.published)

LEMMA GrowsSelf ==
  ASSUME NEW p \in PageStates
  PROVE  Grows(p, p)
  <1>1. [p EXCEPT !.published = p.published] = p
    BY DEF PageStates
  <1>2. QED
    BY <1>1, KeepsSelf DEF Grows

LEMMA CommitKeeps ==
  ASSUME NEW p \in PageStates, AsksWhatCounts(p), Counted(p), InPlace(p), p.root \in Sessions, p.mounted # None => p.published
  PROVE  GoodPage(Commit(p)) /\ Grows(p, Commit(p))
  <1> DEFINE q == Commit(p)
  <1>0. p.root # None
    BY PageSyncAssumption
  <1>1. CASE p.mounted = p.root
    <2>1. q = p
      BY <1>1 DEF Commit
    <2>2. QED
      BY <1>1, <2>1, GrowsSelf DEF GoodPage
  <1>2. CASE p.mounted # p.root
    <2> DEFINE a == Unmount(p)
    <2>1. q = Mount(a)
      BY <1>2 DEF Commit
    <2>2. NoStray(p) /\ (p.mounted # None \/ Unmounted(p))
      BY DEF InPlace, LeavesRight, ClipsRight, NoStray, Unmounted
    <2>3. Keeps(p, a) /\ a.mounted = None /\ Unmounted(a) /\ NoStray(a)
      BY <2>2, UnmountKeeps
    <2> HIDE DEF a, q
    <2>4. a \in PageStates /\ a.root = p.root /\ Alike(p, a) /\ AsksWhatCounts(a) /\ Counted(a)
      BY <2>3 DEF Keeps, Alike
    <2> DEFINE aa == [a EXCEPT !.published = TRUE]
               pp == [p EXCEPT !.published = TRUE]
    <2>5. Keeps(aa, q) /\ q.mounted = a.root /\ InPlace(q)
      BY <2>1, <2>3, <2>4, MountKeeps
    <2>6. /\ aa \in PageStates /\ aa.refs = a.refs /\ aa.asked = a.asked /\ Spots(aa) = Spots(a) /\ aa.published = TRUE
          /\ pp \in PageStates /\ pp.refs = p.refs /\ pp.asked = p.asked /\ Spots(pp) = Spots(p)
          /\ aa.root = a.root /\ pp.root = p.root
      <3>1. \A x \in PageStates : LET y == [x EXCEPT !.published = TRUE]
                                   IN /\ y \in PageStates /\ y.refs = x.refs /\ y.asked = x.asked /\ y.published = TRUE
                                      /\ y.root = x.root /\ y.mounted = x.mounted /\ y.clips = x.clips /\ y.leaves = x.leaves
        BY DEF PageStates
      <3>2. \A x, y : y.mounted = x.mounted /\ y.clips = x.clips /\ y.leaves = x.leaves => Spots(y) = Spots(x)
        BY DEF Spots
      <3> HIDE DEF aa, pp
      <3>3. QED
        BY <2>4, <3>1, <3>2 DEF aa, pp
    <2>7. Alike(pp, aa)
      BY <2>4 DEF Alike, PageStates
    <2> HIDE DEF aa, pp
    <2>8. AsksWhatCounts(aa) /\ Counted(aa)
      BY <2>4, <2>6 DEF AsksWhatCounts, Counted
    <2>9. Keeps(pp, aa)
      BY <2>3, <2>6, <2>7, <2>8 DEF Keeps
    <2>10. Keeps(pp, q)
      BY <2>5, <2>9, KeepsAll
    <2>11. q.published = TRUE /\ q.root = p.root
      BY <2>4, <2>5, <2>6 DEF Keeps, Alike
    <2>12. GoodPage(q)
      BY <2>4, <2>5, <2>8, <2>11 DEF GoodPage, Keeps
    <2>13. QED
      BY <2>10, <2>11, <2>12 DEF Grows, q, pp
  <1>3. QED
    BY <1>1, <1>2

(* The page starts over: what was mounted goes, and nothing is asked for. *)
LEMMA StartsOver ==
  ASSUME NEW p \in PageStates, Fresh(p), NoStray(p), p.mounted # None \/ Unmounted(p)
  PROVE  GoodPage(Commit(p)) /\ Fresh(Commit(p)) /\ Alike(p, Commit(p))
  <1> DEFINE q == Commit(p)
  <1>1. q = Unmount(p)
    <2>1. CASE p.mounted = None
      BY <2>1 DEF Commit, Unmount, Fresh
    <2>2. CASE p.mounted # None
      <3>1. q = Mount(Unmount(p))
        BY <2>2 DEF Commit, Fresh
      <3>2. Unmount(p).root = None
        BY UnmountKeeps DEF Fresh, Keeps, Alike
      <3>3. QED
        BY <3>1, <3>2 DEF Mount
    <2>3. QED
      BY <2>1, <2>2
  <1> HIDE DEF q
  <1>2. Keeps(p, q) /\ Idle(q) /\ q.mounted = None /\ Unmounted(q) /\ NoStray(q)
    BY <1>1, UnmountKeeps DEF Fresh
  <1>3. q \in PageStates /\ Alike(p, q)
    BY <1>2 DEF Keeps
  <1>4. InPlace(q) /\ \A w \in Ways : q.leaves[w] = {}
    <2>1. \A w \in Ways : w[1] \in RootRels
      BY DEF Ways
    <2>2. \A w \in Ways : q.leaves[w] = {}
      BY <1>2, <2>1 DEF NoStray, Unmounted
    <2>3. QED
      BY <1>2, <2>1, <2>2 DEF InPlace, ClipsRight, LeavesRight, Unmounted
  <1>5. Counted(q)
    <2>1. \A x \in Places : Spots(q)[x] = {}
      BY <1>2, <1>4, PlacesOf, SpotsOf DEF Unmounted
    <2>2. \A n : {x \in Places : n \in Spots(q)[x]} = {}
      BY <2>1
    <2>3. QED
      <3>1. \A n \in Nodes : q.refs[n] = 0
        BY <1>2 DEF Idle
      <3>2. \A n : Cardinality({x \in Places : n \in Spots(q)[x]}) = 0
        BY <2>2, FS_EmptySet
      <3>3. QED
        BY <3>1, <3>2 DEF Counted, CountedIn
  <1>6. AsksWhatCounts(q)
    BY <1>2 DEF AsksWhatCounts, Idle
  <1>7. QED
    BY <1>2, <1>3, <1>4, <1>5, <1>6 DEF GoodPage, Fresh, Alike, q

(* What is on the way. *)
UpdateValues == {u \in UNION {[S -> SUBSET (Clips \cup Leaves)] : S \in SUBSET Links} : IsUpdate(u)}
OutMessages ==
  [type : {"RUNTIME_READY"}, session : Sessions, key : Sessions]
   \cup [type : {"WORKSPACE_OPEN_STATE"}, state : {"ready", "failed"}] \cup [type : {"RUNTIME_ERROR"}]
   \cup [type : {"TREE_ROOT"}, session : Sessions] \cup [type : {"UPDATE"}, values : UpdateValues]
InMessages ==
  [type : {"BOOTSTRAP"}, key : Sessions, session : Sessions] \cup [type : {"CLOSE_SESSION"}]
   \cup [type : {"SHAPES"}, publish : BOOLEAN, on : SUBSET Nodes, off : SUBSET Nodes]

LEMMA AfterHandling ==
  ASSUME NEW p, GoodPage(p), NEW m \in OutMessages, NEW outerFirst \in BOOLEAN
  PROVE  LET r == Handled(p, m, outerFirst) q == Commit(r)
         IN /\ GoodPage(q) /\ Grows(r, q) /\ (p.published => q.published)
            /\ \A n \in Nodes : p.asked[n] # "unset" => q.asked[n] # "unset"
            /\ m.type # "TREE_ROOT" => q.root = p.root /\ q.published = p.published
            /\ q.booted = (IF m.type = "RUNTIME_READY" THEN TRUE ELSE p.booted) /\ q.conn = p.conn
            /\ q.session = IF m.type = "RUNTIME_READY" THEN m.session ELSE p.session
  <1> DEFINE r == Handled(p, m, outerFirst)
             q == Commit(r)
  <1>0. p \in PageStates
    BY DEF GoodPage
  <1>1. CASE m.type \in {"RUNTIME_READY", "WORKSPACE_OPEN_STATE", "RUNTIME_ERROR"}
    <2>1. /\ r \in PageStates /\ r.refs = p.refs /\ r.asked = p.asked /\ r.published = p.published /\ r.root = p.root
          /\ r.mounted = p.mounted /\ r.clips = p.clips /\ r.leaves = p.leaves /\ r.held = p.held /\ r.conn = p.conn
          /\ r.booted = (IF m.type = "RUNTIME_READY" THEN TRUE ELSE p.booted)
          /\ r.session = IF m.type = "RUNTIME_READY" THEN m.session ELSE p.session
      <3>1. CASE m.type = "RUNTIME_READY"
        <4>1. m.session \in Sessions /\ m.key \in Sessions
          BY <3>1 DEF OutMessages
        <4>2. r = [p EXCEPT !.booted = TRUE, !.ready = TRUE, !.session = m.session, !.key = m.key, !.error = FALSE]
          BY <3>1 DEF Handled
        <4>3. QED
          BY <1>0, <3>1, <4>1, <4>2 DEF PageStates
      <3>2. CASE m.type = "WORKSPACE_OPEN_STATE"
        <4>1. m.state \in {"ready", "failed"}
          BY <3>2 DEF OutMessages
        <4>2. r = [p EXCEPT !.opened = m.state, !.error = p.error \/ m.state = "failed"]
          BY <3>2 DEF Handled
        <4>3. (p.error \/ m.state = "failed") \in BOOLEAN
          OBVIOUS
        <4>4. QED
          BY <1>0, <3>2, <4>1, <4>2, <4>3 DEF PageStates
      <3>3. CASE m.type = "RUNTIME_ERROR"
        <4>1. r = [p EXCEPT !.error = TRUE]
          BY <3>3 DEF Handled
        <4>2. QED
          BY <1>0, <3>3, <4>1 DEF PageStates
      <3>4. QED
        BY <1>1, <3>1, <3>2, <3>3
    <2> HIDE DEF r
    <2>2. Spots(r) = Spots(p)
      BY <2>1 DEF Spots
    <2>3. GoodPage(r)
      BY <2>1, <2>2 DEF GoodPage, AsksWhatCounts, Counted, InPlace, ClipsRight, LeavesRight
    <2>4. q = r
      BY <2>3 DEF Commit, GoodPage
    <2> HIDE DEF q
    <2>5. QED
      BY <1>1, <2>1, <2>3, <2>4, GrowsSelf DEF q, r
  <1>2. CASE m.type = "TREE_ROOT"
    <2>1. m.session \in Sessions
      BY <1>2 DEF OutMessages
    <2>2. r = [p EXCEPT !.root = m.session, !.ready = p.booted]
      BY <1>2 DEF Handled
    <2>3. /\ r \in PageStates /\ r.refs = p.refs /\ r.asked = p.asked /\ r.published = p.published /\ r.root = m.session
          /\ r.mounted = p.mounted /\ r.clips = p.clips /\ r.leaves = p.leaves /\ r.held = p.held /\ r.conn = p.conn
          /\ r.booted = (IF m.type = "RUNTIME_READY" THEN TRUE ELSE p.booted)
          /\ r.session = IF m.type = "RUNTIME_READY" THEN m.session ELSE p.session
      <3>1. p.booted \in BOOLEAN
        BY <1>0 DEF PageStates
      <3>2. QED
        BY <1>0, <1>2, <2>1, <2>2, <3>1 DEF PageStates
    <2> HIDE DEF r
    <2>4. Spots(r) = Spots(p)
      BY <2>3 DEF Spots
    <2>5. AsksWhatCounts(r) /\ Counted(r) /\ InPlace(r) /\ (r.mounted # None => r.published)
      BY <2>3, <2>4 DEF GoodPage, AsksWhatCounts, Counted, InPlace, ClipsRight, LeavesRight
    <2>6. GoodPage(q) /\ Grows(r, q)
      BY <2>1, <2>3, <2>5, CommitKeeps
    <2> HIDE DEF q
    <2>7. LET u == [r EXCEPT !.published = q.published]
          IN u.asked = r.asked /\ u.conn = r.conn /\ u.booted = r.booted /\ u.session = r.session
      BY <2>3 DEF PageStates
    <2>8. QED
      BY <1>2, <2>3, <2>6, <2>7 DEF q, r, Grows, Keeps, Alike
  <1>3. CASE m.type = "UPDATE"
    <2>1. IsUpdate(m.values)
      BY <1>3 DEF OutMessages, UpdateValues
    <2>2. r = HandleUpdate(p, m.values, outerFirst)
      BY <1>3 DEF Handled
    <2> HIDE DEF r
    <2>3. GoodPage(r) /\ Keeps(Updated(p, m.values), r)
      BY <2>1, <2>2, HandleUpdateKeeps
    <2>4. q = r
      BY <2>3 DEF Commit, GoodPage
    <2>5. LET u == Updated(p, m.values) IN /\ u.asked = p.asked /\ u.published = p.published /\ u.root = p.root
                                             /\ u.conn = p.conn /\ u.booted = p.booted /\ u.session = p.session
      BY <1>0 DEF Updated, PageStates
    <2> HIDE DEF q
    <2>6. r \in PageStates
      BY <2>3 DEF GoodPage
    <2>7. QED
      BY <1>3, <2>3, <2>4, <2>5, <2>6, GrowsSelf DEF q, r, Keeps, Alike
  <1>4. QED
    BY <1>1, <1>2, <1>3 DEF OutMessages

(* Without a root nothing is mounted, whatever comes but a root. *)
LEMMA SyncNone ==
  ASSUME NEW p
  PROVE  SyncWays(p, {}) = p
  <1>0. IsFiniteSet({})
    BY FS_EmptySet
  <1>1. PICK it : FoldsSet("follow", None, p, it, {}) /\ SyncWays(p, {}) = it[{}]
    <2>1. \E it : FoldsSet("follow", None, p, it, {}) /\ SyncWays(p, {}) = it[{}]
      BY <1>0, PageFolds, Zenon
    <2>2. QED
      BY <2>1
  <1>2. QED
    BY <1>1 DEF FoldsSet

LEMMA FlushNothing ==
  ASSUME NEW p \in PageStates, p.mounted = None, Unmounted(p), NEW dirty, NEW outer, NEW inner, NEW outerFirst \in BOOLEAN
  PROVE  FlushDirty(p, dirty, outer, inner, outerFirst) = p
  <1> DEFINE ways == {way \in Ways : way[3] = inner /\ way[2] \in p.clips[way[1]] /\ <<way[2], inner>> \in dirty}
  <1>1. ways = {}
    BY DEF Unmounted, Ways
  <1>2. FlushDirty(p, dirty, outer, inner, outerFirst) = SyncWays(p, ways)
    <2>1. CASE outerFirst
      BY <2>1, Zenon DEF FlushDirty
    <2>2. CASE ~outerFirst
      BY <2>2, Zenon DEF FlushDirty
    <2>3. QED
      BY <2>1, <2>2
  <1>3. QED
    BY <1>1, <1>2, SyncNone

LEMMA StaysFresh ==
  ASSUME NEW p, GoodPage(p), Fresh(p), NEW m \in OutMessages, m.type # "TREE_ROOT", NEW outerFirst \in BOOLEAN
  PROVE  LET q == Commit(Handled(p, m, outerFirst)) IN Fresh(q) /\ q.asked = p.asked
  <1> DEFINE r == Handled(p, m, outerFirst)
             q == Commit(r)
  <1>0. p \in PageStates /\ p.mounted = None /\ p.root = None /\ Unmounted(p)
    BY DEF GoodPage, Fresh, InPlace, ClipsRight, Unmounted
  <1>1. r.refs = p.refs /\ r.asked = p.asked /\ r.published = p.published /\ r.root = None /\ r.mounted = None
    <2>1. CASE m.type = "RUNTIME_READY"
      BY <1>0, <2>1 DEF Handled, PageStates
    <2>2. CASE m.type = "WORKSPACE_OPEN_STATE"
      BY <1>0, <2>2 DEF Handled, PageStates
    <2>3. CASE m.type = "RUNTIME_ERROR"
      BY <1>0, <2>3 DEF Handled, PageStates
    <2>4. CASE m.type = "UPDATE"
      <3> DEFINE u == m.values
                 dirty == {l \in DOMAIN u : u[l] # p.held[l]}
                 h == [l \in Links |-> IF l \in dirty THEN u[l] ELSE p.held[l]]
                 a == [p EXCEPT !.held = h]
      <3>1. IsUpdate(u) /\ p.held \in HeldValues
        BY <1>0, <2>4, PageTypes DEF OutMessages, UpdateValues
      <3>2. h \in HeldValues
        <4>1. \A l \in Links : h[l] \subseteq UnderLink(l)
          BY <3>1 DEF IsUpdate, HeldValues
        <4>2. \A l \in Links : h[l] \subseteq Clips \cup Leaves
          BY <4>1 DEF UnderLink
        <4> HIDE DEF h
        <4>3. h = [l \in Links |-> h[l]]
          BY DEF h
        <4>4. QED
          BY <4>1, <4>2, <4>3 DEF HeldValues
      <3>3. /\ a \in PageStates /\ a.mounted = None /\ a.clips = p.clips /\ a.refs = p.refs /\ a.asked = p.asked
            /\ a.published = p.published /\ a.root = None
        BY <1>0, <3>2 DEF PageStates
      <3>4. r = FlushDirty(FlushDirty(a, dirty, "selectedClip", "text", outerFirst), dirty, "clips", "effects", outerFirst)
        BY <1>0, <2>4 DEF Handled, HandleUpdate, PageStates
      <3> HIDE DEF a, r, dirty
      <3>5. Unmounted(a)
        BY <1>0, <3>3 DEF Unmounted
      <3>6. r = a
        BY <3>3, <3>4, <3>5, FlushNothing
      <3>7. QED
        BY <3>3, <3>6
    <2>5. QED
      BY <2>1, <2>2, <2>3, <2>4 DEF OutMessages
  <1>2. q = r
    BY <1>1 DEF Commit
  <1> HIDE DEF q, r
  <1>3. QED
    BY <1>1, <1>2 DEF Fresh, Idle, q, r

(* What the worker will have been told once it has handled what is on the way to it. *)
Shaped(m) == m.type = "SHAPES"
Wanted(in, wants, n) ==
  \/ \E i \in DOMAIN in : /\ Shaped(in[i]) /\ n \in in[i].on
                          /\ \A j \in DOMAIN in : i < j /\ Shaped(in[j]) => n \notin in[j].off
  \/ n \in wants /\ \A j \in DOMAIN in : Shaped(in[j]) => n \notin in[j].off
Known(in, knows) == knows \/ \E i \in DOMAIN in : Shaped(in[i]) /\ in[i].publish
Asked(p, in, knows, wants) ==
  (p.published <=> Known(in, knows)) /\ \A n \in Nodes : p.asked[n] = "yes" <=> Wanted(in, wants, n)

LEMMA OneMore ==
  ASSUME NEW S, NEW s \in Seq(S), NEW m \in S
  PROVE  LET u == s \o <<m>>
         IN /\ u \in Seq(S) /\ DOMAIN u = 1..(Len(s) + 1) /\ DOMAIN s = 1..Len(s) /\ Len(s) \in Nat
            /\ u[Len(s) + 1] = m /\ \A i \in DOMAIN s : i \in DOMAIN u /\ u[i] = s[i] /\ i < Len(s) + 1
            /\ Len(u) = Len(s) + 1
  OBVIOUS

LEMMA OneLess ==
  ASSUME NEW S, NEW s \in Seq(S), s # <<>>
  PROVE  LET u == Tail(s)
         IN /\ u \in Seq(S) /\ DOMAIN u = 1..(Len(s) - 1) /\ DOMAIN s = 1..Len(s) /\ Len(s) \in Nat \ {0}
            /\ Head(s) = s[1] /\ 1 \in DOMAIN s /\ Head(s) \in S
            /\ \A i \in DOMAIN u : i + 1 \in DOMAIN s /\ u[i] = s[i + 1]
            /\ \A i \in DOMAIN s : i = 1 \/ (i - 1 \in DOMAIN u /\ s[i] = u[i - 1])
            /\ Len(u) = Len(s) - 1
  OBVIOUS

LEMMA WantedAdds ==
  ASSUME NEW in \in Seq(InMessages), NEW m \in InMessages, NEW wants, NEW knows \in BOOLEAN, NEW n
  PROVE  /\ Wanted(in \o <<m>>, wants, n) <=> IF Shaped(m) THEN n \in m.on \/ (n \notin m.off /\ Wanted(in, wants, n))
                                              ELSE Wanted(in, wants, n)
         /\ Known(in \o <<m>>, knows) <=> Known(in, knows) \/ (Shaped(m) /\ m.publish)
  <1> DEFINE u == in \o <<m>>
             l == Len(in) + 1
  <1>1. /\ DOMAIN u = 1..l /\ DOMAIN in = 1..(l - 1) /\ l \in Nat \ {0} /\ u[l] = m
        /\ \A i \in DOMAIN in : i \in DOMAIN u /\ u[i] = in[i] /\ i < l
    BY OneMore
  <1> HIDE DEF u, l
  <1>2. \A i \in DOMAIN u : i = l \/ i \in DOMAIN in
    BY <1>1
  <1>3. l \in DOMAIN u
    BY <1>1
  <1>4. Wanted(u, wants, n) <=> IF Shaped(m) THEN n \in m.on \/ (n \notin m.off /\ Wanted(in, wants, n)) ELSE Wanted(in, wants, n)
    <2>1. ASSUME Wanted(u, wants, n), Shaped(m), n \notin m.on PROVE n \notin m.off /\ Wanted(in, wants, n)
      <3>1. CASE n \in wants /\ \A j \in DOMAIN u : Shaped(u[j]) => n \notin u[j].off
        BY <1>1, <1>3, <2>1, <3>1 DEF Wanted
      <3>2. CASE \E i \in DOMAIN u : /\ Shaped(u[i]) /\ n \in u[i].on
                                     /\ \A j \in DOMAIN u : i < j /\ Shaped(u[j]) => n \notin u[j].off
        BY <1>1, <1>2, <1>3, <2>1, <3>2 DEF Wanted
      <3>3. QED
        BY <2>1, <3>1, <3>2 DEF Wanted
    <2>2. ASSUME Wanted(u, wants, n), ~Shaped(m) PROVE Wanted(in, wants, n)
      <3>1. CASE n \in wants /\ \A j \in DOMAIN u : Shaped(u[j]) => n \notin u[j].off
        BY <1>1, <3>1 DEF Wanted
      <3>2. CASE \E i \in DOMAIN u : /\ Shaped(u[i]) /\ n \in u[i].on
                                     /\ \A j \in DOMAIN u : i < j /\ Shaped(u[j]) => n \notin u[j].off
        BY <1>1, <1>2, <2>2, <3>2 DEF Wanted
      <3>3. QED
        BY <2>2, <3>1, <3>2 DEF Wanted
    <2>3. ASSUME Shaped(m), n \in m.on PROVE Wanted(u, wants, n)
      <3>1. \A j \in DOMAIN u : ~(l < j)
        BY <1>1
      <3>2. QED
        BY <1>1, <1>3, <2>3, <3>1 DEF Wanted
    <2>4. ASSUME Wanted(in, wants, n), Shaped(m) => n \notin m.off PROVE Wanted(u, wants, n)
      <3>1. CASE n \in wants /\ \A j \in DOMAIN in : Shaped(in[j]) => n \notin in[j].off
        BY <1>1, <1>2, <2>4, <3>1 DEF Wanted
      <3>2. CASE \E i \in DOMAIN in : /\ Shaped(in[i]) /\ n \in in[i].on
                                      /\ \A j \in DOMAIN in : i < j /\ Shaped(in[j]) => n \notin in[j].off
        BY <1>1, <1>2, <2>4, <3>2 DEF Wanted
      <3>3. QED
        BY <2>4, <3>1, <3>2 DEF Wanted
    <2>5. QED
      BY <2>1, <2>2, <2>3, <2>4
  <1>5. Known(u, knows) <=> Known(in, knows) \/ (Shaped(m) /\ m.publish)
    BY <1>1, <1>2, <1>3 DEF Known
  <1>6. QED
    BY <1>4, <1>5 DEF u

LEMMA WantedTakes ==
  ASSUME NEW in \in Seq(InMessages), in # <<>>, NEW wants, NEW knows \in BOOLEAN, NEW n
  PROVE  LET m == Head(in)
         IN /\ Wanted(in, wants, n) <=> Wanted(Tail(in), IF Shaped(m) THEN (wants \ m.off) \cup m.on ELSE wants, n)
            /\ Known(in, knows) <=> Known(Tail(in), IF Shaped(m) THEN knows \/ m.publish ELSE knows)
  <1> DEFINE u == Tail(in)
             m == Head(in)
             w == IF Shaped(m) THEN (wants \ m.off) \cup m.on ELSE wants
  <1>1. /\ DOMAIN u \subseteq Int /\ DOMAIN in \subseteq Int /\ m = in[1] /\ 1 \in DOMAIN in
        /\ \A i \in DOMAIN u : i + 1 \in DOMAIN in /\ u[i] = in[i + 1] /\ i > 0
        /\ \A i \in DOMAIN in : i = 1 \/ (i - 1 \in DOMAIN u /\ in[i] = u[i - 1])
    BY OneLess
  <1> HIDE DEF u
  <1>2. ASSUME Wanted(in, wants, n) PROVE Wanted(u, w, n)
    <2>1. CASE n \in wants /\ \A j \in DOMAIN in : Shaped(in[j]) => n \notin in[j].off
      <3>1. n \in w
        BY <1>1, <2>1
      <3>2. QED
        BY <1>1, <2>1, <3>1 DEF Wanted
    <2>2. CASE \E i \in DOMAIN in : /\ Shaped(in[i]) /\ n \in in[i].on
                                    /\ \A j \in DOMAIN in : i < j /\ Shaped(in[j]) => n \notin in[j].off
      <3>1. PICK i \in DOMAIN in : /\ Shaped(in[i]) /\ n \in in[i].on
                                   /\ \A j \in DOMAIN in : i < j /\ Shaped(in[j]) => n \notin in[j].off
        BY <2>2
      <3>2. CASE i = 1
        <4>1. n \in w
          BY <1>1, <3>1, <3>2
        <4>2. \A j \in DOMAIN u : Shaped(u[j]) => n \notin u[j].off
          <5>1. \A j \in DOMAIN u : 1 < j + 1
            BY <1>1
          <5>2. QED
            BY <1>1, <3>1, <3>2, <5>1
        <4>3. QED
          BY <4>1, <4>2 DEF Wanted
      <3>3. CASE i # 1
        <4>1. i - 1 \in DOMAIN u /\ u[i - 1] = in[i]
          BY <1>1, <3>3
        <4>2. \A j \in DOMAIN u : i - 1 < j /\ Shaped(u[j]) => n \notin u[j].off
          <5>1. \A j \in DOMAIN u : i - 1 < j => i < j + 1
            BY <1>1
          <5>2. QED
            BY <1>1, <3>1, <5>1
        <4>3. QED
          BY <3>1, <4>1, <4>2 DEF Wanted
      <3>4. QED
        BY <3>2, <3>3
    <2>3. QED
      BY <1>2, <2>1, <2>2 DEF Wanted
  <1>3. ASSUME Wanted(u, w, n) PROVE Wanted(in, wants, n)
    <2>1. CASE n \in w /\ \A j \in DOMAIN u : Shaped(u[j]) => n \notin u[j].off
      <3>1. \A j \in DOMAIN in : j # 1 /\ Shaped(in[j]) => n \notin in[j].off
        BY <1>1, <2>1
      <3>2. CASE Shaped(m) /\ n \in m.on
        <4>1. \A j \in DOMAIN in : 1 < j => j # 1
          BY <1>1
        <4>2. QED
          BY <1>1, <3>1, <3>2, <4>1 DEF Wanted
      <3>3. CASE ~(Shaped(m) /\ n \in m.on)
        <4>1. n \in wants /\ (Shaped(m) => n \notin m.off)
          BY <2>1, <3>3
        <4>2. QED
          BY <1>1, <3>1, <4>1 DEF Wanted
      <3>4. QED
        BY <3>2, <3>3
    <2>2. CASE \E i \in DOMAIN u : /\ Shaped(u[i]) /\ n \in u[i].on
                                   /\ \A j \in DOMAIN u : i < j /\ Shaped(u[j]) => n \notin u[j].off
      <3>1. PICK i \in DOMAIN u : /\ Shaped(u[i]) /\ n \in u[i].on
                                  /\ \A j \in DOMAIN u : i < j /\ Shaped(u[j]) => n \notin u[j].off
        BY <2>2
      <3>2. \A j \in DOMAIN in : i + 1 < j /\ Shaped(in[j]) => n \notin in[j].off
        <4>1. \A j \in DOMAIN in : i + 1 < j => j # 1 /\ i < j - 1
          BY <1>1
        <4>2. QED
          BY <1>1, <3>1, <4>1
      <3>3. QED
        BY <1>1, <3>1, <3>2 DEF Wanted
    <2>3. QED
      BY <1>3, <2>1, <2>2 DEF Wanted
  <1>4. Known(in, knows) <=> Known(u, IF Shaped(m) THEN knows \/ m.publish ELSE knows)
    BY <1>1 DEF Known
  <1>5. QED
    BY <1>2, <1>3, <1>4 DEF u

(* What the page asks for since it was p goes on the way. *)
LEMMA ShapesMessage ==
  ASSUME NEW p \in PageStates, NEW q \in PageStates, NEW in \in Seq(InMessages), NEW knows \in BOOLEAN, NEW wants,
         Asked(p, in, knows, wants), p.published => q.published,
         \A n \in Nodes : p.asked[n] # "unset" => q.asked[n] # "unset"
  PROVE  LET s == Shapes(p, q)
         IN /\ s = <<>> \/ (\E m \in InMessages : Shaped(m) /\ s = <<m>>)
            /\ Asked(q, in \o s, knows, wants)
  <1> DEFINE on == {n \in Nodes : q.asked[n] = "yes" /\ p.asked[n] # "yes"}
             off == {n \in Nodes : q.asked[n] = "no" /\ p.asked[n] # "no"}
             publish == q.published /\ ~p.published
             m == [type |-> "SHAPES", publish |-> publish, on |-> on, off |-> off]
  <1>0. /\ p.asked \in [Nodes -> Answers] /\ q.asked \in [Nodes -> Answers] /\ p.published \in BOOLEAN /\ q.published \in BOOLEAN
    BY DEF PageStates
  <1>1. m \in InMessages /\ Shaped(m) /\ m.on = on /\ m.off = off /\ m.publish = publish
    BY <1>0 DEF InMessages, Shaped
  <1>2. Shapes(p, q) = IF publish \/ on \cup off # {} THEN <<m>> ELSE <<>>
    BY DEF Shapes
  <1> HIDE DEF m, publish
  <1>3. CASE publish \/ on \cup off # {}
    <2>1. Shapes(p, q) = <<m>>
      BY <1>2, <1>3
    <2>2. ASSUME NEW n \in Nodes PROVE q.asked[n] = "yes" <=> Wanted(in \o <<m>>, wants, n)
      <3>1. Wanted(in \o <<m>>, wants, n) <=> n \in on \/ (n \notin off /\ Wanted(in, wants, n))
        BY <1>1, WantedAdds
      <3>2. p.asked[n] = "yes" <=> Wanted(in, wants, n)
        BY DEF Asked
      <3>3. p.asked[n] \in Answers /\ q.asked[n] \in Answers
        BY <1>0
      <3>4. QED
        BY <3>1, <3>2, <3>3 DEF Answers
    <2>3. q.published <=> Known(in \o <<m>>, knows)
      <3>1. Known(in \o <<m>>, knows) <=> Known(in, knows) \/ publish
        BY <1>1, WantedAdds
      <3>2. QED
        BY <3>1 DEF Asked, publish
    <2>4. QED
      BY <1>1, <2>1, <2>2, <2>3 DEF Asked
  <1>4. CASE ~(publish \/ on \cup off # {})
    <2>1. Shapes(p, q) = <<>> /\ in \o <<>> = in
      BY <1>2, <1>4
    <2>2. ASSUME NEW n \in Nodes PROVE q.asked[n] = "yes" <=> p.asked[n] = "yes"
      <3>1. p.asked[n] \in Answers /\ q.asked[n] \in Answers /\ n \notin on /\ n \notin off
        BY <1>0, <1>4
      <3>2. QED
        BY <3>1 DEF Answers
    <2>3. q.published <=> p.published
      BY <1>4 DEF publish
    <2>4. QED
      BY <2>1, <2>2, <2>3 DEF Asked
  <1>5. QED
    BY <1>3, <1>4

ConnStates ==
  [tab : Tabs \cup {None}, worker : Workers \cup {None}, phase : {"unused", "open", "closing", "closed"},
   step : {"idle", "app", "root", "stream"}, key : Sessions, session : Sessions, stream : Sessions \cup {None},
   knows : BOOLEAN, wants : SUBSET Nodes, sent : UpdateValues, inbox : Seq(InMessages), outbox : Seq(OutMessages)]

Boots(m) == m.type = "BOOTSTRAP"
Rootless(out) == \A i \in DOMAIN out : out[i].type # "TREE_ROOT"
Unready(out) == \A i \in DOMAIN out : out[i].type # "RUNTIME_READY"
Unshaped(in) == \A i \in DOMAIN in : ~Shaped(in[i])
HomeIn(in, home) == \A i \in DOMAIN in : Boots(in[i]) => in[i].session = home
HomeOut(out, home) == \A i \in DOMAIN out : out[i].type = "RUNTIME_READY" =>
  out[i].session = home /\ \A j \in DOMAIN out : i < j => out[j].type # "TREE_ROOT"

(* The connection serves the session it was opened for. *)
HomeAt(p, k, home) ==
  /\ HomeIn(k.inbox, home) /\ HomeOut(k.outbox, home) /\ (k.step # "idle" => k.session = home) /\ k.stream \in {None, home}
  /\ k.stream = None => /\ Fresh(p) /\ ~p.booted /\ Rootless(k.outbox) /\ Unready(k.outbox) /\ k.step # "stream"
                        /\ k.wants = {} /\ ~k.knows /\ Unshaped(k.inbox)
  /\ p.booted => p.session = home /\ Rootless(k.outbox)
  /\ Asked(p, k.inbox, k.knows, k.wants)
(* The page has asked for another session, and the worker has not come to it. *)
SwitchedFrom(p, k, home) ==
  /\ Fresh(p) /\ Rootless(k.outbox) /\ k.stream = home
  /\ \/ /\ k.inbox # <<>> /\ Boots(k.inbox[Len(k.inbox)]) /\ k.inbox[Len(k.inbox)].session # home
        /\ \A i \in 1..(Len(k.inbox) - 1) : Boots(k.inbox[i]) => k.inbox[i].session = home
        /\ k.step # "idle" => k.session = home
     \/ k.inbox = <<>> /\ k.step \in {"app", "root"} /\ k.session # home
(* The worker has replaced the stream. *)
Moved(p, k) ==
  /\ k.step \in {"idle", "stream"} /\ \A i \in DOMAIN k.inbox : ~Boots(k.inbox[i])
  /\ Asked(p, k.inbox, k.knows, k.wants)

Link(p, k, switches) ==
  \/ \E home \in Sessions : HomeAt(p, k, home)
  \/ switches = 0 /\ ((\E home \in Sessions : SwitchedFrom(p, k, home)) \/ Moved(p, k))

LEMMA LinkNow ==
  ASSUME NEW p, NEW k \in ConnStates, NEW switches, Link(p, k, switches), k.step = "idle", k.inbox = <<>>
  PROVE  (p.published <=> k.knows) /\ \A n \in Nodes : p.asked[n] = "yes" <=> n \in k.wants
  <1>1. Asked(p, k.inbox, k.knows, k.wants)
    BY DEF Link, HomeAt, SwitchedFrom, Moved
  <1>2. DOMAIN k.inbox = {}
    OBVIOUS
  <1>3. QED
    BY <1>1, <1>2 DEF Asked, Wanted, Known

LEMMA LinkLess ==
  ASSUME NEW p, NEW k, NEW switches, Link(p, k, switches), NEW fewer, switches = 0 => fewer = 0
  PROVE  Link(p, k, fewer)
  BY DEF Link

(* The worker says something that is neither a root nor that it is ready. *)
LEMMA LinkSays ==
  ASSUME NEW p, NEW k \in ConnStates, NEW l \in ConnStates, NEW switches, Link(p, k, switches),
         NEW m \in OutMessages, m.type \notin {"TREE_ROOT", "RUNTIME_READY"},
         l.outbox = k.outbox \o <<m>>, l.inbox = k.inbox, l.session = k.session, l.stream = k.stream, l.knows = k.knows,
         l.wants = k.wants, (l.step = k.step) \/ (l.step = "idle" /\ k.step = "app" /\ k.stream = None)
  PROVE  Link(p, l, switches)
  <1>0. /\ k.outbox \in Seq(OutMessages)
        /\ \A i \in DOMAIN l.outbox : i \in DOMAIN k.outbox \/ i = Len(k.outbox) + 1
        /\ l.outbox[Len(k.outbox) + 1] = m /\ \A i \in DOMAIN k.outbox : l.outbox[i] = k.outbox[i]
    <2>1. k.outbox \in Seq(OutMessages)
      BY DEF ConnStates
    <2> DEFINE u == k.outbox \o <<m>>
    <2>2. /\ DOMAIN u = 1..(Len(k.outbox) + 1) /\ DOMAIN k.outbox = 1..Len(k.outbox) /\ Len(k.outbox) \in Nat
          /\ u[Len(k.outbox) + 1] = m /\ \A i \in DOMAIN k.outbox : u[i] = k.outbox[i]
      BY <2>1, OneMore
    <2> HIDE DEF u
    <2>3. \A i \in DOMAIN u : i \in DOMAIN k.outbox \/ i = Len(k.outbox) + 1
      BY <2>2
    <2>4. QED
      BY <2>1, <2>2, <2>3 DEF u
  <1>1. (Rootless(k.outbox) => Rootless(l.outbox)) /\ (Unready(k.outbox) => Unready(l.outbox))
        /\ \A home : HomeOut(k.outbox, home) => HomeOut(l.outbox, home)
    BY <1>0 DEF Rootless, Unready, HomeOut
  <1>2. ASSUME NEW home \in Sessions, HomeAt(p, k, home) PROVE HomeAt(p, l, home)
    BY <1>1, <1>2 DEF HomeAt
  <1>3. ASSUME NEW home \in Sessions, SwitchedFrom(p, k, home) PROVE SwitchedFrom(p, l, home)
    <2>1. home # None
      BY PageSyncAssumption
    <2>2. QED
      BY <1>1, <1>3, <2>1 DEF SwitchedFrom
  <1>4. Moved(p, k) => Moved(p, l)
    BY DEF Moved
  <1>5. QED
    BY <1>2, <1>3, <1>4 DEF Link

(* The runtime is there, and the session root is waited for. *)
LEMMA LinkRoot ==
  ASSUME NEW p, NEW k \in ConnStates, NEW l \in ConnStates, NEW switches, Link(p, k, switches), k.step = "app", l.step = "root",
         l.outbox = k.outbox, l.inbox = k.inbox, l.session = k.session, l.stream = k.stream, l.knows = k.knows, l.wants = k.wants
  PROVE  Link(p, l, switches)
  <1>1. ASSUME NEW home \in Sessions, HomeAt(p, k, home) PROVE HomeAt(p, l, home)
    BY <1>1 DEF HomeAt
  <1>2. ASSUME NEW home \in Sessions, SwitchedFrom(p, k, home) PROVE SwitchedFrom(p, l, home)
    BY <1>2 DEF SwitchedFrom
  <1>3. ~Moved(p, k)
    BY DEF Moved
  <1>4. QED
    BY <1>1, <1>2, <1>3 DEF Link

(* The worker takes a bootstrap. *)
LEMMA LinkStart ==
  ASSUME NEW p, NEW k \in ConnStates, NEW l \in ConnStates, NEW switches, Link(p, k, switches),
         k.step = "idle", k.inbox # <<>>, Boots(Head(k.inbox)), l.inbox = Tail(k.inbox), l.step = "app", l.session = Head(k.inbox).session,
         l.outbox = k.outbox, l.stream = k.stream, l.knows = k.knows, l.wants = k.wants
  PROVE  Link(p, l, switches)
  <1> DEFINE in == k.inbox
             n == Len(in)
             u == Tail(in)
  <1>1. in \in Seq(InMessages) /\ k.knows \in BOOLEAN
    BY DEF ConnStates
  <1>2. /\ DOMAIN u = 1..(n - 1) /\ DOMAIN in = 1..n /\ n \in Nat \ {0} /\ Head(in) = in[1] /\ 1 \in DOMAIN in
        /\ \A i \in DOMAIN u : i + 1 \in DOMAIN in /\ u[i] = in[i + 1]
        /\ Len(u) = n - 1 /\ u \in Seq(InMessages)
    BY <1>1, OneLess
  <1>3. ~Shaped(Head(in))
    BY DEF Boots, Shaped
  <1>4. Asked(p, in, k.knows, k.wants) => Asked(p, u, l.knows, l.wants)
    BY <1>1, <1>3, WantedTakes DEF Asked
  <1> HIDE DEF u, n
  <1>5. ASSUME NEW home \in Sessions, HomeAt(p, k, home) PROVE HomeAt(p, l, home)
    <2>1. HomeIn(u, home) /\ l.session = home /\ (Unshaped(in) => Unshaped(u))
      BY <1>2, <1>5 DEF HomeAt, HomeIn, Unshaped
    <2>2. QED
      BY <1>4, <1>5, <2>1 DEF HomeAt, u
  <1>6. ASSUME NEW home \in Sessions, SwitchedFrom(p, k, home) PROVE SwitchedFrom(p, l, home)
    <2>1. /\ in # <<>> /\ Boots(in[n]) /\ in[n].session # home
          /\ \A i \in 1..(n - 1) : Boots(in[i]) => in[i].session = home
      BY <1>6 DEF SwitchedFrom, n
    <2>2. CASE n = 1
      <3>1. u = <<>> /\ Head(in) = in[n]
        BY <1>2, <2>2
      <3>2. QED
        BY <1>6, <2>1, <3>1 DEF SwitchedFrom, u
    <2>3. CASE n # 1
      <3>1. u # <<>> /\ u[Len(u)] = in[n]
        BY <1>2, <2>3
      <3>2. Head(in).session = home
        BY <1>2, <2>1, <2>3
      <3>3. \A i \in 1..(Len(u) - 1) : Boots(u[i]) => u[i].session = home
        <4>1. \A i \in 1..(Len(u) - 1) : i \in DOMAIN u /\ i + 1 \in 1..(n - 1)
          BY <1>2
        <4>2. QED
          BY <1>2, <2>1, <4>1
      <3>4. QED
        BY <1>6, <2>1, <3>1, <3>2, <3>3 DEF SwitchedFrom, u
    <2>4. QED
      BY <2>2, <2>3
  <1>7. ~Moved(p, k)
    BY <1>2 DEF Moved
  <1>8. QED
    BY <1>5, <1>6, <1>7 DEF Link

(* The stream is there: another one, when it was for another session. *)
LEMMA LinkStreamKept ==
  ASSUME NEW p, NEW k \in ConnStates, NEW l \in ConnStates, NEW switches, Link(p, k, switches),
         k.step = "root", l.step = "stream", k.stream = k.session, k.session \in Sessions,
         l.outbox = k.outbox, l.inbox = k.inbox, l.session = k.session, l.stream = k.stream, l.knows = k.knows, l.wants = k.wants
  PROVE  Link(p, l, switches)
  <1>0. k.stream # None
    BY PageSyncAssumption
  <1>1. ASSUME NEW home \in Sessions, HomeAt(p, k, home) PROVE HomeAt(p, l, home)
    BY <1>0, <1>1 DEF HomeAt
  <1>2. ASSUME NEW home \in Sessions, SwitchedFrom(p, k, home) PROVE SwitchedFrom(p, l, home)
    BY <1>2 DEF SwitchedFrom
  <1>3. ~Moved(p, k)
    BY DEF Moved
  <1>4. QED
    BY <1>1, <1>2, <1>3 DEF Link

LEMMA LinkStreamNew ==
  ASSUME NEW p \in PageStates, NEW k \in ConnStates, NEW l \in ConnStates, NEW switches, Link(p, k, switches),
         k.step = "root", l.step = "stream", k.stream # k.session, k.session \in Sessions,
         NEW m \in OutMessages, NEW o \in OutMessages, m.type = "TREE_ROOT", o.type = "UPDATE",
         l.outbox = k.outbox \o <<m, o>>, l.inbox = k.inbox, l.session = k.session, l.stream = k.session,
         ~l.knows, l.wants = {}
  PROVE  Link(p, l, switches)
  <1>0. k.session # None /\ k.outbox \in Seq(OutMessages)
    BY PageSyncAssumption DEF ConnStates
  <1>1. ASSUME NEW home \in Sessions, HomeAt(p, k, home) PROVE HomeAt(p, l, home)
    <2>1. k.session = home /\ k.stream = None
      BY <1>1 DEF HomeAt
    <2>2. Asked(p, l.inbox, l.knows, l.wants)
      BY <1>1, <2>1 DEF HomeAt, Asked, Known
    <2>3. HomeOut(l.outbox, home)
      <3>1. \A i \in DOMAIN l.outbox : l.outbox[i].type # "RUNTIME_READY"
        <4>1. Unready(k.outbox)
          BY <1>1, <2>1 DEF HomeAt
        <4>2. \A i \in DOMAIN l.outbox : (i \in DOMAIN k.outbox /\ l.outbox[i] = k.outbox[i]) \/ l.outbox[i] \in {m, o}
          BY <1>0
        <4>3. QED
          BY <4>1, <4>2 DEF Unready
      <3>2. QED
        BY <3>1 DEF HomeOut
    <2>4. ~p.booted
      BY <1>1, <2>1 DEF HomeAt
    <2>5. QED
      BY <1>0, <1>1, <2>1, <2>2, <2>3, <2>4 DEF HomeAt
  <1>2. ASSUME NEW home \in Sessions, SwitchedFrom(p, k, home) PROVE Moved(p, l)
    <2>1. k.inbox = <<>> /\ Fresh(p)
      BY <1>2 DEF SwitchedFrom
    <2>2. DOMAIN l.inbox = {}
      BY <2>1
    <2>3. QED
      BY <2>1, <2>2 DEF Moved, Asked, Known, Wanted, Fresh, Idle
  <1>3. ~Moved(p, k)
    BY DEF Moved
  <1>4. QED
    BY <1>1, <1>2, <1>3 DEF Link

(* The bootstrap is done. *)
LEMMA LinkReady ==
  ASSUME NEW p, NEW k \in ConnStates, NEW l \in ConnStates, NEW switches, Link(p, k, switches),
         k.step = "stream", l.step = "idle", NEW m \in OutMessages, m.type = "RUNTIME_READY", m.session = k.session,
         l.outbox = k.outbox \o <<m>>, l.inbox = k.inbox, l.stream = k.stream, l.knows = k.knows, l.wants = k.wants
  PROVE  Link(p, l, switches)
  <1>0. /\ k.outbox \in Seq(OutMessages)
        /\ \A i \in DOMAIN l.outbox : i \in DOMAIN k.outbox \/ i = Len(k.outbox) + 1
        /\ l.outbox[Len(k.outbox) + 1] = m /\ \A i \in DOMAIN k.outbox : l.outbox[i] = k.outbox[i] /\ i < Len(k.outbox) + 1
        /\ Len(k.outbox) \in Nat
    <2>1. k.outbox \in Seq(OutMessages)
      BY DEF ConnStates
    <2> DEFINE u == k.outbox \o <<m>>
    <2>2. /\ DOMAIN u = 1..(Len(k.outbox) + 1) /\ DOMAIN k.outbox = 1..Len(k.outbox) /\ Len(k.outbox) \in Nat
          /\ u[Len(k.outbox) + 1] = m /\ \A i \in DOMAIN k.outbox : u[i] = k.outbox[i] /\ i < Len(k.outbox) + 1
      BY <2>1, OneMore
    <2> HIDE DEF u
    <2>3. \A i \in DOMAIN u : i \in DOMAIN k.outbox \/ i = Len(k.outbox) + 1
      BY <2>2
    <2>4. QED
      BY <2>1, <2>2, <2>3 DEF u
  <1>1. Rootless(k.outbox) => Rootless(l.outbox)
    BY <1>0 DEF Rootless
  <1>2. ASSUME NEW home \in Sessions, HomeAt(p, k, home) PROVE HomeAt(p, l, home)
    <2>1. k.session = home /\ k.stream = home /\ home # None
      BY <1>2, PageSyncAssumption DEF HomeAt
    <2>2. HomeOut(l.outbox, home)
      <3>1. ASSUME NEW i \in DOMAIN l.outbox, l.outbox[i].type = "RUNTIME_READY", NEW j \in DOMAIN l.outbox, i < j
            PROVE  l.outbox[j].type # "TREE_ROOT"
        <4>1. CASE j = Len(k.outbox) + 1
          BY <1>0, <4>1
        <4>2. CASE j \in DOMAIN k.outbox
          <5>1. i \in DOMAIN k.outbox
            <6>1. DOMAIN k.outbox \subseteq Int
              BY <1>0
            <6>2. QED
              BY <1>0, <3>1, <4>2, <6>1
          <5>2. QED
            BY <1>0, <1>2, <3>1, <4>2, <5>1 DEF HomeAt, HomeOut
        <4>3. QED
          BY <1>0, <4>1, <4>2
      <3>2. ASSUME NEW i \in DOMAIN l.outbox, l.outbox[i].type = "RUNTIME_READY" PROVE l.outbox[i].session = home
        BY <1>0, <1>2, <2>1, <3>2 DEF HomeAt, HomeOut
      <3>3. QED
        BY <3>1, <3>2 DEF HomeOut
    <2>3. QED
      BY <1>1, <1>2, <2>1, <2>2 DEF HomeAt
  <1>3. ASSUME NEW home \in Sessions, SwitchedFrom(p, k, home) PROVE SwitchedFrom(p, l, home)
    BY <1>1, <1>3 DEF SwitchedFrom
  <1>4. Moved(p, k) => Moved(p, l)
    BY DEF Moved
  <1>5. QED
    BY <1>2, <1>3, <1>4 DEF Link

(* The worker takes the shapes. *)
LEMMA LinkShapes ==
  ASSUME NEW p, NEW k \in ConnStates, NEW l \in ConnStates, NEW switches, Link(p, k, switches),
         k.inbox # <<>>, Shaped(Head(k.inbox)), l.inbox = Tail(k.inbox), l.step = k.step, l.session = k.session,
         l.outbox = k.outbox, l.stream = k.stream,
         l.knows = (k.knows \/ Head(k.inbox).publish), l.wants = (k.wants \ Head(k.inbox).off) \cup Head(k.inbox).on
  PROVE  Link(p, l, switches)
  <1> DEFINE in == k.inbox
             n == Len(in)
             u == Tail(in)
  <1>1. in \in Seq(InMessages) /\ k.knows \in BOOLEAN
    BY DEF ConnStates
  <1>2. /\ DOMAIN u = 1..(n - 1) /\ DOMAIN in = 1..n /\ n \in Nat \ {0} /\ Head(in) = in[1] /\ 1 \in DOMAIN in
        /\ \A i \in DOMAIN u : i + 1 \in DOMAIN in /\ u[i] = in[i + 1]
        /\ \A i \in DOMAIN in : i = 1 \/ (i - 1 \in DOMAIN u /\ in[i] = u[i - 1])
        /\ Len(u) = n - 1 /\ u \in Seq(InMessages)
    BY <1>1, OneLess
  <1>3. Asked(p, in, k.knows, k.wants) => Asked(p, u, l.knows, l.wants)
    <2>1. l.wants = IF Shaped(Head(in)) THEN (k.wants \ Head(in).off) \cup Head(in).on ELSE k.wants
      OBVIOUS
    <2>2. l.knows = IF Shaped(Head(in)) THEN k.knows \/ Head(in).publish ELSE k.knows
      OBVIOUS
    <2>3. \A x : Wanted(in, k.wants, x) <=> Wanted(u, l.wants, x)
      <3>0. in # <<>>
        OBVIOUS
      <3>1. \A x : Wanted(in, k.wants, x) <=> Wanted(Tail(in), IF Shaped(Head(in)) THEN (k.wants \ Head(in).off) \cup Head(in).on ELSE k.wants, x)
        BY <1>1, <3>0, WantedTakes
      <3> HIDE DEF in
      <3>2. QED
        BY <2>1, <3>1 DEF u
    <2>4. Known(in, k.knows) <=> Known(u, l.knows)
      <3> HIDE DEF u
      <3>1. Shaped(in[1]) /\ l.knows = (k.knows \/ in[1].publish)
        BY <1>2
      <3>2. QED
        BY <1>2, <3>1 DEF Known
    <2> HIDE DEF u
    <2>5. QED
      BY <2>3, <2>4 DEF Asked
  <1> HIDE DEF u, n
  <1>4. ~Boots(in[1])
    BY <1>2 DEF Boots, Shaped
  <1>5. ASSUME NEW home \in Sessions, HomeAt(p, k, home) PROVE HomeAt(p, l, home)
    <2>1. HomeIn(u, home)
      BY <1>2, <1>5 DEF HomeAt, HomeIn
    <2>2. k.stream # None
      BY <1>2, <1>5 DEF HomeAt, Unshaped
    <2>3. QED
      BY <1>3, <1>5, <2>1, <2>2 DEF HomeAt, u
  <1>6. ASSUME NEW home \in Sessions, SwitchedFrom(p, k, home) PROVE SwitchedFrom(p, l, home)
    <2>0. k.inbox # <<>>
      OBVIOUS
    <2>1. /\ Boots(in[n]) /\ in[n].session # home
          /\ \A i \in 1..(n - 1) : Boots(in[i]) => in[i].session = home
          /\ k.step # "idle" => k.session = home
      BY <1>6, <2>0 DEF SwitchedFrom, n
    <2>2. n # 1
      BY <1>2, <1>4, <2>1
    <2>3. u # <<>> /\ u[Len(u)] = in[n]
      <3>1. n - 1 \in DOMAIN u /\ Len(u) = n - 1 /\ n - 1 + 1 = n
        BY <1>2, <2>2
      <3>2. u[n - 1] = in[n - 1 + 1]
        BY <1>2, <3>1
      <3>3. u # <<>>
        BY <3>1
      <3>4. QED
        BY <3>1, <3>2, <3>3
    <2>4. \A i \in 1..(Len(u) - 1) : Boots(u[i]) => u[i].session = home
      <3>1. \A i \in 1..(Len(u) - 1) : i \in DOMAIN u /\ i + 1 \in 1..(n - 1)
        BY <1>2
      <3>2. QED
        BY <1>2, <2>1, <3>1
    <2>5. QED
      BY <1>6, <2>1, <2>3, <2>4 DEF SwitchedFrom, u
  <1>7. Moved(p, k) => Moved(p, l)
    <2>1. \A i \in DOMAIN k.inbox : ~Boots(k.inbox[i]) => \A j \in DOMAIN u : TRUE
      OBVIOUS
    <2>2. QED
      BY <1>2, <1>3 DEF Moved, u
  <1>8. QED
    BY <1>5, <1>6, <1>7 DEF Link

(* The page receives what the worker said, and asks for what follows from it. *)
(* The connection takes the answer of a page that has handled the first message. *)
Answered(p, k, l, outerFirst, q) ==
  /\ GoodPage(p) /\ k \in ConnStates /\ k.outbox # <<>> /\ q = Commit(Handled(p, Head(k.outbox), outerFirst)) /\ outerFirst \in BOOLEAN
  /\ l \in ConnStates /\ l.outbox = Tail(k.outbox) /\ l.inbox = k.inbox \o Shapes(p, q)
  /\ l.step = k.step /\ l.session = k.session /\ l.stream = k.stream /\ l.knows = k.knows /\ l.wants = k.wants

LEMMA LinkReceive ==
  ASSUME NEW p, NEW k, NEW l, NEW outerFirst, NEW q, NEW switches, Answered(p, k, l, outerFirst, q), Link(p, k, switches)
  PROVE  GoodPage(q) /\ q.conn = p.conn /\ Link(q, l, switches)
  <1>a. /\ GoodPage(p) /\ k \in ConnStates /\ k.outbox # <<>> /\ q = Commit(Handled(p, Head(k.outbox), outerFirst)) /\ outerFirst \in BOOLEAN
        /\ l \in ConnStates /\ l.outbox = Tail(k.outbox) /\ l.inbox = k.inbox \o Shapes(p, q)
        /\ l.step = k.step /\ l.session = k.session /\ l.stream = k.stream /\ l.knows = k.knows /\ l.wants = k.wants
    BY DEF Answered
  <1> USE <1>a
  <1> DEFINE out == k.outbox
             u == Tail(out)
             m == Head(out)
             in == k.inbox
             s == Shapes(p, q)
  <1>1. out \in Seq(OutMessages) /\ in \in Seq(InMessages) /\ k.knows \in BOOLEAN /\ p \in PageStates
    BY DEF ConnStates, GoodPage
  <1>2. /\ m = out[1] /\ 1 \in DOMAIN out /\ m \in OutMessages /\ DOMAIN out \subseteq Int
        /\ \A i \in DOMAIN u : i + 1 \in DOMAIN out /\ u[i] = out[i + 1] /\ 1 < i + 1 /\ i \in Int
    <2>1. /\ Head(out) = out[1] /\ 1 \in DOMAIN out /\ Head(out) \in OutMessages /\ DOMAIN out = 1..Len(out) /\ Len(out) \in Nat \ {0}
          /\ \A i \in DOMAIN u : i + 1 \in DOMAIN out /\ u[i] = out[i + 1]
          /\ DOMAIN u = 1..(Len(out) - 1)
      BY <1>1, OneLess
    <2> HIDE DEF u, out
    <2>2. QED
      BY <2>1
  <1>3. /\ GoodPage(q) /\ q.conn = p.conn /\ (p.published => q.published)
        /\ \A n \in Nodes : p.asked[n] # "unset" => q.asked[n] # "unset"
        /\ q.booted = (IF m.type = "RUNTIME_READY" THEN TRUE ELSE p.booted)
        /\ q.session = IF m.type = "RUNTIME_READY" THEN m.session ELSE p.session
    <2> DEFINE c == Commit(Handled(p, m, outerFirst))
    <2>1. /\ GoodPage(c) /\ c.conn = p.conn /\ (p.published => c.published)
          /\ \A n \in Nodes : p.asked[n] # "unset" => c.asked[n] # "unset"
          /\ c.booted = (IF m.type = "RUNTIME_READY" THEN TRUE ELSE p.booted)
          /\ c.session = IF m.type = "RUNTIME_READY" THEN m.session ELSE p.session
      <3>1. m \in OutMessages
        BY <1>2
      <3> HIDE DEF m
      <3>2. QED
        <4>1. LET r == Handled(p, m, outerFirst) x == Commit(r)
              IN /\ GoodPage(x) /\ Grows(r, x) /\ (p.published => x.published)
                 /\ \A n \in Nodes : p.asked[n] # "unset" => x.asked[n] # "unset"
                 /\ m.type # "TREE_ROOT" => x.root = p.root /\ x.published = p.published
                 /\ x.booted = (IF m.type = "RUNTIME_READY" THEN TRUE ELSE p.booted) /\ x.conn = p.conn
                 /\ x.session = IF m.type = "RUNTIME_READY" THEN m.session ELSE p.session
          BY <3>1, AfterHandling, Zenon
        <4>2. QED
          BY <4>1, Zenon
    <2>2. c = q
      OBVIOUS
    <2> HIDE DEF c, m
    <2>3. QED
      BY <2>1, <2>2
  <1>4. Fresh(p) /\ m.type # "TREE_ROOT" => Fresh(q) /\ s = <<>>
    <2>1. ASSUME Fresh(p), m.type # "TREE_ROOT" PROVE Fresh(q) /\ q.asked = p.asked
      BY <1>2, <2>1, StaysFresh
    <2>2. ASSUME Fresh(q), Fresh(p) PROVE s = <<>>
      <3>1. \A n \in Nodes : q.asked[n] = "unset"
        BY <2>2 DEF Fresh, Idle
      <3>2. {n \in Nodes : q.asked[n] = "yes" /\ p.asked[n] # "yes"} = {} /\ {n \in Nodes : q.asked[n] = "no" /\ p.asked[n] # "no"} = {}
        BY <3>1
      <3>3. ~(q.published /\ ~p.published)
        BY <2>2 DEF Fresh
      <3>4. QED
        BY <3>2, <3>3 DEF Shapes
    <2>3. QED
      BY <2>1, <2>2
  <1> HIDE DEF m, u, out
  <1>5. (Rootless(out) => Rootless(u) /\ m.type # "TREE_ROOT") /\ (Unready(out) => Unready(u) /\ m.type # "RUNTIME_READY")
    BY <1>2 DEF Rootless, Unready
  <1>6. ASSUME NEW home, HomeOut(out, home)
        PROVE  HomeOut(u, home) /\ (m.type = "RUNTIME_READY" => m.session = home /\ Rootless(u))
    <2>1. ASSUME NEW i \in DOMAIN u, u[i].type = "RUNTIME_READY", NEW j \in DOMAIN u, i < j PROVE u[j].type # "TREE_ROOT"
      <3>1. i + 1 < j + 1
        BY <1>2, <2>1
      <3>2. QED
        BY <1>2, <1>6, <2>1, <3>1 DEF HomeOut
    <2>2. ASSUME NEW i \in DOMAIN u, u[i].type = "RUNTIME_READY" PROVE u[i].session = home
      BY <1>2, <1>6, <2>2 DEF HomeOut
    <2>3. m.type = "RUNTIME_READY" => m.session = home /\ Rootless(u)
      BY <1>2, <1>6 DEF HomeOut, Rootless
    <2>4. QED
      BY <2>1, <2>2, <2>3 DEF HomeOut
  <1>7. /\ s = <<>> \/ (\E x \in InMessages : Shaped(x) /\ s = <<x>>)
        /\ Asked(p, in, k.knows, k.wants) => Asked(q, in \o s, k.knows, k.wants)
    <2>1. q \in PageStates
      BY <1>3 DEF GoodPage
    <2>2. ASSUME Asked(p, in, k.knows, k.wants)
          PROVE  (s = <<>> \/ (\E x \in InMessages : Shaped(x) /\ s = <<x>>)) /\ Asked(q, in \o s, k.knows, k.wants)
      BY <1>1, <1>3, <2>1, <2>2, ShapesMessage
    <2>3. ASSUME ~Asked(p, in, k.knows, k.wants) PROVE s = <<>>
      <3>1. PICK home \in Sessions : SwitchedFrom(p, k, home)
        BY <2>3 DEF Link, HomeAt, Moved
      <3>2. QED
        BY <1>4, <1>5, <3>1 DEF SwitchedFrom, out
    <2>4. QED
      BY <2>2, <2>3
  <1> HIDE DEF s
  <1>8. s = <<>> => in \o s = in
    BY <1>1
  <1>9. ASSUME NEW x \in InMessages, Shaped(x), s = <<x>>
        PROVE  \A i \in DOMAIN (in \o s) : (i \in DOMAIN in /\ (in \o s)[i] = in[i]) \/ ~Boots((in \o s)[i])
    <2>1. ~Boots(x)
      BY <1>9 DEF Shaped, Boots
    <2>2. \A i \in DOMAIN (in \o <<x>>) : (i \in DOMAIN in /\ (in \o <<x>>)[i] = in[i]) \/ (in \o <<x>>)[i] = x
      BY <1>1
    <2>3. QED
      BY <1>9, <2>1, <2>2
  <1>10. ASSUME NEW home \in Sessions, HomeAt(p, k, home) PROVE HomeAt(q, l, home)
    <2>1. HomeIn(in \o s, home)
      <3>1. HomeIn(in, home)
        BY <1>10 DEF HomeAt
      <3>2. QED
        BY <1>7, <1>8, <1>9, <3>1 DEF HomeIn
    <2>2. HomeOut(u, home) /\ (m.type = "RUNTIME_READY" => m.session = home /\ Rootless(u))
      BY <1>6, <1>10 DEF HomeAt, out
    <2>3. q.booted => q.session = home /\ Rootless(u)
      BY <1>3, <1>5, <1>10, <2>2 DEF HomeAt, out
    <2>4. ASSUME k.stream = None PROVE Fresh(q) /\ ~q.booted /\ Rootless(u) /\ Unready(u) /\ Unshaped(in \o s)
      <3>1. Fresh(p) /\ ~p.booted /\ Rootless(out) /\ Unready(out) /\ Unshaped(in)
        BY <1>10, <2>4 DEF HomeAt, out
      <3>2. QED
        BY <1>3, <1>4, <1>5, <1>8, <3>1
    <2>5. Asked(q, in \o s, k.knows, k.wants)
      BY <1>7, <1>10 DEF HomeAt
    <2>6. l.inbox = in \o s /\ l.outbox = u
      BY DEF s, u, out
    <2>7. QED
      BY <1>10, <2>1, <2>2, <2>3, <2>4, <2>5, <2>6 DEF HomeAt
  <1>11. ASSUME NEW home \in Sessions, SwitchedFrom(p, k, home) PROVE SwitchedFrom(q, l, home)
    <2>1. Fresh(p) /\ Rootless(out)
      BY <1>11 DEF SwitchedFrom, out
    <2>2. Fresh(q) /\ s = <<>> /\ Rootless(u)
      BY <1>4, <1>5, <2>1
    <2>3. l.inbox = k.inbox /\ l.outbox = u
      BY <1>8, <2>2 DEF s, u, out
    <2>4. QED
      BY <1>11, <2>2, <2>3 DEF SwitchedFrom
  <1>12. ASSUME Moved(p, k) PROVE Moved(q, l)
    <2>1. l.inbox = in \o s
      BY DEF s
    <2>2. \A i \in DOMAIN (in \o s) : ~Boots((in \o s)[i])
      BY <1>7, <1>8, <1>9, <1>12 DEF Moved
    <2>3. Asked(q, in \o s, k.knows, k.wants)
      BY <1>7, <1>12 DEF Moved
    <2>4. QED
      BY <1>12, <2>1, <2>2, <2>3 DEF Moved
  <1>13. QED
    BY <1>3, <1>10, <1>11, <1>12 DEF Link

(* The page starts over on the same connection. *)
LEMMA LinkSwitch ==
  ASSUME NEW p, NEW k \in ConnStates, NEW l \in ConnStates, NEW switches, switches # 0, Link(p, k, switches), p.booted,
         NEW q, Fresh(q), NEW m \in InMessages, Boots(m), m.session # p.session,
         l.inbox = k.inbox \o <<m>>, l.outbox = k.outbox, l.step = k.step, l.session = k.session, l.stream = k.stream
  PROVE  Link(q, l, 0)
  <1>1. PICK home \in Sessions : HomeAt(p, k, home)
    BY DEF Link
  <1>2. k.stream = home /\ p.session = home /\ Rootless(k.outbox) /\ HomeIn(k.inbox, home) /\ (k.step # "idle" => k.session = home)
    BY <1>1 DEF HomeAt
  <1> DEFINE in == k.inbox
             u == in \o <<m>>
  <1>3. in \in Seq(InMessages)
    BY DEF ConnStates
  <1>4. /\ u \in Seq(InMessages) /\ DOMAIN u = 1..(Len(in) + 1) /\ DOMAIN in = 1..Len(in) /\ Len(in) \in Nat
        /\ u[Len(in) + 1] = m /\ (\A i \in DOMAIN in : u[i] = in[i]) /\ Len(u) = Len(in) + 1
    BY <1>3, OneMore
  <1>5. u # <<>>
    BY <1>3
  <1> HIDE DEF u
  <1>6. \A i \in 1..(Len(u) - 1) : i \in DOMAIN in
    BY <1>4
  <1>7. SwitchedFrom(q, l, home)
    BY <1>2, <1>4, <1>5, <1>6 DEF SwitchedFrom, HomeIn, u
  <1>8. QED
    BY <1>7 DEF Link

(* A new connection. *)
LEMMA LinkOpens ==
  ASSUME NEW p, Fresh(p), ~p.booted, NEW l, NEW m, Boots(m), m.session \in Sessions, l.inbox = <<m, m>>, l.outbox = <<>>, l.step = "idle",
         l.stream = None, ~l.knows, l.wants = {}, NEW switches
  PROVE  Link(p, l, switches)
  <1>1. Unshaped(l.inbox) /\ HomeIn(l.inbox, m.session)
    BY DEF Unshaped, HomeIn, Boots, Shaped
  <1>2. Rootless(l.outbox) /\ Unready(l.outbox) /\ HomeOut(l.outbox, m.session)
    BY DEF Rootless, Unready, HomeOut
  <1>3. Asked(p, l.inbox, l.knows, l.wants)
    <2>1. \A n : ~Wanted(l.inbox, l.wants, n)
      BY <1>1 DEF Wanted, Unshaped
    <2>2. ~Known(l.inbox, l.knows)
      BY <1>1 DEF Known, Unshaped
    <2>3. QED
      BY <2>1, <2>2 DEF Asked, Fresh, Idle
  <1>4. HomeAt(p, l, m.session)
    BY <1>1, <1>2, <1>3 DEF HomeAt
  <1>5. QED
    BY <1>4 DEF Link

(* No tab changes its session more than once. *)
OneChange == \A s \in Scenes : s.switches <= 1

BootStates == [state : {"none", "opening", "ready", "failed"}, key : Sessions \cup {None}]
SyncTypes ==
  /\ scene \in Scenes /\ left \in [edits : Nat, switches : {0, 1}] /\ boot \in [Workers -> BootStates]
  /\ rel \in [Workers -> HeldValues] /\ conn \in [Connections -> ConnStates] /\ page \in [Tabs -> PageStates]
ServedAt(c) ==
  /\ conn[c].phase # "unused" \/ conn[c].step # "idle" => conn[c].worker \in Workers
  /\ conn[c].stream # None \/ conn[c].step \in {"root", "stream"} => conn[c].worker \in Workers /\ boot[conn[c].worker].state = "ready"
Unclosed(in) == \A i \in DOMAIN in : in[i].type # "CLOSE_SESSION"
JoinedAt(t) ==
  LET p == page[t] k == conn[p.conn]
  IN /\ GoodPage(p)
     /\ p.conn = 0 => Fresh(p) /\ ~p.booted
     /\ p.conn # 0 => k.tab = t /\ k.phase = "open" /\ Unclosed(k.inbox) /\ Link(p, k, left.switches)
SyncInv == SyncTypes /\ (\A c \in Connections : ServedAt(c)) /\ (\A t \in Tabs : JoinedAt(t))

LEMMA TargetsUnder ==
  ASSUME scene \in Scenes, NEW l \in Links
  PROVE  Targets(l[2]) \subseteq UnderLink(l) /\ (l[2] # "effects" => Targets(l[2]) # {})
  <1>1. scene.clips \subseteq Clips /\ scene.clips # {} /\ Texts # {}
    BY PageSyncAssumption
  <1>2. l[2] \in {"selectedClip", "clips", "text", "effects"}
    BY DEF Links, RootRels, ClipRels
  <1>3. QED
    BY <1>1, <1>2 DEF Targets, UnderLink, RootRels, Leaves

LEMMA FreshPage ==
  ASSUME NEW p \in PageStates, NoStray(p), p.mounted = None, Unmounted(p), Fresh(p)
  PROVE  GoodPage(p)
  <1>1. Commit(p) = p
    BY DEF Commit, Fresh
  <1>2. QED
    BY <1>1, StartsOver

LEMMA InitPageGood ==
  ASSUME NEW t, NEW gone \in BOOLEAN
  PROVE  LET p == [InitPage(t) EXCEPT !.gone = gone]
         IN GoodPage(p) /\ Fresh(p) /\ ~p.booted /\ p.conn = 0
  <1> DEFINE p == [InitPage(t) EXCEPT !.gone = gone]
  <1>1. Nothing \in HeldValues
    BY DEF Nothing, HeldValues
  <1>2. /\ p.conn = 0 /\ p.gone = gone /\ p.booted = FALSE /\ p.root = None /\ p.held = Nothing /\ p.refs = [n \in Nodes |-> 0]
        /\ p.asked = [n \in Nodes |-> "unset"] /\ p.published = FALSE /\ p.mounted = None
        /\ p.clips = [r \in RootRels |-> {}] /\ p.leaves = [way \in Ways |-> {}]
    BY DEF InitPage
  <1>3. p \in PageStates
    <2>2. [n \in Nodes |-> "unset"] \in [Nodes -> Answers] /\ [n \in Nodes |-> 0] \in [Nodes -> Nat]
      BY DEF Answers
    <2>3. [r \in RootRels |-> {}] \in [RootRels -> SUBSET Clips] /\ [way \in Ways |-> {}] \in [Ways -> SUBSET Leaves]
      OBVIOUS
    <2>4. InitPage(t) \in PageStates
      BY <1>1, <2>2, <2>3 DEF InitPage, PageStates
    <2>5. QED
      BY <2>4 DEF PageStates
  <1> HIDE DEF p
  <1>4. NoStray(p) /\ Unmounted(p) /\ Fresh(p)
    BY <1>2 DEF NoStray, Unmounted, Fresh, Idle
  <1>5. QED
    BY <1>2, <1>3, <1>4, FreshPage DEF p

(* What is left of a page that starts over. *)
StartedOver(p, r) ==
  /\ r \in PageStates /\ r.booted = FALSE /\ r.root = None /\ r.refs = [n \in Nodes |-> 0]
  /\ r.asked = [n \in Nodes |-> "unset"] /\ r.published = FALSE /\ r.mounted = p.mounted /\ r.clips = p.clips /\ r.leaves = p.leaves

LEMMA ResetPage ==
  ASSUME NEW p, GoodPage(p), NEW r, StartedOver(p, r), NEW q, q = Commit(r)
  PROVE  GoodPage(q) /\ Fresh(q) /\ ~q.booted /\ q.conn = r.conn
  <1>1. p \in PageStates /\ NoStray(p) /\ (p.mounted # None \/ Unmounted(p))
    BY DEF GoodPage, InPlace, LeavesRight, ClipsRight, NoStray, Unmounted
  <1>2. r \in PageStates
    BY DEF StartedOver
  <1>3. NoStray(r) /\ (r.mounted # None \/ Unmounted(r)) /\ Fresh(r)
    BY <1>1 DEF StartedOver, NoStray, Unmounted, Fresh, Idle
  <1>4. LET x == Commit(r) IN GoodPage(x) /\ Fresh(x) /\ Alike(r, x)
    BY <1>2, <1>3, StartsOver
  <1>5. QED
    BY <1>4 DEF Alike, StartedOver

LEMMA NoValues == <<>> \in UpdateValues
  <1>1. <<>> \in [{} -> SUBSET (Clips \cup Leaves)] /\ {} \in SUBSET Links /\ DOMAIN <<>> = {}
    OBVIOUS
  <1>2. IsUpdate(<<>>)
    BY <1>1 DEF IsUpdate
  <1>3. QED
    BY <1>1, <1>2 DEF UpdateValues

LEMMA UnusedConn ==
  ASSUME NEW t \in Tabs \cup {None}, NEW w \in Workers \cup {None}, NEW phase \in {"unused", "open"}, NEW in \in Seq(InMessages),
         NEW l, l = [Unused EXCEPT !.tab = t, !.worker = w, !.phase = phase, !.inbox = in]
  PROVE  l \in ConnStates
  <1>1. <<>> \in UpdateValues
    BY NoValues
  <1>2. Local \in Sessions /\ <<>> \in Seq(OutMessages)
    BY PageSyncAssumption
  <1>3. QED
    BY <1>1, <1>2 DEF Unused, ConnStates

LEMMA SendingIs ==
  ASSUME NEW k \in ConnStates, NEW ms \in Seq(OutMessages)
  PROVE  LET l == Sending(k, ms)
         IN /\ l \in ConnStates
            /\ l.tab = k.tab /\ l.worker = k.worker /\ l.phase = k.phase /\ l.step = k.step /\ l.key = k.key /\ l.session = k.session
            /\ l.stream = k.stream /\ l.knows = k.knows /\ l.wants = k.wants /\ l.sent = k.sent /\ l.inbox = k.inbox
            /\ l.outbox = IF k.tab # None /\ k.phase = "open" THEN k.outbox \o ms ELSE k.outbox
  <1>1. k.outbox \o ms \in Seq(OutMessages)
    BY DEF ConnStates
  <1>2. CASE k.tab # None /\ k.phase = "open"
    BY <1>1, <1>2 DEF Sending, ConnStates
  <1>3. CASE ~(k.tab # None /\ k.phase = "open")
    BY <1>3 DEF Sending
  <1>4. QED
    BY <1>2, <1>3

LEMMA MessageTypes ==
  /\ \A s, k \in Sessions : [type |-> "RUNTIME_READY", session |-> s, key |-> k] \in OutMessages
  /\ \A s \in Sessions : [type |-> "TREE_ROOT", session |-> s] \in OutMessages
  /\ \A s \in {"ready", "failed"} : [type |-> "WORKSPACE_OPEN_STATE", state |-> s] \in OutMessages
  /\ [type |-> "RUNTIME_ERROR"] \in OutMessages
  /\ \A u \in UpdateValues : [type |-> "UPDATE", values |-> u] \in OutMessages
  /\ \A s, k \in Sessions : Bootstrap(k, s) \in InMessages /\ Boots(Bootstrap(k, s)) /\ Bootstrap(k, s).session = s
  /\ [type |-> "CLOSE_SESSION"] \in InMessages
  /\ \A m \in OutMessages, o \in OutMessages : <<m>> \in Seq(OutMessages) /\ <<m, o>> \in Seq(OutMessages)
  BY DEF OutMessages, InMessages, Bootstrap, Boots

(* The values of some relations of a worker. *)
LEMMA ValuesOf ==
  ASSUME NEW h \in HeldValues, NEW S \in SUBSET Links
  PROVE  [l \in S |-> h[l]] \in UpdateValues
  <1> DEFINE u == [l \in S |-> h[l]]
  <1>1. \A l \in S : h[l] \in SUBSET (Clips \cup Leaves) /\ h[l] \subseteq UnderLink(l)
    BY DEF HeldValues
  <1>2. u \in [S -> SUBSET (Clips \cup Leaves)]
    BY <1>1
  <1>3. IsUpdate(u)
    BY <1>1 DEF IsUpdate
  <1>4. QED
    BY <1>2, <1>3 DEF UpdateValues

LEMMA ValuesOver ==
  ASSUME NEW u \in UpdateValues, NEW v \in UpdateValues
  PROVE  Overlaid(u, v) \in UpdateValues
  <1> DEFINE S == DOMAIN u \cup DOMAIN v
             x == [l \in S |-> IF l \in DOMAIN u THEN u[l] ELSE v[l]]
  <1>0. Overlaid(u, v) = x
    BY DEF Overlaid
  <1>1. IsUpdate(u) /\ IsUpdate(v)
    BY DEF UpdateValues
  <1>2. S \in SUBSET Links /\ \A l \in S : x[l] \subseteq UnderLink(l)
    BY <1>1 DEF IsUpdate
  <1>3. \A l \in S : x[l] \in SUBSET (Clips \cup Leaves)
    BY <1>2 DEF UnderLink
  <1>4. x \in [S -> SUBSET (Clips \cup Leaves)] /\ DOMAIN x = S
    BY <1>3
  <1> HIDE DEF x, S
  <1>5. IsUpdate(x)
    BY <1>2, <1>4 DEF IsUpdate
  <1>6. QED
    BY <1>0, <1>2, <1>4, <1>5 DEF UpdateValues

LEMMA WorkerStep ==
  ASSUME SyncInv, NEW c \in Connections, conn' = [conn EXCEPT ![c] = conn'[c]], conn'[c] \in ConnStates,
         scene' = scene, page' = page, left' \in [edits : Nat, switches : {0, 1}], left'.switches = left.switches,
         rel' \in [Workers -> HeldValues], boot' \in [Workers -> BootStates],
         \A w \in Workers : boot[w].state = "ready" => boot'[w].state = "ready",
         ServedAt(c)',
         \A t \in Tabs : page[t].conn = c =>
           /\ conn'[c].tab = t /\ conn'[c].phase = "open" /\ Unclosed(conn'[c].inbox) /\ Link(page[t], conn'[c], left.switches)
  PROVE  SyncInv'
  <1>1. /\ conn \in [Connections -> ConnStates] /\ \A d \in Connections : d # c => conn'[d] = conn[d]
    BY DEF SyncInv, SyncTypes
  <1>2. conn' \in [Connections -> ConnStates]
    BY <1>1
  <1>3. SyncTypes'
    BY <1>2 DEF SyncInv, SyncTypes
  <1>4. ASSUME NEW d \in Connections PROVE ServedAt(d)'
    <2>1. CASE d = c
      BY <2>1
    <2>2. CASE d # c
      BY <1>1, <2>2 DEF ServedAt, SyncInv
    <2>3. QED
      BY <2>1, <2>2
  <1>5. ASSUME NEW t \in Tabs PROVE JoinedAt(t)'
    <2>1. page[t].conn \in Connections \cup {0} /\ JoinedAt(t)
      BY DEF SyncInv, SyncTypes, PageStates
    <2>2. CASE page[t].conn = c
      <3>1. c # 0
        BY PageSyncAssumption
      <3>2. QED
        BY <2>1, <2>2, <3>1 DEF JoinedAt
    <2>3. CASE page[t].conn = 0
      BY <2>1, <2>3 DEF JoinedAt
    <2>4. CASE page[t].conn # c /\ page[t].conn # 0
      <3>1. conn'[page[t].conn] = conn[page[t].conn]
        BY <1>1, <2>1, <2>4
      <3>2. QED
        BY <2>1, <2>4, <3>1 DEF JoinedAt
    <2>5. QED
      BY <2>2, <2>3, <2>4
  <1>6. QED
    BY <1>3, <1>4, <1>5 DEF SyncInv

LEMMA SyncFacts ==
  ASSUME SyncInv
  PROVE  /\ SyncTypes /\ \A c \in Connections : conn[c] \in ConnStates /\ ServedAt(c)
         /\ \A t \in Tabs : page[t] \in PageStates /\ JoinedAt(t) /\ page[t].conn \in Connections \cup {0} /\ t # None
         /\ 0 \notin Connections /\ None \notin Sessions
  BY PageSyncAssumption DEF SyncInv, SyncTypes, PageStates

LEMMA OpeningKeeps ==
  ASSUME SyncInv, NEW w \in Workers, NEW key \in Sessions, Opening(w, key)
  PROVE  boot' \in [Workers -> BootStates] /\ \A v \in Workers : boot[v].state = "ready" => boot'[v].state = "ready"
  <1>1. boot \in [Workers -> BootStates]
    BY DEF SyncInv, SyncTypes
  <1>2. boot' = [boot EXCEPT ![w] = IF boot[w].state = "none" THEN [state |-> "opening", key |-> key] ELSE boot[w]]
    BY DEF Opening
  <1>3. [state |-> "opening", key |-> key] \in BootStates
    BY DEF BootStates
  <1>4. QED
    BY <1>1, <1>2, <1>3

LEMMA SyncStartBootstrap ==
  ASSUME SyncInv, NEW c \in Connections, StartBootstrap(c)
  PROVE  SyncInv'
  <1> DEFINE k == conn[c]
             m == Head(k.inbox)
  <1>1. k \in ConnStates /\ ServedAt(c) /\ SyncTypes
    BY SyncFacts
  <1>2. k.phase = "open" /\ k.step = "idle" /\ k.inbox # <<>> /\ m.type = "BOOTSTRAP"
    BY DEF StartBootstrap, Take
  <1>3. k.inbox \in Seq(InMessages) /\ k.worker \in Workers
    BY <1>1, <1>2 DEF ConnStates, ServedAt
  <1>4. /\ m \in InMessages /\ m = k.inbox[1] /\ Tail(k.inbox) \in Seq(InMessages)
        /\ \A i \in DOMAIN Tail(k.inbox) : i + 1 \in DOMAIN k.inbox /\ Tail(k.inbox)[i] = k.inbox[i + 1]
    BY <1>2, <1>3, OneLess
  <1>5. m.key \in Sessions /\ m.session \in Sessions
    BY <1>2, <1>4 DEF InMessages
  <1>6. /\ conn' = [conn EXCEPT ![c] = [k EXCEPT !.inbox = Tail(k.inbox), !.step = "app", !.key = m.key, !.session = m.session]]
        /\ Opening(k.worker, m.key) /\ UNCHANGED <<scene, rel, page, left>>
    BY <1>1 DEF StartBootstrap, SyncTypes, ConnStates
  <1>7. /\ conn' = [conn EXCEPT ![c] = conn'[c]]
        /\ conn'[c] = [k EXCEPT !.inbox = Tail(k.inbox), !.step = "app", !.key = m.key, !.session = m.session]
    BY <1>1, <1>6 DEF SyncTypes
  <1>8. /\ conn'[c] \in ConnStates /\ conn'[c].inbox = Tail(k.inbox) /\ conn'[c].step = "app" /\ conn'[c].session = m.session
        /\ conn'[c].outbox = k.outbox /\ conn'[c].stream = k.stream /\ conn'[c].knows = k.knows /\ conn'[c].wants = k.wants
        /\ conn'[c].tab = k.tab /\ conn'[c].phase = k.phase /\ conn'[c].worker = k.worker
    BY <1>1, <1>4, <1>5, <1>7 DEF ConnStates
  <1>9. boot' \in [Workers -> BootStates] /\ \A v \in Workers : boot[v].state = "ready" => boot'[v].state = "ready"
    BY <1>3, <1>5, <1>6, OpeningKeeps
  <1>10. ServedAt(c)'
    BY <1>1, <1>3, <1>8, <1>9 DEF ServedAt
  <1>11. ASSUME NEW t \in Tabs, page[t].conn = c
         PROVE  /\ conn'[c].tab = t /\ conn'[c].phase = "open" /\ Unclosed(conn'[c].inbox) /\ Link(page[t], conn'[c], left.switches)
    <2>1. k.tab = t /\ Unclosed(k.inbox) /\ Link(page[t], k, left.switches)
      BY <1>11, SyncFacts DEF JoinedAt
    <2>2. Unclosed(Tail(k.inbox))
      BY <1>4, <2>1 DEF Unclosed
    <2>3. Boots(m)
      BY <1>2 DEF Boots
    <2> HIDE DEF k, m
    <2>4. Link(page[t], conn'[c], left.switches)
      BY <1>1, <1>2, <1>8, <2>1, <2>3, LinkStart DEF m
    <2>5. QED
      BY <1>2, <1>8, <2>1, <2>2, <2>4
  <1>12. QED
    BY <1>6, <1>7, <1>8, <1>9, <1>10, <1>11, WorkerStep DEF SyncInv, SyncTypes

LEMMA SyncAppOpened ==
  ASSUME SyncInv, NEW c \in Connections, AppOpened(c)
  PROVE  SyncInv'
  <1> DEFINE k == conn[c]
             m == [type |-> "RUNTIME_ERROR"]
  <1>1. k \in ConnStates /\ ServedAt(c) /\ SyncTypes /\ k.step = "app" /\ k.worker \in Workers
    BY SyncFacts DEF AppOpened, ServedAt
  <1>2. UNCHANGED <<scene, boot, rel, page, left>>
    BY DEF AppOpened
  <1>3. m \in OutMessages /\ <<m>> \in Seq(OutMessages)
    BY MessageTypes
  <1> HIDE DEF m
  <1>4. CASE boot[k.worker].state = "ready"
    <2>1. /\ conn' = [conn EXCEPT ![c] = conn'[c]] /\ conn'[c] = [k EXCEPT !.step = "root"]
      BY <1>1, <1>4 DEF AppOpened, SyncTypes
    <2>2. /\ conn'[c] \in ConnStates /\ conn'[c].step = "root" /\ conn'[c].session = k.session /\ conn'[c].inbox = k.inbox
          /\ conn'[c].outbox = k.outbox /\ conn'[c].stream = k.stream /\ conn'[c].knows = k.knows /\ conn'[c].wants = k.wants
          /\ conn'[c].tab = k.tab /\ conn'[c].phase = k.phase /\ conn'[c].worker = k.worker
      BY <1>1, <2>1 DEF ConnStates
    <2>3. ServedAt(c)'
      BY <1>1, <1>2, <1>4, <2>2 DEF ServedAt
    <2>4. ASSUME NEW t \in Tabs, page[t].conn = c
          PROVE  /\ conn'[c].tab = t /\ conn'[c].phase = "open" /\ Unclosed(conn'[c].inbox) /\ Link(page[t], conn'[c], left.switches)
      <3>1. k.tab = t /\ k.phase = "open" /\ Unclosed(k.inbox) /\ Link(page[t], k, left.switches)
        BY <2>4, SyncFacts DEF JoinedAt
      <3> HIDE DEF k
      <3>2. Link(page[t], conn'[c], left.switches)
        BY <1>1, <2>2, <3>1, LinkRoot
      <3>3. QED
        BY <2>2, <3>1, <3>2
    <2>5. QED
      BY <1>1, <1>2, <2>1, <2>2, <2>3, <2>4, WorkerStep DEF SyncTypes
  <1>5. CASE boot[k.worker].state # "ready"
    <2> DEFINE l == Sending(k, <<m>>)
    <2>1. /\ conn' = [conn EXCEPT ![c] = conn'[c]] /\ conn'[c] = [l EXCEPT !.step = "idle"]
      BY <1>1, <1>5 DEF AppOpened, SyncTypes, m
    <2>2. /\ l \in ConnStates
          /\ l.tab = k.tab /\ l.worker = k.worker /\ l.phase = k.phase /\ l.session = k.session
          /\ l.stream = k.stream /\ l.knows = k.knows /\ l.wants = k.wants /\ l.inbox = k.inbox
          /\ l.outbox = IF k.tab # None /\ k.phase = "open" THEN k.outbox \o <<m>> ELSE k.outbox
      BY <1>1, <1>3, SendingIs
    <2> HIDE DEF l
    <2>3. /\ conn'[c] \in ConnStates /\ conn'[c].step = "idle" /\ conn'[c].session = k.session /\ conn'[c].inbox = k.inbox
          /\ conn'[c].stream = k.stream /\ conn'[c].knows = k.knows /\ conn'[c].wants = k.wants
          /\ conn'[c].tab = k.tab /\ conn'[c].phase = k.phase /\ conn'[c].worker = k.worker
          /\ conn'[c].outbox = IF k.tab # None /\ k.phase = "open" THEN k.outbox \o <<m>> ELSE k.outbox
      BY <2>1, <2>2 DEF ConnStates
    <2>4. k.stream = None
      BY <1>1, <1>5 DEF ServedAt
    <2>5. ServedAt(c)'
      BY <1>1, <1>2, <2>3, <2>4 DEF ServedAt
    <2>6. ASSUME NEW t \in Tabs, page[t].conn = c
          PROVE  /\ conn'[c].tab = t /\ conn'[c].phase = "open" /\ Unclosed(conn'[c].inbox) /\ Link(page[t], conn'[c], left.switches)
      <3>1. k.tab = t /\ k.phase = "open" /\ Unclosed(k.inbox) /\ Link(page[t], k, left.switches) /\ t # None
        BY <2>6, SyncFacts DEF JoinedAt
      <3>2. m.type \notin {"TREE_ROOT", "RUNTIME_READY"}
        BY DEF m
      <3>3. conn'[c].outbox = k.outbox \o <<m>>
        BY <2>3, <3>1
      <3> HIDE DEF k
      <3>4. Link(page[t], conn'[c], left.switches)
        BY <1>1, <1>3, <2>3, <2>4, <3>1, <3>2, <3>3, LinkSays
      <3>5. QED
        BY <2>3, <3>1, <3>4
    <2>7. QED
      BY <1>1, <1>2, <2>1, <2>3, <2>5, <2>6, WorkerStep DEF SyncTypes
  <1>6. QED
    BY <1>4, <1>5

LEMMA SyncRootReady ==
  ASSUME SyncInv, NEW c \in Connections, RootReady(c)
  PROVE  SyncInv'
  <1> DEFINE k == conn[c]
  <1>1. /\ k \in ConnStates /\ ServedAt(c) /\ SyncTypes /\ k.step = "root" /\ k.worker \in Workers
        /\ boot[k.worker].state = "ready" /\ k.session \in Sessions /\ 0 \notin Connections /\ None \notin Sessions
    BY SyncFacts DEF RootReady, ServedAt, ConnStates
  <1>2. UNCHANGED <<scene, boot, rel, page, left>>
    BY DEF RootReady
  <1>3. PICK early \in {{}, {k.session} \X RootRels} : conn' = [conn EXCEPT ![c] = [Streaming(k, early) EXCEPT !.step = "stream"]]
    BY DEF RootReady
  <1>4. early \in SUBSET Links
    BY <1>1 DEF Links
  <1> DEFINE values == [l \in early |-> rel[k.worker][l]]
             m == [type |-> "TREE_ROOT", session |-> k.session]
             o == [type |-> "UPDATE", values |-> values]
             fresh == [k EXCEPT !.stream = k.session, !.knows = FALSE, !.wants = {}, !.sent = values]
             a == Streaming(k, early)
  <1>5. values \in UpdateValues
    BY <1>1, <1>4, ValuesOf DEF SyncTypes
  <1> HIDE DEF values
  <1>6. m \in OutMessages /\ o \in OutMessages /\ <<m, o>> \in Seq(OutMessages) /\ m.type = "TREE_ROOT" /\ o.type = "UPDATE"
    BY <1>1, <1>5, MessageTypes
  <1>7. a = IF k.stream = k.session THEN k ELSE Sending(fresh, <<m, o>>)
    BY DEF Streaming, values
  <1>8. /\ fresh \in ConnStates /\ fresh.tab = k.tab /\ fresh.worker = k.worker /\ fresh.phase = k.phase /\ fresh.session = k.session
        /\ fresh.stream = k.session /\ fresh.knows = FALSE /\ fresh.wants = {} /\ fresh.inbox = k.inbox /\ fresh.outbox = k.outbox
    BY <1>1, <1>5 DEF ConnStates
  <1> HIDE DEF m, o, fresh, a
  <1>9. /\ conn' = [conn EXCEPT ![c] = conn'[c]] /\ conn'[c] = [a EXCEPT !.step = "stream"]
    BY <1>1, <1>3 DEF SyncTypes, a
  <1>10. CASE k.stream = k.session
    <2>1. /\ conn'[c] \in ConnStates /\ conn'[c].step = "stream" /\ conn'[c].session = k.session /\ conn'[c].inbox = k.inbox
          /\ conn'[c].outbox = k.outbox /\ conn'[c].stream = k.stream /\ conn'[c].knows = k.knows /\ conn'[c].wants = k.wants
          /\ conn'[c].tab = k.tab /\ conn'[c].phase = k.phase /\ conn'[c].worker = k.worker
      BY <1>1, <1>7, <1>9, <1>10 DEF ConnStates
    <2>2. ServedAt(c)'
      BY <1>1, <1>2, <2>1 DEF ServedAt
    <2>3. ASSUME NEW t \in Tabs, page[t].conn = c
          PROVE  /\ conn'[c].tab = t /\ conn'[c].phase = "open" /\ Unclosed(conn'[c].inbox) /\ Link(page[t], conn'[c], left.switches)
      <3>1. k.tab = t /\ k.phase = "open" /\ Unclosed(k.inbox) /\ Link(page[t], k, left.switches)
        BY <1>1, <2>3, SyncFacts DEF JoinedAt
      <3> HIDE DEF k
      <3>2. Link(page[t], conn'[c], left.switches)
        BY <1>1, <1>10, <2>1, <3>1, LinkStreamKept
      <3>3. QED
        BY <2>1, <3>1, <3>2
    <2>4. QED
      BY <1>1, <1>2, <1>9, <2>1, <2>2, <2>3, WorkerStep DEF SyncTypes
  <1>11. CASE k.stream # k.session
    <2>1. /\ a \in ConnStates
          /\ a.tab = k.tab /\ a.worker = k.worker /\ a.phase = k.phase /\ a.session = k.session
          /\ a.stream = k.session /\ a.knows = FALSE /\ a.wants = {} /\ a.inbox = k.inbox
          /\ a.outbox = IF k.tab # None /\ k.phase = "open" THEN k.outbox \o <<m, o>> ELSE k.outbox
      <3>1. a = Sending(fresh, <<m, o>>)
        BY <1>7, <1>11
      <3>2. LET l == Sending(fresh, <<m, o>>)
            IN /\ l \in ConnStates
               /\ l.tab = fresh.tab /\ l.worker = fresh.worker /\ l.phase = fresh.phase /\ l.step = fresh.step /\ l.key = fresh.key
               /\ l.session = fresh.session /\ l.stream = fresh.stream /\ l.knows = fresh.knows /\ l.wants = fresh.wants
               /\ l.sent = fresh.sent /\ l.inbox = fresh.inbox
               /\ l.outbox = IF fresh.tab # None /\ fresh.phase = "open" THEN fresh.outbox \o <<m, o>> ELSE fresh.outbox
        BY <1>6, <1>8, SendingIs
      <3>3. QED
        BY <1>8, <3>1, <3>2
    <2>2. /\ conn'[c] \in ConnStates /\ conn'[c].step = "stream" /\ conn'[c].session = k.session /\ conn'[c].inbox = k.inbox
          /\ conn'[c].stream = k.session /\ ~conn'[c].knows /\ conn'[c].wants = {}
          /\ conn'[c].tab = k.tab /\ conn'[c].phase = k.phase /\ conn'[c].worker = k.worker
          /\ conn'[c].outbox = IF k.tab # None /\ k.phase = "open" THEN k.outbox \o <<m, o>> ELSE k.outbox
      BY <1>9, <2>1 DEF ConnStates
    <2>3. ServedAt(c)'
      BY <1>1, <1>2, <2>2 DEF ServedAt
    <2>4. ASSUME NEW t \in Tabs, page[t].conn = c
          PROVE  /\ conn'[c].tab = t /\ conn'[c].phase = "open" /\ Unclosed(conn'[c].inbox) /\ Link(page[t], conn'[c], left.switches)
      <3>1. k.tab = t /\ k.phase = "open" /\ Unclosed(k.inbox) /\ Link(page[t], k, left.switches) /\ t # None /\ page[t] \in PageStates
        BY <1>1, <2>4, SyncFacts DEF JoinedAt
      <3>2. conn'[c].outbox = k.outbox \o <<m, o>>
        BY <2>2, <3>1
      <3> HIDE DEF k
      <3>3. Link(page[t], conn'[c], left.switches)
        BY <1>1, <1>6, <1>11, <2>2, <3>1, <3>2, LinkStreamNew
      <3>4. QED
        BY <2>2, <3>1, <3>3
    <2>5. QED
      BY <1>1, <1>2, <1>9, <2>2, <2>3, <2>4, WorkerStep DEF SyncTypes
  <1>12. QED
    BY <1>10, <1>11

LEMMA SyncStreamAdded ==
  ASSUME SyncInv, NEW c \in Connections, StreamAdded(c)
  PROVE  SyncInv'
  <1> DEFINE k == conn[c]
             m == [type |-> "RUNTIME_READY", session |-> k.session, key |-> k.key]
             l == Sending(k, <<m>>)
  <1>1. /\ k \in ConnStates /\ ServedAt(c) /\ SyncTypes /\ k.step = "stream" /\ k.worker \in Workers
        /\ k.session \in Sessions /\ k.key \in Sessions
    BY SyncFacts DEF StreamAdded, ServedAt, ConnStates
  <1>2. UNCHANGED <<scene, boot, rel, page, left>>
    BY DEF StreamAdded
  <1>3. m \in OutMessages /\ <<m>> \in Seq(OutMessages) /\ m.type = "RUNTIME_READY" /\ m.session = k.session
    BY <1>1, MessageTypes
  <1>4. /\ conn' = [conn EXCEPT ![c] = conn'[c]] /\ conn'[c] = [l EXCEPT !.step = "idle"]
    BY <1>1 DEF StreamAdded, SyncTypes
  <1> HIDE DEF m
  <1>5. /\ l \in ConnStates
        /\ l.tab = k.tab /\ l.worker = k.worker /\ l.phase = k.phase /\ l.session = k.session
        /\ l.stream = k.stream /\ l.knows = k.knows /\ l.wants = k.wants /\ l.inbox = k.inbox
        /\ l.outbox = IF k.tab # None /\ k.phase = "open" THEN k.outbox \o <<m>> ELSE k.outbox
    BY <1>1, <1>3, SendingIs
  <1> HIDE DEF l
  <1>6. /\ conn'[c] \in ConnStates /\ conn'[c].step = "idle" /\ conn'[c].session = k.session /\ conn'[c].inbox = k.inbox
        /\ conn'[c].stream = k.stream /\ conn'[c].knows = k.knows /\ conn'[c].wants = k.wants
        /\ conn'[c].tab = k.tab /\ conn'[c].phase = k.phase /\ conn'[c].worker = k.worker
        /\ conn'[c].outbox = IF k.tab # None /\ k.phase = "open" THEN k.outbox \o <<m>> ELSE k.outbox
    BY <1>4, <1>5 DEF ConnStates
  <1>7. ServedAt(c)'
    BY <1>1, <1>2, <1>6 DEF ServedAt
  <1>8. ASSUME NEW t \in Tabs, page[t].conn = c
        PROVE  /\ conn'[c].tab = t /\ conn'[c].phase = "open" /\ Unclosed(conn'[c].inbox) /\ Link(page[t], conn'[c], left.switches)
    <2>1. k.tab = t /\ k.phase = "open" /\ Unclosed(k.inbox) /\ Link(page[t], k, left.switches) /\ t # None
      BY <1>8, SyncFacts DEF JoinedAt
    <2>2. conn'[c].outbox = k.outbox \o <<m>>
      BY <1>6, <2>1
    <2> HIDE DEF k
    <2>3. Link(page[t], conn'[c], left.switches)
      BY <1>1, <1>3, <1>6, <2>1, <2>2, LinkReady
    <2>4. QED
      BY <1>6, <2>1, <2>3
  <1>9. QED
    BY <1>1, <1>2, <1>4, <1>6, <1>7, <1>8, WorkerStep DEF SyncTypes

LEMMA SyncRequireShapes ==
  ASSUME SyncInv, NEW c \in Connections, RequireShapes(c)
  PROVE  SyncInv'
  <1> DEFINE k == conn[c]
             m == Head(k.inbox)
  <1>1. /\ k \in ConnStates /\ ServedAt(c) /\ SyncTypes /\ k.phase = "open" /\ k.step = "idle" /\ k.inbox # <<>> /\ m.type = "SHAPES"
        /\ k.inbox \in Seq(InMessages) /\ k.worker \in Workers /\ k.knows \in BOOLEAN
    BY SyncFacts DEF RequireShapes, Take, ServedAt, ConnStates
  <1>2. UNCHANGED <<scene, boot, rel, page, left>>
    BY DEF RequireShapes
  <1>3. /\ m \in InMessages /\ Tail(k.inbox) \in Seq(InMessages)
        /\ \A i \in DOMAIN Tail(k.inbox) : i + 1 \in DOMAIN k.inbox /\ Tail(k.inbox)[i] = k.inbox[i + 1]
    BY <1>1, OneLess
  <1>4. m.publish \in BOOLEAN /\ m.on \subseteq Nodes /\ m.off \subseteq Nodes /\ Shaped(m)
    BY <1>1, <1>3 DEF InMessages, Shaped
  <1>5. /\ conn' = [conn EXCEPT ![c] = conn'[c]]
        /\ conn'[c] = [k EXCEPT !.inbox = Tail(k.inbox), !.knows = k.knows \/ m.publish, !.wants = (k.wants \ m.off) \cup m.on]
    <2>1. conn' = [conn EXCEPT ![c] = [k EXCEPT !.inbox = Tail(k.inbox), !.knows = k.knows \/ m.publish, !.wants = (k.wants \ m.off) \cup m.on]]
      BY <1>1 DEF RequireShapes, SyncTypes, ConnStates
    <2>2. QED
      BY <1>1, <2>1 DEF SyncTypes
  <1> HIDE DEF m
  <1>6. /\ conn'[c] \in ConnStates /\ conn'[c].inbox = Tail(k.inbox) /\ conn'[c].step = k.step /\ conn'[c].session = k.session
        /\ conn'[c].outbox = k.outbox /\ conn'[c].stream = k.stream /\ conn'[c].knows = (k.knows \/ m.publish)
        /\ conn'[c].wants = (k.wants \ m.off) \cup m.on
        /\ conn'[c].tab = k.tab /\ conn'[c].phase = k.phase /\ conn'[c].worker = k.worker
    BY <1>1, <1>3, <1>4, <1>5 DEF ConnStates
  <1>7. ServedAt(c)'
    BY <1>1, <1>2, <1>6 DEF ServedAt
  <1>8. ASSUME NEW t \in Tabs, page[t].conn = c
        PROVE  /\ conn'[c].tab = t /\ conn'[c].phase = "open" /\ Unclosed(conn'[c].inbox) /\ Link(page[t], conn'[c], left.switches)
    <2>1. k.tab = t /\ k.phase = "open" /\ Unclosed(k.inbox) /\ Link(page[t], k, left.switches)
      BY <1>8, SyncFacts DEF JoinedAt
    <2>2. Unclosed(Tail(k.inbox))
      BY <1>3, <2>1 DEF Unclosed
    <2> HIDE DEF k
    <2>3. Link(page[t], conn'[c], left.switches)
      BY <1>1, <1>4, <1>6, <2>1, LinkShapes DEF m
    <2>4. QED
      BY <1>6, <2>1, <2>2, <2>3
  <1>9. QED
    BY <1>1, <1>2, <1>5, <1>6, <1>7, <1>8, WorkerStep DEF SyncTypes

LEMMA SyncDestroy ==
  ASSUME SyncInv, NEW c \in Connections, Destroy(c)
  PROVE  SyncInv'
  <1> DEFINE k == conn[c]
  <1>1. /\ k \in ConnStates /\ ServedAt(c) /\ SyncTypes /\ k.phase = "open" /\ k.worker \in Workers /\ k.key \in Sessions
        /\ k.inbox \in Seq(InMessages)
    BY SyncFacts DEF Destroy, ServedAt, ConnStates
  <1>2. /\ conn' = [conn EXCEPT ![c].phase = "closing", ![c].inbox = <<>>] /\ Opening(k.worker, k.key)
        /\ UNCHANGED <<scene, rel, page, left>>
    BY DEF Destroy
  <1>3. conn' = [conn EXCEPT ![c] = conn'[c]] /\ conn'[c] = [k EXCEPT !.phase = "closing", !.inbox = <<>>]
    BY <1>1, <1>2 DEF SyncTypes, ConnStates
  <1>4. /\ conn'[c] \in ConnStates /\ conn'[c].worker = k.worker /\ conn'[c].step = k.step /\ conn'[c].stream = k.stream
    <2>1. <<>> \in Seq(InMessages)
      OBVIOUS
    <2>2. QED
      BY <1>1, <1>3, <2>1 DEF ConnStates
  <1>5. boot' \in [Workers -> BootStates] /\ \A v \in Workers : boot[v].state = "ready" => boot'[v].state = "ready"
    BY <1>1, <1>2, OpeningKeeps
  <1>6. ServedAt(c)'
    BY <1>1, <1>4, <1>5 DEF ServedAt
  <1>7. ASSUME NEW t \in Tabs, page[t].conn = c PROVE FALSE
    <2>1. k.tab = t /\ Unclosed(k.inbox) /\ t # None
      BY <1>7, SyncFacts DEF JoinedAt
    <2>2. k.inbox # <<>> /\ Head(k.inbox).type = "CLOSE_SESSION"
      BY <2>1 DEF Destroy, Take
    <2>3. 1 \in DOMAIN k.inbox /\ Head(k.inbox) = k.inbox[1]
      BY <1>1, <2>2, OneLess
    <2>4. QED
      BY <2>1, <2>2, <2>3 DEF Unclosed
  <1>8. QED
    BY <1>1, <1>2, <1>3, <1>4, <1>5, <1>6, <1>7, WorkerStep DEF SyncTypes

LEMMA SyncDestroyed ==
  ASSUME SyncInv, NEW c \in Connections, Destroyed(c)
  PROVE  SyncInv'
  <1> DEFINE k == conn[c]
  <1>1. k \in ConnStates /\ ServedAt(c) /\ SyncTypes /\ k.phase = "closing"
    BY SyncFacts DEF Destroyed
  <1>2. UNCHANGED <<scene, boot, rel, page, left>>
    BY DEF Destroyed
  <1>3. /\ conn' = [conn EXCEPT ![c] = conn'[c]]
        /\ conn'[c] = [k EXCEPT !.phase = "closed", !.stream = None, !.knows = FALSE, !.wants = {}, !.sent = <<>>]
    BY <1>1 DEF Destroyed, SyncTypes
  <1>4. <<>> \in UpdateValues
    BY NoValues
  <1>5. conn'[c] \in ConnStates /\ conn'[c].worker = k.worker /\ conn'[c].step = k.step /\ conn'[c].stream = None
    BY <1>1, <1>3, <1>4 DEF ConnStates
  <1>6. ServedAt(c)'
    BY <1>1, <1>2, <1>5 DEF ServedAt
  <1>7. ASSUME NEW t \in Tabs, page[t].conn = c PROVE FALSE
    BY <1>1, <1>7, SyncFacts DEF JoinedAt
  <1>8. QED
    BY <1>1, <1>2, <1>3, <1>5, <1>6, <1>7, WorkerStep DEF SyncTypes

LEMMA SyncFlush ==
  ASSUME SyncInv, NEW c \in Connections, Flush(c)
  PROVE  SyncInv'
  <1> DEFINE k == conn[c]
  <1>1. /\ k \in ConnStates /\ ServedAt(c) /\ SyncTypes /\ k.phase = "open" /\ k.worker \in Workers /\ k.sent \in UpdateValues
        /\ rel[k.worker] \in HeldValues
    BY SyncFacts DEF Flush, ServedAt, ConnStates, SyncTypes
  <1>2. UNCHANGED <<scene, boot, rel, page, left>>
    BY DEF Flush
  <1>3. PICK nodes : LET values == [l \in {x \in Due(c) : x[1] \in nodes} |-> rel[k.worker][l]]
                     IN conn' = [conn EXCEPT ![c] = [Sending(conn[c], <<[type |-> "UPDATE", values |-> values]>>) EXCEPT !.sent = Overlaid(values, conn[c].sent)]]
    BY DEF Flush
  <1> DEFINE S == {x \in Due(c) : x[1] \in nodes}
             values == [l \in S |-> rel[k.worker][l]]
             m == [type |-> "UPDATE", values |-> values]
             l == Sending(k, <<m>>)
             sent == Overlaid(values, k.sent)
  <1>4. values \in UpdateValues
    <2>1. S \in SUBSET Links
      BY DEF Due
    <2> HIDE DEF S
    <2>2. QED
      BY <1>1, <2>1, ValuesOf
  <1>5. conn' = [conn EXCEPT ![c] = [l EXCEPT !.sent = sent]]
    BY <1>3
  <1> HIDE DEF values
  <1>6. sent \in UpdateValues
    BY <1>1, <1>4, ValuesOver
  <1>7. m \in OutMessages /\ <<m>> \in Seq(OutMessages) /\ m.type = "UPDATE"
    BY <1>4, MessageTypes
  <1> HIDE DEF m, sent
  <1>8. conn' = [conn EXCEPT ![c] = conn'[c]] /\ conn'[c] = [l EXCEPT !.sent = sent]
    BY <1>1, <1>5 DEF SyncTypes
  <1>9. /\ l \in ConnStates
        /\ l.tab = k.tab /\ l.worker = k.worker /\ l.phase = k.phase /\ l.session = k.session /\ l.step = k.step
        /\ l.stream = k.stream /\ l.knows = k.knows /\ l.wants = k.wants /\ l.inbox = k.inbox
        /\ l.outbox = IF k.tab # None /\ k.phase = "open" THEN k.outbox \o <<m>> ELSE k.outbox
    BY <1>1, <1>7, SendingIs
  <1> HIDE DEF l
  <1>10. /\ conn'[c] \in ConnStates /\ conn'[c].step = k.step /\ conn'[c].session = k.session /\ conn'[c].inbox = k.inbox
         /\ conn'[c].stream = k.stream /\ conn'[c].knows = k.knows /\ conn'[c].wants = k.wants
         /\ conn'[c].tab = k.tab /\ conn'[c].phase = k.phase /\ conn'[c].worker = k.worker
         /\ conn'[c].outbox = IF k.tab # None /\ k.phase = "open" THEN k.outbox \o <<m>> ELSE k.outbox
    BY <1>6, <1>8, <1>9 DEF ConnStates
  <1>11. ServedAt(c)'
    BY <1>1, <1>2, <1>10 DEF ServedAt
  <1>12. ASSUME NEW t \in Tabs, page[t].conn = c
         PROVE  /\ conn'[c].tab = t /\ conn'[c].phase = "open" /\ Unclosed(conn'[c].inbox) /\ Link(page[t], conn'[c], left.switches)
    <2>1. k.tab = t /\ k.phase = "open" /\ Unclosed(k.inbox) /\ Link(page[t], k, left.switches) /\ t # None
      BY <1>12, SyncFacts DEF JoinedAt
    <2>2. conn'[c].outbox = k.outbox \o <<m>>
      BY <1>10, <2>1
    <2> HIDE DEF k
    <2>3. Link(page[t], conn'[c], left.switches)
      BY <1>1, <1>7, <1>10, <2>1, <2>2, LinkSays
    <2>4. QED
      BY <1>10, <2>1, <2>3
  <1>13. QED
    BY <1>1, <1>2, <1>8, <1>10, <1>11, <1>12, WorkerStep DEF SyncTypes

LEMMA SyncEdit ==
  ASSUME SyncInv, NEW w \in Workers, Edit(w)
  PROVE  SyncInv'
  <1>1. SyncTypes
    BY SyncFacts
  <1>2. PICK k, l \in Visible(w) : \E u \in Values(k[2]) \ {rel[w][k]}, v \in Values(l[2]) :
          rel' = [rel EXCEPT ![w] = [rel[w] EXCEPT ![l] = v, ![k] = u]]
    BY DEF Edit
  <1>3. PICK u \in Values(k[2]), v \in Values(l[2]) : rel' = [rel EXCEPT ![w] = [rel[w] EXCEPT ![l] = v, ![k] = u]]
    BY <1>2
  <1>4. UNCHANGED <<scene, boot, conn, page>> /\ left' = [left EXCEPT !.edits = left.edits - 1] /\ left.edits > 0
    BY DEF Edit
  <1>5. k \in Links /\ l \in Links
    BY DEF Visible
  <1>6. u \subseteq UnderLink(k) /\ v \subseteq UnderLink(l)
    BY <1>1, <1>5, TargetsUnder DEF Values, SyncTypes
  <1>7. rel' \in [Workers -> HeldValues]
    <2>1. rel \in [Workers -> HeldValues] /\ \A x \in Links : UnderLink(x) \subseteq Clips \cup Leaves
      BY <1>1 DEF SyncTypes, UnderLink
    <2>2. [rel[w] EXCEPT ![l] = v, ![k] = u] \in HeldValues
      BY <1>5, <1>6, <2>1 DEF HeldValues
    <2>3. QED
      BY <1>3, <2>1, <2>2
  <1>8. left' \in [edits : Nat, switches : {0, 1}] /\ left'.switches = left.switches
    BY <1>1, <1>4 DEF SyncTypes
  <1>9. SyncTypes'
    BY <1>1, <1>4, <1>7, <1>8 DEF SyncTypes
  <1>10. QED
    BY <1>4, <1>8, <1>9 DEF SyncInv, ServedAt, JoinedAt

LEMMA SyncOpenStorage ==
  ASSUME SyncInv, NEW w \in Workers, OpenStorage(w)
  PROVE  SyncInv'
  <1>1. /\ SyncTypes /\ \A c \in Connections : conn[c] \in ConnStates /\ ServedAt(c)
    BY SyncFacts
  <1>2. UNCHANGED <<scene, rel, page, left>>
    BY DEF OpenStorage
  <1>3. PICK outcome \in {"ready", "failed"} :
          LET m == [type |-> "WORKSPACE_OPEN_STATE", state |-> outcome]
          IN /\ boot' = [boot EXCEPT ![w].state = outcome]
             /\ conn' = [c \in Connections |-> IF c \in Active(w) THEN Sending(conn[c], <<m>>) ELSE conn[c]]
    BY DEF OpenStorage
  <1> DEFINE m == [type |-> "WORKSPACE_OPEN_STATE", state |-> outcome]
  <1>4. m \in OutMessages /\ <<m>> \in Seq(OutMessages) /\ m.type = "WORKSPACE_OPEN_STATE"
    BY MessageTypes
  <1>5. boot' \in [Workers -> BootStates] /\ \A v \in Workers : boot[v].state = "ready" => boot'[v].state = "ready"
    <2>1. boot[w].state = "opening"
      BY DEF OpenStorage
    <2>2. QED
      BY <1>1, <1>3, <2>1 DEF SyncTypes, BootStates
  <1>6. \A c \in Connections : conn'[c] = IF c \in Active(w) THEN Sending(conn[c], <<m>>) ELSE conn[c]
    BY <1>3
  <1>7. DOMAIN conn' = Connections /\ conn' = [c \in Connections |-> conn'[c]]
    BY <1>3
  <1> HIDE DEF m
  <1>8. ASSUME NEW c \in Connections
        PROVE  LET k == conn[c] l == conn'[c]
               IN /\ l \in ConnStates /\ l.tab = k.tab /\ l.worker = k.worker /\ l.phase = k.phase /\ l.session = k.session
                  /\ l.step = k.step /\ l.stream = k.stream /\ l.knows = k.knows /\ l.wants = k.wants /\ l.inbox = k.inbox
                  /\ l.outbox = k.outbox \/ l.outbox = k.outbox \o <<m>>
    <2>1. CASE c \in Active(w)
      <3>1. conn'[c] = Sending(conn[c], <<m>>)
        BY <1>6, <2>1
      <3>2. LET k == conn[c] l == Sending(conn[c], <<m>>)
            IN /\ l \in ConnStates /\ l.tab = k.tab /\ l.worker = k.worker /\ l.phase = k.phase /\ l.session = k.session
               /\ l.step = k.step /\ l.stream = k.stream /\ l.knows = k.knows /\ l.wants = k.wants /\ l.inbox = k.inbox
               /\ l.outbox = IF k.tab # None /\ k.phase = "open" THEN k.outbox \o <<m>> ELSE k.outbox
        BY <1>1, <1>4, SendingIs
      <3>3. QED
        BY <3>1, <3>2
    <2>2. CASE c \notin Active(w)
      BY <1>1, <1>6, <2>2
    <2>3. QED
      BY <2>1, <2>2
  <1>9. conn' \in [Connections -> ConnStates]
    BY <1>7, <1>8
  <1>10. SyncTypes'
    BY <1>1, <1>2, <1>5, <1>9 DEF SyncTypes
  <1>11. ASSUME NEW c \in Connections PROVE ServedAt(c)'
    BY <1>1, <1>5, <1>8 DEF ServedAt
  <1>12. ASSUME NEW t \in Tabs PROVE JoinedAt(t)'
    <2>1. JoinedAt(t) /\ page[t].conn \in Connections \cup {0}
      BY SyncFacts
    <2>2. CASE page[t].conn = 0
      BY <1>2, <2>1, <2>2 DEF JoinedAt
    <2>3. CASE page[t].conn # 0
      <3> DEFINE c == page[t].conn
      <3>1. c \in Connections /\ conn[c].tab = t /\ conn[c].phase = "open" /\ Unclosed(conn[c].inbox) /\ Link(page[t], conn[c], left.switches)
        BY <2>1, <2>3 DEF JoinedAt
      <3> HIDE DEF c
      <3>2. conn[c] \in ConnStates
        BY <1>1, <3>1
      <3>3. /\ conn'[c] \in ConnStates /\ conn'[c].tab = t /\ conn'[c].phase = "open" /\ Unclosed(conn'[c].inbox)
            /\ conn'[c].session = conn[c].session /\ conn'[c].step = conn[c].step /\ conn'[c].stream = conn[c].stream
            /\ conn'[c].knows = conn[c].knows /\ conn'[c].wants = conn[c].wants /\ conn'[c].inbox = conn[c].inbox
            /\ conn'[c].outbox = conn[c].outbox \/ conn'[c].outbox = conn[c].outbox \o <<m>>
        BY <1>8, <3>1
      <3>4. Link(page[t], conn'[c], left.switches)
        <4>1. CASE conn'[c].outbox = conn[c].outbox
          BY <3>1, <3>3, <4>1 DEF Link, HomeAt, SwitchedFrom, Moved
        <4>2. CASE conn'[c].outbox = conn[c].outbox \o <<m>>
          BY <1>4, <3>1, <3>2, <3>3, <4>2, LinkSays
        <4>3. QED
          BY <3>3, <4>1, <4>2
      <3>5. QED
        BY <1>2, <2>1, <2>3, <3>3, <3>4 DEF JoinedAt, c
    <2>4. QED
      BY <2>2, <2>3
  <1>13. QED
    BY <1>10, <1>11, <1>12 DEF SyncInv

LEMMA TabStep ==
  ASSUME SyncInv, NEW t \in Tabs, page' = [page EXCEPT ![t] = page'[t]], JoinedAt(t)',
         scene' = scene, rel' = rel, boot' = boot, left' \in [edits : Nat, switches : {0, 1}],
         left.switches = 0 => left'.switches = 0,
         conn' \in [Connections -> ConnStates], \A c \in Connections : ServedAt(c)',
         \A u \in Tabs : u # t /\ page[u].conn # 0 => conn'[page[u].conn] = conn[page[u].conn]
  PROVE  SyncInv'
  <1>1. page \in [Tabs -> PageStates] /\ \A u \in Tabs : u # t => page'[u] = page[u]
    BY DEF SyncInv, SyncTypes
  <1>2. page'[t] \in PageStates
    BY DEF JoinedAt, GoodPage
  <1>3. page' \in [Tabs -> PageStates]
    BY <1>1, <1>2
  <1>4. SyncTypes'
    BY <1>3 DEF SyncInv, SyncTypes
  <1>5. ASSUME NEW u \in Tabs, u # t PROVE JoinedAt(u)'
    <2>1. JoinedAt(u) /\ page'[u] = page[u] /\ (page[u].conn # 0 => conn'[page[u].conn] = conn[page[u].conn])
      BY <1>1, <1>5 DEF SyncInv
    <2>2. \A k : Link(page[u], k, left.switches) => Link(page[u], k, left'.switches)
      BY LinkLess
    <2>3. QED
      BY <2>1, <2>2 DEF JoinedAt
  <1>6. QED
    BY <1>4, <1>5 DEF SyncInv

LEMMA FreeOne ==
  ASSUME SyncInv, Free # {}
  PROVE  Min(Free) \in Connections /\ conn[Min(Free)].phase = "unused" /\ \A t \in Tabs : page[t].conn # Min(Free)
  <1>1. Free \subseteq Nat /\ Free \subseteq Connections /\ 0 \notin Connections
    BY PageSyncAssumption DEF Free
  <1>2. \E m \in Free : \A n \in Free : m <= n
    BY <1>1, LeastNatural
  <1>3. Min(Free) \in Free
    BY <1>2 DEF Min
  <1>4. ASSUME NEW t \in Tabs, page[t].conn = Min(Free) PROVE FALSE
    <2>1. conn[page[t].conn].phase = "open"
      BY <1>1, <1>3, <1>4, SyncFacts DEF JoinedAt
    <2>2. QED
      BY <1>3, <1>4, <2>1 DEF Free
  <1>5. QED
    BY <1>1, <1>3, <1>4 DEF Free

(* A connection that was not used serves a tab that starts over. *)
LEMMA OpensFor ==
  ASSUME NEW t \in Tabs, NEW w \in Workers, NEW session \in Sessions, NEW key \in Sessions, NEW p, Fresh(p), ~p.booted, NEW switches
  PROVE  LET l == Connected(t, w, Bootstrap(key, session))
         IN /\ l \in ConnStates /\ l.tab = t /\ l.phase = "open" /\ Unclosed(l.inbox) /\ l.worker = w /\ l.step = "idle" /\ l.stream = None
            /\ Link(p, l, switches)
  <1> DEFINE m == Bootstrap(key, session)
             l == Connected(t, w, m)
  <1>1. m \in InMessages /\ Boots(m) /\ m.session = session
    BY MessageTypes
  <1> HIDE DEF m
  <1>2. <<m, m>> \in Seq(InMessages)
    BY <1>1
  <1>3. l = [Unused EXCEPT !.tab = t, !.worker = w, !.phase = "open", !.inbox = <<m, m>>]
    BY DEF Connected
  <1>4. l \in ConnStates
    <2>1. t \in Tabs \cup {None} /\ w \in Workers \cup {None} /\ "open" \in {"unused", "open"}
      OBVIOUS
    <2> HIDE DEF l
    <2>2. QED
      BY <2>1, <1>2, <1>3, UnusedConn
  <1>5. /\ l.tab = t /\ l.phase = "open" /\ l.worker = w /\ l.inbox = <<m, m>> /\ l.outbox = <<>> /\ l.step = "idle" /\ l.stream = None
        /\ l.knows = FALSE /\ l.wants = {}
    BY <1>3 DEF Unused
  <1> HIDE DEF l
  <1>6. Unclosed(l.inbox)
    BY <1>1, <1>5 DEF Unclosed, Boots
  <1>7. Link(p, l, switches)
    BY <1>1, <1>5, LinkOpens
  <1>8. QED
    BY <1>4, <1>5, <1>6, <1>7 DEF l, m

LEMMA SyncConnect ==
  ASSUME SyncInv, NEW t \in Tabs, NEW w \in Workers, Connect(t, w)
  PROVE  SyncInv'
  <1> DEFINE f == Min(Free)
             p == page[t]
             q == [p EXCEPT !.conn = f]
             l == Connected(t, w, Bootstrap(Room, scene.session))
  <1>1. /\ SyncTypes /\ p \in PageStates /\ JoinedAt(t) /\ p.conn = 0 /\ Free # {} /\ scene.session \in Sessions /\ Room \in Sessions
        /\ 0 \notin Connections
    BY SyncFacts, PageSyncAssumption DEF Connect, SyncTypes
  <1>2. f \in Connections /\ conn[f].phase = "unused" /\ \A u \in Tabs : page[u].conn # f
    BY <1>1, FreeOne
  <1> HIDE DEF f
  <1>3. /\ conn' = [conn EXCEPT ![f] = l] /\ page' = [page EXCEPT ![t].conn = f] /\ UNCHANGED <<scene, boot, rel, left>>
    BY DEF Connect, f
  <1>4. page' = [page EXCEPT ![t] = page'[t]] /\ page'[t] = q
    BY <1>1, <1>3 DEF SyncTypes
  <1>5. GoodPage(p) /\ Fresh(p) /\ ~p.booted
    BY <1>1 DEF JoinedAt
  <1>6. /\ q.conn = f /\ q \in PageStates /\ q.refs = p.refs /\ q.asked = p.asked /\ q.root = p.root /\ q.mounted = p.mounted
        /\ q.clips = p.clips /\ q.leaves = p.leaves /\ q.held = p.held /\ q.published = p.published /\ q.booted = p.booted
    BY <1>1, <1>2 DEF PageStates
  <1> HIDE DEF q, l
  <1>7. GoodPage(q) /\ Fresh(q) /\ ~q.booted
    <2>1. Spots(q) = Spots(p)
      BY <1>6 DEF Spots
    <2>2. QED
      BY <1>5, <1>6, <2>1 DEF GoodPage, Fresh, Idle, AsksWhatCounts, Counted, InPlace, ClipsRight, LeavesRight
  <1>8. /\ l \in ConnStates /\ l.tab = t /\ l.phase = "open" /\ Unclosed(l.inbox) /\ l.worker = w /\ l.step = "idle" /\ l.stream = None
        /\ Link(q, l, left.switches)
    BY <1>1, <1>7, OpensFor DEF l
  <1>9. conn' \in [Connections -> ConnStates] /\ conn'[f] = l /\ \A c \in Connections : c # f => conn'[c] = conn[c]
    BY <1>1, <1>2, <1>3, <1>8 DEF SyncTypes
  <1>10. JoinedAt(t)'
    BY <1>1, <1>2, <1>3, <1>4, <1>6, <1>7, <1>8, <1>9 DEF JoinedAt
  <1>11. ASSUME NEW c \in Connections PROVE ServedAt(c)'
    BY <1>3, <1>8, <1>9, SyncFacts DEF ServedAt
  <1>12. \A u \in Tabs : u # t /\ page[u].conn # 0 => conn'[page[u].conn] = conn[page[u].conn]
    BY <1>2, <1>9, SyncFacts
  <1>13. QED
    BY <1>1, <1>3, <1>4, <1>9, <1>10, <1>11, <1>12, TabStep DEF SyncTypes

LEMMA AbandonedConn ==
  ASSUME NEW k \in ConnStates
  PROVE  LET l == Abandoned(k) IN l \in ConnStates /\ l.phase = k.phase /\ l.step = k.step /\ l.worker = k.worker /\ l.stream = k.stream
  <1>1. <<>> \in Seq(OutMessages)
    OBVIOUS
  <1>2. QED
    BY <1>1 DEF Abandoned, ConnStates

LEMMA SyncFailover ==
  ASSUME SyncInv, NEW t \in Tabs, NEW w \in Workers, Failover(t, w)
  PROVE  SyncInv'
  <1> DEFINE f == Min(Free)
             p == page[t]
             c == p.conn
             key == IF p.key = None THEN Local ELSE p.key
             r == [Reset(p) EXCEPT !.conn = f, !.session = None]
             q == Commit(r)
             l == Connected(t, w, Bootstrap(key, key))
  <1>1. /\ SyncTypes /\ p \in PageStates /\ JoinedAt(t) /\ c # 0 /\ c \in Connections /\ Free # {} /\ key \in Sessions
        /\ 0 \notin Connections
    <2>1. page[t].key \in Sessions \cup {None} /\ Local \in Sessions
      BY SyncFacts, PageSyncAssumption DEF PageStates
    <2>2. QED
      BY <2>1, SyncFacts DEF Failover
  <1>2. f \in Connections /\ conn[f].phase = "unused" /\ \A u \in Tabs : page[u].conn # f
    BY <1>1, FreeOne
  <1> HIDE DEF f
  <1>3. /\ conn' = [conn EXCEPT ![f] = l, ![c] = Abandoned(conn[c])]
        /\ page' = [page EXCEPT ![t] = q] /\ UNCHANGED <<scene, boot, rel, left>>
    <2>1. f # c
      BY <1>2
    <2>2. conn' = [conn EXCEPT ![f] = l, ![c] = Abandoned(@)]
      BY DEF Failover, f
    <2>3. QED
      BY <1>1, <1>2, <2>1, <2>2 DEF Failover, f, SyncTypes
  <1>4. page' = [page EXCEPT ![t] = page'[t]] /\ page'[t] = q
    BY <1>1, <1>3 DEF SyncTypes
  <1>5. GoodPage(q) /\ Fresh(q) /\ ~q.booted /\ q.conn = f
    <2>1. GoodPage(p)
      BY <1>1 DEF JoinedAt
    <2>2. StartedOver(p, r) /\ r.conn = f
      <3>1. Nothing \in HeldValues /\ [n \in Nodes |-> "unset"] \in [Nodes -> Answers] /\ [n \in Nodes |-> 0] \in [Nodes -> Nat]
        BY DEF Nothing, HeldValues, Answers
      <3>2. QED
        BY <1>1, <1>2, <3>1 DEF Reset, PageStates, StartedOver
    <2> HIDE DEF r, p
    <2>3. QED
      BY <2>1, <2>2, ResetPage
  <1> HIDE DEF q, l, key
  <1>6. /\ l \in ConnStates /\ l.tab = t /\ l.phase = "open" /\ Unclosed(l.inbox) /\ l.worker = w /\ l.step = "idle" /\ l.stream = None
        /\ Link(q, l, left.switches)
    BY <1>1, <1>5, OpensFor DEF l
  <1>7. /\ conn[c] \in ConnStates /\ Abandoned(conn[c]) \in ConnStates /\ Abandoned(conn[c]).phase = conn[c].phase
        /\ Abandoned(conn[c]).step = conn[c].step /\ Abandoned(conn[c]).worker = conn[c].worker /\ Abandoned(conn[c]).stream = conn[c].stream
    BY <1>1, AbandonedConn DEF SyncTypes
  <1>8. /\ conn' \in [Connections -> ConnStates] /\ conn'[f] = l /\ conn'[c] = Abandoned(conn[c])
        /\ \A d \in Connections : d # f /\ d # c => conn'[d] = conn[d]
    BY <1>1, <1>2, <1>3, <1>6, <1>7 DEF SyncTypes
  <1>9. JoinedAt(t)'
    BY <1>1, <1>2, <1>3, <1>4, <1>5, <1>6, <1>8 DEF JoinedAt
  <1>10. ASSUME NEW d \in Connections PROVE ServedAt(d)'
    BY <1>3, <1>6, <1>7, <1>8, SyncFacts DEF ServedAt
  <1>11. \A u \in Tabs : u # t /\ page[u].conn # 0 => conn'[page[u].conn] = conn[page[u].conn]
    BY <1>1, <1>2, <1>8, SyncFacts DEF JoinedAt
  <1>12. QED
    BY <1>1, <1>3, <1>4, <1>8, <1>9, <1>10, <1>11, TabStep DEF SyncTypes

LEMMA SyncSwitch ==
  ASSUME SyncInv, NEW t \in Tabs, NEW session \in Sessions, Switch(t, session)
  PROVE  SyncInv'
  <1> DEFINE p == page[t]
             c == p.conn
             k == conn[c]
             m == Bootstrap(Room, session)
             r == [Reset(p) EXCEPT !.session = session, !.key = Room]
             q == Commit(r)
             l == [k EXCEPT !.inbox = k.inbox \o <<m>>]
  <1>1. /\ SyncTypes /\ p \in PageStates /\ JoinedAt(t) /\ c # 0 /\ c \in Connections /\ Room \in Sessions /\ k \in ConnStates
        /\ p.booted /\ session # p.session /\ left.switches > 0
    BY SyncFacts, PageSyncAssumption DEF Switch
  <1>2. GoodPage(p) /\ k.tab = t /\ k.phase = "open" /\ Unclosed(k.inbox) /\ Link(p, k, left.switches)
    BY <1>1 DEF JoinedAt
  <1>3. left' = [left EXCEPT !.switches = left.switches - 1] /\ UNCHANGED <<scene, boot, rel>>
    BY DEF Switch
  <1>4. left' \in [edits : Nat, switches : {0, 1}] /\ left'.switches = 0
    BY <1>1, <1>3 DEF SyncTypes
  <1>5. page' = [page EXCEPT ![t] = page'[t]] /\ page'[t] = q
    BY <1>1 DEF Switch, SyncTypes
  <1>6. conn' = [conn EXCEPT ![c] = l]
    <2>1. conn' = To(c, <<m>>)
      BY DEF Switch
    <2>2. QED
      BY <1>1, <1>2, <2>1 DEF To, SyncTypes
  <1>7. m \in InMessages /\ Boots(m) /\ m.session = session
    BY <1>1, MessageTypes
  <1> HIDE DEF m
  <1>8. GoodPage(q) /\ Fresh(q) /\ ~q.booted /\ q.conn = c
    <2>1. StartedOver(p, r) /\ r.conn = c
      <3>1. Nothing \in HeldValues /\ [n \in Nodes |-> "unset"] \in [Nodes -> Answers] /\ [n \in Nodes |-> 0] \in [Nodes -> Nat]
        BY DEF Nothing, HeldValues, Answers
      <3>2. QED
        BY <1>1, <3>1 DEF Reset, PageStates, StartedOver
    <2> HIDE DEF r, p, c
    <2>2. QED
      BY <1>2, <2>1, ResetPage
  <1> HIDE DEF q
  <1> DEFINE u == k.inbox \o <<m>>
  <1>17. /\ u \in Seq(InMessages) /\ \A i \in DOMAIN u : (i \in DOMAIN k.inbox /\ u[i] = k.inbox[i]) \/ u[i] = m
    <2> DEFINE in == k.inbox
    <2>1. in \in Seq(InMessages)
      BY <1>1 DEF ConnStates
    <2> HIDE DEF in
    <2>2. LET v == in \o <<m>>
         IN /\ v \in Seq(InMessages) /\ DOMAIN v = 1..(Len(in) + 1) /\ DOMAIN in = 1..Len(in) /\ Len(in) \in Nat
            /\ v[Len(in) + 1] = m /\ \A i \in DOMAIN in : i \in DOMAIN v /\ v[i] = in[i] /\ i < Len(in) + 1
            /\ Len(v) = Len(in) + 1
      BY <2>1, <1>7, OneMore, Zenon
    <2> DEFINE v == in \o <<m>>
    <2> HIDE DEF v
    <2>3. /\ v \in Seq(InMessages) /\ \A i \in DOMAIN v : (i \in DOMAIN in /\ v[i] = in[i]) \/ v[i] = m
      BY <2>2 DEF v
    <2>4. QED
      BY <2>3 DEF in, v
  <1> HIDE DEF u
  <1>9. /\ l \in ConnStates /\ l.inbox = u /\ l.outbox = k.outbox /\ l.step = k.step /\ l.session = k.session
        /\ l.stream = k.stream /\ l.tab = k.tab /\ l.phase = k.phase /\ l.worker = k.worker
    <2>1. l = [k EXCEPT !.inbox = u]
      BY DEF u
    <2>2. QED
      BY <1>1, <1>17, <2>1 DEF ConnStates
  <1> HIDE DEF l
  <1>10. Unclosed(l.inbox)
    BY <1>2, <1>7, <1>9, <1>17 DEF Unclosed, Boots
  <1>11. Link(q, l, 0)
    <2>1. left.switches # 0
      BY <1>1 DEF SyncTypes
    <2>2. l.inbox = k.inbox \o <<m>>
      BY <1>9 DEF u
    <2> HIDE DEF p, k
    <2>3. QED
      BY <1>1, <1>2, <1>7, <1>8, <1>9, <2>1, <2>2, LinkSwitch
  <1>12. /\ conn' \in [Connections -> ConnStates] /\ conn'[c] = l /\ \A d \in Connections : d # c => conn'[d] = conn[d]
    BY <1>1, <1>6, <1>9 DEF SyncTypes
  <1>13. JoinedAt(t)'
    BY <1>1, <1>2, <1>4, <1>5, <1>8, <1>9, <1>10, <1>11, <1>12 DEF JoinedAt
  <1>14. ASSUME NEW d \in Connections PROVE ServedAt(d)'
    BY <1>3, <1>9, <1>12, SyncFacts DEF ServedAt
  <1>15. \A v \in Tabs : v # t /\ page[v].conn # 0 => conn'[page[v].conn] = conn[page[v].conn]
    BY <1>1, <1>12, SyncFacts DEF JoinedAt
  <1>16. QED
    BY <1>3, <1>4, <1>5, <1>12, <1>13, <1>14, <1>15, TabStep DEF SyncTypes

LEMMA SyncLeave ==
  ASSUME SyncInv, NEW t \in Tabs, Leave(t)
  PROVE  SyncInv'
  <1> DEFINE p == page[t]
             c == p.conn
             k == conn[c]
             m == [type |-> "CLOSE_SESSION"]
             q == [InitPage(t) EXCEPT !.gone = TRUE]
             a == [k EXCEPT !.inbox = k.inbox \o <<m>>]
  <1>1. /\ SyncTypes /\ p \in PageStates /\ JoinedAt(t) /\ c # 0 /\ c \in Connections /\ k \in ConnStates /\ 0 \notin Connections
    BY SyncFacts DEF Leave
  <1>2. k.tab = t /\ k.phase = "open"
    BY <1>1 DEF JoinedAt
  <1>3. page' = [page EXCEPT ![t] = page'[t]] /\ page'[t] = q /\ UNCHANGED <<scene, boot, rel, left>>
    BY <1>1 DEF Leave, SyncTypes
  <1>4. GoodPage(q) /\ Fresh(q) /\ ~q.booted /\ q.conn = 0
    BY InitPageGood
  <1> HIDE DEF q
  <1>5. m \in InMessages
    BY MessageTypes
  <1>6. conn' = [[conn EXCEPT ![c] = a] EXCEPT ![c] = Abandoned(@)]
    <2>1. conn' = [To(c, <<m>>) EXCEPT ![c] = Abandoned(@)]
      BY DEF Leave
    <2>2. To(c, <<m>>) = [conn EXCEPT ![c] = a]
      BY <1>1, <1>2 DEF To, SyncTypes
    <2>3. QED
      BY <2>1, <2>2
  <1> HIDE DEF m
  <1>7. a \in ConnStates /\ a.worker = k.worker /\ a.phase = k.phase /\ a.step = k.step /\ a.stream = k.stream
    <2> DEFINE in == k.inbox
               u == in \o <<m>>
    <2>1. in \in Seq(InMessages)
      BY <1>1 DEF ConnStates
    <2>2. a = [k EXCEPT !.inbox = u]
      OBVIOUS
    <2> HIDE DEF in, a
    <2>3. u \in Seq(InMessages)
      BY <1>5, <2>1
    <2> HIDE DEF u
    <2>4. QED
      BY <1>1, <2>2, <2>3 DEF ConnStates
  <1> HIDE DEF a
  <1>8. /\ Abandoned(a) \in ConnStates /\ Abandoned(a).phase = k.phase
        /\ Abandoned(a).step = k.step /\ Abandoned(a).worker = k.worker /\ Abandoned(a).stream = k.stream
    BY <1>7, AbandonedConn
  <1>9. /\ conn' \in [Connections -> ConnStates] /\ conn'[c] = Abandoned(a) /\ \A d \in Connections : d # c => conn'[d] = conn[d]
    BY <1>1, <1>6, <1>8 DEF SyncTypes
  <1>10. JoinedAt(t)'
    BY <1>3, <1>4 DEF JoinedAt
  <1>11. ASSUME NEW d \in Connections PROVE ServedAt(d)'
    BY <1>3, <1>8, <1>9, SyncFacts DEF ServedAt
  <1>12. \A u \in Tabs : u # t /\ page[u].conn # 0 => conn'[page[u].conn] = conn[page[u].conn]
    BY <1>1, <1>9, SyncFacts DEF JoinedAt
  <1>13. QED
    BY <1>1, <1>3, <1>9, <1>10, <1>11, <1>12, TabStep DEF SyncTypes

LEMMA SyncReceive ==
  ASSUME SyncInv, NEW t \in Tabs, Receive(t)
  PROVE  SyncInv'
  <1> DEFINE p == page[t]
             c == p.conn
             k == conn[c]
  <1>1. /\ SyncTypes /\ p \in PageStates /\ JoinedAt(t) /\ c # 0 /\ c \in Connections /\ k \in ConnStates /\ k.outbox # <<>>
        /\ UNCHANGED <<scene, boot, rel, left>>
    BY SyncFacts DEF Receive
  <1>2. PICK outerFirst \in BOOLEAN :
          LET q == Commit(Handled(p, Head(k.outbox), outerFirst))
          IN page' = [page EXCEPT ![t] = q] /\ conn' = [To(c, Shapes(p, q)) EXCEPT ![c].outbox = Tail(@)]
    BY DEF Receive
  <1> DEFINE q == Commit(Handled(p, Head(k.outbox), outerFirst))
             s == Shapes(p, q)
             l == [k EXCEPT !.inbox = k.inbox \o s, !.outbox = Tail(k.outbox)]
  <1>3. GoodPage(p) /\ k.tab = t /\ k.phase = "open" /\ Unclosed(k.inbox) /\ Link(p, k, left.switches)
    BY <1>1 DEF JoinedAt
  <1>4. page' = [page EXCEPT ![t] = page'[t]] /\ page'[t] = q
    BY <1>1, <1>2 DEF SyncTypes
  <1>5. k.inbox \in Seq(InMessages) /\ k.outbox \in Seq(OutMessages) /\ Tail(k.outbox) \in Seq(OutMessages) /\ Head(k.outbox) \in OutMessages
    <2>1. k.inbox \in Seq(InMessages) /\ k.outbox \in Seq(OutMessages)
      BY <1>1 DEF ConnStates
    <2>2. QED
      BY <1>1, <2>1, OneLess
  <1>6. q \in PageStates
    <2> DEFINE m == Head(k.outbox)
    <2>1. m \in OutMessages
      BY <1>5
    <2> HIDE DEF m
    <2>2. LET r == Handled(p, m, outerFirst) x == Commit(r)
          IN /\ GoodPage(x) /\ Grows(r, x) /\ (p.published => x.published)
             /\ \A n \in Nodes : p.asked[n] # "unset" => x.asked[n] # "unset"
             /\ m.type # "TREE_ROOT" => x.root = p.root /\ x.published = p.published
             /\ x.booted = (IF m.type = "RUNTIME_READY" THEN TRUE ELSE p.booted) /\ x.conn = p.conn
             /\ x.session = IF m.type = "RUNTIME_READY" THEN m.session ELSE p.session
      BY <1>3, <2>1, AfterHandling, Zenon
    <2>3. QED
      BY <2>2 DEF GoodPage, m
  <1> HIDE DEF q
  <1>7. s = <<>> \/ \E m \in InMessages : Shaped(m) /\ s = <<m>>
    <2> DEFINE m == [type |-> "SHAPES", publish |-> q.published /\ ~p.published,
                     on |-> {n \in Nodes : q.asked[n] = "yes" /\ p.asked[n] # "yes"},
                     off |-> {n \in Nodes : q.asked[n] = "no" /\ p.asked[n] # "no"}]
    <2>1. s = <<m>> \/ s = <<>>
      BY DEF Shapes
    <2>2. m \in InMessages /\ Shaped(m)
      BY DEF InMessages, Shaped
    <2>3. QED
      BY <2>1, <2>2
  <1>8. s \in Seq(InMessages) /\ k.inbox \o s \in Seq(InMessages) /\ Unclosed(k.inbox \o s)
    <2>1. CASE s = <<>>
      BY <1>3, <1>5, <2>1
    <2>2. ASSUME NEW m \in InMessages, Shaped(m), s = <<m>> PROVE k.inbox \o s \in Seq(InMessages) /\ Unclosed(k.inbox \o s)
      <3> DEFINE in == k.inbox
                 u == in \o <<m>>
      <3>1. in \in Seq(InMessages)
        BY <1>5
      <3> HIDE DEF in
      <3>2. /\ u \in Seq(InMessages) /\ DOMAIN u = 1..(Len(in) + 1) /\ DOMAIN in = 1..Len(in) /\ Len(in) \in Nat
            /\ u[Len(in) + 1] = m /\ \A i \in DOMAIN in : i \in DOMAIN u /\ u[i] = in[i]
        BY <2>2, <3>1, OneMore
      <3> HIDE DEF u
      <3>3. \A i \in DOMAIN u : (i \in DOMAIN in /\ u[i] = in[i]) \/ u[i] = m
        BY <3>2
      <3>4. k.inbox \o s = u
        BY <2>2 DEF u, in
      <3>5. Unclosed(in)
        BY <1>3 DEF in
      <3>6. Unclosed(u)
        BY <2>2, <3>3, <3>5 DEF Unclosed, Shaped
      <3>7. QED
        BY <3>2, <3>4, <3>6
    <2>3. QED
      BY <1>7, <2>1, <2>2
  <1>9. conn' = [conn EXCEPT ![c] = l]
    <2>1. conn' = [To(c, s) EXCEPT ![c].outbox = Tail(@)]
      BY <1>2 DEF q
    <2>2. To(c, s) = [conn EXCEPT ![c].inbox = @ \o s]
      BY <1>1, <1>3 DEF To
    <2> HIDE DEF s
    <2>3. QED
      BY <1>1, <2>1, <2>2 DEF SyncTypes, ConnStates
  <1> HIDE DEF s
  <1>10. /\ l \in ConnStates /\ l.inbox = k.inbox \o s /\ l.outbox = Tail(k.outbox) /\ l.step = k.step /\ l.session = k.session
         /\ l.stream = k.stream /\ l.knows = k.knows /\ l.wants = k.wants /\ l.tab = k.tab /\ l.phase = k.phase /\ l.worker = k.worker
    BY <1>1, <1>5, <1>8 DEF ConnStates
  <1> HIDE DEF l
  <1>11. GoodPage(q) /\ q.conn = p.conn /\ Link(q, l, left.switches)
    <2>1. q = Commit(Handled(p, Head(k.outbox), outerFirst)) /\ l.inbox = k.inbox \o Shapes(p, q)
      BY <1>10 DEF q, s
    <2> DEFINE switches == left.switches
    <2>3. Link(p, k, switches)
      BY <1>3
    <2>5. outerFirst \in BOOLEAN
      BY <1>2
    <2> HIDE DEF p, k, switches
    <2>4. GoodPage(q) /\ q.conn = p.conn /\ Link(q, l, switches)
      <3>1. GoodPage(p) /\ k \in ConnStates /\ k.outbox # <<>> /\ q = Commit(Handled(p, Head(k.outbox), outerFirst))
        BY <1>1, <1>3, <2>1
      <3>2. /\ l \in ConnStates /\ l.outbox = Tail(k.outbox) /\ l.inbox = k.inbox \o Shapes(p, q)
            /\ l.step = k.step /\ l.session = k.session /\ l.stream = k.stream /\ l.knows = k.knows /\ l.wants = k.wants
        BY <1>10, <2>1
      <3>3. Answered(p, k, l, outerFirst, q)
        BY <2>5, <3>1, <3>2 DEF Answered
      <3>4. QED
        BY <2>3, <3>3, LinkReceive
    <2>6. QED
      BY <2>4 DEF switches
  <1>12. /\ conn' \in [Connections -> ConnStates] /\ conn'[c] = l /\ \A d \in Connections : d # c => conn'[d] = conn[d]
    BY <1>1, <1>9, <1>10 DEF SyncTypes
  <1>13. JoinedAt(t)'
    BY <1>1, <1>3, <1>4, <1>8, <1>10, <1>11, <1>12 DEF JoinedAt
  <1>14. ASSUME NEW d \in Connections PROVE ServedAt(d)'
    BY <1>1, <1>10, <1>12, SyncFacts DEF ServedAt
  <1>15. \A u \in Tabs : u # t /\ page[u].conn # 0 => conn'[page[u].conn] = conn[page[u].conn]
    BY <1>1, <1>12, SyncFacts DEF JoinedAt
  <1>16. QED
    BY <1>1, <1>4, <1>12, <1>13, <1>14, <1>15, TabStep DEF SyncTypes

LEMMA InitSync ==
  ASSUME OneChange, Init
  PROVE  SyncInv
  <1>1. /\ scene \in Scenes /\ boot = [w \in Workers |-> [state |-> "none", key |-> None]]
        /\ conn = [c \in Connections |-> Unused] /\ page = [t \in Tabs |-> InitPage(t)]
        /\ left = [edits |-> scene.edits, switches |-> scene.switches]
    BY DEF Init
  <1>2. left \in [edits : Nat, switches : {0, 1}]
    <2>1. scene.edits \in Nat /\ scene.switches \in Nat /\ scene.switches <= 1
      BY <1>1, PageSyncAssumption DEF OneChange
    <2>2. QED
      BY <1>1, <2>1
  <1>3. boot \in [Workers -> BootStates]
    BY <1>1 DEF BootStates
  <1>4. rel \in [Workers -> HeldValues]
    <2> DEFINE value(l) == IF l[2] \notin scene.filled THEN {}
                           ELSE IF l[2] \in One THEN {CHOOSE n \in Targets(l[2]) : TRUE} ELSE Targets(l[2])
    <2>1. ASSUME NEW l \in Links PROVE value(l) \subseteq UnderLink(l) /\ UnderLink(l) \subseteq Clips \cup Leaves
      <3>1. Targets(l[2]) \subseteq UnderLink(l) /\ (l[2] # "effects" => Targets(l[2]) # {})
        BY <1>1, TargetsUnder
      <3>2. l[2] \in One => (CHOOSE n \in Targets(l[2]) : TRUE) \in Targets(l[2])
        BY <3>1 DEF One
      <3>3. QED
        BY <3>1, <3>2 DEF UnderLink
    <2>2. rel = [w \in Workers |-> [l \in Links |-> value(l)]]
      BY DEF Init
    <2> HIDE DEF value
    <2>3. [l \in Links |-> value(l)] \in HeldValues
      BY <2>1 DEF HeldValues
    <2>4. QED
      BY <2>2, <2>3
  <1>5. Unused \in ConnStates
    <2>1. <<>> \in UpdateValues
      BY NoValues
    <2>2. Local \in Sessions /\ <<>> \in Seq(OutMessages) /\ <<>> \in Seq(InMessages)
      BY PageSyncAssumption
    <2>3. QED
      BY <2>1, <2>2 DEF Unused, ConnStates
  <1>6. ASSUME NEW t \in Tabs PROVE page[t] \in PageStates /\ JoinedAt(t)
    <2> DEFINE p == [InitPage(t) EXCEPT !.gone = FALSE]
    <2>1. GoodPage(p) /\ Fresh(p) /\ ~p.booted /\ p.conn = 0
      BY InitPageGood
    <2>2. page[t] = p
      <3> DEFINE i == InitPage(t)
      <3>1. Nothing \in HeldValues /\ [n \in Nodes |-> "unset"] \in [Nodes -> Answers] /\ [n \in Nodes |-> 0] \in [Nodes -> Nat]
            /\ [r \in RootRels |-> {}] \in [RootRels -> SUBSET Clips] /\ [way \in Ways |-> {}] \in [Ways -> SUBSET Leaves]
        BY DEF Nothing, HeldValues, Answers
      <3>2. i \in PageStates /\ i.gone = FALSE
        BY <3>1 DEF InitPage, PageStates
      <3> HIDE DEF i
      <3>3. [i EXCEPT !.gone = FALSE] = i
        BY <3>2 DEF PageStates
      <3>4. QED
        BY <1>1, <3>3 DEF i
    <2> HIDE DEF p
    <2>3. QED
      BY <2>1, <2>2 DEF JoinedAt, GoodPage
  <1>7. page \in [Tabs -> PageStates]
    <2>1. page = [t \in Tabs |-> page[t]]
      BY <1>1
    <2>2. QED
      BY <1>6, <2>1
  <1>8. conn \in [Connections -> ConnStates]
    BY <1>1, <1>5
  <1>9. ASSUME NEW c \in Connections PROVE ServedAt(c)
    BY <1>1 DEF ServedAt, Unused
  <1>10. QED
    BY <1>1, <1>2, <1>3, <1>4, <1>6, <1>7, <1>8, <1>9 DEF SyncInv, SyncTypes

LEMMA SyncKeeps ==
  ASSUME SyncInv, [Next]_pageVars
  PROVE  SyncInv'
  <1>1. CASE UNCHANGED pageVars
    BY <1>1 DEF pageVars, SyncInv, SyncTypes, ServedAt, JoinedAt
  <1>2. ASSUME NEW t \in Tabs, NEW w \in Workers, Connect(t, w) \/ Failover(t, w) PROVE SyncInv'
    BY <1>2, SyncConnect, SyncFailover
  <1>3. ASSUME NEW t \in Tabs, NEW s \in Sessions, Switch(t, s) PROVE SyncInv'
    BY <1>3, SyncSwitch
  <1>4. ASSUME NEW t \in Tabs, Leave(t) \/ Receive(t) PROVE SyncInv'
    BY <1>4, SyncLeave, SyncReceive
  <1>5. ASSUME NEW w \in Workers, OpenStorage(w) \/ Edit(w) PROVE SyncInv'
    BY <1>5, SyncOpenStorage, SyncEdit
  <1>6. ASSUME NEW c \in Connections, Destroy(c) \/ Flush(c) PROVE SyncInv'
    BY <1>6, SyncDestroy, SyncFlush
  <1>7. ASSUME NEW c \in Connections, Work(c) PROVE SyncInv'
    BY <1>7, SyncStartBootstrap, SyncAppOpened, SyncRootReady, SyncStreamAdded, SyncRequireShapes, SyncDestroyed DEF Work
  <1>8. QED
    BY <1>1, <1>2, <1>3, <1>4, <1>5, <1>6, <1>7 DEF Next

(* What is shown has a place, and what has a place is counted. *)
LEMMA ShownIsCounted ==
  ASSUME NEW p, GoodPage(p), NEW n \in Shown(p)
  PROVE  n \in Nodes /\ p.refs[n] > 0
  <1> DEFINE S == {x \in Places : n \in Spots(p)[x]}
             root == p.root
  <1>1. /\ p \in PageStates /\ p.refs \in [Nodes -> Nat] /\ p.held \in HeldValues /\ p.mounted = root /\ root \in Sessions \cup {None}
        /\ root # None /\ None \notin Sessions
    BY PageSyncAssumption DEF GoodPage, PageStates, Shown
  <1>2. \A via \in RootRels : p.clips[via] = p.held[<<root, via>>] /\ p.held[<<root, via>>] \subseteq Clips
    <2>1. \A via \in RootRels : <<root, via>> \in Links /\ UnderLink(<<root, via>>) = Clips
      BY <1>1 DEF Links, UnderLink
    <2>2. QED
      BY <1>1, <2>1 DEF GoodPage, InPlace, ClipsRight, HeldValues
  <1>3. ASSUME NEW via \in RootRels, NEW c \in p.held[<<root, via>>], NEW r \in ClipRels
        PROVE  /\ <<via, c, r>> \in Ways /\ p.leaves[<<via, c, r>>] = p.held[<<c, r>>]
               /\ p.held[<<c, r>>] \subseteq Clips \cup Leaves
    <2>1. c \in Clips /\ c \in p.clips[via]
      BY <1>2
    <2>2. <<via, c, r>> \in Ways /\ <<c, r>> \in Links
      BY <2>1 DEF Ways, Links
    <2>3. QED
      BY <1>1, <2>1, <2>2 DEF GoodPage, InPlace, LeavesRight, HeldValues
  <1>4. n \in Nodes /\ S # {}
    <2>1. CASE n = root
      <3>1. RootPlace \in Places /\ RootPlace[3] = "root"
        BY DEF Places, RootPlace
      <3>2. Spots(p)[RootPlace] = {p.mounted} \ {None}
        BY <3>1 DEF Spots
      <3>3. QED
        BY <1>1, <2>1, <3>1, <3>2 DEF Nodes
    <2>2. ASSUME NEW via \in RootRels, n \in p.held[<<root, via>>] PROVE n \in Nodes /\ S # {}
      <3>1. ClipPlace(via) \in Places /\ ClipPlace(via)[3] = "clip" /\ ClipPlace(via)[1] = via
        BY DEF Places, ClipPlace
      <3>2. Spots(p)[ClipPlace(via)] = p.clips[via]
        BY <3>1 DEF Spots
      <3>3. QED
        BY <1>2, <2>2, <3>1, <3>2 DEF Nodes
    <2>3. ASSUME NEW via \in RootRels, NEW c \in p.held[<<root, via>>], NEW r \in ClipRels, n \in p.held[<<c, r>>]
          PROVE  n \in Nodes /\ S # {}
      <3> DEFINE x == <<via, c, r>>
      <3>1. x \in Ways /\ p.leaves[x] = p.held[<<c, r>>] /\ n \in Clips \cup Leaves
        BY <1>3, <2>3
      <3>2. x[3] \notin {"root", "clip"}
        BY DEF ClipRels
      <3> HIDE DEF x
      <3>3. x \in Places /\ Spots(p)[x] = p.leaves[x]
        BY <3>1, <3>2 DEF Places, Spots
      <3>4. QED
        BY <2>3, <3>1, <3>3 DEF Nodes
    <2> DEFINE clips == UNION {p.held[<<root, r>>] : r \in RootRels}
               below == {p.held[<<c, r>>] : c \in clips, r \in ClipRels}
    <2>4. Shown(p) = {root} \cup clips \cup UNION below
      <3>1. Shown(p) = IF root = None THEN {} ELSE {root} \cup clips \cup UNION below
        BY DEF Shown
      <3> HIDE DEF clips, below, root
      <3>2. QED
        BY <1>1, <3>1
    <2>5. CASE n \in clips
      BY <2>2, <2>5
    <2>6. ASSUME NEW v \in below, n \in v PROVE n \in Nodes /\ S # {}
      <3> HIDE DEF clips
      <3>1. PICK c \in clips, r \in ClipRels : v = p.held[<<c, r>>]
        BY SMTT(30)
      <3>2. PICK via \in RootRels : c \in p.held[<<root, via>>]
        BY DEF clips
      <3>3. QED
        BY <2>3, <2>6, <3>1, <3>2
    <2> HIDE DEF clips, below, S, root
    <2>7. QED
      BY <2>1, <2>4, <2>5, <2>6
  <1>5. IsFiniteSet(S) /\ Cardinality(S) \in Nat /\ Cardinality(S) # 0
    <2>1. IsFiniteSet(S)
      BY FinitePlaces, FS_Subset
    <2>2. QED
      BY <1>4, <2>1, FS_EmptySet, FS_CardinalityType
  <1>6. Cardinality(S) <= p.refs[n]
    BY <1>4 DEF GoodPage, Counted, CountedIn
  <1> HIDE DEF S
  <1>7. QED
    BY <1>1, <1>4, <1>5, <1>6

LEMMA SyncShapes ==
  ASSUME SyncInv
  PROVE  ShapesInForce
  <1> SUFFICES ASSUME NEW t \in Tabs, Quiet(t), page[t].root # None
               PROVE  LET k == conn[page[t].conn]
                      IN k.knows /\ k.wants = {n \in Nodes : page[t].refs[n] > 0} /\ Shown(page[t]) \subseteq k.wants
    BY DEF ShapesInForce
  <1> DEFINE p == page[t]
             k == conn[p.conn]
  <1>1. /\ p.conn # 0 /\ p.conn \in Connections /\ k \in ConnStates /\ k.step = "idle" /\ k.inbox = <<>>
        /\ GoodPage(p) /\ Link(p, k, left.switches) /\ p.root # None
    BY SyncFacts DEF Quiet, JoinedAt
  <1>2. k.wants \subseteq Nodes
    BY <1>1 DEF ConnStates
  <1> HIDE DEF p, k
  <1>3. (p.published <=> k.knows) /\ \A n \in Nodes : p.asked[n] = "yes" <=> n \in k.wants
    BY <1>1, LinkNow
  <1>4. p.published /\ \A n \in Nodes : p.asked[n] = "yes" <=> p.refs[n] > 0
    BY <1>1 DEF GoodPage, AsksWhatCounts
  <1>5. k.wants = {n \in Nodes : p.refs[n] > 0}
    BY <1>2, <1>3, <1>4
  <1>6. Shown(p) \subseteq {n \in Nodes : p.refs[n] > 0}
    BY <1>1, ShownIsCounted
  <1>7. QED
    BY <1>3, <1>4, <1>5, <1>6 DEF p, k

(* Once nothing is on the way, a stream has the shapes of exactly the nodes the page counts, and of    *)
(* every node it shows, whatever was mounted, unmounted, collected too early or forgotten on the way:  *)
(* shapeRegistry's counts, the messages that follow from them and the stream that takes them agree.   *)
THEOREM ShapesAreInForce ==
  ASSUME OneChange
  PROVE  PageViewSpec => []ShapesInForce
  <1>1. PageViewInit => SyncInv
    BY InitSync DEF PageViewInit
  <1>2. SyncInv /\ [PageViewNext]_pageViewVars => SyncInv'
    BY SyncKeeps DEF PageViewNext, pageViewVars
  <1>3. SyncInv => ShapesInForce
    BY SyncShapes
  <1>4. QED
    BY <1>1, <1>2, <1>3, PTL DEF PageViewSpec
=============================================================================
