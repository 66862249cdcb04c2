------------------------------- MODULE GraphView -------------------------------
(***************************************************************************)
(* How what a page has received of the graph comes onto the screen          *)
(* (src/dkt-react-sync: the store and the subscriptions of                  *)
(* ReactSyncReceiver, RootScope, One, Many and the hooks that read).        *)
(*                                                                         *)
(* A worker sends a dictionary that numbers its words, the root, and        *)
(* updates of attributes and relations by number or, for words it has no    *)
(* number for, by name.  Each component reads some word of the node of its  *)
(* scope, listens to that word alone, and is not rendered again unless it    *)
(* is told that the word changed.  React renders before the next message.   *)
(*                                                                         *)
(* Values are sequences: <<>> for null, one node or value, or many nodes     *)
(* (null and an empty relation show the same).  The worker, its stream and  *)
(* the order of its messages are external; so is React.  PageSync has the   *)
(* shapes and the messages on their way.                                    *)
(***************************************************************************)
EXTENDS Naturals, SequencesExt

CONSTANTS
  ViewRoots, ViewClips, ViewTexts,  \* the nodes
  Dictionaries, \* [id -> [word -> number]]
  Updates,      \* what the worker may send in one message: sequences of <<node, word, value>>
  MaxMessages   \* bound on updates, roots and dictionaries

NoRoot == "no root"
NoDict == "no dictionary"

ASSUME GraphViewAssumption ==
  /\ MaxMessages \in Nat /\ NoDict \notin DOMAIN Dictionaries /\ NoRoot \notin ViewRoots

VARIABLES
  stream,  \* the worker: the dictionary it numbers by, and the root and the values it has sent
  graph,   \* the receiver: root, dictionary, attributes and relations by node and key
  screen,  \* the root scope and, for each component that reads, what it was rendered with
  budget   \* messages that may still come

graphViewVars == <<stream, graph, screen, budget>>

-------------------------------------------------------------------------------
(* What is read of a root, of a clip and of a text: attributes, single nodes (One) and lists (Many). *)

AttrWords(n) == IF n \in ViewRoots THEN {} ELSE {"start"}
OneWords(n) == CASE n \in ViewRoots -> {"selected"} [] n \in ViewClips -> {"text"} [] n \in ViewTexts -> {}
ManyWords(n) == IF n \in ViewRoots THEN {"clips"} ELSE {}
Reads(n) == AttrWords(n) \cup OneWords(n) \cup ManyWords(n)
ViewNodes == ViewRoots \cup ViewClips \cup ViewTexts
Readable == UNION {{n} \X Reads(n) : n \in ViewNodes}

(* The stream: a dictionary has a number for a word, which is no word and no other word has, and *)
(* what is sent of a relation is nodes.                                                         *)
StreamWords == (UNION {Reads(n) : n \in ViewNodes}) \cup {c[2] : c \in UNION {ToSet(update) : update \in Updates}}

ASSUME StreamAssumption ==
  /\ \A d \in DOMAIN Dictionaries : \A v, w \in DOMAIN Dictionaries[d] :
       Dictionaries[d][v] \notin StreamWords /\ (Dictionaries[d][v] = Dictionaries[d][w] => v = w)
  /\ \A update \in Updates :
       /\ update \in Seq(ToSet(update))
       /\ \A c \in ToSet(update) : c[2] \in Reads(c[1]) \ AttrWords(c[1]) => c[3] \in Seq(ViewNodes)

(* The receiver. *)

EmptyGraph == [root |-> NoRoot, dict |-> NoDict, attrs |-> <<>>, rels |-> <<>>]

NumberIn(dict, word) ==
  IF dict # NoDict /\ word \in DOMAIN Dictionaries[dict] THEN Dictionaries[dict][word] ELSE word

(* resolveName: the word of a key, none for a number before its dictionary. *)
ResolveName(g, node, key) ==
  {word \in Reads(node) : key = word \/ (g.dict # NoDict /\ key = NumberIn(g.dict, word))}

Put(held, place, value) == [p \in DOMAIN held \cup {place} |-> IF p = place THEN value ELSE held[p]]
HeldAt(held, place) == IF place \in DOMAIN held THEN held[place] ELSE <<>>

(* readAttrFromNode, readRelFromNode: by number if there is one. *)
ReadFromNode(dict, held, node, word) ==
  IF <<node, NumberIn(dict, word)>> \in DOMAIN held THEN held[<<node, NumberIn(dict, word)>>]
  ELSE HeldAt(held, <<node, word>>)

ReadAttrs(g, node, word) == ReadFromNode(g.dict, g.attrs, node, word)
ReadRel(g, node, word) == ReadFromNode(g.dict, g.rels, node, word)

PushDirtyName(so, node, key) == so.dirty \cup ({node} \X ResolveName(so.graph, node, key))

(* applyAttrsFlat: what is held already is not stored again, and nobody is told. *)
ApplyAttrs(so, node, key, value) ==
  IF <<node, key>> \in DOMAIN so.graph.attrs /\ so.graph.attrs[<<node, key>>] = value THEN so
  ELSE [graph |-> [so.graph EXCEPT !.attrs = Put(@, <<node, key>>, value)],
        dirty |-> PushDirtyName(so, node, key)]

(* applyRel: a relation that is not held is as good as null. *)
ApplyRel(so, node, key, value) ==
  IF HeldAt(so.graph.rels, <<node, key>>) = value THEN so
  ELSE [graph |-> [so.graph EXCEPT !.rels = Put(@, <<node, key>>, value)],
        dirty |-> PushDirtyName(so, node, key)]

(* handleUpdate without its last lines: the chunks <<node, word, value>> in their order. *)
ApplyChunks(g, dict, chunks) ==
  LET Chunk(so, c) == IF c[2] \in AttrWords(c[1]) THEN ApplyAttrs(so, c[1], NumberIn(dict, c[2]), c[3])
                      ELSE ApplyRel(so, c[1], NumberIn(dict, c[2]), c[3])
  IN FoldLeft(Chunk, [graph |-> g, dirty |-> {}], chunks)

-------------------------------------------------------------------------------
(* The components: <<path, word>>, where path holds the scopes from the root scope to that of the  *)
(* component, each after the relation that leads to it.                                            *)

(* subscribeNodeAttrs; subscribeNodeRel and subscribeNodeList: what a reader on the screen listens to. *)
SubscribedAttrs == {reader \in DOMAIN screen.at : reader[2] \in AttrWords(Last(reader[1]))}
SubscribedRels == DOMAIN screen.at \ SubscribedAttrs
Subscribed == SubscribedAttrs \cup SubscribedRels

FlushDirtyNamed(subs, dirty) == {reader \in subs : <<Last(reader[1]), reader[2]>> \in dirty}
FlushAllNamed(subs) == subs

(* useAttrs, and what One and Many read: a component keeps what it has unless it has to look again, *)
(* and then has what is found there.                                                                *)
ReadAt(paths, kept, found) ==
  [reader \in UNION {{path} \X Reads(Last(path)) : path \in paths} |->
     IF reader \in DOMAIN kept THEN kept[reader] ELSE found[<<Last(reader[1]), reader[2]>>]]

(* ReadyGate: a clip's text is shown once the clip's start is there. *)
Ready(at, reader) == reader[2] = "text" => at[<<reader[1], "start">>] # <<>>

Under(at, reader) == {reader[1] \o <<reader[2], node>> : node \in ToSet(at[reader])}
BelowOne(at) == UNION {Under(at, r) : r \in {r \in DOMAIN at : r[2] \in OneWords(Last(r[1])) /\ Ready(at, r)}}
BelowMany(at) == UNION {Under(at, r) : r \in {r \in DOMAIN at : r[2] \in ManyWords(Last(r[1]))}}
Below(at) == BelowOne(at) \cup BelowMany(at)

(* RootScope *)
Rendered(root, kept, found) ==
  IF root = NoRoot THEN <<>>
  ELSE LET top == {<<root>>}
           clips == Below(ReadAt(top, kept, found))
           texts == Below(ReadAt(clips, kept, found))
       IN ReadAt(top \cup clips \cup texts, kept, found)

ReadWord(g, node, word) == IF word \in AttrWords(node) THEN ReadAttrs(g, node, word) ELSE ReadRel(g, node, word)

(* The listeners that were called look again, and components with a new scope look for the first time. *)
Render(g, called) ==
  /\ graph' = g
  /\ screen' = [root |-> g.root,
                at |-> Rendered(g.root, [r \in DOMAIN screen.at \ called |-> screen.at[r]],
                                [place \in Readable |-> ReadWord(g, place[1], place[2])])]

-------------------------------------------------------------------------------
(* The messages of a stream. *)

GraphViewInit ==
  /\ stream \in {[dict |-> d, root |-> NoRoot, sent |-> <<>>] : d \in DOMAIN Dictionaries}
  /\ graph = EmptyGraph /\ screen = [root |-> NoRoot, at |-> <<>>] /\ budget = MaxMessages

(* setDict: all listeners are called. *)
SetDict ==
  /\ budget > 0 /\ graph.dict = NoDict
  /\ Render([graph EXCEPT !.dict = stream.dict], FlushAllNamed(Subscribed))
  /\ budget' = budget - 1 /\ UNCHANGED stream

(* handleTreeRoot: only the listeners of the root are called, and what is held stays. *)
HandleTreeRoot(root) ==
  /\ budget > 0 /\ root # stream.root
  /\ stream' = [stream EXCEPT !.root = root]
  /\ Render([graph EXCEPT !.root = root], {})
  /\ budget' = budget - 1

SendChunks(sent, update) == FoldLeft(LAMBDA so, c : Put(so, <<c[1], c[2]>>, c[3]), sent, update)

HandleSyncUpdate(update) ==
  LET so == ApplyChunks(graph, stream.dict, update)
  IN /\ budget > 0
     /\ stream' = [stream EXCEPT !.sent = SendChunks(@, update)]
     /\ Render(so.graph, FlushDirtyNamed(SubscribedAttrs, so.dirty) \cup FlushDirtyNamed(SubscribedRels, so.dirty))
     /\ budget' = budget - 1

(* Mutant of ResetGraph: the nodes are kept. *)
ResetKeepingNodes ==
  /\ graph # EmptyGraph
  /\ stream' \in {[dict |-> d, root |-> NoRoot, sent |-> <<>>] : d \in DOMAIN Dictionaries}
  /\ Render([graph EXCEPT !.root = NoRoot, !.dict = NoDict], {})
  /\ UNCHANGED budget

(* resetGraph: the page starts over with a new stream, perhaps of another worker. *)
ResetGraph ==
  /\ graph # EmptyGraph
  /\ stream' \in {[dict |-> d, root |-> NoRoot, sent |-> <<>>] : d \in DOMAIN Dictionaries}
  /\ Render(EmptyGraph, {})
  /\ UNCHANGED budget

GraphViewNext ==
  \/ SetDict \/ ResetGraph
  \/ \E root \in ViewRoots : HandleTreeRoot(root)
  \/ \E update \in Updates : HandleSyncUpdate(update)

GraphViewSpec == GraphViewInit /\ [][GraphViewNext]_graphViewVars

-------------------------------------------------------------------------------
(* What the stream has sent of a word, once its number means something. *)
SentWord(node, word) ==
  LET numbered == word \in DOMAIN Dictionaries[stream.dict]
  IN IF <<node, word>> \in DOMAIN stream.sent /\ (numbered => graph.dict # NoDict)
       THEN stream.sent[<<node, word>>] ELSE <<>>

(***************************************************************************)
(* The screen is always that of a page rendered anew from what its stream   *)
(* has sent: no component misses a change of what it reads, none is left of *)
(* a node that is no longer reached, and nothing is left of an earlier      *)
(* stream, whatever the order of dictionary, root and updates, and however  *)
(* nodes come and go below a relation (flushDirtyNamed, setDict, resetGraph). *)
(***************************************************************************)
ScreenShowsTheStream ==
  screen = [root |-> stream.root,
            at |-> Rendered(stream.root, <<>>, [place \in Readable |-> SentWord(place[1], place[2])])]
=============================================================================
