--------------------------- MODULE FlowGraphProofs -----------------------------
(* Proofs about FlowGraph, for any nodes and any edits of flows that are not    *)
(* loaded, the clipboard included: the two ends of a link agree, and numbers    *)
(* are unique.                                                                  *)
EXTENDS FlowGraph, FiniteSetTheorems, SequenceTheorems, WellFoundedInduction, TLAPS

-------------------------------------------------------------------------------
(* The invariant.                                                              *)

NodeTexts == [kind : Kinds, id : Nat, in : Nat, out : Nat]
LinkTextSet == [id : Nat, start : Nat, end : Nat]
Texts == [nodes : SUBSET NodeTexts, links : SUBSET LinkTextSet]

Links == [link : Nat, node : Slots]
NodeRecs == [kind : Kinds, id : Nat, in : Nat, out : Nat,
             from : [link : Nat, node : Slots \cup {0}], to : SUBSET Links]

Flows == [order : Seq(Slots), node : [Slots -> NodeRecs], next : Nat \ {0},
          clip : Texts, cut : BOOLEAN, saving : BOOLEAN]

(* Both ends of a link know it, and links lead from pins to pins of nodes.     *)
Agree(N) ==
  /\ \A s, e \in Slots, id \in Nat :
       [link |-> id, node |-> e] \in N[s].to <=> N[e].from = [link |-> id, node |-> s]
  /\ \A e \in Slots : N[e].from.node = 0 => N[e].from.link = 0
  /\ \A s \in Slots : /\ IsFiniteSet(N[s].to)
                      /\ \A l \in N[s].to : /\ N[s].id # 0 /\ N[l.node].id # 0
                                            /\ N[s].out # 0 /\ N[l.node].in # 0

(* Numbers in use are below the next one, and none is used twice.              *)
Numbered(N, next) ==
  /\ \A n \in Slots : /\ N[n].id < next /\ N[n].in < next /\ N[n].out < next
                      /\ \A l \in N[n].to : 0 < l.link /\ l.link < next
  /\ \A m, n \in Slots :
       /\ N[m].id = N[n].id => N[m].id = 0 \/ m = n
       /\ N[m].in = N[n].in => N[m].in = 0 \/ m = n
       /\ N[m].out = N[n].out => N[m].out = 0 \/ m = n
       /\ N[m].in = N[n].out => N[m].in = 0
       /\ \A k \in N[m].to, l \in N[n].to : k.link = l.link => m = n /\ k = l

(* The list of nodes holds each once, and those that have a number.            *)
Listed(f) ==
  /\ \A i, j \in DOMAIN f.order : f.order[i] = f.order[j] => i = j
  /\ \A n \in Slots : f.node[n].id = 0 <=> n \notin Live(f)

Whole(f) == f \in Flows /\ Agree(f.node) /\ Numbered(f.node, f.next)

Sound(f) == Whole(f) /\ Listed(f)

(* The texts that the clipboard and the flow have of links. *)
LinksOf(f) == UNION {LinkTexts(f, n) : n \in Slots}
AllTexts(f) == f.clip.links \cup LinksOf(f)

(* Every text of a link and of a copied node is known by its own number. *)
Known(f) ==
  /\ \A t, u \in AllTexts(f) : t.id = u.id => t = u
  /\ \A t \in AllTexts(f) : t.id # 0 /\ t.id < f.next
  /\ \A t, u \in f.clip.nodes : t.id = u.id => t = u
  /\ \A t \in f.clip.nodes : t.id # 0 /\ t.id < f.next

Vacant(N, x) == \A n \in Slots : x # 0 => x # N[n].in /\ x # N[n].out

(* The numbers of entries have been given once, and nothing has them.          *)
Unused(f, T) ==
  /\ \A t \in T : /\ t.id # 0 /\ t.id < f.next /\ t.in < f.next /\ t.out < f.next
                  /\ \A n \in Slots : t.id # f.node[n].id
                  /\ Vacant(f.node, t.in) /\ Vacant(f.node, t.out)
                  /\ t.in = t.out => t.in = 0
  /\ \A t, u \in T : t # u => /\ t.id # u.id
                              /\ t.in = u.in => t.in = 0
                              /\ t.out = u.out => t.out = 0
                              /\ t.in = u.out => t.in = 0

(* Nodes that were cut come back with their numbers, others get new ones.      *)
Copied(f) == Known(f) /\ (f.cut => Unused(f, f.clip.nodes))

IInv == /\ Sound(flow) /\ file \in Texts /\ session \in Sessions
        /\ "paste" \in session.ops => Copied(flow)

(* Sessions in which the program starts without a file and loads none, and in  *)
(* which the numbers do not start again under what is in the clipboard.        *)
EditingOnly == \A s \in Sessions : /\ s.file = NoText /\ "load" \notin s.ops
                                   /\ ~ ({"clear", "paste"} \subseteq s.ops)

-------------------------------------------------------------------------------
(* What changes of the nodes preserve.  N are the nodes before, M after.       *)

Nodes == [Slots -> NodeRecs]

(* All but the links is as before. *)
SameBody(N, M, n) == /\ M[n].kind = N[n].kind /\ M[n].id = N[n].id
                     /\ M[n].in = N[n].in /\ M[n].out = N[n].out

LEMMA SlotFacts ==
  ASSUME NEW s \in Slots
  PROVE  s \in Nat /\ s # 0
BY GraphAssumption

LEMMA NodeFacts ==
  ASSUME NEW N \in Nodes, NEW s \in Slots
  PROVE  /\ N[s] \in NodeRecs
         /\ N[s].kind \in Kinds /\ N[s].id \in Nat /\ N[s].in \in Nat /\ N[s].out \in Nat
         /\ N[s].from \in [link : Nat, node : Slots \cup {0}]
         /\ N[s].from.link \in Nat /\ N[s].from.node \in Slots \cup {0}
         /\ N[s].to \in SUBSET Links
         /\ \A l \in N[s].to : /\ l.link \in Nat /\ l.node \in Slots
                               /\ l = [link |-> l.link, node |-> l.node]
BY DEF Nodes, NodeRecs, Links

(* The node that the link of an input pin leads to has that link. *)
LEMMA FromTo ==
  ASSUME NEW N \in Nodes, Agree(N), NEW e \in Slots, N[e].from # NoLink
  PROVE  /\ N[e].from.node \in Slots
         /\ [link |-> N[e].from.link, node |-> e] \in N[N[e].from.node].to
<1> DEFINE from == N[e].from
           id == from.link
           s == from.node
<1>1. from \in [link : Nat, node : Slots \cup {0}]
  BY NodeFacts
<1>2. s = 0 => id = 0
  BY DEF Agree
<1>3. id \in Nat /\ s \in Slots => ([link |-> id, node |-> e] \in N[s].to
                                      <=> from = [link |-> id, node |-> s])
  BY DEF Agree
<1>4. from # NoLink
  OBVIOUS
<1> HIDE DEF from
<1>5. id \in Nat /\ s \in Slots \cup {0} /\ from = [link |-> id, node |-> s]
  BY <1>1
<1>6. s \in Slots
  BY <1>2, <1>4, <1>5 DEF NoLink
<1>7. [link |-> id, node |-> e] \in N[s].to
  BY <1>3, <1>5, <1>6
<1> QED BY <1>6, <1>7 DEF from

(* And the other way round. *)
LEMMA ToFrom ==
  ASSUME NEW N \in Nodes, Agree(N), NEW s \in Slots, NEW l \in N[s].to
  PROVE  /\ l.node \in Slots /\ l.link \in Nat
         /\ N[l.node].from = [link |-> l.link, node |-> s]
         /\ N[l.node].from # NoLink
<1>1. l.node \in Slots /\ l.link \in Nat /\ l = [link |-> l.link, node |-> l.node]
  BY NodeFacts
<1>2. N[l.node].from = [link |-> l.link, node |-> s]
  BY <1>1 DEF Agree
<1> QED BY <1>1, <1>2, SlotFacts DEF NoLink

(* A link is taken away at both ends. *)
LEMMA UnlinkKeeps ==
  ASSUME NEW N \in Nodes, NEW next \in Nat, Agree(N), Numbered(N, next),
         NEW s \in Slots, NEW e \in Slots, N[e].from.node = s,
         NEW M \in Nodes, \A n \in Slots : SameBody(N, M, n),
         M[s].to = {l \in N[s].to : l.node # e},
         \A n \in Slots : n # s => M[n].to = N[n].to,
         M[e].from = NoLink,
         \A n \in Slots : n # e => M[n].from = N[n].from
  PROVE  Agree(M) /\ Numbered(M, next)
<1>1. \A n \in Slots : M[n].to \subseteq N[n].to
  OBVIOUS
<1>2. ASSUME NEW a \in Slots, NEW b \in Slots, NEW id \in Nat
      PROVE  [link |-> id, node |-> b] \in M[a].to
               <=> M[b].from = [link |-> id, node |-> a]
  <2> DEFINE l == [link |-> id, node |-> b]
  <2>0. l.node = b /\ (l \in N[a].to <=> N[b].from = [link |-> id, node |-> a])
    BY DEF Agree
  <2>1. CASE b = e
    <3>1. M[b].from # [link |-> id, node |-> a]
      BY <2>1, SlotFacts DEF NoLink
    <3>2. l \notin M[a].to
      <4>1. CASE a = s
        BY <2>0, <2>1, <4>1
      <4>2. CASE a # s
        <5>1. N[e].from # [link |-> id, node |-> a]
          BY <4>2
        <5> QED BY <1>1, <2>0, <2>1, <5>1
      <4> QED BY <4>1, <4>2
    <3> QED BY <3>1, <3>2
  <2>2. CASE b # e
    <3>1. l \in M[a].to <=> l \in N[a].to
      BY <2>0, <2>2
    <3> QED BY <2>0, <2>2, <3>1
  <2> QED BY <2>1, <2>2
<1>3. ASSUME NEW n \in Slots
      PROVE  M[n].from.node = 0 => M[n].from.link = 0
  BY DEF Agree, NoLink
<1>4. ASSUME NEW n \in Slots
      PROVE  /\ IsFiniteSet(M[n].to)
             /\ \A l \in M[n].to : /\ M[n].id # 0 /\ M[l.node].id # 0
                                   /\ M[n].out # 0 /\ M[l.node].in # 0
  <2>1. IsFiniteSet(N[n].to)
    BY DEF Agree
  <2>2. IsFiniteSet(M[n].to)
    BY <1>1, <2>1, FS_Subset
  <2>3. \A l \in M[n].to : l \in N[n].to /\ l.node \in Slots
    BY <1>1, NodeFacts
  <2> QED BY <2>2, <2>3 DEF Agree, SameBody
<1>5. Agree(M)
  BY <1>2, <1>3, <1>4 DEF Agree
<1>6. Numbered(M, next)
  BY <1>1 DEF Numbered, SameBody
<1> QED BY <1>5, <1>6

(* A link is made with a free number, from a pin to a pin that has none. *)
LEMMA LinkKeeps ==
  ASSUME NEW N \in Nodes, NEW next \in Nat, Agree(N), Numbered(N, next),
         NEW s \in Slots, NEW e \in Slots, N[e].from = NoLink,
         N[s].id # 0, N[e].id # 0, N[s].out # 0, N[e].in # 0,
         NEW new \in Nat \ {0}, \A n \in Slots : \A l \in N[n].to : l.link # new,
         NEW after \in Nat, next <= after, new < after,
         NEW M \in Nodes, \A n \in Slots : SameBody(N, M, n),
         M[s].to = N[s].to \cup {[link |-> new, node |-> e]},
         \A n \in Slots : n # s => M[n].to = N[n].to,
         M[e].from = [link |-> new, node |-> s],
         \A n \in Slots : n # e => M[n].from = N[n].from
  PROVE  Agree(M) /\ Numbered(M, after)
<1> DEFINE it == [link |-> new, node |-> e]
<1>0. it.link = new /\ it.node = e
  OBVIOUS
<1>1. ASSUME NEW n \in Slots, NEW l \in N[n].to PROVE l.link # new /\ l.node # e
  BY ToFrom
<1>2. ASSUME NEW a \in Slots, NEW b \in Slots, NEW id \in Nat
      PROVE  [link |-> id, node |-> b] \in M[a].to
               <=> M[b].from = [link |-> id, node |-> a]
  <2> DEFINE l == [link |-> id, node |-> b]
  <2>0. /\ l.node = b /\ l.link = id
        /\ l \in N[a].to <=> N[b].from = [link |-> id, node |-> a]
    BY DEF Agree
  <2>1. CASE b = e
    <3>1. l \notin N[a].to
      BY <1>1, <2>0, <2>1
    <3>2. l \in M[a].to <=> a = s /\ l = it
      BY <3>1
    <3>3. l = it <=> id = new
      BY <2>1
    <3> QED BY <2>1, <3>2, <3>3
  <2>2. CASE b # e
    <3>1. l # it
      BY <1>0, <2>0, <2>2
    <3>2. l \in M[a].to <=> l \in N[a].to
      BY <3>1
    <3> QED BY <2>0, <2>2, <3>2
  <2> QED BY <2>1, <2>2
<1>3. ASSUME NEW n \in Slots
      PROVE  M[n].from.node = 0 => M[n].from.link = 0
  <2>1. CASE n = e
    BY <2>1, SlotFacts
  <2>2. CASE n # e
    BY <2>2 DEF Agree
  <2> QED BY <2>1, <2>2
<1>4. ASSUME NEW n \in Slots
      PROVE  /\ IsFiniteSet(M[n].to)
             /\ \A l \in M[n].to : /\ M[n].id # 0 /\ M[l.node].id # 0
                                   /\ M[n].out # 0 /\ M[l.node].in # 0
  <2>1. IsFiniteSet(N[n].to)
    BY DEF Agree
  <2>2. IsFiniteSet(M[n].to)
    <3>1. M[n].to = N[n].to \/ M[n].to = N[n].to \cup {it}
      OBVIOUS
    <3> HIDE DEF it
    <3> QED BY <2>1, <3>1, FS_AddElement
  <2>3. ASSUME NEW l \in M[n].to 
        PROVE  M[n].id # 0 /\ M[l.node].id # 0 /\ M[n].out # 0 /\ M[l.node].in # 0
    <3>1. CASE l \in N[n].to
      <4>1. l.node \in Slots
        BY <3>1, NodeFacts
      <4> QED BY <3>1, <4>1 DEF Agree, SameBody
    <3>2. CASE n = s /\ l = it
      BY <1>0, <3>2 DEF SameBody
    <3> QED BY <3>1, <3>2
  <2> QED BY <2>2, <2>3
<1>5. Agree(M)
  BY <1>2, <1>3, <1>4 DEF Agree
<1>6. ASSUME NEW n \in Slots
      PROVE  /\ M[n].id < after /\ M[n].in < after /\ M[n].out < after
             /\ \A l \in M[n].to : 0 < l.link /\ l.link < after
  <2>1. /\ M[n].id \in Nat /\ M[n].in \in Nat /\ M[n].out \in Nat
        /\ \A l \in M[n].to : l.link \in Nat
    BY NodeFacts
  <2>2. M[n].id < next /\ M[n].in < next /\ M[n].out < next
    BY DEF Numbered, SameBody
  <2>3. \A l \in M[n].to : l \in N[n].to \/ l.link = new
    BY <1>0
  <2>4. \A l \in N[n].to : 0 < l.link /\ l.link < next
    BY DEF Numbered
  <2> QED BY <2>1, <2>2, <2>3, <2>4
<1>7. ASSUME NEW m \in Slots, NEW n \in Slots, NEW k \in M[m].to, NEW l \in M[n].to,
             k.link = l.link
      PROVE  m = n /\ k = l
  <2>1. k \in N[m].to \/ (m = s /\ k = it)
    OBVIOUS
  <2>2. l \in N[n].to \/ (n = s /\ l = it)
    OBVIOUS
  <2>3. CASE k \in N[m].to /\ l \in N[n].to
    BY <1>7, <2>3 DEF Numbered
  <2>4. CASE k = it \/ l = it
    BY <1>0, <1>1, <1>7, <2>1, <2>2, <2>4
  <2> QED BY <2>1, <2>2, <2>3, <2>4
<1>8. Numbered(M, after)
  BY <1>6, <1>7 DEF Numbered, SameBody
<1> QED BY <1>5, <1>8

-------------------------------------------------------------------------------
(* What the operations do to the flow.                                         *)

LEMMA FlowFacts ==
  ASSUME NEW f \in Flows
  PROVE  /\ f.order \in Seq(Slots) /\ f.node \in Nodes /\ f.next \in Nat \ {0}
         /\ f.clip \in Texts /\ f.clip.nodes \in SUBSET NodeTexts
         /\ f.clip.links \in SUBSET LinkTextSet
         /\ f.cut \in BOOLEAN /\ f.saving \in BOOLEAN
         /\ Live(f) \subseteq Slots
<1>1. /\ f.order \in Seq(Slots) /\ f.node \in Nodes /\ f.next \in Nat \ {0}
      /\ f.clip \in Texts /\ f.cut \in BOOLEAN /\ f.saving \in BOOLEAN
  BY DEF Flows, Nodes
<1>2. f.clip.nodes \in SUBSET NodeTexts /\ f.clip.links \in SUBSET LinkTextSet
  BY <1>1 DEF Texts
<1>3. Live(f) \subseteq Slots
  BY <1>1 DEF Live
<1> QED BY <1>1, <1>2, <1>3

(* The flags and the clipboard are as before, but for what ApplyChanges saves. *)
SameClip(f, g) == /\ g.cut = f.cut /\ g.saving = f.saving
                  /\ g.clip.nodes = f.clip.nodes
                  /\ ~f.saving => g.clip = f.clip

(* And so are the list of nodes and the next number. *)
SameRest(f, g) == SameClip(f, g) /\ g.order = f.order /\ g.next = f.next

LEMMA TextFacts ==
  ASSUME NEW f \in Flows, NEW n \in Slots
  PROVE  NodeText(f, n) \in NodeTexts /\ LinkTexts(f, n) \in SUBSET LinkTextSet
<1> DEFINE N == f.node
<1>1. N \in Nodes
  BY FlowFacts
<1> HIDE DEF N
<1>2. /\ N[n].kind \in Kinds /\ N[n].id \in Nat /\ N[n].in \in Nat /\ N[n].out \in Nat
      /\ \A l \in N[n].to : l.link \in Nat /\ l.node \in Slots
  BY <1>1, NodeFacts
<1>3. \A l \in N[n].to : N[l.node].in \in Nat
  BY <1>1, <1>2, NodeFacts
<1>4. NodeText(f, n) \in NodeTexts
  BY <1>2 DEF NodeText, NodeTexts, N
<1>5. LinkTexts(f, n) \in SUBSET LinkTextSet
  BY <1>2, <1>3 DEF LinkTexts, LinkTextSet, N
<1> QED BY <1>4, <1>5

LEMMA LinkTextFacts ==
  ASSUME NEW f, NEW n \in Slots, NEW l \in f.node[n].to
  PROVE  [id |-> l.link, start |-> f.node[n].out, end |-> f.node[l.node].in] \in LinksOf(f)
<1>1. [id |-> l.link, start |-> f.node[n].out, end |-> f.node[l.node].in] \in LinkTexts(f, n)
  BY DEF LinkTexts
<1> QED BY <1>1 DEF LinksOf

(* What the flow says of its links, when some are gone and the pins of the     *)
(* others have kept their numbers.                                             *)
LEMMA LinksFewer ==
  ASSUME NEW f \in Flows, NEW g \in Flows,
         \A n \in Slots : g.node[n].to \subseteq f.node[n].to,
         \A n \in Slots : \A l \in g.node[n].to : /\ g.node[n].out = f.node[n].out
                                                 /\ g.node[l.node].in = f.node[l.node].in
  PROVE  LinksOf(g) \subseteq LinksOf(f)
<1>1. SUFFICES ASSUME NEW n \in Slots, NEW t \in LinkTexts(g, n) PROVE t \in LinkTexts(f, n)
  BY DEF LinksOf
<1>2. PICK l \in g.node[n].to :
        t = [id |-> l.link, start |-> g.node[n].out, end |-> g.node[l.node].in]
  BY DEF LinkTexts
<1>3. /\ l \in f.node[n].to
      /\ t = [id |-> l.link, start |-> f.node[n].out, end |-> f.node[l.node].in]
  BY <1>2
<1> QED BY <1>3 DEF LinkTexts

LEMMA ChangedKeeps ==
  ASSUME NEW f \in Flows
  PROVE  /\ Changed(f) \in Flows /\ SameRest(f, Changed(f))
         /\ Changed(f).node = f.node
         /\ AllTexts(Changed(f)) \subseteq AllTexts(f)
         /\ ~f.saving => Changed(f) = f
<1> DEFINE all == UNION {LinkTexts(f, n) : n \in Live(f)}
           links == Put(f.clip.links, all)
           clip == [f.clip EXCEPT !.links = links]
<1>1. all \in SUBSET LinkTextSet
  BY FlowFacts, TextFacts
<1>2. links \in SUBSET LinkTextSet
  <2> HIDE DEF all
  <2> QED BY <1>1, FlowFacts DEF Put
<1>3. Changed(f) = IF f.saving THEN [f EXCEPT !.clip = clip] ELSE f
  BY DEF Changed
<1> HIDE DEF links
<1>4. clip \in Texts /\ clip.nodes = f.clip.nodes
  <2>1. f.clip \in Texts
    BY FlowFacts
  <2> QED BY <1>2, <2>1 DEF Texts
<1> HIDE DEF clip
<1>5. [f EXCEPT !.clip = clip] \in Flows
  BY <1>4 DEF Flows
<1>6. /\ f.saving => SameRest(f, [f EXCEPT !.clip = clip])
      /\ [f EXCEPT !.clip = clip].node = f.node
  BY <1>4 DEF SameRest, SameClip, Flows
<1>7. AllTexts([f EXCEPT !.clip = clip]) \subseteq AllTexts(f)
  <2> DEFINE g == [f EXCEPT !.clip = clip]
  <2>1. g.clip.links = links
    BY <1>4, FlowFacts DEF clip, Flows, Texts
  <2>2. g.node = f.node
    BY <1>6
  <2> HIDE DEF g
  <2>3. LinksOf(g) = LinksOf(f)
    BY <2>2 DEF LinksOf, LinkTexts
  <2>4. all \subseteq LinksOf(f)
    BY FlowFacts DEF LinksOf
  <2> HIDE DEF all
  <2>5. links \subseteq f.clip.links \cup all
    BY DEF links, Put
  <2>6. AllTexts(g) \subseteq AllTexts(f)
    BY <2>1, <2>3, <2>4, <2>5 DEF AllTexts
  <2> QED BY <2>6 DEF g
<1> QED BY <1>3, <1>5, <1>6, <1>7 DEF SameRest, SameClip

LEMMA ChangedWhole ==
  ASSUME NEW f, Whole(f)
  PROVE  Whole(Changed(f))
BY ChangedKeeps DEF Whole, SameRest, SameClip

(* A node is set. *)
LEMMA NodeSet ==
  ASSUME NEW f \in Flows, NEW n \in Slots, NEW r \in NodeRecs
  PROVE  /\ [f EXCEPT !.node[n] = r] \in Flows
         /\ SameRest(f, [f EXCEPT !.node[n] = r])
         /\ [f EXCEPT !.node[n] = r].clip = f.clip
         /\ [f EXCEPT !.node[n] = r].node = [f.node EXCEPT ![n] = r]
<1> DEFINE N == [f.node EXCEPT ![n] = r]
<1>1. [f EXCEPT !.node[n] = r] = [f EXCEPT !.node = N]
  OBVIOUS
<1>2. N \in [Slots -> NodeRecs]
  BY FlowFacts DEF Nodes
<1> HIDE DEF N
<1>3. [f EXCEPT !.node = N] \in Flows /\ [f EXCEPT !.node = N].node = N
  BY <1>2 DEF Flows
<1>4. SameRest(f, [f EXCEPT !.node = N]) /\ [f EXCEPT !.node = N].clip = f.clip
  BY DEF SameRest, SameClip, Flows
<1> QED BY <1>1, <1>3, <1>4 DEF N

NotTo(links, e) == {l \in links : l.node # e}

(* g is f, but for the links from s to e. *)
Trimmed(f, g, s, e) ==
  /\ g \in Flows /\ SameRest(f, g) /\ g.clip = f.clip
  /\ \A n \in Slots : /\ SameBody(f.node, g.node, n)
                      /\ g.node[n].from = f.node[n].from
                      /\ n # s => g.node[n].to = f.node[n].to
  /\ g.node[s].to = NotTo(f.node[s].to, e)

LEMMA WithoutKeeps ==
  ASSUME NEW f \in Flows, NEW s \in Slots, NEW e \in Slots
  PROVE  /\ Without(f, s, e) \in Flows /\ SameRest(f, Without(f, s, e))
         /\ Without(f, s, e).clip = f.clip
         /\ \A n \in Slots : /\ SameBody(f.node, Without(f, s, e).node, n)
                             /\ Without(f, s, e).node[n].from = f.node[n].from
                             /\ n # s => Without(f, s, e).node[n].to = f.node[n].to
         /\ Without(f, s, e).node[s].to = NotTo(f.node[s].to, e)
<1> DEFINE new == NotTo(f.node[s].to, e)
           r == [f.node[s] EXCEPT !.to = new]
<1>1. f.node \in Nodes /\ f.node[s] \in NodeRecs /\ f.node[s].to \in SUBSET Links
  BY FlowFacts, NodeFacts
<1>2. new \in SUBSET Links
  BY <1>1 DEF NotTo
<1>3. Without(f, s, e) = [f EXCEPT !.node[s] = r]
  BY DEF Without, NotTo
<1> HIDE DEF new
<1>4. /\ r \in NodeRecs /\ r.kind = f.node[s].kind /\ r.id = f.node[s].id
      /\ r.in = f.node[s].in /\ r.out = f.node[s].out
      /\ r.from = f.node[s].from /\ r.to = new
  BY <1>1, <1>2 DEF NodeRecs
<1> HIDE DEF r
<1>5. /\ Without(f, s, e) \in Flows /\ SameRest(f, Without(f, s, e))
      /\ Without(f, s, e).clip = f.clip
      /\ Without(f, s, e).node = [f.node EXCEPT ![s] = r]
  BY <1>3, <1>4, NodeSet
<1>6. \A n \in Slots : Without(f, s, e).node[n] = IF n = s THEN r ELSE f.node[n]
  BY <1>1, <1>5 DEF Nodes
<1> QED BY <1>4, <1>5, <1>6 DEF SameBody, new

LEMMA WithoutTrims ==
  ASSUME NEW f \in Flows, NEW s \in Slots, NEW e \in Slots, NEW g, g = Without(f, s, e)
  PROVE  Trimmed(f, g, s, e)
<1>1. Trimmed(f, Without(f, s, e), s, e)
  BY WithoutKeeps DEF Trimmed
<1> QED BY <1>1, Zenon

(* Links may be gone, nothing else has changed but the links of the clipboard. *)
Fewer(f, g) ==
  /\ Whole(g) /\ SameRest(f, g) /\ AllTexts(g) \subseteq AllTexts(f)
  /\ \A n \in Slots : /\ SameBody(f.node, g.node, n)
                      /\ g.node[n].to \subseteq f.node[n].to
                      /\ g.node[n].from \in {f.node[n].from, NoLink}

LEMMA FewerTwice ==
  ASSUME NEW f, NEW g, NEW h, Fewer(f, g), Fewer(g, h)
  PROVE  Fewer(f, h)
BY DEF Fewer, SameRest, SameClip, SameBody

LEMMA FewerSelf ==
  ASSUME NEW f, Whole(f)
  PROVE  Fewer(f, f)
BY DEF Fewer, SameRest, SameClip, SameBody

(* Old numbers, none, or new ones are free. *)
Renumbered(a, b, next) == /\ b.id \in {0, a.id} \/ next <= b.id
                          /\ b.in \in {0, a.in} \/ next <= b.in
                          /\ b.out \in {0, a.out} \/ next <= b.out

(* No number is used anew that was not free, and no link is new to the texts. *)
Tame(f, g) == /\ SameClip(f, g) /\ f.next <= g.next
              /\ AllTexts(g) \subseteq AllTexts(f)
              /\ \A n \in Slots : Renumbered(f.node[n], g.node[n], f.next)

LEMMA TameTwice ==
  ASSUME NEW f \in Flows, NEW g \in Flows, NEW h \in Flows, Tame(f, g), Tame(g, h)
  PROVE  Tame(f, h)
<1>1. f.next \in Nat /\ g.next \in Nat /\ h.next \in Nat /\ f.next <= g.next
  BY FlowFacts DEF Tame
<1>2. ASSUME NEW n \in Slots PROVE Renumbered(f.node[n], h.node[n], f.next)
  <2>1. /\ h.node[n].id \in Nat /\ h.node[n].in \in Nat /\ h.node[n].out \in Nat
    BY FlowFacts, NodeFacts
  <2>2. /\ Renumbered(f.node[n], g.node[n], f.next)
        /\ Renumbered(g.node[n], h.node[n], g.next)
    BY DEF Tame
  <2> QED BY <1>1, <2>1, <2>2 DEF Renumbered
<1>3. SameClip(f, h)
  BY DEF Tame, SameClip
<1>4. f.next <= h.next /\ AllTexts(h) \subseteq AllTexts(f)
  BY <1>1 DEF Tame
<1> QED BY <1>2, <1>3, <1>4 DEF Tame

LEMMA TameFewer ==
  ASSUME NEW f \in Flows, NEW g, Fewer(f, g)
  PROVE  Tame(f, g)
<1>1. f.next \in Nat
  BY FlowFacts
<1> QED BY <1>1 DEF Tame, Fewer, SameRest, SameBody, Renumbered

LEMMA TameChanged ==
  ASSUME NEW f \in Flows
  PROVE  Tame(f, Changed(f))
<1>1. f.next \in Nat
  BY FlowFacts
<1> QED BY <1>1, ChangedKeeps DEF Tame, SameRest, Renumbered

(* A node gets other pins where it has no links. *)
LEMMA TextsNode ==
  ASSUME NEW f, Whole(f), NEW g \in Flows, NEW n \in Slots,
         \A m \in Slots : m # n => g.node[m] = f.node[m],
         g.node[n].to = f.node[n].to, g.node[n].from = f.node[n].from,
         g.node[n].out = f.node[n].out \/ f.node[n].to = {},
         g.node[n].in = f.node[n].in \/ f.node[n].from = NoLink,
         g.clip = f.clip
  PROVE  AllTexts(g) \subseteq AllTexts(f)
<1>1. /\ f \in Flows /\ f.node \in Nodes /\ Agree(f.node)
  BY FlowFacts DEF Whole
<1>2. \A m \in Slots : g.node[m].to = f.node[m].to
  OBVIOUS
<1>3. ASSUME NEW m \in Slots, NEW l \in g.node[m].to
      PROVE  /\ g.node[m].out = f.node[m].out /\ g.node[l.node].in = f.node[l.node].in
  <2>1. l \in f.node[m].to
    BY <1>2
  <2>2. l.node \in Slots /\ f.node[l.node].from # NoLink
    BY <1>1, <2>1, ToFrom
  <2> QED BY <2>1, <2>2
<1>4. LinksOf(g) \subseteq LinksOf(f)
  BY <1>1, <1>2, <1>3, LinksFewer
<1> QED BY <1>4 DEF AllTexts

LEMMA TameNode ==
  ASSUME NEW f, Whole(f), NEW g \in Flows, NEW n \in Slots,
         \A m \in Slots : m # n => g.node[m] = f.node[m],
         g.node[n].to = f.node[n].to, g.node[n].from = f.node[n].from,
         g.node[n].out = f.node[n].out \/ f.node[n].to = {},
         g.node[n].in = f.node[n].in \/ f.node[n].from = NoLink,
         Renumbered(f.node[n], g.node[n], f.next),
         SameClip(f, g), g.clip = f.clip, f.next <= g.next
  PROVE  Tame(f, g)
<1>1. AllTexts(g) \subseteq AllTexts(f)
  BY TextsNode
<1>2. ASSUME NEW m \in Slots PROVE Renumbered(f.node[m], g.node[m], f.next)
  BY DEF Renumbered
<1> QED BY <1>1, <1>2 DEF Tame

(* deleteLink takes the link away at both ends, and no other. *)
LEMMA DeleteLinkKeeps ==
  ASSUME NEW f, Whole(f), NEW s \in Slots, NEW e \in Slots
  PROVE  /\ Fewer(f, DeleteLink(f, s, e))
         /\ DeleteLink(f, s, e).node[s].to = {l \in f.node[s].to : l.node # e}
         /\ f.node[e].from.node = s => DeleteLink(f, s, e).node[e].from = NoLink
         /\ \A n \in Slots : n # s => DeleteLink(f, s, e).node[n].to = f.node[n].to
         /\ \A n \in Slots : n # e => DeleteLink(f, s, e).node[n].from = f.node[n].from
<1>0. f \in Flows /\ f.node \in Nodes /\ Agree(f.node)
  BY FlowFacts DEF Whole
<1>1. CASE ~Linked(f, s, e)
  <2>1. DeleteLink(f, s, e) = f
    BY <1>1 DEF DeleteLink
  <2>2. f.node[s].to = {l \in f.node[s].to : l.node # e}
    BY <1>1 DEF Linked
  <2>3. f.node[e].from.node = s => f.node[e].from = NoLink
    <3>1. SUFFICES ASSUME f.node[e].from.node = s, f.node[e].from # NoLink PROVE FALSE
      OBVIOUS
    <3>2. [link |-> f.node[e].from.link, node |-> e] \in f.node[s].to
      BY <1>0, <3>1, FromTo
    <3> QED BY <1>1, <3>2 DEF Linked
  <2> QED BY <2>1, <2>2, <2>3, FewerSelf
<1>2. CASE Linked(f, s, e)
  <2> DEFINE g == Without(f, s, e)
             h == [g EXCEPT !.node[e].from = NoLink]
             i == Without(h, s, e)
             N == f.node
             M == i.node
  <2>1. N[e].from.node = s
    <3>1. PICK l \in N[s].to : l.node = e
      BY <1>2 DEF Linked
    <3>2. N[l.node].from = [link |-> l.link, node |-> s]
      BY <1>0, <3>1, ToFrom
    <3> QED BY <3>1, <3>2
  <2>2. /\ g \in Flows /\ SameRest(f, g) /\ g.clip = f.clip
        /\ \A n \in Slots : /\ SameBody(N, g.node, n) /\ g.node[n].from = N[n].from
                            /\ n # s => g.node[n].to = N[n].to
        /\ g.node[s].to = {l \in N[s].to : l.node # e}
    <3> HIDE DEF g
    <3>1. g = Without(f, s, e)
      BY DEF g
    <3>2. Trimmed(f, g, s, e)
      BY <1>0, <3>1, WithoutTrims, Zenon
    <3> QED BY <3>2 DEF Trimmed, NotTo
  <2>3. Disconnected(g, e) = i
    BY <2>1, <2>2, SlotFacts DEF Disconnected
  <2> HIDE DEF g
  <2>4. /\ h \in Flows /\ SameRest(g, h) /\ h.clip = g.clip
        /\ \A n \in Slots : /\ SameBody(g.node, h.node, n) /\ h.node[n].to = g.node[n].to
                            /\ n # e => h.node[n].from = g.node[n].from
        /\ h.node[e].from = NoLink
    <3> DEFINE r == [g.node[e] EXCEPT !.from = NoLink]
    <3>1. g.node \in Nodes /\ g.node[e] \in NodeRecs
      BY <2>2, FlowFacts, NodeFacts
    <3>2. /\ r \in NodeRecs /\ r.kind = g.node[e].kind /\ r.id = g.node[e].id
          /\ r.in = g.node[e].in /\ r.out = g.node[e].out
          /\ r.to = g.node[e].to /\ r.from = NoLink
      BY <3>1 DEF NodeRecs, NoLink
    <3>3. h = [g EXCEPT !.node[e] = r]
      OBVIOUS
    <3> HIDE DEF r, h
    <3>4. /\ h \in Flows /\ SameRest(g, h) /\ h.clip = g.clip
          /\ h.node = [g.node EXCEPT ![e] = r]
      BY <2>2, <3>2, <3>3, NodeSet
    <3>5. \A n \in Slots : h.node[n] = IF n = e THEN r ELSE g.node[n]
      BY <3>1, <3>4 DEF Nodes
    <3> QED BY <3>2, <3>4, <3>5 DEF SameBody
  <2> HIDE DEF h
  <2>5. /\ i \in Flows /\ SameRest(h, i) /\ i.clip = h.clip
        /\ \A n \in Slots : /\ SameBody(h.node, M, n) /\ M[n].from = h.node[n].from
                            /\ n # s => M[n].to = h.node[n].to
        /\ M[s].to = {l \in h.node[s].to : l.node # e}
    <3> HIDE DEF i
    <3>1. i = Without(h, s, e)
      BY DEF i
    <3>2. Trimmed(h, i, s, e)
      BY <2>4, <3>1, WithoutTrims, Zenon
    <3> QED BY <3>2 DEF Trimmed, NotTo
  <2> HIDE DEF i
  <2>6. /\ \A n \in Slots : /\ SameBody(N, M, n)
                            /\ n # e => M[n].from = N[n].from
                            /\ n # s => M[n].to = N[n].to
        /\ M[e].from = NoLink
        /\ M[s].to = {l \in N[s].to : l.node # e}
    BY <2>2, <2>4, <2>5 DEF SameBody
  <2>7. SameRest(f, i) /\ M \in Nodes
    BY <2>2, <2>4, <2>5, FlowFacts DEF SameRest, SameClip
  <2>8. f.next \in Nat /\ Numbered(N, f.next)
    BY <1>0, FlowFacts DEF Whole
  <2>9. Agree(M) /\ Numbered(M, f.next)
    <3> HIDE DEF M, N
    <3>1. N \in Nodes /\ Agree(N)
      BY <1>0 DEF N
    <3> QED BY <2>1, <2>6, <2>7, <2>8, <3>1, UnlinkKeeps
  <2>10. Whole(i)
    BY <2>5, <2>7, <2>9 DEF Whole, SameRest, SameClip
  <2>11. DeleteLink(f, s, e) = Changed(i)
    BY <1>2, <2>3 DEF DeleteLink, g
  <2>12. Fewer(f, i)
    <3>1. LinksOf(i) \subseteq LinksOf(f)
      <4>1. \A n \in Slots : \A l \in M[n].to : l.node \in Slots
        BY <2>7, NodeFacts
      <4>2. \A n \in Slots : i.node[n].to \subseteq f.node[n].to
        BY <2>6
      <4>3. \A n \in Slots : i.node[n].out = f.node[n].out /\ i.node[n].in = f.node[n].in
        BY <2>6 DEF SameBody
      <4> QED BY <1>0, <2>5, <4>1, <4>2, <4>3, LinksFewer
    <3>2. AllTexts(i) \subseteq AllTexts(f)
      BY <2>2, <2>4, <2>5, <3>1 DEF AllTexts
    <3> QED BY <2>6, <2>7, <2>10, <3>2 DEF Fewer
  <2>13. /\ Whole(Changed(i)) /\ SameRest(i, Changed(i)) /\ Changed(i).node = M
         /\ AllTexts(Changed(i)) \subseteq AllTexts(i)
    BY <2>5, <2>10, ChangedKeeps, ChangedWhole
  <2>14. Fewer(f, Changed(i))
    BY <2>12, <2>13 DEF Fewer, SameRest, SameClip
  <2> QED BY <2>6, <2>11, <2>13, <2>14
<1> QED BY <1>1, <1>2

-------------------------------------------------------------------------------
(* Recursion: a counterexample would be a least one (WFMin).                   *)

LEMMA Induction ==
  ASSUME NEW S, 0 \in S, \A k \in Nat : k \in S => k + 1 \in S
  PROVE  Nat \subseteq S
<1> DEFINE T == Nat \ S
           R == OpToRel(<, Nat)
<1>1. SUFFICES ASSUME T # {} PROVE FALSE
  OBVIOUS
<1>2. IsWellFoundedOn(R, Nat) /\ T \subseteq Nat
  BY NatLessThanWellFounded
<1>3. PICK x \in T : \A y \in T : ~ (<<y, x>> \in R)
  <2> HIDE DEF T, R
  <2> QED BY <1>1, <1>2, WFMin
<1>4. x \in Nat /\ x # 0
  OBVIOUS
<1>5. x - 1 \in Nat /\ (x - 1) + 1 = x
  BY <1>4
<1>6. x - 1 \in T
  BY <1>5
<1>7. <<x - 1, x>> \in R
  BY <1>4, <1>5 DEF OpToRel
<1> QED BY <1>3, <1>6, <1>7

(* What holds along a sequence of steps. *)
LEMMA Along ==
  ASSUME NEW n \in Nat, NEW X, NEW f, f[0] \in X[0],
         \A i \in 1 .. n : f[i - 1] \in X[i - 1] => f[i] \in X[i]
  PROVE  \A i \in 0 .. n : f[i] \in X[i]
<1> DEFINE S == {k \in Nat : k <= n => f[k] \in X[k]}
<1>1. 0 \in S
  OBVIOUS
<1>2. ASSUME NEW k \in Nat, k \in S PROVE k + 1 \in S
  <2>1. CASE k + 1 <= n
    <3>1. k + 1 \in 1 .. n /\ (k + 1) - 1 = k /\ k <= n
      BY <2>1
    <3>2. f[k] \in X[k]
      BY <1>2, <3>1
    <3>3. f[k + 1] \in X[k + 1]
      BY <3>1, <3>2
    <3> QED BY <3>3
  <2>2. CASE ~(k + 1 <= n)
    BY <2>2
  <2> QED BY <2>1, <2>2
<1>3. Nat \subseteq S
  <2> HIDE DEF S
  <2> QED BY <1>1, <1>2, Induction
<1> QED BY <1>3

Steps(n, base, G, f) ==
  /\ f = [i \in 0 .. n |-> f[i]] /\ f[0] = base
  /\ \A i \in 1 .. n : f[i] = G[i][f[i - 1]]

LEMMA StepsExist ==
  ASSUME NEW n \in Nat, NEW base, NEW G
  PROVE  \E f : Steps(n, base, G, f)
<1> DEFINE Def(f, k) == f = [i \in 0 .. k |-> IF i = 0 THEN base ELSE G[i][f[i - 1]]]
           S == {k \in Nat : \E f : Def(f, k)}
<1>1. 0 \in S
  <2>1. Def([i \in 0 .. 0 |-> base], 0)
    OBVIOUS
  <2> QED BY <2>1
<1>2. ASSUME NEW k \in Nat, k \in S PROVE k + 1 \in S
  <2>1. PICK f : Def(f, k)
    BY <1>2
  <2> DEFINE g == [i \in 0 .. k + 1 |-> IF i <= k THEN f[i] ELSE G[i][f[k]]]
  <2>2. ASSUME NEW i \in 0 .. k + 1
        PROVE  g[i] = IF i = 0 THEN base ELSE G[i][g[i - 1]]
    <3>1. CASE i = 0
      BY <2>1, <3>1
    <3>2. CASE i # 0 /\ i <= k
      <4>1. i \in 0 .. k /\ i - 1 \in 0 .. k
        BY <3>2
      <4>2. g[i] = f[i] /\ g[i - 1] = f[i - 1]
        BY <4>1
      <4>3. f[i] = G[i][f[i - 1]]
        BY <2>1, <3>2, <4>1
      <4> QED BY <3>2, <4>2, <4>3
    <3>3. CASE i = k + 1
      <4>1. i - 1 = k /\ ~(i <= k) /\ k \in 0 .. k + 1 /\ k <= k
        BY <3>3
      <4>2. g[i] = G[i][f[k]] /\ g[k] = f[k]
        BY <4>1
      <4> QED BY <3>3, <4>1, <4>2
    <3> QED BY <3>1, <3>2, <3>3
  <2>3. Def(g, k + 1)
    BY <2>2
  <2> HIDE DEF g
  <2> QED BY <2>3
<1>3. Nat \subseteq S
  <2> HIDE DEF S
  <2> QED BY <1>1, <1>2, Induction
<1>4. PICK f : Def(f, n)
  BY <1>3
<1>5. f = [i \in 0 .. n |-> f[i]]
  BY <1>4
<1>6. f[0] = base /\ \A i \in 1 .. n : f[i] = G[i][f[i - 1]]
  BY <1>4
<1> QED BY <1>5, <1>6 DEF Steps

(* The same for a fold over a set: P[s] is what is taken from s. *)
Takes(P, T) == \A s \in SUBSET T : s # {} => P[s] \in s

LEMMA AlongSubsets ==
  ASSUME NEW T, IsFiniteSet(T), NEW P, Takes(P, T), NEW X, NEW f, f[{}] \in X[{}],
         \A s \in SUBSET T : s # {} /\ f[s \ {P[s]}] \in X[s \ {P[s]}]
                               => f[s] \in X[s]
  PROVE  \A s \in SUBSET T : f[s] \in X[s]
<1> DEFINE S == {k \in Nat : \A s \in SUBSET T : Cardinality(s) = k => f[s] \in X[s]}
<1>1. 0 \in S
  <2>1. ASSUME NEW s \in SUBSET T, Cardinality(s) = 0 PROVE s = {}
    BY <2>1, FS_Subset, FS_EmptySet
  <2> QED BY <2>1
<1>2. ASSUME NEW k \in Nat, k \in S PROVE k + 1 \in S
  <2>1. ASSUME NEW s \in SUBSET T, Cardinality(s) = k + 1 PROVE f[s] \in X[s]
    <3>1. IsFiniteSet(s)
      BY FS_Subset
    <3>2. s # {}
      BY <2>1, FS_EmptySet
    <3>3. P[s] \in s
      BY <3>2 DEF Takes
    <3>4. Cardinality(s \ {P[s]}) = (k + 1) - 1
      BY <2>1, <3>1, <3>3, FS_RemoveElement
    <3>5. f[s \ {P[s]}] \in X[s \ {P[s]}]
      BY <1>2, <3>4
    <3> QED BY <3>2, <3>5
  <2> QED BY <2>1
<1>3. Nat \subseteq S
  <2> HIDE DEF S
  <2> QED BY <1>1, <1>2, Induction
<1>4. ASSUME NEW s \in SUBSET T PROVE f[s] \in X[s]
  <2>1. Cardinality(s) \in Nat
    BY FS_Subset, FS_CardinalityType
  <2> QED BY <1>3, <2>1
<1> QED BY <1>4

Folded(T, P, base, G, f) ==
  /\ f = [s \in SUBSET T |-> f[s]] /\ f[{}] = base
  /\ \A s \in SUBSET T : s # {} => f[s] = G[s][f[s \ {P[s]}]]

LEMMA FoldExists ==
  ASSUME NEW T, IsFiniteSet(T), NEW P, Takes(P, T), NEW base, NEW G
  PROVE  \E f : Folded(T, P, base, G, f)
<1> DEFINE Upto(k) == {s \in SUBSET T : Cardinality(s) <= k}
           Def(f, k) == f = [s \in Upto(k) |-> IF s = {} THEN base
                                                         ELSE G[s][f[s \ {P[s]}]]]
           S == {k \in Nat : \E f : Def(f, k)}
<1>0. ASSUME NEW s \in SUBSET T
      PROVE  /\ Cardinality(s) \in Nat /\ (Cardinality(s) = 0 <=> s = {})
             /\ s # {} => /\ s \ {P[s]} \in SUBSET T
                          /\ Cardinality(s \ {P[s]}) = Cardinality(s) - 1
  <2>1. IsFiniteSet(s)
    BY FS_Subset
  <2>2. Cardinality(s) \in Nat /\ (Cardinality(s) = 0 <=> s = {})
    BY <2>1, FS_CardinalityType, FS_EmptySet
  <2>3. s # {} => P[s] \in s
    BY DEF Takes
  <2> QED BY <2>1, <2>2, <2>3, FS_RemoveElement
<1>1. 0 \in S
  <2>1. ASSUME NEW s \in Upto(0) PROVE s = {}
    <3>1. s \in SUBSET T /\ Cardinality(s) <= 0
      OBVIOUS
    <3>2. Cardinality(s) \in Nat /\ (Cardinality(s) = 0 <=> s = {})
      BY <1>0, <3>1
    <3> QED BY <3>1, <3>2
  <2>2. Def([s \in Upto(0) |-> base], 0)
    BY <2>1
  <2> QED BY <2>2
<1>2. ASSUME NEW k \in Nat, k \in S PROVE k + 1 \in S
  <2>1. PICK f : Def(f, k)
    BY <1>2
  <2> DEFINE g == [s \in Upto(k + 1) |-> IF s \in Upto(k) THEN f[s]
                                                          ELSE G[s][f[s \ {P[s]}]]]
  <2>2. ASSUME NEW s \in Upto(k + 1)
        PROVE  g[s] = IF s = {} THEN base ELSE G[s][g[s \ {P[s]}]]
    <3>1. CASE s = {}
      <4>1. s \in Upto(k)
        <5>1. s \in SUBSET T /\ Cardinality(s) = 0
          BY <3>1, FS_EmptySet
        <5>2. 0 <= k
          OBVIOUS
        <5> QED BY <5>1, <5>2
      <4> QED BY <2>1, <3>1, <4>1
    <3>2. CASE s # {}
      <4> DEFINE t == s \ {P[s]}
      <4>0. /\ t \in SUBSET T /\ Cardinality(t) = Cardinality(s) - 1
            /\ Cardinality(s) \in Nat /\ Cardinality(s) <= k + 1
        BY <1>0, <3>2
      <4> HIDE DEF t
      <4>1. t \in Upto(k)
        BY <4>0
      <4>2. t \in Upto(k + 1)
        BY <4>0
      <4> USE DEF t
      <4>3. g[s \ {P[s]}] = f[s \ {P[s]}]
        <5> HIDE DEF Upto
        <5> QED BY <4>1, <4>2
      <4>4. s \in Upto(k) => f[s] = G[s][f[s \ {P[s]}]]
        <5> HIDE DEF Upto
        <5> QED BY <2>1, <3>2
      <4>5. g[s] = G[s][f[s \ {P[s]}]]
        <5> HIDE DEF Upto
        <5> QED BY <4>4
      <4> QED BY <3>2, <4>3, <4>5
    <3> QED BY <3>1, <3>2
  <2>3. Def(g, k + 1)
    <3> HIDE DEF Upto
    <3> QED BY <2>2
  <2>4. \E h : Def(h, k + 1)
    <3> HIDE DEF g, Def
    <3> QED BY <2>3
  <2> HIDE DEF Def
  <2> QED BY <2>4
<1>3. Nat \subseteq S
  <2> HIDE DEF S
  <2> QED BY <1>1, <1>2, Induction
<1>4. Cardinality(T) \in Nat
  BY FS_CardinalityType
<1>5. PICK f : Def(f, Cardinality(T))
  <2> HIDE DEF Def
  <2> QED BY <1>3, <1>4
<1>6. Upto(Cardinality(T)) = SUBSET T
  BY FS_Subset
<1>7. f = [s \in SUBSET T |-> IF s = {} THEN base ELSE G[s][f[s \ {P[s]}]]]
  <2> HIDE DEF Upto
  <2> QED BY <1>5, <1>6
<1>8. f = [s \in SUBSET T |-> f[s]]
  BY <1>7
<1>9. f[{}] = base
  BY <1>7
<1>10. \A s \in SUBSET T : s # {} => f[s] = G[s][f[s \ {P[s]}]]
  BY <1>7
<1> QED BY <1>8, <1>9, <1>10 DEF Folded

LEMMA FoldIn ==
  ASSUME NEW T, IsFiniteSet(T), NEW P, Takes(P, T), NEW base, NEW G, NEW X, base \in X[{}],
         \A s \in SUBSET T : s # {} => \A x \in X[s \ {P[s]}] : G[s][x] \in X[s]
  PROVE  \E f : Folded(T, P, base, G, f) /\ \A s \in SUBSET T : f[s] \in X[s]
<1>1. PICK f : Folded(T, P, base, G, f)
  BY FoldExists
<1>2. f[{}] \in X[{}]
  BY <1>1 DEF Folded
<1>3. ASSUME NEW s \in SUBSET T, s # {}, f[s \ {P[s]}] \in X[s \ {P[s]}]
      PROVE  f[s] \in X[s]
  BY <1>1, <1>3 DEF Folded
<1>4. \A s \in SUBSET T : f[s] \in X[s]
  BY <1>2, <1>3, AlongSubsets
<1> QED BY <1>1, <1>4

Pick(s) == CHOOSE l \in s : TRUE

(* deleteLinks takes away every link of the output pin, and no other. *)
LEMMA DeleteLinksKeeps ==
  ASSUME NEW f, Whole(f), NEW n \in Slots
  PROVE  Fewer(f, DeleteLinks(f, n)) /\ DeleteLinks(f, n).node[n].to = {}
<1> DEFINE L == f.node[n].to
           P == [s \in SUBSET L |-> Pick(s)]
           Left(s) == {l \in L : \A k \in s : l.node # k.node}
           X == [s \in SUBSET L |-> {g \in Flows : Fewer(f, g) /\ g.node[n].to = Left(s)}]
           G == [s \in SUBSET L |-> [g \in Flows |-> DeleteLink(g, n, Pick(s).node)]]
           Def(h) == h = [s \in SUBSET L |->
                            IF s = {} THEN f
                            ELSE DeleteLink(h[s \ {Pick(s)}], n, Pick(s).node)]
<1>0. f \in Flows /\ IsFiniteSet(L) /\ \A l \in L : l.node \in Slots
  BY FlowFacts, NodeFacts DEF Whole, Agree
<1>1. f \in X[{}]
  <2>1. Left({}) = L
    OBVIOUS
  <2> HIDE DEF Left, L
  <2>2. f.node[n].to = Left({})
    BY <2>1 DEF L
  <2> QED BY <1>0, <2>2, FewerSelf
<1>2. ASSUME NEW s \in SUBSET L, s # {}, NEW g \in X[s \ {Pick(s)}]
      PROVE  g \in Flows /\ DeleteLink(g, n, Pick(s).node) \in X[s]
  <2> DEFINE e == Pick(s).node
             t == s \ {Pick(s)}
             d == DeleteLink(g, n, e)
  <2>1. Pick(s) \in s /\ e \in Slots /\ t \in SUBSET L
    BY <1>0, <1>2 DEF Pick
  <2>2. g \in Flows /\ Fewer(f, g) /\ g.node[n].to = Left(t)
    <3> HIDE DEF Left, L, t
    <3> QED BY <1>2, <2>1 DEF t
  <2>3. /\ Fewer(g, d) /\ d.node[n].to = {l \in g.node[n].to : l.node # e}
    <3> HIDE DEF e, d, Left
    <3>1. Whole(g)
      BY <2>2 DEF Fewer
    <3> QED BY <2>1, <3>1, DeleteLinkKeeps DEF d
  <2>4. Left(s) = {l \in Left(t) : l.node # e}
    BY <2>1
  <2> HIDE DEF e, d, Left, L, t
  <2>5. d \in Flows /\ Fewer(f, d)
    BY <2>2, <2>3, FewerTwice DEF Fewer, Whole
  <2>6. d \in X[s]
    BY <2>2, <2>3, <2>4, <2>5
  <2> QED BY <2>2, <2>6 DEF d, e
<1>3. /\ Takes(P, L)
      /\ \A s \in SUBSET L : P[s] = Pick(s)
      /\ \A s \in SUBSET L : s \ {Pick(s)} \in SUBSET L
  BY DEF Takes, Pick
<1>4. PICK h : Folded(L, P, f, G, h) /\ \A s \in SUBSET L : h[s] \in X[s]
  <2>1. ASSUME NEW s \in SUBSET L, s # {}, NEW x \in X[s \ {P[s]}] PROVE G[s][x] \in X[s]
    <3> HIDE DEF X, P
    <3>1. x \in Flows /\ DeleteLink(x, n, Pick(s).node) \in X[s]
      BY <1>2, <1>3, <2>1
    <3> QED BY <3>1
  <2> HIDE DEF L, G, X, P
  <2> QED BY <1>0, <1>1, <1>3, <2>1, FoldIn
<1>5. Def(h)
  <2>1. ASSUME NEW s \in SUBSET L, s # {}
        PROVE  h[s] = DeleteLink(h[s \ {Pick(s)}], n, Pick(s).node)
    <3> HIDE DEF X, P
    <3>1. h[s \ {Pick(s)}] \in Flows
      BY <1>2, <1>3, <1>4, <2>1
    <3>2. h[s] = G[s][h[s \ {Pick(s)}]]
      <4> HIDE DEF G
      <4> QED BY <1>3, <1>4, <2>1 DEF Folded
    <3> QED BY <3>1, <3>2
  <2> HIDE DEF G, X, P
  <2> QED BY <1>4, <2>1 DEF Folded
<1> DEFINE iter == CHOOSE h2 : Def(h2)
<1>6. Def(iter)
  <2> HIDE DEF Def
  <2> QED BY <1>5
<1>7. \A s \in SUBSET L : iter[s] \in X[s]
  <2> HIDE DEF iter
  <2>1. iter[{}] \in X[{}]
    <3> HIDE DEF X
    <3> QED BY <1>1, <1>6
  <2>2. ASSUME NEW s \in SUBSET L, s # {}, iter[s \ {P[s]}] \in X[s \ {P[s]}]
        PROVE  iter[s] \in X[s]
    <3> HIDE DEF X, P
    <3>1. DeleteLink(iter[s \ {Pick(s)}], n, Pick(s).node) \in X[s]
      BY <1>2, <1>3, <2>2
    <3> QED BY <1>6, <2>2, <3>1
  <2> HIDE DEF X, L, Def, P
  <2> QED BY <1>0, <1>3, <2>1, <2>2, AlongSubsets
<1>8. DeleteLinks(f, n) = iter[L]
  BY DEF DeleteLinks, MapThenFoldSet, Pick
<1> HIDE DEF iter
<1>9. DeleteLinks(f, n) \in X[L]
  <2> HIDE DEF X
  <2> QED BY <1>7, <1>8
<1>10. Left(L) = {}
  OBVIOUS
<1> QED BY <1>9, <1>10

(* What comes first among entries, as ForEach takes them. *)
Last(T) == CHOOSE t \in T : \A u \in T : Rank(u.id) <= Rank(t.id)

LEMMA LastTaken ==
  ASSUME NEW T, IsFiniteSet(T), \A t \in T : t.id \in Nat
  PROVE  Takes([s \in SUBSET T |-> Last(s)], T)
<1> DEFINE Latest(t, s) == \A u \in s : Rank(u.id) <= Rank(t.id)
           S == {k \in Nat : \A s \in SUBSET T :
                               Cardinality(s) = k + 1 => \E t \in s : Latest(t, s)}
<1>0. \A t \in T : Rank(t.id) \in Int
  BY DEF Rank
<1>1. ASSUME NEW k \in Nat, NEW s \in SUBSET T, Cardinality(s) = k + 1
      PROVE  \E x \in s : IsFiniteSet(s \ {x}) /\ Cardinality(s \ {x}) = k
  <2>1. IsFiniteSet(s)
    BY FS_Subset
  <2>2. PICK x \in s : TRUE
    BY <1>1, FS_EmptySet
  <2>3. Cardinality(s \ {x}) = (k + 1) - 1 /\ IsFiniteSet(s \ {x})
    BY <1>1, <2>1, FS_RemoveElement
  <2>4. (k + 1) - 1 = k
    OBVIOUS
  <2> QED BY <2>3, <2>4
<1>2. 0 \in S
  <2>1. ASSUME NEW s \in SUBSET T, Cardinality(s) = 0 + 1
        PROVE  \E t \in s : Latest(t, s)
    <3>1. PICK x \in s : IsFiniteSet(s \ {x}) /\ Cardinality(s \ {x}) = 0
      <4> HIDE DEF Latest
      <4> QED BY <1>1, <2>1
    <3>2. s \ {x} = {}
      BY <3>1, FS_EmptySet
    <3>3. \A u \in s : u = x
      BY <3>2
    <3> QED BY <1>0, <3>3
  <2> QED BY <2>1
<1>3. ASSUME NEW k \in Nat, k \in S PROVE k + 1 \in S
  <2>1. ASSUME NEW s \in SUBSET T, Cardinality(s) = (k + 1) + 1
        PROVE  \E t \in s : Latest(t, s)
    <3>1. PICK x \in s : Cardinality(s \ {x}) = k + 1
      <4> HIDE DEF Latest
      <4>1. k + 1 \in Nat
        OBVIOUS
      <4> QED BY <1>1, <2>1, <4>1
    <3>2. PICK y \in s \ {x} : Latest(y, s \ {x})
      BY <1>3, <3>1
    <3>3. CASE Rank(x.id) <= Rank(y.id)
      <4>1. Latest(y, s)
        BY <3>2, <3>3
      <4> QED BY <4>1
    <3>4. CASE ~(Rank(x.id) <= Rank(y.id))
      <4>1. /\ Rank(x.id) \in Int /\ Rank(y.id) \in Int
            /\ \A u \in s : Rank(u.id) \in Int
        BY <1>0, <3>1, <3>2
      <4>2. Latest(x, s)
        BY <3>2, <3>4, <4>1
      <4> QED BY <4>2
    <3> QED BY <3>3, <3>4
  <2> HIDE DEF Latest
  <2> QED BY <2>1
<1>4. Nat \subseteq S
  <2> HIDE DEF S
  <2> QED BY <1>2, <1>3, Induction
<1>5. ASSUME NEW s \in SUBSET T, s # {} PROVE Last(s) \in s
  <2>1. IsFiniteSet(s) /\ Cardinality(s) \in Nat /\ Cardinality(s) # 0
    BY <1>5, FS_Subset, FS_CardinalityType, FS_EmptySet
  <2>2. Cardinality(s) - 1 \in S /\ (Cardinality(s) - 1) + 1 = Cardinality(s)
    BY <1>4, <2>1
  <2>3. \E t \in s : Latest(t, s)
    <3> DEFINE k == Cardinality(s) - 1
    <3>1. k \in S /\ Cardinality(s) = k + 1
      BY <2>2
    <3> HIDE DEF k, Latest
    <3> QED BY <3>1
  <2> QED BY <2>3 DEF Last
<1> QED BY <1>5 DEF Takes

(* The same nodes are there: what the list of them says stays true. *)
SameNodes(f, g) == g.order = f.order /\ \A n \in Slots : g.node[n].id = f.node[n].id

LEMMA ListedSame ==
  ASSUME NEW f, NEW g, Listed(f), SameNodes(f, g)
  PROVE  Listed(g)
BY DEF Listed, SameNodes, Live

LEMMA FewerSame ==
  ASSUME NEW f, NEW g, Fewer(f, g)
  PROVE  Whole(g) /\ SameNodes(f, g)
BY DEF Fewer, SameRest, SameClip, SameBody, SameNodes

LEMMA NextSet ==
  ASSUME NEW f \in Flows, NEW next \in Nat \ {0}
  PROVE  /\ [f EXCEPT !.next = next] \in Flows
         /\ [f EXCEPT !.next = next].order = f.order
         /\ [f EXCEPT !.next = next].node = f.node
         /\ [f EXCEPT !.next = next].next = next
BY DEF Flows

Updated(f, order, n, r, next) == [f EXCEPT !.order = order, !.node[n] = r, !.next = next]

LEMMA UpdatedFacts ==
  ASSUME NEW f \in Flows, NEW order \in Seq(Slots), NEW n \in Slots,
         NEW r \in NodeRecs, NEW next \in Nat \ {0}
  PROVE  LET g == Updated(f, order, n, r, next)
         IN  /\ g \in Flows /\ g.node \in Nodes /\ g.order = order /\ g.next = next
             /\ g.node[n] = r /\ \A m \in Slots : m # n => g.node[m] = f.node[m]
             /\ SameClip(f, g) /\ g.clip = f.clip
<1> DEFINE N == [f.node EXCEPT ![n] = r]
           g == Updated(f, order, n, r, next)
<1>1. g = [f EXCEPT !.order = order, !.node = N, !.next = next]
  BY DEF Updated
<1>2. N \in [Slots -> NodeRecs] /\ N[n] = r /\ \A m \in Slots : m # n => N[m] = f.node[m]
  BY FlowFacts DEF Nodes
<1> HIDE DEF N
<1>3. /\ g \in Flows /\ g.order = order /\ g.next = next /\ g.node = N
      /\ SameClip(f, g) /\ g.clip = f.clip
  BY <1>1, <1>2 DEF Flows, SameClip
<1> QED BY <1>2, <1>3 DEF Nodes

LEMMA NoSourceNoLink ==
  ASSUME NEW N \in Nodes, Agree(N), NEW n \in Slots, N[n].from.node = 0
  PROVE  N[n].from = NoLink
<1>1. N[n].from \in [link : Nat, node : Slots \cup {0}] /\ N[n].from.link = 0
  BY NodeFacts DEF Agree
<1> QED BY <1>1 DEF NoLink

(* The link of the input pin is deleted, if there is one. *)
Unlinked(f, n) == LET s == f.node[n].from.node
                  IN  IF s = 0 THEN f ELSE DeleteLink(f, s, n)

LEMMA UnlinkedKeeps ==
  ASSUME NEW f, Whole(f), NEW n \in Slots
  PROVE  /\ Fewer(f, Unlinked(f, n)) /\ Unlinked(f, n).node[n].from = NoLink
         /\ \A m \in Slots :
              /\ m # n => Unlinked(f, n).node[m].from = f.node[m].from
              /\ Unlinked(f, n).node[m].to
                   = IF m = f.node[n].from.node THEN NotTo(f.node[m].to, n)
                                                ELSE f.node[m].to
<1> DEFINE s == f.node[n].from.node
<1>0. f.node \in Nodes /\ Agree(f.node) /\ s \in Slots \cup {0}
  BY FlowFacts, NodeFacts DEF Whole
<1>1. CASE s = 0
  BY <1>0, <1>1, NoSourceNoLink, FewerSelf, SlotFacts DEF Unlinked
<1>2. CASE s # 0
  <2> DEFINE g == Unlinked(f, n)
  <2>1. s \in Slots /\ g = DeleteLink(f, s, n)
    BY <1>0, <1>2 DEF Unlinked
  <2> HIDE DEF g
  <2>2. /\ Fewer(f, g)
        /\ g.node[s].to = NotTo(f.node[s].to, n)
        /\ g.node[n].from = NoLink
        /\ \A m \in Slots : m # s => g.node[m].to = f.node[m].to
        /\ \A m \in Slots : m # n => g.node[m].from = f.node[m].from
    BY <2>1, DeleteLinkKeeps DEF NotTo
  <2> QED BY <2>2 DEF g
<1> QED BY <1>1, <1>2

(* A pin of a node is set. *)
LEMMA FromSet ==
  ASSUME NEW f \in Flows, NEW e \in Slots, NEW from \in [link : Nat, node : Slots \cup {0}]
  PROVE  LET g == [f EXCEPT !.node[e].from = from]
         IN  /\ g \in Flows /\ SameRest(f, g) /\ g.clip = f.clip
             /\ \A n \in Slots : /\ SameBody(f.node, g.node, n)
                                 /\ g.node[n].to = f.node[n].to
                                 /\ g.node[n].from = IF n = e THEN from ELSE f.node[n].from
<1> DEFINE r == [f.node[e] EXCEPT !.from = from]
           g == [f EXCEPT !.node[e].from = from]
<1>1. f.node \in Nodes /\ f.node[e] \in NodeRecs
  BY FlowFacts, NodeFacts
<1>2. /\ r \in NodeRecs /\ r.kind = f.node[e].kind /\ r.id = f.node[e].id
      /\ r.in = f.node[e].in /\ r.out = f.node[e].out
      /\ r.to = f.node[e].to /\ r.from = from
  BY <1>1 DEF NodeRecs
<1>3. g = [f EXCEPT !.node[e] = r]
  OBVIOUS
<1> HIDE DEF r, g
<1>4. /\ g \in Flows /\ SameRest(f, g) /\ g.clip = f.clip
      /\ g.node = [f.node EXCEPT ![e] = r]
  BY <1>2, <1>3, NodeSet
<1>5. \A n \in Slots : g.node[n] = IF n = e THEN r ELSE f.node[n]
  BY <1>1, <1>4 DEF Nodes
<1> QED BY <1>2, <1>4, <1>5 DEF SameBody, g

Sending(f, s, to, next) == [f EXCEPT !.node[s].to = to, !.next = next]

(* g is f, but for the links of s and the next number. *)
Sent(f, g, s, to, next) ==
  /\ g \in Flows /\ SameClip(f, g) /\ g.clip = f.clip
  /\ g.order = f.order /\ g.next = next
  /\ \A n \in Slots : /\ SameBody(f.node, g.node, n)
                      /\ g.node[n].from = f.node[n].from
                      /\ g.node[n].to = IF n = s THEN to ELSE f.node[n].to

LEMMA ToSet ==
  ASSUME NEW f \in Flows, NEW s \in Slots, NEW to \in SUBSET Links,
         NEW next \in Nat \ {0}, NEW g, g = Sending(f, s, to, next)
  PROVE  Sent(f, g, s, to, next)
<1> DEFINE r == [f.node[s] EXCEPT !.to = to]
<1>1. f.node \in Nodes /\ f.node[s] \in NodeRecs /\ f.order \in Seq(Slots)
  BY FlowFacts, NodeFacts
<1>2. /\ r \in NodeRecs /\ r.kind = f.node[s].kind /\ r.id = f.node[s].id
      /\ r.in = f.node[s].in /\ r.out = f.node[s].out
      /\ r.from = f.node[s].from /\ r.to = to
  BY <1>1 DEF NodeRecs
<1>3. g = Updated(f, f.order, s, r, next)
  BY <1>1 DEF Updated, Flows, Sending
<1> HIDE DEF r
<1>4. /\ g \in Flows /\ SameClip(f, g) /\ g.clip = f.clip
      /\ g.order = f.order /\ g.next = next /\ g.node[s] = r
      /\ \A m \in Slots : m # s => g.node[m] = f.node[m]
  BY <1>1, <1>2, <1>3, UpdatedFacts
<1> QED BY <1>2, <1>4 DEF SameBody, Sent

(* A link is made with a free number: nothing but its text is new. *)
LEMMA JoinKeeps ==
  ASSUME NEW f, Whole(f), NEW s \in Slots, NEW e \in Slots,
         f.node[e].from = NoLink, f.node[s].id # 0, f.node[e].id # 0,
         f.node[s].out # 0, f.node[e].in # 0,
         NEW new \in Nat \ {0}, \A n \in Slots : \A l \in f.node[n].to : l.link # new,
         NEW g \in Flows, g.clip = f.clip, g.order = f.order,
         f.next <= g.next, new < g.next,
         \A n \in Slots :
           /\ SameBody(f.node, g.node, n)
           /\ g.node[n].to = IF n = s THEN f.node[s].to \cup {[link |-> new, node |-> e]}
                                      ELSE f.node[n].to
           /\ g.node[n].from = IF n = e THEN [link |-> new, node |-> s] ELSE f.node[n].from
  PROVE  /\ Whole(g) /\ SameNodes(f, g)
         /\ AllTexts(g) \subseteq AllTexts(f)
              \cup {[id |-> new, start |-> f.node[s].out, end |-> f.node[e].in]}
<1> DEFINE N == f.node
           M == g.node
           it == [link |-> new, node |-> e]
<1>1. /\ f \in Flows /\ N \in Nodes /\ M \in Nodes /\ Agree(N) /\ Numbered(N, f.next)
      /\ f.next \in Nat /\ g.next \in Nat
  BY FlowFacts DEF Whole
<1>2. /\ M[s].to = N[s].to \cup {[link |-> new, node |-> e]}
      /\ \A n \in Slots : n # s => M[n].to = N[n].to
      /\ M[e].from = [link |-> new, node |-> s]
      /\ \A n \in Slots : n # e => M[n].from = N[n].from
      /\ \A n \in Slots : SameBody(N, M, n)
  OBVIOUS
<1>3. Agree(M) /\ Numbered(M, g.next)
  <2>1. /\ N[e].from = NoLink /\ N[s].id # 0 /\ N[e].id # 0 /\ N[s].out # 0 /\ N[e].in # 0
        /\ \A n \in Slots : \A l \in N[n].to : l.link # new
    OBVIOUS
  <2> HIDE DEF N, M
  <2> QED BY <1>1, <1>2, <2>1, LinkKeeps
<1>4. Whole(g) /\ SameNodes(f, g)
  BY <1>2, <1>3 DEF Whole, SameNodes, SameBody
<1>5. ASSUME NEW n \in Slots, NEW l \in M[n].to
      PROVE  [id |-> l.link, start |-> M[n].out, end |-> M[l.node].in]
               \in LinksOf(f) \cup {[id |-> new, start |-> N[s].out, end |-> N[e].in]}
  <2>1. l.node \in Slots
    BY <1>1, NodeFacts
  <2>2. M[n].out = N[n].out /\ M[l.node].in = N[l.node].in
    BY <1>2, <2>1 DEF SameBody
  <2>3. CASE l \in N[n].to
    <3>1. [id |-> l.link, start |-> N[n].out, end |-> N[l.node].in] \in LinksOf(f)
      BY <2>3, LinkTextFacts
    <3> QED BY <2>2, <3>1
  <2>4. CASE n = s /\ l = it
    BY <2>2, <2>4
  <2> QED BY <1>2, <2>3, <2>4
<1>6. LinksOf(g) \subseteq LinksOf(f)
                             \cup {[id |-> new, start |-> N[s].out, end |-> N[e].in]}
  <2> DEFINE S == LinksOf(f) \cup {[id |-> new, start |-> N[s].out, end |-> N[e].in]}
  <2>1. SUFFICES ASSUME NEW n \in Slots, NEW t \in LinkTexts(g, n) PROVE t \in S
    BY DEF LinksOf
  <2>2. PICK l \in M[n].to : t = [id |-> l.link, start |-> M[n].out, end |-> M[l.node].in]
    BY DEF LinkTexts
  <2> QED BY <1>5, <2>2
<1> QED BY <1>4, <1>6 DEF AllTexts

(* createLink gives the next number to a link to a pin that has none. *)
LEMMA CreateLinkKeeps ==
  ASSUME NEW f, Whole(f), NEW s \in Slots, NEW e \in Slots,
         f.node[e].from = NoLink, f.node[s].id # 0, f.node[e].id # 0
  PROVE  LET g == CreateLink(f, s, e, 0)
         IN  /\ Whole(g) /\ SameNodes(f, g) /\ SameClip(f, g)
             /\ \A n \in Slots : SameBody(f.node, g.node, n)
             /\ g = f \/ (/\ g.next = f.next + 1
                          /\ AllTexts(g) \subseteq AllTexts(f)
                               \cup {[id |-> f.next, start |-> f.node[s].out,
                                                     end |-> f.node[e].in]})
<1> DEFINE N == f.node
           new == [link |-> f.next, node |-> e]
           from == [link |-> f.next, node |-> s]
           to == N[s].to \cup {new}
           f2 == [f EXCEPT !.node[s].to = to, !.next = f.next + 1]
           f3 == [f2 EXCEPT !.node[e].from = from]
           M == f3.node
<1>0. /\ f \in Flows /\ N \in Nodes /\ Agree(N) /\ Numbered(N, f.next)
      /\ f.next \in Nat \ {0}
  BY FlowFacts DEF Whole
<1>1. CASE CreateLink(f, s, e, 0) = f
  BY <1>1 DEF SameNodes, SameClip, SameBody
<1>2. CASE CreateLink(f, s, e, 0) # f
  <2>1. /\ CreateLink(f, s, e, 0)
             = Changed([Connected(f, s, e, 0) EXCEPT !.next = Most(@, 1)])
        /\ CanLink(f, s, e)
    BY <1>2 DEF CreateLink
  <2>2. N[e].from.node # s
    BY SlotFacts DEF NoLink
  <2>3. f2 = [f EXCEPT !.node[s].to = @ \cup {new}, !.next = @ + 1]
    OBVIOUS
  <2>4. Connected(f, s, e, 0) = f3
    <3> DEFINE g == [f EXCEPT !.node[s].to = @ \cup {new}, !.next = @ + 1]
    <3>1. Connected(f, s, e, 0) = [g EXCEPT !.node[e].from = from]
      BY <2>2 DEF Connected
    <3>2. g = f2
      BY <2>3
    <3> HIDE DEF g, f2
    <3> QED BY <3>1, <3>2
  <2>5. to \in SUBSET Links /\ f.next + 1 \in Nat \ {0}
    <3>1. N[s].to \in SUBSET Links
      BY <1>0, NodeFacts
    <3>2. new \in Links
      BY <1>0 DEF Links
    <3> QED BY <1>0, <3>1, <3>2
  <2>6. /\ f2 \in Flows /\ SameClip(f, f2) /\ f2.clip = f.clip
        /\ f2.order = f.order /\ f2.next = f.next + 1
        /\ \A n \in Slots : /\ SameBody(N, f2.node, n)
                            /\ f2.node[n].from = N[n].from
                            /\ f2.node[n].to = IF n = s THEN to ELSE N[n].to
    <3> DEFINE next == f.next + 1
    <3>1. next \in Nat \ {0} /\ f2 = Sending(f, s, to, next)
      BY <2>5 DEF Sending
    <3> HIDE DEF to, next, f2
    <3>2. Sent(f, f2, s, to, next)
      BY <1>0, <2>5, <3>1, ToSet, Zenon
    <3> QED BY <3>2 DEF next, Sent
  <2> HIDE DEF f2
  <2>7. from \in [link : Nat, node : Slots \cup {0}]
    BY <1>0
  <2>8. /\ f3 \in Flows /\ SameRest(f2, f3) /\ f3.clip = f2.clip
        /\ \A n \in Slots : /\ SameBody(f2.node, M, n)
                            /\ M[n].to = f2.node[n].to
                            /\ M[n].from = IF n = e THEN from ELSE f2.node[n].from
    <3> HIDE DEF from
    <3> QED BY <2>6, <2>7, FromSet
  <2> HIDE DEF f3
  <2>9. /\ f3.clip = f.clip /\ f3.order = f.order /\ f3.next = f.next + 1
        /\ SameClip(f, f3)
        /\ \A n \in Slots : /\ SameBody(N, M, n)
                            /\ M[n].to = IF n = s THEN to ELSE N[n].to
                            /\ M[n].from = IF n = e THEN from ELSE N[n].from
    <3>1. /\ f3.clip = f.clip /\ f3.order = f.order /\ f3.next = f.next + 1
          /\ SameClip(f, f3)
      BY <2>6, <2>8 DEF SameRest, SameClip
    <3>2. \A n \in Slots : SameBody(N, M, n)
      BY <2>6, <2>8 DEF SameBody
    <3> QED BY <2>6, <2>8, <3>1, <3>2
  <2>10. \A n \in Slots : \A l \in N[n].to : l.link # f.next
    BY <1>0, NodeFacts DEF Numbered
  <2>11. /\ Whole(f3) /\ SameNodes(f, f3)
         /\ AllTexts(f3) \subseteq AllTexts(f)
              \cup {[id |-> f.next, start |-> N[s].out, end |-> N[e].in]}
    <3>1. f.next <= f3.next /\ f.next < f3.next
      BY <1>0, <2>9
    <3>2. N[s].out # 0 /\ N[e].in # 0
      BY <2>1 DEF CanLink
    <3> QED BY <1>0, <2>8, <2>9, <2>10, <3>1, <3>2, JoinKeeps
  <2>12. [f3 EXCEPT !.next = Most(@, 1)] = f3
    <3>1. Most(f3.next, 1) = f3.next
      BY <1>0, <2>9 DEF Most
    <3>2. [f3 EXCEPT !.next = f3.next] = f3
      BY <2>8 DEF Flows
    <3> QED BY <3>1, <3>2
  <2>13. CreateLink(f, s, e, 0) = Changed(f3)
    BY <2>1, <2>4, <2>12
  <2>14. /\ Whole(Changed(f3)) /\ SameRest(f3, Changed(f3)) /\ Changed(f3).node = M
         /\ AllTexts(Changed(f3)) \subseteq AllTexts(f3)
    BY <2>8, <2>11, ChangedKeeps, ChangedWhole
  <2>15. SameNodes(f, Changed(f3)) /\ SameClip(f, Changed(f3))
    BY <2>9, <2>11, <2>14 DEF SameNodes, SameClip, SameRest
  <2>16. Changed(f3).next = f.next + 1
    BY <2>9, <2>14 DEF SameRest
  <2> QED BY <2>9, <2>11, <2>13, <2>14, <2>15, <2>16
<1> QED BY <1>1, <1>2

(* createLink with the number that a text has for this link: it is free, or    *)
(* the link is there.                                                          *)
LEMMA LinkAgainKeeps ==
  ASSUME NEW f, Whole(f), Known(f), f.saving = FALSE, NEW t \in AllTexts(f),
         NEW s \in Slots, NEW e \in Slots, f.node[s].id # 0, f.node[e].id # 0,
         f.node[s].out = t.start, f.node[e].in = t.end
  PROVE  LET g == CreateLink(f, s, e, t.id)
         IN  /\ Whole(g) /\ SameNodes(f, g) /\ g.clip = f.clip /\ g.cut = f.cut
             /\ g.saving = FALSE /\ g.next = f.next
             /\ \A n \in Slots : SameBody(f.node, g.node, n)
             /\ AllTexts(g) \subseteq AllTexts(f)
<1> DEFINE N == f.node
           id == t.id
           new == [link |-> id, node |-> e]
           from == [link |-> id, node |-> s]
           old == N[e].from.node
           to == N[s].to \cup {new}
           u == Unlinked(f, e)
<1>0. /\ f \in Flows /\ N \in Nodes /\ Agree(N) /\ Numbered(N, f.next)
      /\ f.next \in Nat \ {0} /\ f.clip.links \in SUBSET LinkTextSet
  BY FlowFacts DEF Whole
<1>1. t \in LinkTextSet /\ id \in Nat /\ id # 0 /\ id < f.next
  <2>1. LinksOf(f) \subseteq LinkTextSet
    BY <1>0, TextFacts DEF LinksOf
  <2>2. t \in LinkTextSet
    BY <1>0, <2>1 DEF AllTexts
  <2> QED BY <2>2 DEF Known, LinkTextSet
<1>2. CASE CreateLink(f, s, e, id) = f
  BY <1>2 DEF SameNodes, SameBody
<1>3. CASE CreateLink(f, s, e, id) # f
  <2>1. /\ ~Linked(f, s, e) /\ CanLink(f, s, e)
        /\ CreateLink(f, s, e, id)
             = Changed([Connected(f, s, e, id) EXCEPT !.next = Most(@, id + 1)])
    BY <1>3 DEF CreateLink
  <2>2. s # e /\ N[s].out # 0 /\ N[e].in # 0
    BY <2>1 DEF CanLink
  <2>3. ASSUME NEW n \in Slots, NEW l \in N[n].to PROVE l.link # id
    <3> DEFINE v == [id |-> l.link, start |-> N[n].out, end |-> N[l.node].in]
    <3>0. l.node \in Slots
      BY <1>0, NodeFacts
    <3>1. SUFFICES ASSUME l.link = id PROVE FALSE
      OBVIOUS
    <3>2. v \in AllTexts(f)
      BY LinkTextFacts DEF AllTexts
    <3>3. v.id = t.id /\ v.start = N[n].out /\ v.end = N[l.node].in
      BY <3>1
    <3> HIDE DEF v
    <3>4. v = t
      BY <3>2, <3>3 DEF Known
    <3>5. N[n].out = N[s].out /\ N[l.node].in = N[e].in
      BY <3>3, <3>4
    <3>6. n = s /\ l.node = e
      BY <1>0, <2>2, <3>0, <3>5 DEF Numbered
    <3> QED BY <2>1, <3>6 DEF Linked
  <2>4. ASSUME N[e].from # NoLink PROVE old # s /\ N[e].from.link # id
    <3>1. old \in Slots /\ [link |-> N[e].from.link, node |-> e] \in N[old].to
      BY <1>0, <2>4, FromTo
    <3> DEFINE l == [link |-> N[e].from.link, node |-> e]
    <3>2. l \in N[old].to /\ l.node = e /\ l.link = N[e].from.link
      BY <3>1
    <3> HIDE DEF l
    <3>3. old # s
      BY <2>1, <3>2 DEF Linked
    <3>4. l.link # id
      BY <2>3, <3>1, <3>2
    <3> QED BY <3>2, <3>3, <3>4
  <2>5. old # s /\ N[e].from.link # id /\ old \in Slots \cup {0}
    BY <1>0, <1>1, <2>4, SlotFacts, NodeFacts DEF NoLink
  <2>6. /\ Fewer(f, u) /\ u.node[e].from = NoLink
        /\ \A m \in Slots :
             /\ m # e => u.node[m].from = N[m].from
             /\ u.node[m].to = IF m = old THEN NotTo(N[m].to, e) ELSE N[m].to
    BY UnlinkedKeeps
  <2> DEFINE a == [f EXCEPT !.node[s].to = to, !.next = f.next]
             b == [a EXCEPT !.node[e].from = NoLink]
             c == IF old = 0 THEN b ELSE Without(b, old, e)
             d == [c EXCEPT !.node[e].from = from]
  <2>7. to \in SUBSET Links /\ f.next \in Nat \ {0}
    <3>1. N[s].to \in SUBSET Links
      BY <1>0, NodeFacts
    <3>2. new \in Links
      BY <1>1 DEF Links
    <3> QED BY <1>0, <3>1, <3>2
  <2>8. /\ a \in Flows /\ SameClip(f, a) /\ a.clip = f.clip
        /\ a.order = f.order /\ a.next = f.next
        /\ \A n \in Slots : /\ SameBody(N, a.node, n)
                            /\ a.node[n].from = N[n].from
                            /\ a.node[n].to = IF n = s THEN to ELSE N[n].to
    <3> DEFINE next == f.next
    <3>1. next \in Nat \ {0} /\ a = Sending(f, s, to, next)
      BY <2>7 DEF Sending
    <3> HIDE DEF to, next, a
    <3>2. Sent(f, a, s, to, next)
      BY <1>0, <2>7, <3>1, ToSet, Zenon
    <3> QED BY <3>2 DEF next, Sent
  <2>9. Connected(f, s, e, id) = d
    <3> DEFINE g == [f EXCEPT !.node[s].to = @ \cup {new}, !.next = @]
    <3>1. Connected(f, s, e, id) = [Disconnected(g, e) EXCEPT !.node[e].from = from]
      BY <1>1, <2>5 DEF Connected
    <3>2. g = a
      OBVIOUS
    <3> HIDE DEF g, a
    <3>3. Disconnected(g, e) = c
      BY <2>8, <3>2 DEF Disconnected
    <3> QED BY <3>1, <3>3
  <2> HIDE DEF a
  <2>10. NoLink \in [link : Nat, node : Slots \cup {0}]
    BY DEF NoLink
  <2>11. /\ b \in Flows /\ SameRest(a, b) /\ b.clip = a.clip
         /\ \A n \in Slots : /\ SameBody(a.node, b.node, n)
                             /\ b.node[n].to = a.node[n].to
                             /\ b.node[n].from = IF n = e THEN NoLink ELSE a.node[n].from
    BY <2>8, <2>10, FromSet
  <2> HIDE DEF b
  <2>12. /\ c \in Flows /\ SameRest(b, c) /\ c.clip = b.clip
         /\ \A n \in Slots : /\ SameBody(b.node, c.node, n)
                             /\ c.node[n].from = b.node[n].from
                             /\ c.node[n].to = IF n = old THEN NotTo(b.node[n].to, e)
                                                          ELSE b.node[n].to
    <3>1. CASE old = 0
      BY <2>11, <3>1, SlotFacts DEF SameRest, SameClip, SameBody
    <3>2. CASE old # 0
      <4>1. old \in Slots /\ c = Without(b, old, e) /\ b \in Flows
        BY <2>5, <2>11, <3>2
      <4> HIDE DEF c, old
      <4>2. Trimmed(b, c, old, e)
        BY <4>1, WithoutTrims, Zenon
      <4> QED BY <4>2 DEF Trimmed
    <3> QED BY <3>1, <3>2
  <2> HIDE DEF c
  <2>13. from \in [link : Nat, node : Slots \cup {0}]
    BY <1>1
  <2>14. /\ d \in Flows /\ SameRest(c, d) /\ d.clip = c.clip
         /\ \A n \in Slots : /\ SameBody(c.node, d.node, n)
                             /\ d.node[n].to = c.node[n].to
                             /\ d.node[n].from = IF n = e THEN from ELSE c.node[n].from
    <3> HIDE DEF from
    <3> QED BY <2>12, <2>13, FromSet
  <2> HIDE DEF d
  <2>15. /\ d.clip = f.clip /\ d.cut = f.cut /\ d.saving = FALSE
         /\ d.order = f.order /\ d.next = f.next
    BY <2>8, <2>11, <2>12, <2>14 DEF SameRest, SameClip
  <2>16. ASSUME NEW n \in Slots
         PROVE  /\ SameBody(N, d.node, n)
                /\ d.node[n].to = IF n = s THEN u.node[s].to \cup {new} ELSE u.node[n].to
                /\ d.node[n].from = IF n = e THEN from ELSE u.node[n].from
    <3> HIDE DEF from, to, N, old
    <3>0. /\ SameBody(N, a.node, n) /\ SameBody(a.node, b.node, n)
          /\ SameBody(b.node, c.node, n) /\ SameBody(c.node, d.node, n)
      BY <2>8, <2>11, <2>12, <2>14
    <3>1. SameBody(N, d.node, n)
      BY <3>0 DEF SameBody
    <3>2. d.node[n].from = IF n = e THEN from ELSE N[n].from
      BY <2>8, <2>11, <2>12, <2>14
    <3>3. d.node[n].to = IF n = s THEN to ELSE IF n = old THEN NotTo(N[n].to, e)
                                                          ELSE N[n].to
      <4>1. d.node[n].to = c.node[n].to /\ b.node[n].to = a.node[n].to
        BY <2>11, <2>14
      <4>2. c.node[n].to = IF n = old THEN NotTo(b.node[n].to, e) ELSE b.node[n].to
        BY <2>12
      <4>3. a.node[n].to = IF n = s THEN to ELSE N[n].to
        BY <2>8
      <4> QED BY <2>5, <4>1, <4>2, <4>3
    <3> USE DEF from, to, N, old
    <3> QED BY <2>5, <2>6, <3>1, <3>2, <3>3
  <2>17. /\ Whole(u) /\ u.clip = f.clip /\ u.order = f.order /\ u.next = f.next
         /\ \A n \in Slots : SameBody(N, u.node, n)
         /\ AllTexts(u) \subseteq AllTexts(f)
         /\ \A n \in Slots : u.node[n].to \subseteq N[n].to
    BY <2>6 DEF Fewer, SameRest, SameClip
  <2> HIDE DEF u
  <2>18. \A n \in Slots : SameBody(u.node, d.node, n)
    BY <2>16, <2>17 DEF SameBody
  <2>19. /\ u.node[s].id # 0 /\ u.node[e].id # 0 /\ u.node[s].out = t.start
         /\ u.node[e].in = t.end /\ u.node[s].out # 0 /\ u.node[e].in # 0
    BY <2>2, <2>17 DEF SameBody
  <2>20. \A n \in Slots : \A l \in u.node[n].to : l.link # id
    BY <2>3, <2>17
  <2>21. u.next <= d.next /\ id < d.next /\ id \in Nat \ {0}
    BY <1>0, <1>1, <2>15, <2>17
  <2>22. /\ Whole(d) /\ SameNodes(u, d)
         /\ AllTexts(d) \subseteq AllTexts(u)
              \cup {[id |-> id, start |-> u.node[s].out, end |-> u.node[e].in]}
    <3>1. \A n \in Slots :
            /\ SameBody(u.node, d.node, n)
            /\ d.node[n].to = IF n = s THEN u.node[s].to \cup {[link |-> id, node |-> e]}
                                       ELSE u.node[n].to
            /\ d.node[n].from = IF n = e THEN [link |-> id, node |-> s] ELSE u.node[n].from
      BY <2>16, <2>18
    <3>2. d.clip = u.clip /\ d.order = u.order
      BY <2>15, <2>17
    <3> HIDE DEF id
    <3> QED BY <2>6, <2>14, <2>17, <2>19, <2>20, <2>21, <3>1, <3>2, JoinKeeps
  <2>23. [id |-> id, start |-> u.node[s].out, end |-> u.node[e].in] = t
    <3>1. t = [id |-> t.id, start |-> t.start, end |-> t.end]
      BY <1>1 DEF LinkTextSet
    <3> QED BY <2>19, <3>1
  <2>24. AllTexts(d) \subseteq AllTexts(f)
    BY <2>17, <2>22, <2>23
  <2>25. [d EXCEPT !.next = Most(@, id + 1)] = d
    <3>1. Most(d.next, id + 1) = d.next
      BY <1>0, <1>1, <2>15 DEF Most
    <3>2. [d EXCEPT !.next = d.next] = d
      BY <2>14 DEF Flows
    <3> QED BY <3>1, <3>2
  <2>26. CreateLink(f, s, e, id) = d
    <3>1. Changed(d) = d
      BY <2>14, <2>15, ChangedKeeps
    <3> QED BY <2>1, <2>9, <2>25, <3>1
  <2>27. SameNodes(f, d)
    BY <2>17, <2>22, <2>15, <2>16 DEF SameNodes, SameBody
  <2> QED BY <2>15, <2>16, <2>22, <2>24, <2>26, <2>27
<1> QED BY <1>2, <1>3

(* The numbers of a node change to free ones; without a number, or without one *)
(* for a pin, it has no links there.                                           *)
LEMMA NumbersSet ==
  ASSUME NEW N \in Nodes, NEW next \in Nat \ {0}, Agree(N), Numbered(N, next),
         NEW M \in Nodes, NEW after \in Nat, next <= after, NEW n \in Slots,
         \A m \in Slots : m # n => M[m] = N[m],
         M[n].to = N[n].to, M[n].from = N[n].from,
         M[n].id < after, M[n].in < after, M[n].out < after,
         \A m \in Slots : m # n =>
           /\ M[n].id = N[m].id => M[n].id = 0
           /\ M[n].in \in {N[m].in, N[m].out} => M[n].in = 0
           /\ M[n].out \in {N[m].in, N[m].out} => M[n].out = 0,
         M[n].in = M[n].out => M[n].in = 0,
         M[n].id = 0 => N[n].to = {} /\ N[n].from = NoLink,
         M[n].out = 0 => N[n].to = {}, M[n].in = 0 => N[n].from = NoLink
  PROVE  Agree(M) /\ Numbered(M, after)
<1>1. \A m \in Slots : M[m].to = N[m].to /\ M[m].from = N[m].from
  OBVIOUS
<1>2. ASSUME NEW m \in Slots, NEW l \in M[m].to
      PROVE  M[m].id # 0 /\ M[l.node].id # 0 /\ M[m].out # 0 /\ M[l.node].in # 0
  <2>1. l \in N[m].to /\ l.node \in Slots
    BY <1>1, NodeFacts
  <2>2. N[m].id # 0 /\ N[l.node].id # 0 /\ N[m].out # 0 /\ N[l.node].in # 0
    BY <2>1 DEF Agree
  <2>3. N[l.node].from # NoLink
    BY <2>1, ToFrom
  <2> QED BY <2>1, <2>2, <2>3
<1>3. Agree(M)
  BY <1>1, <1>2 DEF Agree
<1>4. \A m \in Slots : /\ N[m].id \in Nat /\ N[m].in \in Nat /\ N[m].out \in Nat
                       /\ M[m].id \in Nat /\ M[m].in \in Nat /\ M[m].out \in Nat
                       /\ \A l \in N[m].to : l.link \in Nat
  BY NodeFacts
<1>5. ASSUME NEW m \in Slots
      PROVE  /\ M[m].id < after /\ M[m].in < after /\ M[m].out < after
             /\ \A l \in M[m].to : 0 < l.link /\ l.link < after
  <2>1. /\ N[m].id < next /\ N[m].in < next /\ N[m].out < next
        /\ \A l \in N[m].to : 0 < l.link /\ l.link < next
    BY DEF Numbered
  <2>2. \A l \in M[m].to : 0 < l.link /\ l.link < after
    BY <1>1, <1>4, <2>1
  <2>3. CASE m = n
    BY <2>2, <2>3
  <2>4. CASE m # n
    <3>1. M[m] = N[m]
      BY <2>4
    <3> QED BY <1>4, <2>1, <2>2, <3>1
  <2> QED BY <2>3, <2>4
<1>6. ASSUME NEW k \in Slots, NEW m \in Slots
      PROVE  /\ M[k].id = M[m].id => M[k].id = 0 \/ k = m
             /\ M[k].in = M[m].in => M[k].in = 0 \/ k = m
             /\ M[k].out = M[m].out => M[k].out = 0 \/ k = m
             /\ M[k].in = M[m].out => M[k].in = 0
  <2>1. /\ N[k].id = N[m].id => N[k].id = 0 \/ k = m
        /\ N[k].in = N[m].in => N[k].in = 0 \/ k = m
        /\ N[k].out = N[m].out => N[k].out = 0 \/ k = m
        /\ N[k].in = N[m].out => N[k].in = 0
        /\ N[k].id < next /\ N[k].in < next /\ N[k].out < next
        /\ N[m].id < next /\ N[m].in < next /\ N[m].out < next
    BY DEF Numbered
  <2>2. CASE k # n /\ m # n
    <3>1. M[k] = N[k] /\ M[m] = N[m]
      BY <2>2
    <3> QED BY <2>1, <3>1
  <2>3. CASE k = n /\ m # n
    <3>1. M[m] = N[m]
      BY <2>3
    <3> QED BY <1>4, <2>1, <2>3, <3>1
  <2>4. CASE k # n /\ m = n
    <3>1. M[k] = N[k]
      BY <2>4
    <3> QED BY <1>4, <2>1, <2>4, <3>1
  <2>5. CASE k = n /\ m = n
    BY <2>5
  <2> QED BY <2>2, <2>3, <2>4, <2>5
<1>7. \A k, m \in Slots : \A i \in M[k].to, j \in M[m].to : i.link = j.link => k = m /\ i = j
  BY <1>1 DEF Numbered
<1>8. Numbered(M, after)
  BY <1>5, <1>6, <1>7 DEF Numbered
<1> QED BY <1>3, <1>8

LEMMA RenumberKeeps ==
  ASSUME NEW N \in Nodes, NEW next \in Nat \ {0}, Agree(N), Numbered(N, next),
         NEW M \in Nodes, NEW after \in Nat, next <= after, NEW n \in Slots,
         \A m \in Slots : m # n => M[m] = N[m],
         M[n].to = N[n].to, M[n].from = N[n].from,
         M[n].id < after, M[n].in < after, M[n].out < after,
         Renumbered(N[n], M[n], next),
         M[n].in = M[n].out => M[n].in = 0,
         M[n].id = 0 => N[n].to = {} /\ N[n].from = NoLink,
         M[n].out = 0 => N[n].to = {}, M[n].in = 0 => N[n].from = NoLink
  PROVE  Agree(M) /\ Numbered(M, after)
<1>1. ASSUME NEW m \in Slots, m # n
      PROVE  /\ M[n].id = N[m].id => M[n].id = 0
             /\ M[n].in \in {N[m].in, N[m].out} => M[n].in = 0
             /\ M[n].out \in {N[m].in, N[m].out} => M[n].out = 0
  <2>1. /\ M[n].id \in Nat /\ M[n].in \in Nat /\ M[n].out \in Nat
        /\ N[m].id \in Nat /\ N[m].in \in Nat /\ N[m].out \in Nat
    BY NodeFacts
  <2>2. /\ N[m].id < next /\ N[m].in < next /\ N[m].out < next
        /\ N[n].id = N[m].id => N[n].id = 0
        /\ N[n].in = N[m].in => N[n].in = 0
        /\ N[n].out = N[m].out => N[n].out = 0
        /\ N[n].in = N[m].out => N[n].in = 0
        /\ N[m].in = N[n].out => N[m].in = 0
    BY <1>1 DEF Numbered
  <2> QED BY <2>1, <2>2 DEF Renumbered
<1> QED BY <1>1, NumbersSet

LEMMA NoNumberNoLinks ==
  ASSUME NEW N \in Nodes, Agree(N), NEW n \in Slots, N[n].id = 0
  PROVE  N[n].to = {} /\ N[n].from = NoLink
<1>1. N[n].to = {}
  BY DEF Agree
<1>2. SUFFICES ASSUME N[n].from # NoLink PROVE FALSE
  BY <1>1
<1>3. [link |-> N[n].from.link, node |-> n] \in N[N[n].from.node].to
      /\ N[n].from.node \in Slots
  BY <1>2, FromTo
<1> DEFINE s == N[n].from.node
           l == [link |-> N[n].from.link, node |-> n]
<1>4. l.node = n /\ l \in N[s].to /\ s \in Slots
  BY <1>3
<1> HIDE DEF l, s
<1>5. N[l.node].id # 0
  BY <1>4 DEF Agree
<1> QED BY <1>4, <1>5

LEMMA NoPinNoLinks ==
  ASSUME NEW N \in Nodes, Agree(N), NEW n \in Slots
  PROVE  /\ N[n].out = 0 => N[n].to = {}
         /\ N[n].in = 0 => N[n].from = NoLink
<1>1. N[n].out = 0 => N[n].to = {}
  BY DEF Agree
<1>2. SUFFICES ASSUME N[n].from # NoLink PROVE N[n].in # 0
  BY <1>1
<1>3. [link |-> N[n].from.link, node |-> n] \in N[N[n].from.node].to
      /\ N[n].from.node \in Slots
  BY <1>2, FromTo
<1> DEFINE s == N[n].from.node
           l == [link |-> N[n].from.link, node |-> n]
<1>4. l.node = n /\ l \in N[s].to /\ s \in Slots
  BY <1>3
<1> HIDE DEF l, s
<1>5. N[l.node].in # 0
  BY <1>4 DEF Agree
<1> QED BY <1>4, <1>5

LEMMA KindFacts ==
  ASSUME NEW k \in Kinds
  PROVE  /\ k[1] \in 0 .. 1 /\ k[2] \in 0 .. 1
         /\ [k EXCEPT ![1] = 0] \in Kinds /\ [k EXCEPT ![1] = 1] \in Kinds
         /\ [k EXCEPT ![2] = 0] \in Kinds /\ [k EXCEPT ![2] = 1] \in Kinds
BY DEF Kinds

(* AddNode: the node and its pins get the next numbers. *)
LEMMA AddNodeKeeps ==
  ASSUME NEW f, Sound(f), NEW n \in Slots \ Live(f), NEW k \in Kinds
  PROVE  /\ Sound(AddNode(f, n, k)) /\ Tame(f, AddNode(f, n, k))
         /\ AddNode(f, n, k).order = Append(f.order, n)
         /\ AddNode(f, n, k).node[n].to = {} /\ AddNode(f, n, k).node[n].from = NoLink
         /\ f.next <= AddNode(f, n, k).node[n].id
         /\ f.next < AddNode(f, n, k).next
         /\ \A m \in Slots : m # n => AddNode(f, n, k).node[m] = f.node[m]
<1> DEFINE in == f.next
           out == in + k[1]
           id == out + k[2]
           r == [NoNode EXCEPT !.kind = k, !.id = id,
                               !.in = IF k[1] = 1 THEN in ELSE 0,
                               !.out = IF k[2] = 1 THEN out ELSE 0]
           order == Append(f.order, n)
           g == [f EXCEPT !.order = order, !.node[n] = r, !.next = id + 1]
           N == f.node
           M == g.node
<1>0. /\ f \in Flows /\ N \in Nodes /\ Agree(N) /\ Numbered(N, f.next) /\ Listed(f)
      /\ f.next \in Nat \ {0} /\ k[1] \in 0 .. 1 /\ k[2] \in 0 .. 1
      /\ f.order \in Seq(Slots)
  BY FlowFacts, KindFacts DEF Sound, Whole
<1>1. AddNode(f, n, k) = Changed(g)
  BY <1>0 DEF AddNode, Flows
<1>2. /\ r.kind = k /\ r.id = id /\ r.from = NoLink /\ r.to = {}
      /\ r.in = IF k[1] = 1 THEN in ELSE 0
      /\ r.out = IF k[2] = 1 THEN out ELSE 0
  BY DEF NoNode
<1>3. r \in NodeRecs
  <2>1. id \in Nat /\ r.in \in Nat /\ r.out \in Nat
    BY <1>0, <1>2
  <2>2. NoNode \in NodeRecs
    BY DEF NoNode, NodeRecs, NoLink, Kinds
  <2> DEFINE i == r.in
             o == r.out
  <2>3. r = [NoNode EXCEPT !.kind = k, !.id = id, !.in = i, !.out = o]
    BY <1>2 DEF NoNode
  <2> HIDE DEF id, r, i, o
  <2>4. i \in Nat /\ o \in Nat
    BY <2>1 DEF i, o
  <2> QED BY <2>1, <2>2, <2>3, <2>4 DEF NodeRecs
<1>4. id + 1 \in Nat \ {0} /\ f.next <= id /\ order \in Seq(Slots)
  BY <1>0
<1> HIDE DEF r
<1>5. /\ g \in Flows /\ g.order = order /\ g.next = id + 1 /\ M \in Nodes
      /\ M[n] = r /\ \A m \in Slots : m # n => M[m] = N[m]
      /\ SameClip(f, g) /\ g.clip = f.clip
  <2> DEFINE next == id + 1
  <2>1. /\ next \in Nat \ {0} /\ n \in Slots
        /\ g = Updated(f, order, n, r, next)
    BY <1>4 DEF Updated
  <2> HIDE DEF order, id, g, next
  <2>2. /\ g \in Flows /\ g.node \in Nodes /\ g.order = order /\ g.next = next
        /\ g.node[n] = r /\ \A m \in Slots : m # n => g.node[m] = f.node[m]
        /\ SameClip(f, g) /\ g.clip = f.clip
    BY <1>0, <1>3, <1>4, <2>1, UpdatedFacts
  <2> QED BY <2>2 DEF next
<1>6. N[n].id = 0 /\ N[n].to = {} /\ N[n].from = NoLink
  <2>1. N[n].id = 0
    BY <1>0 DEF Listed
  <2> HIDE DEF N
  <2> QED BY <1>0, <2>1, NoNumberNoLinks
<1>7. /\ Agree(M) /\ Numbered(M, id + 1)
      /\ Renumbered(N[n], M[n], f.next) /\ f.next <= r.id /\ f.next < id + 1
  <2>1. /\ r.id < id + 1 /\ r.in < id + 1 /\ r.out < id + 1
        /\ f.next <= r.id /\ (r.in = 0 \/ f.next <= r.in) /\ (r.out = 0 \/ f.next <= r.out)
        /\ r.in = r.out => r.in = 0
        /\ f.next < id + 1 /\ f.next <= id + 1 /\ id + 1 \in Nat
    BY <1>0, <1>2
  <2>2. M[n].to = N[n].to /\ M[n].from = N[n].from
    BY <1>2, <1>5, <1>6
  <2> DEFINE after == id + 1
  <2> HIDE DEF M, N, id, after
  <2>3. /\ M[n].id < after /\ M[n].in < after /\ M[n].out < after
        /\ Renumbered(N[n], M[n], f.next)
        /\ M[n].in = M[n].out => M[n].in = 0
        /\ after \in Nat /\ f.next <= after
    BY <1>5, <2>1 DEF after, Renumbered
  <2>4. Agree(M) /\ Numbered(M, after)
    BY <1>0, <1>5, <1>6, <2>2, <2>3, RenumberKeeps
  <2> QED BY <2>1, <2>3, <2>4 DEF after
<1>8. Whole(g)
  BY <1>5, <1>7 DEF Whole
<1>9. Listed(g)
  <2>1. /\ DOMAIN order = 1 .. Len(f.order) + 1 /\ DOMAIN f.order = 1 .. Len(f.order)
        /\ Len(f.order) \in Nat
        /\ order[Len(f.order) + 1] = n
        /\ \A i \in 1 .. Len(f.order) : order[i] = f.order[i]
    BY <1>0
  <2>2. \A i \in 1 .. Len(f.order) : f.order[i] # n
    BY <2>1 DEF Live
  <2>3. Live(g) = Live(f) \cup {n}
    <3> HIDE DEF order
    <3>1. Live(g) = {order[i] : i \in 1 .. Len(f.order) + 1}
      BY <1>5, <2>1 DEF Live
    <3>2. Live(f) = {f.order[i] : i \in 1 .. Len(f.order)}
      BY <2>1 DEF Live
    <3>3. 1 .. Len(f.order) + 1 = (1 .. Len(f.order)) \cup {Len(f.order) + 1}
      BY <2>1
    <3> QED BY <2>1, <3>1, <3>2, <3>3
  <2>4. \A i, j \in DOMAIN g.order : g.order[i] = g.order[j] => i = j
    <3>1. \A i, j \in 1 .. Len(f.order) : f.order[i] = f.order[j] => i = j
      BY <1>0, <2>1 DEF Listed
    <3> HIDE DEF order
    <3>2. \A i \in DOMAIN order : i \in 1 .. Len(f.order) \/ i = Len(f.order) + 1
      BY <2>1
    <3>3. ASSUME NEW i \in DOMAIN order, NEW j \in DOMAIN order, order[i] = order[j]
          PROVE  i = j
      BY <2>1, <2>2, <3>1, <3>2, <3>3
    <3> QED BY <1>5, <3>3
  <2>5. r.id # 0
    BY <1>0, <1>2
  <2>6. ASSUME NEW m \in Slots PROVE g.node[m].id = 0 <=> m \notin Live(g)
    <3>1. CASE m = n
      BY <1>5, <2>3, <2>5, <3>1
    <3>2. CASE m # n
      <4>1. f.node[m].id = 0 <=> m \notin Live(f)
        BY <1>0 DEF Listed
      <4> HIDE DEF g
      <4> QED BY <1>5, <2>3, <3>2, <4>1
    <3> QED BY <3>1, <3>2
  <2> QED BY <2>4, <2>6 DEF Listed
<1>10. Sound(Changed(g))
  <2> HIDE DEF g
  <2>1. Whole(Changed(g)) /\ SameNodes(g, Changed(g))
    BY <1>5, <1>8, ChangedKeeps, ChangedWhole DEF SameNodes, SameRest, SameClip
  <2> QED BY <1>9, <2>1, ListedSame DEF Sound
<1>11. /\ Changed(g) \in Flows /\ Changed(g).node = M /\ Changed(g).order = order
       /\ Changed(g).next = id + 1
  <2> HIDE DEF g, order, id
  <2> QED BY <1>5, ChangedKeeps DEF SameRest
<1>12. Tame(f, g)
  <2> HIDE DEF g, id, order
  <2>1. M[n].to = {} /\ M[n].from = NoLink
    BY <1>2, <1>5
  <2>2. f.next <= g.next
    BY <1>0, <1>4, <1>5, <1>7
  <2>3. Whole(f)
    BY DEF Sound
  <2> QED BY <1>5, <1>6, <1>7, <2>1, <2>2, <2>3, TameNode
<1>13. Tame(f, Changed(g))
  <2> HIDE DEF g
  <2> QED BY <1>0, <1>5, <1>11, <1>12, TameChanged, TameTwice
<1> HIDE DEF g, id, order
<1>14. M[n].to = {} /\ M[n].from = NoLink /\ f.next <= M[n].id
  BY <1>2, <1>5, <1>7
<1> QED BY <1>1, <1>5, <1>7, <1>10, <1>11, <1>13, <1>14 DEF order

(* A node of the list keeps its id and its links, its pins change. *)
LEMMA PinsKeep ==
  ASSUME NEW f, Sound(f), NEW n \in Live(f), NEW r \in NodeRecs, NEW after \in Nat,
         f.next <= after,
         r.id = f.node[n].id, r.to = f.node[n].to, r.from = f.node[n].from,
         r.in < after, r.out < after,
         r.in = 0 \/ r.in = f.node[n].in \/ f.next <= r.in,
         r.out = 0 \/ r.out = f.node[n].out \/ f.next <= r.out,
         r.in = r.out => r.in = 0,
         r.in = f.node[n].in \/ f.node[n].from = NoLink,
         r.out = f.node[n].out \/ f.node[n].to = {}
  PROVE  LET g == Updated(f, f.order, n, r, after)
         IN  /\ Sound(g) /\ Tame(f, g) /\ g.clip = f.clip /\ g.order = f.order
             /\ g.node[n] = r /\ g.next = after
             /\ \A m \in Slots : m # n => g.node[m] = f.node[m]
<1> DEFINE g == Updated(f, f.order, n, r, after)
           N == f.node
           M == g.node
<1>0. /\ f \in Flows /\ N \in Nodes /\ Agree(N) /\ Numbered(N, f.next) /\ Listed(f)
      /\ f.next \in Nat \ {0} /\ f.order \in Seq(Slots) /\ n \in Slots
  BY FlowFacts DEF Sound, Whole
<1>1. after \in Nat \ {0}
  BY <1>0
<1>2. /\ g \in Flows /\ M \in Nodes /\ g.order = f.order /\ g.next = after
      /\ M[n] = r /\ \A m \in Slots : m # n => M[m] = N[m]
      /\ SameClip(f, g) /\ g.clip = f.clip
  BY <1>0, <1>1, UpdatedFacts
<1>3. N[n].id # 0 /\ N[n].id < f.next /\ N[n].id \in Nat
  <2>1. N[n].id # 0
    BY <1>0 DEF Listed
  <2>2. N[n].id < f.next /\ N[n].id \in Nat
    BY <1>0, NodeFacts DEF Numbered
  <2> QED BY <2>1, <2>2
<1>4. r.id # 0 /\ r.id < after
  BY <1>0, <1>3
<1>5. Agree(M) /\ Numbered(M, after)
  <2>1. /\ M[n].to = N[n].to /\ M[n].from = N[n].from
        /\ M[n].id < after /\ M[n].in < after /\ M[n].out < after
        /\ Renumbered(N[n], M[n], f.next)
        /\ M[n].in = M[n].out => M[n].in = 0
        /\ M[n].id # 0
        /\ M[n].in = N[n].in \/ N[n].from = NoLink
        /\ M[n].out = N[n].out \/ N[n].to = {}
    BY <1>2, <1>4 DEF Renumbered
  <2> HIDE DEF M, N
  <2>2. /\ M[n].out = 0 => N[n].to = {}
        /\ M[n].in = 0 => N[n].from = NoLink
    BY <1>0, <2>1, NoPinNoLinks
  <2> QED BY <1>0, <1>2, <2>1, <2>2, RenumberKeeps
<1>6. Whole(g)
  BY <1>2, <1>5 DEF Whole
<1>7. SameNodes(f, g)
  BY <1>2 DEF SameNodes
<1>8. Sound(g)
  BY <1>0, <1>6, <1>7, ListedSame DEF Sound
<1>9. Tame(f, g)
  <2>1. Renumbered(N[n], M[n], f.next)
    BY <1>2 DEF Renumbered
  <2>2. /\ M[n].to = N[n].to /\ M[n].from = N[n].from
        /\ M[n].in = N[n].in \/ N[n].from = NoLink
        /\ M[n].out = N[n].out \/ N[n].to = {}
    BY <1>2
  <2>3. Whole(f) /\ f.next <= g.next
    BY <1>2 DEF Sound
  <2> HIDE DEF g
  <2> QED BY <1>0, <1>2, <2>1, <2>2, <2>3, TameNode
<1> QED BY <1>2, <1>8, <1>9

LEMMA SoundChanged ==
  ASSUME NEW f, Sound(f)
  PROVE  Sound(Changed(f))
<1>1. Whole(Changed(f)) /\ SameNodes(f, Changed(f))
  BY ChangedKeeps, ChangedWhole DEF Sound, Whole, SameNodes, SameRest, SameClip
<1> QED BY <1>1, ListedSame DEF Sound

LEMMA CreatePinKeeps ==
  ASSUME NEW f, Sound(f), NEW n \in Live(f)
  PROVE  /\ f.node[n].in = 0 => /\ Sound(CreateInputPin(f, n))
                                /\ Tame(f, CreateInputPin(f, n))
         /\ f.node[n].out = 0 => /\ Sound(CreateOutputPin(f, n))
                                 /\ Tame(f, CreateOutputPin(f, n))
<1> DEFINE N == f.node
           next == f.next
           in == [N[n] EXCEPT !.kind = [N[n].kind EXCEPT ![1] = 1], !.in = next]
           out == [N[n] EXCEPT !.kind = [N[n].kind EXCEPT ![2] = 1], !.out = next]
<1>0. /\ f \in Flows /\ N \in Nodes /\ Agree(N) /\ Numbered(N, next) /\ next \in Nat \ {0}
      /\ n \in Slots
  BY FlowFacts DEF Sound, Whole
<1>1. /\ N[n] \in NodeRecs /\ N[n].kind \in Kinds
      /\ N[n].in \in Nat /\ N[n].in < next /\ N[n].out \in Nat /\ N[n].out < next
  BY <1>0, NodeFacts DEF Numbered
<1>2. /\ in \in NodeRecs /\ in.id = N[n].id /\ in.to = N[n].to /\ in.from = N[n].from
      /\ in.in = next /\ in.out = N[n].out
  <2> DEFINE x == N[n]
             k == [x.kind EXCEPT ![1] = 1]
  <2>1. k \in Kinds
    <3> DEFINE old == x.kind
    <3>1. old \in Kinds
      BY <1>1
    <3> HIDE DEF old
    <3> QED BY <3>1, KindFacts DEF old
  <2> HIDE DEF x, k, next
  <2>2. x \in NodeRecs /\ next \in Nat
    BY <1>0, <1>1 DEF x
  <2>3. [x EXCEPT !.kind = k, !.in = next] \in NodeRecs
    BY <2>1, <2>2 DEF NodeRecs
  <2> QED BY <2>2, <2>3 DEF NodeRecs, x, k
<1>3. /\ out \in NodeRecs /\ out.id = N[n].id /\ out.to = N[n].to /\ out.from = N[n].from
      /\ out.in = N[n].in /\ out.out = next
  <2> DEFINE x == N[n]
             k == [x.kind EXCEPT ![2] = 1]
  <2>1. k \in Kinds
    <3> DEFINE old == x.kind
    <3>1. old \in Kinds
      BY <1>1
    <3> HIDE DEF old
    <3> QED BY <3>1, KindFacts DEF old
  <2> HIDE DEF x, k, next
  <2>2. x \in NodeRecs /\ next \in Nat
    BY <1>0, <1>1 DEF x
  <2>3. [x EXCEPT !.kind = k, !.out = next] \in NodeRecs
    BY <2>1, <2>2 DEF NodeRecs
  <2> QED BY <2>2, <2>3 DEF NodeRecs, x, k
<1>4. CreateInputPin(f, n) = Changed(Updated(f, f.order, n, in, next + 1))
  <2>1. [f EXCEPT !.node[n].kind[1] = 1, !.node[n].in = f.next, !.next = @ + 1]
          = Updated(f, f.order, n, in, next + 1)
    BY <1>0, <1>1 DEF Updated, Flows, Nodes, NodeRecs
  <2> QED BY <2>1 DEF CreateInputPin
<1>5. CreateOutputPin(f, n) = Changed(Updated(f, f.order, n, out, next + 1))
  <2>1. [f EXCEPT !.node[n].kind[2] = 1, !.node[n].out = f.next, !.next = @ + 1]
          = Updated(f, f.order, n, out, next + 1)
    BY <1>0, <1>1 DEF Updated, Flows, Nodes, NodeRecs
  <2> QED BY <2>1 DEF CreateOutputPin
<1> HIDE DEF in, out
<1>6. ASSUME N[n].in = 0
      PROVE  /\ Sound(Updated(f, f.order, n, in, next + 1))
             /\ Tame(f, Updated(f, f.order, n, in, next + 1))
  <2>1. /\ next <= next + 1 /\ next + 1 \in Nat
        /\ in.in < next + 1 /\ in.out < next + 1 /\ next <= in.in
        /\ in.in = in.out => in.in = 0
    BY <1>0, <1>1, <1>2
  <2>2. N[n].from = NoLink
    BY <1>0, <1>6, NoPinNoLinks
  <2> QED BY <1>2, <2>1, <2>2, PinsKeep
<1>7. ASSUME N[n].out = 0
      PROVE  /\ Sound(Updated(f, f.order, n, out, next + 1))
             /\ Tame(f, Updated(f, f.order, n, out, next + 1))
  <2>1. /\ next <= next + 1 /\ next + 1 \in Nat
        /\ out.in < next + 1 /\ out.out < next + 1 /\ next <= out.out
        /\ out.in = out.out => out.in = 0
    BY <1>0, <1>1, <1>3
  <2>2. N[n].to = {}
    BY <1>0, <1>7, NoPinNoLinks
  <2> QED BY <1>3, <2>1, <2>2, PinsKeep
<1>8. ASSUME NEW g, Sound(g), Tame(f, g)
      PROVE  Sound(Changed(g)) /\ Tame(f, Changed(g))
  <2>1. g \in Flows /\ Changed(g) \in Flows
    BY <1>8, ChangedKeeps DEF Sound, Whole
  <2> QED BY <1>0, <1>8, <2>1, SoundChanged, TameChanged, TameTwice
<1> QED BY <1>4, <1>5, <1>6, <1>7, <1>8

LEMMA SoundFewer ==
  ASSUME NEW f, Sound(f), NEW g, Fewer(f, g)
  PROVE  Sound(g) /\ Live(g) = Live(f)
BY FewerSame, ListedSame DEF Sound, SameNodes, Live

NoInput(f, n) == [f EXCEPT !.node[n].kind[1] = 0, !.node[n].in = 0]
NoOutput(f, n) == [f EXCEPT !.node[n].kind[2] = 0, !.node[n].out = 0]

LEMMA DropPinKeeps ==
  ASSUME NEW f, Sound(f), NEW n \in Live(f)
  PROVE  /\ f.node[n].from = NoLink => Sound(NoInput(f, n)) /\ Tame(f, NoInput(f, n))
         /\ f.node[n].to = {} => Sound(NoOutput(f, n)) /\ Tame(f, NoOutput(f, n))
<1> DEFINE N == f.node
           next == f.next
           in == [N[n] EXCEPT !.kind = [N[n].kind EXCEPT ![1] = 0], !.in = 0]
           out == [N[n] EXCEPT !.kind = [N[n].kind EXCEPT ![2] = 0], !.out = 0]
<1>0. /\ f \in Flows /\ N \in Nodes /\ Numbered(N, next) /\ next \in Nat \ {0}
      /\ n \in Slots
  BY FlowFacts DEF Sound, Whole
<1>1. /\ N[n] \in NodeRecs /\ N[n].kind \in Kinds
      /\ N[n].in \in Nat /\ N[n].in < next /\ N[n].out \in Nat /\ N[n].out < next
      /\ N[n].in = N[n].out => N[n].in = 0
  BY <1>0, NodeFacts DEF Numbered
<1>2. /\ in \in NodeRecs /\ in.id = N[n].id /\ in.to = N[n].to /\ in.from = N[n].from
      /\ in.in = 0 /\ in.out = N[n].out
  <2> DEFINE x == N[n]
             k == [x.kind EXCEPT ![1] = 0]
  <2>1. k \in Kinds
    <3> DEFINE old == x.kind
    <3>1. old \in Kinds
      BY <1>1
    <3> HIDE DEF old
    <3> QED BY <3>1, KindFacts DEF old
  <2> HIDE DEF x, k, next
  <2>2. x \in NodeRecs
    BY <1>0, <1>1 DEF x
  <2>3. [x EXCEPT !.kind = k, !.in = 0] \in NodeRecs
    BY <2>1, <2>2 DEF NodeRecs
  <2> QED BY <2>2, <2>3 DEF NodeRecs, x, k
<1>3. /\ out \in NodeRecs /\ out.id = N[n].id /\ out.to = N[n].to /\ out.from = N[n].from
      /\ out.in = N[n].in /\ out.out = 0
  <2> DEFINE x == N[n]
             k == [x.kind EXCEPT ![2] = 0]
  <2>1. k \in Kinds
    <3> DEFINE old == x.kind
    <3>1. old \in Kinds
      BY <1>1
    <3> HIDE DEF old
    <3> QED BY <3>1, KindFacts DEF old
  <2> HIDE DEF x, k, next
  <2>2. x \in NodeRecs
    BY <1>0, <1>1 DEF x
  <2>3. [x EXCEPT !.kind = k, !.out = 0] \in NodeRecs
    BY <2>1, <2>2 DEF NodeRecs
  <2> QED BY <2>2, <2>3 DEF NodeRecs, x, k
<1>4. NoInput(f, n) = Updated(f, f.order, n, in, next)
  BY <1>0, <1>1 DEF NoInput, Updated, Flows, Nodes, NodeRecs
<1>5. NoOutput(f, n) = Updated(f, f.order, n, out, next)
  BY <1>0, <1>1 DEF NoOutput, Updated, Flows, Nodes, NodeRecs
<1> HIDE DEF in, out
<1>6. ASSUME N[n].from = NoLink
      PROVE  /\ Sound(Updated(f, f.order, n, in, next))
             /\ Tame(f, Updated(f, f.order, n, in, next))
  BY <1>0, <1>1, <1>2, <1>6, PinsKeep
<1>7. ASSUME N[n].to = {}
      PROVE  /\ Sound(Updated(f, f.order, n, out, next))
             /\ Tame(f, Updated(f, f.order, n, out, next))
  <2>1. /\ next <= next /\ next \in Nat /\ out.in < next /\ out.out < next
        /\ out.in = out.out => out.in = 0
        /\ out.in = N[n].in /\ out.out = 0
    BY <1>0, <1>1, <1>3
  <2> QED BY <1>3, <1>7, <2>1, PinsKeep
<1> QED BY <1>4, <1>5, <1>6, <1>7

LEMMA DeletePinKeeps ==
  ASSUME NEW f, Sound(f), NEW n \in Live(f)
  PROVE  /\ Sound(DeleteInputPin(f, n)) /\ Tame(f, DeleteInputPin(f, n))
         /\ Sound(DeleteOutputPin(f, n)) /\ Tame(f, DeleteOutputPin(f, n))
<1>1. Whole(f) /\ n \in Slots /\ f \in Flows
  BY FlowFacts DEF Sound, Whole
<1>2. /\ Sound(Unlinked(f, n)) /\ n \in Live(Unlinked(f, n)) /\ Tame(f, Unlinked(f, n))
      /\ Unlinked(f, n).node[n].from = NoLink
  BY <1>1, UnlinkedKeeps, SoundFewer, TameFewer
<1>3. /\ Sound(DeleteLinks(f, n)) /\ n \in Live(DeleteLinks(f, n))
      /\ Tame(f, DeleteLinks(f, n)) /\ DeleteLinks(f, n).node[n].to = {}
  BY <1>1, DeleteLinksKeeps, SoundFewer, TameFewer
<1>4. DeleteInputPin(f, n) = NoInput(Unlinked(f, n), n)
  BY DEF DeleteInputPin, NoInput, Unlinked
<1>5. DeleteOutputPin(f, n) = NoOutput(DeleteLinks(f, n), n)
  BY DEF DeleteOutputPin, NoOutput
<1>6. ASSUME NEW g, NEW h, Sound(g), Tame(f, g), Sound(h), Tame(g, h)
      PROVE  Tame(f, h)
  <2>1. g \in Flows /\ h \in Flows
    BY <1>6 DEF Sound, Whole
  <2> QED BY <1>1, <1>6, <2>1, TameTwice
<1>7. Sound(DeleteInputPin(f, n)) /\ Tame(Unlinked(f, n), DeleteInputPin(f, n))
  BY <1>2, <1>4, DropPinKeeps
<1>8. Sound(DeleteOutputPin(f, n)) /\ Tame(DeleteLinks(f, n), DeleteOutputPin(f, n))
  BY <1>3, <1>5, DropPinKeeps
<1> QED BY <1>2, <1>3, <1>6, <1>7, <1>8

(* m_nodes.erase. *)
LEMMA ErasedFacts ==
  ASSUME NEW S, NEW order \in Seq(S), NEW p \in 1 .. Len(order),
         \A i, j \in DOMAIN order : order[i] = order[j] => i = j
  PROVE  /\ Erased(order, p) \in Seq(S)
         /\ \A i, j \in DOMAIN Erased(order, p) :
              Erased(order, p)[i] = Erased(order, p)[j] => i = j
         /\ {Erased(order, p)[i] : i \in DOMAIN Erased(order, p)}
              = {order[i] : i \in DOMAIN order} \ {order[p]}
<1> DEFINE n == Len(order)
           a == SubSeq(order, 1, p - 1)
           b == SubSeq(order, p + 1, n)
           e == Erased(order, p)
           At(i) == IF i < p THEN i ELSE i + 1
<1>0. n \in Nat /\ p \in Nat /\ 1 <= p /\ p <= n /\ DOMAIN order = 1 .. n
      /\ \A i \in 1 .. n : order[i] \in S
  OBVIOUS
<1>1. /\ a \in Seq(S) /\ Len(a) = p - 1
      /\ \A i \in 1 .. p - 1 : a[i] = order[i]
  BY <1>0
<1>2. /\ b \in Seq(S) /\ Len(b) = n - p
      /\ \A i \in 1 .. n - p : b[i] = order[p + i]
  <2>1. p + 1 \in Int /\ n \in Int /\ \A i \in p + 1 .. n : order[i] \in S
    BY <1>0
  <2>2. /\ b \in Seq(S) /\ Len(b) = IF p + 1 <= n THEN n - (p + 1) + 1 ELSE 0
        /\ \A i \in 1 .. n - (p + 1) + 1 : b[i] = order[(p + 1) + i - 1]
    <3> HIDE DEF n
    <3> QED BY <2>1, SubSeqProperties
  <2> HIDE DEF b, n
  <2>3. Len(b) = n - p
    BY <1>0, <2>2
  <2>4. ASSUME NEW i \in 1 .. n - p PROVE b[i] = order[p + i]
    <3>1. i \in 1 .. n - (p + 1) + 1 /\ (p + 1) + i - 1 = p + i
      BY <1>0
    <3> QED BY <2>2, <3>1
  <2> QED BY <2>2, <2>3, <2>4
<1>3. /\ e \in Seq(S) /\ Len(e) = n - 1 /\ DOMAIN e = 1 .. n - 1
      /\ \A i \in 1 .. p - 1 : e[i] = a[i]
      /\ \A i \in p .. n - 1 : e[i] = b[i - (p - 1)]
  <2>1. e = a \o b
    BY DEF Erased
  <2> HIDE DEF a, b, e, n
  <2>2. e \in Seq(S) /\ Len(e) = (p - 1) + (n - p)
    BY <1>1, <1>2, <2>1, ConcatProperties
  <2>3. Len(e) = n - 1 /\ DOMAIN e = 1 .. n - 1
    BY <1>0, <2>2
  <2>4. ASSUME NEW i \in 1 .. p - 1 PROVE e[i] = a[i]
    BY <1>0, <1>1, <1>2, <2>1
  <2>5. ASSUME NEW i \in p .. n - 1 PROVE e[i] = b[i - (p - 1)]
    BY <1>0, <1>1, <1>2, <2>1
  <2> QED BY <2>2, <2>3, <2>4, <2>5
<1> HIDE DEF a, b, e, n
<1>4. ASSUME NEW i \in 1 .. n - 1 PROVE At(i) \in 1 .. n /\ At(i) # p /\ e[i] = order[At(i)]
  <2>1. CASE i < p
    <3>1. i \in 1 .. p - 1
      BY <1>0, <2>1
    <3> QED BY <1>0, <1>1, <1>3, <2>1, <3>1
  <2>2. CASE ~(i < p)
    <3>1. i \in p .. n - 1 /\ i - (p - 1) \in 1 .. n - p /\ p + (i - (p - 1)) = i + 1
      BY <1>0, <2>2
    <3>2. e[i] = order[i + 1]
      BY <1>2, <1>3, <3>1
    <3> QED BY <1>0, <2>2, <3>1, <3>2
  <2> QED BY <2>1, <2>2
<1>5. ASSUME NEW i \in 1 .. n - 1, NEW j \in 1 .. n - 1, e[i] = e[j] PROVE i = j
  <2> DEFINE x == At(i)
             y == At(j)
  <2>1. order[x] = order[y] /\ x \in 1 .. n /\ y \in 1 .. n
    BY <1>4, <1>5
  <2>2. x = y
    <3> HIDE DEF x, y
    <3> QED BY <1>0, <2>1
  <2> QED BY <1>0, <2>2
<1>6. ASSUME NEW i \in 1 .. n - 1 PROVE e[i] \in {order[j] : j \in 1 .. n} \ {order[p]}
  <2> DEFINE x == At(i)
  <2>1. x \in 1 .. n /\ x # p /\ e[i] = order[x]
    BY <1>4
  <2> HIDE DEF x
  <2> QED BY <1>0, <2>1
<1>7. ASSUME NEW j \in 1 .. n, order[j] # order[p]
      PROVE  \E i \in 1 .. n - 1 : e[i] = order[j]
  <2>1. j # p
    BY <1>7
  <2>2. CASE j < p
    <3>1. j \in 1 .. n - 1
      BY <1>0, <2>2
    <3> QED BY <1>4, <2>2, <3>1
  <2>3. CASE j > p
    <3>1. j - 1 \in 1 .. n - 1 /\ ~(j - 1 < p) /\ (j - 1) + 1 = j
      BY <1>0, <2>3
    <3> QED BY <1>4, <3>1
  <2> QED BY <1>0, <2>1, <2>2, <2>3
<1>8. {e[i] : i \in 1 .. n - 1} = {order[i] : i \in 1 .. n} \ {order[p]}
  BY <1>6, <1>7
<1> QED BY <1>0, <1>3, <1>5, <1>8 DEF e

(* Ids are unique: the first node with the id of n is n. *)
LEMMA FindsNode ==
  ASSUME NEW f, Sound(f), NEW n \in Live(f)
  PROVE  LET p == Place(f, f.node[n].id)
         IN  p \in DOMAIN f.order /\ f.order[p] = n
<1> DEFINE id == f.node[n].id
           First(i) == /\ f.node[f.order[i]].id = id
                       /\ \A j \in 1 .. i - 1 : f.node[f.order[j]].id # id
           p == Place(f, id)
<1>0. /\ f \in Flows /\ f.node \in Nodes /\ Numbered(f.node, f.next) /\ Listed(f)
      /\ f.order \in Seq(Slots) /\ n \in Slots
  BY FlowFacts DEF Sound, Whole
<1>1. id # 0
  BY <1>0 DEF Listed
<1>2. \A i \in DOMAIN f.order : f.order[i] \in Slots
  BY <1>0
<1>3. \A i \in DOMAIN f.order : f.node[f.order[i]].id = id => f.order[i] = n
  BY <1>0, <1>1, <1>2 DEF Numbered
<1>4. PICK k \in DOMAIN f.order : f.order[k] = n
  BY DEF Live
<1>5. First(k)
  <2>1. SUFFICES ASSUME NEW j \in 1 .. k - 1, f.node[f.order[j]].id = id PROVE FALSE
    BY <1>4
  <2>2. j \in DOMAIN f.order /\ j # k
    BY <1>0
  <2>3. f.order[j] = f.order[k]
    BY <1>3, <1>4, <2>1, <2>2
  <2> QED BY <1>0, <2>2, <2>3 DEF Listed
<1>6. p \in DOMAIN f.order /\ First(p)
  <2>1. p = CHOOSE i \in DOMAIN f.order : First(i)
    BY DEF Place
  <2> HIDE DEF First, p
  <2> QED BY <1>5, <2>1
<1>7. p \in DOMAIN f.order /\ f.order[p] = n
  <2> HIDE DEF p
  <2> QED BY <1>3, <1>6
<1> QED BY <1>7

LEMMA OrderSet ==
  ASSUME NEW f, Whole(f), NEW order \in Seq(Slots)
  PROVE  /\ Whole([f EXCEPT !.order = order])
         /\ [f EXCEPT !.order = order].order = order
         /\ [f EXCEPT !.order = order].node = f.node
         /\ Tame(f, [f EXCEPT !.order = order])
<1> DEFINE g == [f EXCEPT !.order = order]
<1>1. /\ f \in Flows /\ Agree(f.node) /\ Numbered(f.node, f.next)
  BY DEF Whole
<1>2. /\ g \in Flows /\ g.order = order /\ g.node = f.node /\ g.next = f.next
      /\ SameClip(f, g) /\ g.clip = f.clip /\ f.next \in Nat
  BY <1>1 DEF Flows, SameClip
<1> HIDE DEF g
<1>3. Whole(g)
  BY <1>1, <1>2 DEF Whole
<1>4. AllTexts(g) = AllTexts(f)
  BY <1>2 DEF AllTexts, LinksOf, LinkTexts
<1>5. Tame(f, g)
  BY <1>2, <1>4 DEF Tame, Renumbered
<1> QED BY <1>2, <1>3, <1>5 DEF g

(* DeleteNode: the node and its links are gone, the others are as before. *)
LEMMA DeleteNodeKeeps ==
  ASSUME NEW f, Sound(f), NEW n \in Live(f)
  PROVE  /\ Sound(DeleteNode(f, f.node[n].id))
         /\ Live(DeleteNode(f, f.node[n].id)) = Live(f) \ {n}
         /\ \A m \in Slots : m # n => SameBody(f.node, DeleteNode(f, f.node[n].id).node, m)
         /\ DeleteNode(f, f.node[n].id).node[n] = NoNode
         /\ Tame(f, DeleteNode(f, f.node[n].id))
<1> DEFINE id == f.node[n].id
           p == Place(f, id)
           order == Erased(f.order, p)
           g == [f EXCEPT !.order = order]
           h == Unlinked(g, n)
           d == DeleteLinks(h, n)
           x == Updated(d, order, n, NoNode, d.next)
<1>0. /\ f \in Flows /\ Listed(f) /\ Whole(f)
      /\ f.order \in Seq(Slots) /\ n \in Slots
  BY FlowFacts DEF Sound, Whole
<1>1. p \in DOMAIN f.order /\ f.order[p] = n
  BY FindsNode
<1>2. /\ order \in Seq(Slots)
      /\ \A i, j \in DOMAIN order : order[i] = order[j] => i = j
      /\ {order[i] : i \in DOMAIN order} = Live(f) \ {n}
  <2>1. /\ p \in 1 .. Len(f.order)
        /\ \A i, j \in DOMAIN f.order : f.order[i] = f.order[j] => i = j
    BY <1>0, <1>1 DEF Listed
  <2> HIDE DEF p
  <2> QED BY <1>0, <1>1, <2>1, ErasedFacts DEF Live
<1>3. FindNode(f, id) = n
  BY <1>1 DEF FindNode
<1>4. DeleteNode(f, id) = Changed([d EXCEPT !.node[n] = NoNode])
  <2>1. DeleteNode(f, id)
          = LET s == g.node[n].from.node
                y == IF s = 0 THEN g ELSE DeleteLink(g, s, n)
            IN  Changed([DeleteLinks(y, n) EXCEPT !.node[n] = NoNode])
    BY <1>3 DEF DeleteNode
  <2> QED BY <2>1 DEF Unlinked
<1> HIDE DEF order
<1>5. Whole(g) /\ g.order = order /\ g.node = f.node /\ Tame(f, g)
  BY <1>0, <1>2, OrderSet
<1> HIDE DEF g
<1>6. Fewer(g, h) /\ h.node[n].from = NoLink
  BY <1>0, <1>5, UnlinkedKeeps
<1> HIDE DEF h
<1>7. Fewer(h, d) /\ d.node[n].to = {}
  BY <1>0, <1>6, DeleteLinksKeeps DEF Fewer
<1> HIDE DEF d
<1>8. Fewer(g, d) /\ d.node[n].to = {} /\ d.node[n].from = NoLink
  <2>1. d.node[n].from \in {h.node[n].from, NoLink}
    BY <1>0, <1>7 DEF Fewer
  <2> QED BY <1>6, <1>7, <2>1, FewerTwice
<1>9. /\ d \in Flows /\ d.node \in Nodes /\ Agree(d.node) /\ Numbered(d.node, d.next)
      /\ d.next \in Nat \ {0} /\ d.order = order
      /\ \A m \in Slots : SameBody(f.node, d.node, m)
  BY <1>5, <1>8, FlowFacts DEF Fewer, Whole, SameRest, SameClip
<1>10. NoNode \in NodeRecs
  BY DEF NoNode, NodeRecs, NoLink, Kinds
<1>11. /\ x \in Flows /\ x.node \in Nodes /\ x.order = order /\ x.next = d.next
       /\ x.node[n] = NoNode /\ \A m \in Slots : m # n => x.node[m] = d.node[m]
       /\ SameClip(d, x) /\ x.clip = d.clip
  BY <1>0, <1>2, <1>9, <1>10, UpdatedFacts
<1>12. [d EXCEPT !.node[n] = NoNode] = x
  BY <1>9 DEF Updated, Flows
<1> HIDE DEF x
<1>13. Agree(x.node) /\ Numbered(x.node, d.next)
  <2> DEFINE N == d.node
             M == x.node
             next == d.next
  <2>1. /\ M[n].to = N[n].to /\ M[n].from = N[n].from
        /\ M[n].id = 0 /\ M[n].in = 0 /\ M[n].out = 0
        /\ N[n].to = {} /\ N[n].from = NoLink
    BY <1>8, <1>11 DEF NoNode
  <2>2. /\ next \in Nat \ {0} /\ next \in Nat /\ next <= next
        /\ M[n].id < next /\ M[n].in < next /\ M[n].out < next
        /\ Renumbered(N[n], M[n], next)
    BY <1>9, <2>1 DEF Renumbered
  <2>3. /\ N \in Nodes /\ M \in Nodes /\ Agree(N) /\ Numbered(N, next)
        /\ \A m \in Slots : m # n => M[m] = N[m]
    BY <1>9, <1>11
  <2> HIDE DEF N, M, next
  <2>4. Agree(M) /\ Numbered(M, next)
    BY <1>0, <2>1, <2>2, <2>3, RenumberKeeps
  <2> QED BY <2>4 DEF M, next
<1>14. Whole(x)
  BY <1>11, <1>13 DEF Whole
<1>15. Live(x) = Live(f) \ {n}
  BY <1>2, <1>11 DEF Live
<1>16. \A m \in Slots : m # n => SameBody(f.node, x.node, m)
  BY <1>9, <1>11 DEF SameBody
<1>17. Listed(x)
  <2>1. ASSUME NEW m \in Slots PROVE x.node[m].id = 0 <=> m \notin Live(x)
    <3>1. CASE m = n
      BY <1>11, <1>15, <3>1 DEF NoNode
    <3>2. CASE m # n
      BY <1>0, <1>15, <1>16, <3>2 DEF Listed, SameBody
    <3> QED BY <3>1, <3>2
  <2> QED BY <1>2, <1>11, <2>1 DEF Listed
<1>18. Sound(Changed(x))
  BY <1>14, <1>17, SoundChanged DEF Sound
<1>19. /\ Changed(x).node = x.node /\ Live(Changed(x)) = Live(x) /\ Changed(x) \in Flows
  BY <1>11, ChangedKeeps DEF SameRest, SameClip, Live
<1>20. Tame(d, x)
  <2>1. x.node[n].to = d.node[n].to /\ x.node[n].from = d.node[n].from
    BY <1>8, <1>11 DEF NoNode
  <2>2. Renumbered(d.node[n], x.node[n], d.next)
    BY <1>11 DEF NoNode, Renumbered
  <2>3. Whole(d) /\ d.next <= x.next
    BY <1>8, <1>9, <1>11 DEF Fewer
  <2> QED BY <1>0, <1>8, <1>11, <2>1, <2>2, <2>3, TameNode
<1>21. Tame(g, d) /\ g \in Flows
  BY <1>5, <1>8, TameFewer DEF Whole
<1>22. Tame(f, d)
  BY <1>0, <1>5, <1>9, <1>21, TameTwice
<1>23. Tame(f, x)
  BY <1>0, <1>9, <1>11, <1>20, <1>22, TameTwice
<1>24. Tame(f, Changed(x))
  BY <1>0, <1>11, <1>19, <1>23, TameChanged, TameTwice
<1> QED BY <1>4, <1>11, <1>12, <1>15, <1>16, <1>18, <1>19, <1>24

-------------------------------------------------------------------------------
(* What is kept for the next paste.                                            *)

LEMMA KnownFewer ==
  ASSUME NEW f \in Flows, NEW g \in Flows, Known(f), AllTexts(g) \subseteq AllTexts(f),
         g.clip.nodes = f.clip.nodes, f.next <= g.next
  PROVE  Known(g)
<1>1. f.next \in Nat /\ g.next \in Nat /\ \A t \in f.clip.nodes : t.id \in Nat
  BY FlowFacts DEF NodeTexts
<1>2. \A t \in AllTexts(f) : t.id \in Nat
  <2>1. AllTexts(f) \subseteq LinkTextSet
    BY FlowFacts, TextFacts DEF AllTexts, LinksOf
  <2> QED BY <2>1 DEF LinkTextSet
<1> QED BY <1>1, <1>2 DEF Known

LEMMA UnusedStays ==
  ASSUME NEW f \in Flows, NEW g \in Flows, NEW T \in SUBSET NodeTexts, Unused(f, T),
         f.next <= g.next, \A n \in Slots : Renumbered(f.node[n], g.node[n], f.next)
  PROVE  Unused(g, T)
<1>1. f.next \in Nat /\ g.next \in Nat
  BY FlowFacts
<1>2. ASSUME NEW t \in T
      PROVE  /\ t.id # 0 /\ t.id < g.next /\ t.in < g.next /\ t.out < g.next
             /\ \A n \in Slots : t.id # g.node[n].id
             /\ Vacant(g.node, t.in) /\ Vacant(g.node, t.out)
             /\ t.in = t.out => t.in = 0
  <2>1. t.id \in Nat /\ t.in \in Nat /\ t.out \in Nat
    BY DEF NodeTexts
  <2>2. /\ t.id # 0 /\ t.id < f.next /\ t.in < f.next /\ t.out < f.next
        /\ \A n \in Slots : t.id # f.node[n].id
        /\ Vacant(f.node, t.in) /\ Vacant(f.node, t.out)
        /\ t.in = t.out => t.in = 0
    BY DEF Unused
  <2>3. t.id < g.next /\ t.in < g.next /\ t.out < g.next
    BY <1>1, <2>1, <2>2
  <2>4. ASSUME NEW n \in Slots
        PROVE  /\ t.id # g.node[n].id
               /\ t.in # 0 => t.in # g.node[n].in /\ t.in # g.node[n].out
               /\ t.out # 0 => t.out # g.node[n].in /\ t.out # g.node[n].out
    <3>1. g.node[n].id \in Nat /\ g.node[n].in \in Nat /\ g.node[n].out \in Nat
      BY FlowFacts, NodeFacts
    <3>2. Renumbered(f.node[n], g.node[n], f.next)
      OBVIOUS
    <3>3. /\ t.id # f.node[n].id
          /\ t.in # 0 => t.in # f.node[n].in /\ t.in # f.node[n].out
          /\ t.out # 0 => t.out # f.node[n].in /\ t.out # f.node[n].out
      BY <2>2 DEF Vacant
    <3> QED BY <1>1, <2>1, <2>2, <3>1, <3>2, <3>3 DEF Renumbered
  <2> QED BY <2>2, <2>3, <2>4 DEF Vacant
<1> QED BY <1>2 DEF Unused

LEMMA TameCopied ==
  ASSUME NEW f \in Flows, NEW g \in Flows, Tame(f, g)
  PROVE  /\ Known(f) => Known(g)
         /\ \A T \in SUBSET NodeTexts : Unused(f, T) => Unused(g, T)
         /\ Copied(f) => Copied(g)
<1>1. Known(f) => Known(g)
  BY KnownFewer DEF Tame, SameClip
<1>2. \A T \in SUBSET NodeTexts : Unused(f, T) => Unused(g, T)
  BY UnusedStays DEF Tame
<1>3. f.clip.nodes \in SUBSET NodeTexts
  BY FlowFacts
<1> QED BY <1>1, <1>2, <1>3 DEF Copied, Tame, SameClip

(* A new link has a number that no text knows yet. *)
LEMMA LinkCopied ==
  ASSUME NEW f, Whole(f), NEW s \in Slots, NEW e \in Slots,
         f.node[e].from = NoLink, f.node[s].id # 0, f.node[e].id # 0
  PROVE  /\ Known(f) => Known(CreateLink(f, s, e, 0))
         /\ Copied(f) => Copied(CreateLink(f, s, e, 0))
<1> DEFINE g == CreateLink(f, s, e, 0)
           new == [id |-> f.next, start |-> f.node[s].out, end |-> f.node[e].in]
<1>1. CASE g = f
  BY <1>1
<1>2. CASE g # f
  <2>1. /\ Whole(g) /\ SameClip(f, g) /\ \A n \in Slots : SameBody(f.node, g.node, n)
        /\ g.next = f.next + 1 /\ AllTexts(g) \subseteq AllTexts(f) \cup {new}
    BY <1>2, CreateLinkKeeps
  <2> HIDE DEF g
  <2>2. f \in Flows /\ g \in Flows /\ f.next \in Nat /\ f.next <= g.next /\ f.next # 0
    BY <2>1, FlowFacts DEF Whole
  <2>3. Known(f) => Known(g)
    <3>1. SUFFICES ASSUME Known(f) PROVE Known(g)
      OBVIOUS
    <3>2. AllTexts(f) \subseteq LinkTextSet
      BY <2>2, FlowFacts, TextFacts DEF AllTexts, LinksOf
    <3>3. \A t \in AllTexts(f) : t.id \in Nat /\ t.id # 0 /\ t.id < f.next
      BY <3>1, <3>2 DEF Known, LinkTextSet
    <3>4. new.id = f.next
      OBVIOUS
    <3> HIDE DEF new
    <3>5. \A t \in AllTexts(g) : t.id # 0 /\ t.id < g.next
      BY <2>1, <2>2, <3>3, <3>4
    <3>6. \A t, u \in AllTexts(f) : t.id = u.id => t = u
      BY <3>1 DEF Known
    <3>7. \A t, u \in AllTexts(g) : t.id = u.id => t = u
      BY <2>1, <2>2, <3>3, <3>4, <3>6
    <3>8. /\ \A t, u \in g.clip.nodes : t.id = u.id => t = u
          /\ \A t \in g.clip.nodes : t.id # 0 /\ t.id < f.next /\ t.id \in Nat
      BY <2>1, <2>2, <3>1, FlowFacts DEF Known, SameClip, NodeTexts
    <3> QED BY <2>1, <2>2, <3>5, <3>7, <3>8 DEF Known
  <2>4. \A n \in Slots : Renumbered(f.node[n], g.node[n], f.next)
    BY <2>1 DEF SameBody, Renumbered
  <2>5. f.clip.nodes \in SUBSET NodeTexts
    BY <2>2, FlowFacts
  <2>6. Unused(f, f.clip.nodes) => Unused(g, f.clip.nodes)
    BY <2>2, <2>4, <2>5, UnusedStays
  <2>7. Copied(f) => Copied(g)
    BY <2>1, <2>3, <2>6 DEF Copied, SameClip
  <2> QED BY <2>3, <2>7 DEF g
<1> QED BY <1>1, <1>2

-------------------------------------------------------------------------------
(* The clipboard and the text of the flow.                                     *)

(* What does not change the nodes, nor the next number. *)
LEMMA SameGraph ==
  ASSUME NEW f, Sound(f), NEW g \in Flows,
         g.node = f.node, g.order = f.order, g.next = f.next
  PROVE  Sound(g) /\ Live(g) = Live(f)
BY DEF Sound, Whole, Listed, Live

SameData(f, g) == /\ g.node = f.node /\ g.order = f.order /\ g.next = f.next
                  /\ g.clip = f.clip

LEMMA DataCopied ==
  ASSUME NEW f, NEW g, SameData(f, g)
  PROVE  /\ Known(f) => Known(g)
         /\ \A T : Unused(f, T) => Unused(g, T)
BY DEF SameData, Known, Unused, AllTexts, LinksOf, LinkTexts

LEMMA FlagsKeep ==
  ASSUME NEW f, Sound(f), NEW b \in BOOLEAN
  PROVE  /\ Sound([f EXCEPT !.saving = b]) /\ Sound([f EXCEPT !.cut = b])
         /\ [f EXCEPT !.saving = b].node = f.node
         /\ Live([f EXCEPT !.saving = b]) = Live(f)
         /\ SameData(f, [f EXCEPT !.saving = b]) /\ SameData(f, [f EXCEPT !.cut = b])
         /\ [f EXCEPT !.saving = b].cut = f.cut /\ [f EXCEPT !.saving = b].saving = b
         /\ [f EXCEPT !.cut = b].cut = b /\ [f EXCEPT !.cut = b].saving = f.saving
<1> DEFINE s == [f EXCEPT !.saving = b]
           c == [f EXCEPT !.cut = b]
<1>1. f \in Flows
  BY DEF Sound, Whole
<1>2. /\ s \in Flows /\ s.node = f.node /\ s.order = f.order /\ s.next = f.next
      /\ c \in Flows /\ c.node = f.node /\ c.order = f.order /\ c.next = f.next
      /\ SameData(f, s) /\ SameData(f, c)
      /\ s.cut = f.cut /\ s.saving = b /\ c.cut = b /\ c.saving = f.saving
  BY <1>1 DEF Flows, SameData
<1> HIDE DEF s, c
<1>3. Sound(s) /\ Live(s) = Live(f) /\ Sound(c)
  BY <1>2, SameGraph
<1> QED BY <1>2, <1>3 DEF s, c

LEMMA LoudKeeps ==
  ASSUME NEW f, Sound(f)
  PROVE  Sound(Loud(f)) /\ (Copied(f) => Copied(Loud(f)))
<1> DEFINE s == [f EXCEPT !.saving = TRUE]
<1>1. Sound(s) /\ SameData(f, s) /\ s.cut = f.cut
  BY FlagsKeep
<1>2. Loud(f) = Changed(s)
  BY DEF Loud
<1> HIDE DEF s
<1>3. s \in Flows /\ Changed(s) \in Flows
  BY <1>1, ChangedKeeps DEF Sound, Whole
<1>4. Copied(f) => Copied(s)
  BY <1>1, DataCopied DEF Copied, SameData
<1> QED BY <1>1, <1>2, <1>3, <1>4, SoundChanged, TameChanged, TameCopied

(* The links of the flow itself have numbers of their own. *)
LEMMA LinksKnown ==
  ASSUME NEW f, Whole(f), f.clip = NoText
  PROVE  Known(f) /\ Unused(f, f.clip.nodes)
<1> DEFINE N == f.node
<1>1. f \in Flows /\ N \in Nodes /\ Numbered(N, f.next)
  BY FlowFacts DEF Whole
<1>2. AllTexts(f) = LinksOf(f) /\ f.clip.nodes = {}
  BY DEF AllTexts, NoText
<1>3. \A t \in LinksOf(f) :
        \E n \in Slots : \E l \in N[n].to :
          t = [id |-> l.link, start |-> N[n].out, end |-> N[l.node].in]
  BY DEF LinksOf, LinkTexts
<1>4. ASSUME NEW t \in LinksOf(f) PROVE t.id # 0 /\ t.id < f.next
  <2>1. PICK n \in Slots : \E l \in N[n].to :
          t = [id |-> l.link, start |-> N[n].out, end |-> N[l.node].in]
    BY <1>3
  <2>2. PICK l \in N[n].to : t = [id |-> l.link, start |-> N[n].out, end |-> N[l.node].in]
    BY <2>1
  <2>3. l.link \in Nat /\ 0 < l.link /\ l.link < f.next
    BY <1>1, NodeFacts DEF Numbered
  <2> QED BY <2>2, <2>3
<1>5. ASSUME NEW t \in LinksOf(f), NEW u \in LinksOf(f), t.id = u.id PROVE t = u
  <2>1. PICK m \in Slots : \E l \in N[m].to :
          t = [id |-> l.link, start |-> N[m].out, end |-> N[l.node].in]
    BY <1>3
  <2>2. PICK k \in N[m].to : t = [id |-> k.link, start |-> N[m].out, end |-> N[k.node].in]
    BY <2>1
  <2>3. PICK n \in Slots : \E l \in N[n].to :
          u = [id |-> l.link, start |-> N[n].out, end |-> N[l.node].in]
    BY <1>3
  <2>4. PICK l \in N[n].to : u = [id |-> l.link, start |-> N[n].out, end |-> N[l.node].in]
    BY <2>3
  <2>5. k.link = l.link
    BY <1>5, <2>2, <2>4
  <2>6. m = n /\ k = l
    BY <1>1, <2>5 DEF Numbered
  <2> QED BY <2>2, <2>4, <2>6
<1>6. Known(f)
  BY <1>2, <1>4, <1>5 DEF Known
<1> QED BY <1>2, <1>6 DEF Unused

LEMMA ClipSet ==
  ASSUME NEW f, Sound(f), NEW clip \in Texts
  PROVE  /\ Sound([f EXCEPT !.clip = clip])
         /\ [f EXCEPT !.clip = clip].node = f.node
         /\ Live([f EXCEPT !.clip = clip]) = Live(f)
         /\ [f EXCEPT !.clip = clip].clip = clip
         /\ [f EXCEPT !.clip = clip].saving = f.saving
<1> DEFINE t == [f EXCEPT !.clip = clip]
<1>1. f \in Flows
  BY DEF Sound, Whole
<1>2. /\ t \in Flows /\ t.node = f.node /\ t.order = f.order /\ t.next = f.next
      /\ t.clip = clip /\ t.saving = f.saving
  BY <1>1 DEF Flows
<1> HIDE DEF t
<1>3. Sound(t) /\ Live(t) = Live(f)
  BY <1>2, SameGraph
<1> QED BY <1>2, <1>3 DEF t

LEMMA NoTextIsText == NoText \in Texts
BY DEF NoText, Texts

LEMMA ClipKeeps ==
  ASSUME NEW f, Sound(f), NEW n \in Live(f)
  PROVE  /\ Sound(Clip(f, f.node[n].id))
         /\ Clip(f, f.node[n].id).node = f.node
         /\ Live(Clip(f, f.node[n].id)) = Live(f)
         /\ Clip(f, f.node[n].id).next = f.next
         /\ Clip(f, f.node[n].id).saving = f.saving
         /\ Clip(f, f.node[n].id).clip.nodes = Put(f.clip.nodes, {NodeText(f, n)})
         /\ Known(f) => Known(Clip(f, f.node[n].id))
<1> DEFINE id == f.node[n].id
           nodes == Put(f.clip.nodes, {NodeText(f, n)})
           links == Put(f.clip.links, LinkTexts(f, n))
           clip == [f.clip EXCEPT !.nodes = nodes, !.links = links]
<1>0. /\ f \in Flows /\ n \in Slots /\ f.clip \in Texts
      /\ f.clip.nodes \in SUBSET NodeTexts /\ f.clip.links \in SUBSET LinkTextSet
  BY FlowFacts DEF Sound, Whole
<1>1. FindNode(f, id) = n
  BY FindsNode DEF FindNode
<1>2. nodes \in SUBSET NodeTexts /\ links \in SUBSET LinkTextSet
  BY <1>0, TextFacts DEF Put
<1>3. Clip(f, id) = [f EXCEPT !.clip = clip]
  BY <1>0, <1>1 DEF Clip, Texts, Flows
<1> HIDE DEF nodes, links
<1>4. clip \in Texts /\ clip.nodes = nodes /\ clip.links = links
  BY <1>0, <1>2 DEF Texts
<1> HIDE DEF clip
<1> DEFINE c == Clip(f, id)
<1>5. /\ c \in Flows /\ c.clip = clip /\ c.node = f.node /\ c.next = f.next
      /\ c.saving = f.saving
  BY <1>0, <1>3, <1>4 DEF Flows
<1>6. Known(f) => Known(c)
  <2>1. SUFFICES ASSUME Known(f) PROVE Known(c)
    OBVIOUS
  <2> HIDE DEF c
  <2>2. AllTexts(c) \subseteq AllTexts(f)
    <3>1. LinksOf(c) = LinksOf(f)
      BY <1>5 DEF LinksOf, LinkTexts
    <3>2. LinkTexts(f, n) \subseteq LinksOf(f)
      BY <1>0 DEF LinksOf
    <3>3. links \subseteq f.clip.links \cup LinksOf(f)
      BY <3>2 DEF links, Put
    <3> QED BY <1>4, <1>5, <3>1, <3>3 DEF AllTexts
  <2>3. /\ \A t, u \in AllTexts(c) : t.id = u.id => t = u
        /\ \A t \in AllTexts(c) : t.id # 0 /\ t.id < c.next
    BY <1>5, <2>1, <2>2 DEF Known
  <2> DEFINE x == NodeText(f, n)
  <2>4. x.id # 0 /\ x.id < f.next
    <3>1. f.node[n].id # 0 /\ f.node[n].id < f.next
      BY <1>0 DEF Sound, Whole, Listed, Numbered
    <3> QED BY <3>1 DEF NodeText
  <2> HIDE DEF x
  <2>5. \A t \in nodes : t = x \/ (t \in f.clip.nodes /\ t.id # x.id)
    BY DEF nodes, Put, x
  <2>6. /\ \A t, u \in nodes : t.id = u.id => t = u
        /\ \A t \in nodes : t.id # 0 /\ t.id < f.next
    BY <2>1, <2>4, <2>5 DEF Known
  <2> QED BY <1>4, <1>5, <2>3, <2>6 DEF Known
<1>7. /\ Sound(c) /\ Live(c) = Live(f)
  BY <1>3, <1>4, ClipSet
<1> QED BY <1>4, <1>5, <1>6, <1>7 DEF nodes

(* A selection names nodes of the flow, each once. *)
Selected(f, ids) ==
  /\ ids \in Seq(Nat)
  /\ \A i \in 1 .. Len(ids) : \E n \in Live(f) : f.node[n].id = ids[i]
  /\ \A i, j \in 1 .. Len(ids) : ids[i] = ids[j] => i = j

(* While nodes are cut: what is in the clipboard has numbers of its own. *)
Ready(f) == f.saving = FALSE /\ Known(f) /\ Unused(f, f.clip.nodes)

(* A node that is written and deleted leaves its numbers. *)
LEMMA CutReady ==
  ASSUME NEW f, Sound(f), Ready(f), NEW n \in Live(f), NEW d \in Flows, Known(d),
         f.next <= d.next, d.saving = FALSE,
         d.clip.nodes = Put(f.clip.nodes, {NodeText(f, n)}),
         \A m \in Slots : Renumbered(f.node[m], d.node[m], f.next),
         \A m \in Slots : m # n => SameBody(f.node, d.node, m),
         d.node[n] = NoNode
  PROVE  Ready(d)
<1> DEFINE T == f.clip.nodes
           N == f.node
           M == d.node
           x == NodeText(f, n)
<1>1. /\ f \in Flows /\ N \in Nodes /\ Numbered(N, f.next) /\ Listed(f)
      /\ T \in SUBSET NodeTexts /\ n \in Slots /\ f.next \in Nat /\ d.next \in Nat
  BY FlowFacts DEF Sound, Whole
<1>2. /\ x.id = N[n].id /\ x.in = N[n].in /\ x.out = N[n].out
      /\ x.id \in Nat /\ x.in \in Nat /\ x.out \in Nat
  BY <1>1, NodeFacts DEF NodeText
<1>3. Unused(d, T)
  BY <1>1, UnusedStays DEF Ready
<1>4. /\ x.id # 0 /\ x.id < f.next /\ x.in < f.next /\ x.out < f.next
      /\ x.in = x.out => x.in = 0
  BY <1>1, <1>2 DEF Numbered, Listed
<1>5. ASSUME NEW m \in Slots
      PROVE  /\ x.id # M[m].id
             /\ x.in # 0 => x.in # M[m].in /\ x.in # M[m].out
             /\ x.out # 0 => x.out # M[m].in /\ x.out # M[m].out
  <2>1. CASE m = n
    BY <1>4, <2>1 DEF NoNode
  <2>2. CASE m # n
    <3>1. M[m].id = N[m].id /\ M[m].in = N[m].in /\ M[m].out = N[m].out
      BY <2>2 DEF SameBody
    <3>2. /\ N[n].id = N[m].id => N[n].id = 0
          /\ N[n].in = N[m].in => N[n].in = 0
          /\ N[n].out = N[m].out => N[n].out = 0
          /\ N[n].in = N[m].out => N[n].in = 0
          /\ N[m].in = N[n].out => N[m].in = 0
      BY <1>1, <2>2 DEF Numbered
    <3> QED BY <1>2, <1>4, <3>1, <3>2
  <2> QED BY <2>1, <2>2
<1>6. ASSUME NEW t \in T
      PROVE  /\ t.id # x.id
             /\ t.in # 0 => t.in # x.in /\ t.in # x.out
             /\ t.out # 0 => t.out # x.in /\ t.out # x.out
  BY <1>1, <1>2 DEF Ready, Unused, Vacant
<1>7. \A t \in d.clip.nodes : t = x \/ t \in T
  BY DEF Put
<1> HIDE DEF x, T, M
<1>8. x.id < d.next /\ x.in < d.next /\ x.out < d.next
  BY <1>1, <1>2, <1>4
<1>9. ASSUME NEW t \in d.clip.nodes
      PROVE  /\ t.id # 0 /\ t.id < d.next /\ t.in < d.next /\ t.out < d.next
             /\ \A m \in Slots : t.id # M[m].id
             /\ Vacant(M, t.in) /\ Vacant(M, t.out)
             /\ t.in = t.out => t.in = 0
  <2>1. CASE t = x
    BY <1>4, <1>5, <1>8, <2>1 DEF Vacant
  <2>2. CASE t \in T
    BY <1>3, <2>2 DEF Unused, M
  <2> QED BY <1>7, <2>1, <2>2
<1>10. ASSUME NEW t \in d.clip.nodes, NEW u \in d.clip.nodes, t # u
       PROVE  /\ t.id # u.id
              /\ t.in = u.in => t.in = 0
              /\ t.out = u.out => t.out = 0
              /\ t.in = u.out => t.in = 0
  <2>1. CASE t \in T /\ u \in T
    BY <1>3, <1>10, <2>1 DEF Unused
  <2>2. CASE t \in T /\ u = x
    BY <1>6, <2>2
  <2>3. CASE t = x /\ u \in T
    BY <1>6, <2>3
  <2> QED BY <1>7, <1>10, <2>1, <2>2, <2>3
<1>11. Unused(d, d.clip.nodes)
  BY <1>9, <1>10 DEF Unused, M
<1> QED BY <1>11 DEF Ready

(* The nodes of the selection from the i-th on are there. *)
Rest(f, ids, i) == \A j \in i + 1 .. Len(ids) : \E n \in Live(f) : f.node[n].id = ids[j]

LEMMA CutOneKeeps ==
  ASSUME NEW f, Sound(f), NEW ids, NEW i \in 1 .. Len(ids), ids \in Seq(Nat),
         \A j, k \in 1 .. Len(ids) : ids[j] = ids[k] => j = k,
         Rest(f, ids, i - 1), Ready(f)
  PROVE  /\ Sound(DeleteNode(Clip(f, ids[i]), ids[i]))
         /\ Rest(DeleteNode(Clip(f, ids[i]), ids[i]), ids, i)
         /\ Ready(DeleteNode(Clip(f, ids[i]), ids[i]))
<1>1. Len(ids) \in Nat /\ i \in (i - 1) + 1 .. Len(ids) /\ f \in Flows
  BY DEF Sound, Whole
<1>2. PICK n \in Live(f) : f.node[n].id = ids[i]
  BY <1>1 DEF Rest
<1>3. Live(f) \subseteq Slots
  BY <1>1, FlowFacts
<1> DEFINE c == Clip(f, ids[i])
           d == DeleteNode(c, ids[i])
<1>4. /\ Sound(c) /\ c.node = f.node /\ Live(c) = Live(f)
      /\ c.next = f.next /\ c.saving = FALSE /\ Known(c)
      /\ c.clip.nodes = Put(f.clip.nodes, {NodeText(f, n)})
  <2> DEFINE k == Clip(f, f.node[n].id)
  <2>1. /\ Sound(k) /\ k.node = f.node /\ Live(k) = Live(f) /\ k.next = f.next
        /\ k.saving = f.saving
        /\ k.clip.nodes = Put(f.clip.nodes, {NodeText(f, n)})
        /\ Known(f) => Known(k)
    BY ClipKeeps
  <2>2. c = k
    BY <1>2
  <2> HIDE DEF c, k
  <2> QED BY <2>1, <2>2 DEF Ready
<1> HIDE DEF c
<1>5. /\ Sound(d) /\ Live(d) = Live(f) \ {n}
      /\ \A m \in Slots : m # n => SameBody(f.node, d.node, m)
      /\ d.node[n] = NoNode /\ Tame(c, d)
  <2>1. c.node[n].id = ids[i] /\ n \in Live(c)
    BY <1>2, <1>4
  <2> QED BY <1>4, <2>1, DeleteNodeKeeps
<1> HIDE DEF d
<1>6. ASSUME NEW j \in i + 1 .. Len(ids) PROVE \E m \in Live(d) : d.node[m].id = ids[j]
  <2>1. j \in (i - 1) + 1 .. Len(ids) /\ j \in 1 .. Len(ids) /\ j # i
    BY <1>1
  <2>2. PICK m \in Live(f) : f.node[m].id = ids[j]
    BY <2>1 DEF Rest
  <2>3. m # n
    BY <1>2, <2>1, <2>2
  <2> QED BY <1>3, <1>5, <2>2, <2>3 DEF SameBody
<1>7. Rest(d, ids, i)
  BY <1>6 DEF Rest
<1>8. Ready(d)
  <2>1. d \in Flows /\ c \in Flows
    BY <1>4, <1>5 DEF Sound, Whole
  <2>2. Known(d)
    BY <1>4, <1>5, <2>1, TameCopied
  <2>3. /\ f.next <= d.next /\ d.saving = FALSE
        /\ d.clip.nodes = Put(f.clip.nodes, {NodeText(f, n)})
        /\ \A m \in Slots : Renumbered(f.node[m], d.node[m], f.next)
    BY <1>4, <1>5 DEF Tame, SameClip
  <2> QED BY <1>5, <2>1, <2>2, <2>3, CutReady
<1> QED BY <1>5, <1>7, <1>8 DEF c, d

LEMMA CutKeeps ==
  ASSUME NEW f, Sound(f), NEW ids, Selected(f, ids)
  PROVE  Sound(CutElements(f, ids)) /\ Copied(CutElements(f, ids))
<1> DEFINE n == Len(ids)
           base == [Quiet(f) EXCEPT !.clip = NoText]
           X == [i \in 0 .. n |-> {g \in Flows : Sound(g) /\ Rest(g, ids, i) /\ Ready(g)}]
           G == [i \in 1 .. n |-> [g \in X[i - 1] |-> DeleteNode(Clip(g, ids[i]), ids[i])]]
           Def(h) == h = [i \in 0 .. n |->
                            IF i = 0 THEN base
                            ELSE DeleteNode(Clip(h[i - 1], ids[i]), ids[i])]
<1>0. /\ ids \in Seq(Nat) /\ n \in Nat
      /\ \A j, k \in 1 .. Len(ids) : ids[j] = ids[k] => j = k
  BY DEF Selected
<1>1. base \in X[0]
  <2>1. /\ Sound(Quiet(f)) /\ Quiet(f).node = f.node /\ Live(Quiet(f)) = Live(f)
        /\ Quiet(f).saving = FALSE
    BY FlagsKeep DEF Quiet
  <2> DEFINE q == Quiet(f)
  <2> HIDE DEF q
  <2>2. Sound(q) /\ q.node = f.node /\ Live(q) = Live(f) /\ q.saving = FALSE
    BY <2>1 DEF q
  <2> DEFINE c == [q EXCEPT !.clip = NoText]
  <2>3. /\ Sound(c) /\ c.node = f.node /\ Live(c) = Live(f)
        /\ c.clip = NoText /\ c.saving = FALSE
    BY <2>2, NoTextIsText, ClipSet
  <2> HIDE DEF c
  <2>4. Rest(c, ids, 0)
    BY <1>0, <2>3 DEF Rest, Selected
  <2>5. Ready(c)
    BY <2>3, LinksKnown DEF Ready, Sound
  <2>6. c \in X[0]
    BY <1>0, <2>3, <2>4, <2>5 DEF Sound, Whole
  <2> QED BY <2>6 DEF c, q
<1>2. ASSUME NEW i \in 1 .. n, NEW g \in X[i - 1]
      PROVE  DeleteNode(Clip(g, ids[i]), ids[i]) \in X[i]
  <2> DEFINE d == DeleteNode(Clip(g, ids[i]), ids[i])
  <2>1. i - 1 \in 0 .. n /\ i \in 0 .. n
    BY <1>0
  <2>2. Sound(g) /\ Rest(g, ids, i - 1) /\ Ready(g)
    BY <2>1
  <2>3. Sound(d) /\ Rest(d, ids, i) /\ Ready(d)
    BY <1>0, <2>2, CutOneKeeps
  <2> HIDE DEF d
  <2>4. d \in X[i]
    BY <2>1, <2>3 DEF Sound, Whole
  <2> QED BY <2>4 DEF d
<1>3. PICK h : Steps(n, base, G, h)
  <2> HIDE DEF n, base, G
  <2> QED BY <1>0, StepsExist
<1>4. \A i \in 0 .. n : h[i] \in X[i]
  <2>1. h[0] \in X[0]
    <3> HIDE DEF X, base
    <3> QED BY <1>1, <1>3 DEF Steps
  <2>2. ASSUME NEW i \in 1 .. n, h[i - 1] \in X[i - 1] PROVE h[i] \in X[i]
    <3>1. h[i] = G[i][h[i - 1]]
      BY <1>3 DEF Steps
    <3> HIDE DEF X
    <3> QED BY <1>2, <2>2, <3>1
  <2> HIDE DEF X, n
  <2> QED BY <1>0, <2>1, <2>2, Along
<1>5. Def(h)
  <2>1. ASSUME NEW i \in 1 .. n
        PROVE  h[i] = DeleteNode(Clip(h[i - 1], ids[i]), ids[i])
    <3>1. h[i] = G[i][h[i - 1]]
      BY <1>3 DEF Steps
    <3>2. i - 1 \in 0 .. n
      BY <1>0
    <3> HIDE DEF X
    <3> QED BY <1>4, <3>1, <3>2
  <2>2. h = [i \in 0 .. n |-> h[i]] /\ h[0] = base
    <3> HIDE DEF n, base, G
    <3> QED BY <1>3 DEF Steps
  <2> DEFINE e(i) == DeleteNode(Clip(h[i - 1], ids[i]), ids[i])
  <2>3. n \in Nat /\ \A i \in 1 .. n : h[i] = e(i)
    BY <1>0, <2>1
  <2> HIDE DEF e, n, base
  <2>4. h = [i \in 0 .. n |-> IF i = 0 THEN base ELSE e(i)]
    BY <2>2, <2>3
  <2> QED BY <2>4 DEF e
<1> DEFINE cut == CHOOSE h2 : Def(h2)
<1>6. Def(cut)
  <2> HIDE DEF Def
  <2> QED BY <1>5
<1>7. \A i \in 0 .. n : cut[i] \in X[i]
  <2> HIDE DEF cut
  <2>1. cut[0] \in X[0]
    <3> HIDE DEF X, base
    <3> QED BY <1>0, <1>1, <1>6
  <2>2. ASSUME NEW i \in 1 .. n, cut[i - 1] \in X[i - 1] PROVE cut[i] \in X[i]
    <3>1. cut[i] = DeleteNode(Clip(cut[i - 1], ids[i]), ids[i])
      <4> HIDE DEF base
      <4> QED BY <1>0, <1>6
    <3> HIDE DEF X
    <3> QED BY <1>2, <2>2, <3>1
  <2> HIDE DEF X, n, Def
  <2> QED BY <1>0, <2>1, <2>2, Along
<1>8. CutElements(f, ids) = Loud([cut[n] EXCEPT !.cut = TRUE])
  BY DEF CutElements
<1> HIDE DEF cut
<1>9. Sound(cut[n]) /\ Ready(cut[n])
  BY <1>0, <1>7
<1> DEFINE c == cut[n]
           e == [c EXCEPT !.cut = TRUE]
<1> HIDE DEF c
<1>10. /\ Sound(c) /\ Ready(c) /\ CutElements(f, ids) = Loud(e)
  BY <1>8, <1>9 DEF c
<1>11. Sound(e) /\ SameData(c, e) /\ e.cut = TRUE
  BY <1>10, FlagsKeep
<1> HIDE DEF e
<1>12. Copied(e)
  BY <1>10, <1>11, DataCopied DEF Copied, Ready, SameData
<1> QED BY <1>10, <1>11, <1>12, LoudKeeps

LEMMA CopyKeeps ==
  ASSUME NEW f, Sound(f), NEW ids, Selected(f, ids)
  PROVE  Sound(CopyElements(f, ids)) /\ Copied(CopyElements(f, ids))
<1> DEFINE n == Len(ids)
           base == [f EXCEPT !.clip = NoText]
           S == {g \in Flows : Sound(g) /\ Known(g) /\ g.node = f.node /\ Live(g) = Live(f)}
           X == [i \in 0 .. n |-> S]
           G == [i \in 1 .. n |-> [g \in S |-> Clip(g, ids[i])]]
           Def(h) == h = [i \in 0 .. n |-> IF i = 0 THEN base ELSE Clip(h[i - 1], ids[i])]
<1>0. n \in Nat /\ \A i \in 1 .. n : \E m \in Live(f) : f.node[m].id = ids[i]
  BY DEF Selected
<1>1. base \in S
  <2>1. /\ Sound(base) /\ base.node = f.node /\ Live(base) = Live(f)
        /\ base.clip = NoText
    BY NoTextIsText, ClipSet
  <2> HIDE DEF base
  <2>2. Known(base)
    BY <2>1, LinksKnown DEF Sound
  <2> QED BY <2>1, <2>2 DEF Sound, Whole
<1>2. ASSUME NEW i \in 1 .. n, NEW g \in S PROVE Clip(g, ids[i]) \in S
  <2>1. PICK m \in Live(f) : f.node[m].id = ids[i]
    BY <1>0
  <2> DEFINE d == Clip(g, ids[i])
  <2>2. Sound(g) /\ Known(g) /\ m \in Live(g) /\ g.node[m].id = ids[i]
    BY <2>1
  <2>3. Sound(d) /\ Known(d) /\ d.node = g.node /\ Live(d) = Live(g)
    BY <2>2, ClipKeeps
  <2> HIDE DEF d
  <2>4. d \in S
    BY <2>3 DEF Sound, Whole
  <2> QED BY <2>4 DEF d
<1>3. PICK h : Steps(n, base, G, h)
  <2> HIDE DEF n, base, G
  <2> QED BY <1>0, StepsExist
<1>4. ASSUME NEW h2, h2[0] = base,
             \A i \in 1 .. n : h2[i - 1] \in S => h2[i] = Clip(h2[i - 1], ids[i])
      PROVE  \A i \in 0 .. n : h2[i] \in S
  <2>1. h2[0] \in X[0]
    <3> HIDE DEF S, base
    <3> QED BY <1>0, <1>1, <1>4
  <2>2. ASSUME NEW i \in 1 .. n, h2[i - 1] \in X[i - 1] PROVE h2[i] \in X[i]
    <3>1. i - 1 \in 0 .. n /\ i \in 0 .. n
      BY <1>0
    <3> HIDE DEF S
    <3> QED BY <1>2, <1>4, <2>2, <3>1
  <2>3. \A i \in 0 .. n : h2[i] \in X[i]
    <3> HIDE DEF X, n
    <3> QED BY <1>0, <2>1, <2>2, Along
  <2> HIDE DEF S
  <2> QED BY <2>3
<1>5. Def(h)
  <2>1. h[0] = base /\ \A i \in 1 .. n : h[i] = G[i][h[i - 1]]
    BY <1>3 DEF Steps
  <2>2. \A i \in 1 .. n : h[i - 1] \in S => h[i] = Clip(h[i - 1], ids[i])
    <3> HIDE DEF S
    <3> QED BY <2>1
  <2>3. \A i \in 0 .. n : h[i] \in S
    <3> HIDE DEF S, base, n
    <3> QED BY <1>4, <2>1, <2>2
  <2>4. ASSUME NEW i \in 1 .. n PROVE h[i] = Clip(h[i - 1], ids[i])
    <3>1. i - 1 \in 0 .. n
      BY <1>0
    <3> HIDE DEF S
    <3> QED BY <2>2, <2>3, <3>1
  <2>5. h = [i \in 0 .. n |-> h[i]]
    BY <1>3 DEF Steps
  <2> HIDE DEF G, S, base, n
  <2>6. \A i \in 0 .. n : h[i] = IF i = 0 THEN base ELSE Clip(h[i - 1], ids[i])
    BY <1>0, <2>1, <2>4
  <2> QED BY <2>5, <2>6
<1> DEFINE copy == CHOOSE h2 : Def(h2)
<1>6. Def(copy)
  <2> HIDE DEF Def
  <2> QED BY <1>5
<1>7. \A i \in 0 .. n : copy[i] \in S
  <2> HIDE DEF copy
  <2>1. copy[0] = base /\ \A i \in 1 .. n : copy[i] = Clip(copy[i - 1], ids[i])
    <3> HIDE DEF base
    <3> QED BY <1>0, <1>6
  <2> HIDE DEF S, base, n, Def
  <2> QED BY <1>4, <2>1
<1>8. CopyElements(f, ids) = [copy[n] EXCEPT !.cut = FALSE]
  BY DEF CopyElements
<1> HIDE DEF copy
<1>9. Sound(copy[n]) /\ Known(copy[n])
  BY <1>0, <1>7
<1> DEFINE c == copy[n]
           e == [c EXCEPT !.cut = FALSE]
<1> HIDE DEF c
<1>10. Sound(e) /\ SameData(c, e) /\ e.cut = FALSE
  BY <1>9, FlagsKeep DEF c
<1> HIDE DEF e
<1>11. Copied(e)
  BY <1>9, <1>10, DataCopied DEF Copied, c
<1> QED BY <1>8, <1>10, <1>11 DEF c, e

LEMMA TextKeeps ==
  ASSUME NEW f \in Flows
  PROVE  Text(f) \in Texts
<1> DEFINE n == Len(f.order)
           Write(t, i) == [nodes |-> Put(t.nodes, {NodeText(f, f.order[i])}),
                           links |-> Put(t.links, LinkTexts(f, f.order[i]))]
           X == [i \in 0 .. n |-> Texts]
           G == [i \in 1 .. n |-> [t \in Texts |-> Write(t, i)]]
           Def(h) == h = [i \in 0 .. n |-> IF i = 0 THEN NoText ELSE Write(h[i - 1], i)]
<1>0. n \in Nat /\ \A i \in 1 .. n : f.order[i] \in Slots
  BY FlowFacts
<1>1. NoText \in Texts
  BY DEF NoText, Texts
<1>2. ASSUME NEW i \in 1 .. n, NEW t \in Texts PROVE Write(t, i) \in Texts
  <2> DEFINE nodes == Put(t.nodes, {NodeText(f, f.order[i])})
             links == Put(t.links, LinkTexts(f, f.order[i]))
  <2>1. t.nodes \in SUBSET NodeTexts /\ t.links \in SUBSET LinkTextSet
    BY DEF Texts
  <2>2. NodeText(f, f.order[i]) \in NodeTexts /\ LinkTexts(f, f.order[i]) \in SUBSET LinkTextSet
    BY <1>0, TextFacts
  <2>3. nodes \in SUBSET NodeTexts /\ links \in SUBSET LinkTextSet
    BY <2>1, <2>2 DEF Put
  <2>4. Write(t, i) = [nodes |-> nodes, links |-> links]
    OBVIOUS
  <2> HIDE DEF nodes, links, Write
  <2> QED BY <2>3, <2>4 DEF Texts
<1> HIDE DEF Write
<1>3. PICK h : Steps(n, NoText, G, h)
  <2> HIDE DEF n, G
  <2> QED BY <1>0, StepsExist
<1>4. ASSUME NEW h2, h2[0] = NoText,
             \A i \in 1 .. n : h2[i - 1] \in Texts => h2[i] = Write(h2[i - 1], i)
      PROVE  \A i \in 0 .. n : h2[i] \in Texts
  <2>1. h2[0] \in X[0]
    BY <1>0, <1>1, <1>4
  <2>2. ASSUME NEW i \in 1 .. n, h2[i - 1] \in X[i - 1] PROVE h2[i] \in X[i]
    <3>1. i - 1 \in 0 .. n /\ i \in 0 .. n
      BY <1>0
    <3> QED BY <1>2, <1>4, <2>2, <3>1
  <2>3. \A i \in 0 .. n : h2[i] \in X[i]
    <3> HIDE DEF X, n
    <3> QED BY <1>0, <2>1, <2>2, Along
  <2> QED BY <2>3
<1>5. Def(h)
  <2>1. h[0] = NoText /\ \A i \in 1 .. n : h[i] = G[i][h[i - 1]]
    BY <1>3 DEF Steps
  <2>2. \A i \in 1 .. n : h[i - 1] \in Texts => h[i] = Write(h[i - 1], i)
    BY <2>1
  <2>3. \A i \in 0 .. n : h[i] \in Texts
    <3> HIDE DEF n
    <3> QED BY <1>4, <2>1, <2>2
  <2>4. ASSUME NEW i \in 1 .. n PROVE h[i] = Write(h[i - 1], i)
    <3>1. i - 1 \in 0 .. n
      BY <1>0
    <3> QED BY <2>2, <2>3, <3>1
  <2>5. h = [i \in 0 .. n |-> h[i]]
    BY <1>3 DEF Steps
  <2> HIDE DEF G, n
  <2>6. \A i \in 0 .. n : h[i] = IF i = 0 THEN NoText ELSE Write(h[i - 1], i)
    BY <1>0, <2>1, <2>4
  <2> QED BY <2>5, <2>6
<1> DEFINE text == CHOOSE h2 : Def(h2)
<1>6. Def(text)
  <2> HIDE DEF Def
  <2> QED BY <1>5
<1>7. \A i \in 0 .. n : text[i] \in Texts
  <2> HIDE DEF text
  <2>1. text[0] = NoText /\ \A i \in 1 .. n : text[i] = Write(text[i - 1], i)
    BY <1>0, <1>6
  <2> HIDE DEF n, Def
  <2> QED BY <1>4, <2>1
<1>8. Text(f) = text[n]
  BY DEF Text, Write
<1> HIDE DEF text
<1> QED BY <1>0, <1>7, <1>8

(* DeleteAllNodes: nothing is left but the clipboard and the flags. *)
LEMMA DeleteAllKeeps ==
  ASSUME NEW f \in Flows
  PROVE  Sound(DeleteAllNodes(f)) /\ SameClip(f, DeleteAllNodes(f))
<1> DEFINE g == [Clear EXCEPT !.clip = f.clip, !.cut = f.cut, !.saving = f.saving]
<1>1. /\ g.order = <<>> /\ g.node = [s \in Slots |-> NoNode] /\ g.next = 1
      /\ g.clip = f.clip /\ g.cut = f.cut /\ g.saving = f.saving
      /\ g = [order |-> g.order, node |-> g.node, next |-> g.next,
              clip |-> g.clip, cut |-> g.cut, saving |-> g.saving]
  <2> DEFINE N == [s \in Slots |-> NoNode]
             c == f.clip
             d == f.cut
             e == f.saving
  <2>1. Clear = [order |-> <<>>, node |-> N, next |-> 1,
                 clip |-> NoText, cut |-> FALSE, saving |-> TRUE]
    BY DEF Clear
  <2>2. g = [Clear EXCEPT !.clip = c, !.cut = d, !.saving = e]
    OBVIOUS
  <2> HIDE DEF N, c, d, e, g
  <2>3. g = [order |-> <<>>, node |-> N, next |-> 1, clip |-> c, cut |-> d, saving |-> e]
    BY <2>1, <2>2
  <2>4. /\ g.order = <<>> /\ g.node = N /\ g.next = 1
        /\ g.clip = c /\ g.cut = d /\ g.saving = e
    BY <2>3
  <2> QED BY <2>3, <2>4 DEF N, c, d, e
<1>2. NoNode \in NodeRecs
  BY DEF NoNode, NodeRecs, NoLink, Kinds
<1>3. g \in Flows
  <2>1. f.clip \in Texts /\ f.cut \in BOOLEAN /\ f.saving \in BOOLEAN
    BY FlowFacts
  <2> HIDE DEF g
  <2>2. /\ g.order \in Seq(Slots) /\ g.node \in [Slots -> NodeRecs] /\ g.next \in Nat \ {0}
        /\ g.clip \in Texts /\ g.cut \in BOOLEAN /\ g.saving \in BOOLEAN
    BY <1>1, <1>2, <2>1
  <2> DEFINE o == g.order
             N == g.node
             n == g.next
             c == g.clip
             d == g.cut
             e == g.saving
  <2>3. g = [order |-> o, node |-> N, next |-> n, clip |-> c, cut |-> d, saving |-> e]
    BY <1>1
  <2>4. /\ o \in Seq(Slots) /\ N \in [Slots -> NodeRecs] /\ n \in Nat \ {0}
        /\ c \in Texts /\ d \in BOOLEAN /\ e \in BOOLEAN
    BY <2>2
  <2> HIDE DEF o, N, n, c, d, e
  <2> QED BY <2>3, <2>4 DEF Flows
<1> DEFINE N == g.node
<1>4. \A s \in Slots : /\ N[s].id = 0 /\ N[s].in = 0 /\ N[s].out = 0
                       /\ N[s].to = {} /\ N[s].from = NoLink
  BY <1>1 DEF NoNode
<1> HIDE DEF g, N
<1>5. Agree(N)
  <2>1. \A s, e \in Slots, id \in Nat : N[e].from # [link |-> id, node |-> s]
    BY <1>4, SlotFacts DEF NoLink
  <2>2. \A s \in Slots : N[s].from.node = 0 => N[s].from.link = 0
    BY <1>4 DEF NoLink
  <2>3. \A s \in Slots : IsFiniteSet(N[s].to) /\ \A l \in N[s].to : FALSE
    BY <1>4, FS_EmptySet
  <2> QED BY <1>4, <2>1, <2>2, <2>3 DEF Agree
<1>6. Numbered(N, 1)
  BY <1>4 DEF Numbered
<1>7. Whole(g)
  BY <1>1, <1>3, <1>5, <1>6 DEF Whole, N
<1>8. Live(g) = {}
  BY <1>1 DEF Live
<1>9. Listed(g)
  BY <1>1, <1>4, <1>8 DEF Listed, N
<1>10. DeleteAllNodes(f) = Changed(g)
  BY DEF DeleteAllNodes, g
<1>11. SameClip(f, Changed(g))
  BY <1>1, <1>3, ChangedKeeps DEF SameRest, SameClip
<1> QED BY <1>7, <1>9, <1>10, <1>11, SoundChanged DEF Sound

LEMMA NothingLoaded ==
  ASSUME NEW f
  PROVE  LoadJson(f, NoText, FALSE) = f
<1> DEFINE NodeDef(g, h) == h = [s \in SUBSET {} |->
                                   IF s = {} THEN g ELSE LoadNode(h[s \ {Last(s)}], Last(s))]
           LinkDef(g, h) == h = [s \in SUBSET {} |->
                                   IF s = {} THEN g ELSE LoadLink(h[s \ {Last(s)}], Last(s))]
<1>1. ASSUME NEW g PROVE ForEach(LoadNode, g, {}) = g
  <2> DEFINE iter == CHOOSE h : NodeDef(g, h)
  <2>1. NodeDef(g, [s \in SUBSET {} |-> g])
    OBVIOUS
  <2>2. NodeDef(g, iter)
    <3> HIDE DEF NodeDef
    <3> QED BY <2>1
  <2>3. iter[{}] = g
    <3> HIDE DEF iter
    <3> QED BY <2>2
  <2>4. ForEach(LoadNode, g, {}) = iter[{}]
    BY DEF ForEach, MapThenFoldSet, Last
  <2> QED BY <2>3, <2>4
<1>2. ASSUME NEW g PROVE ForEach(LoadLink, g, {}) = g
  <2> DEFINE iter == CHOOSE h : LinkDef(g, h)
  <2>1. LinkDef(g, [s \in SUBSET {} |-> g])
    OBVIOUS
  <2>2. LinkDef(g, iter)
    <3> HIDE DEF LinkDef
    <3> QED BY <2>1
  <2>3. iter[{}] = g
    <3> HIDE DEF iter
    <3> QED BY <2>2
  <2>4. ForEach(LoadLink, g, {}) = iter[{}]
    BY DEF ForEach, MapThenFoldSet, Last
  <2> QED BY <2>3, <2>4
<1> QED BY <1>1, <1>2 DEF LoadJson, NoText

-------------------------------------------------------------------------------
(* Pasting.                                                                    *)

LEMMA ListedOnce ==
  ASSUME NEW f \in Flows, Listed(f)
  PROVE  Cardinality(Live(f)) = Len(f.order)
<1> DEFINE S == 1 .. Len(f.order)
<1>1. /\ f.order \in Seq(Slots) /\ Len(f.order) \in Nat
      /\ f.order \in [S -> Slots] /\ DOMAIN f.order = S
  BY FlowFacts
<1>2. f.order \in [S -> Live(f)]
  BY <1>1 DEF Live
<1>3. \A i, j \in S : f.order[i] = f.order[j] => i = j
  BY <1>1 DEF Listed
<1>4. \A n \in Live(f) : \E i \in S : f.order[i] = n
  BY <1>1 DEF Live
<1>5. IsFiniteSet(S) /\ Cardinality(S) = Len(f.order)
  BY <1>1, FS_Interval
<1>6. ExistsBijection(S, Live(f))
  <2> HIDE DEF S
  <2>1. f.order \in Bijection(S, Live(f))
    BY <1>2, <1>3, <1>4 DEF Bijection, Injection, Surjection, IsInjective
  <2> QED BY <2>1 DEF ExistsBijection
<1> HIDE DEF S
<1> QED BY <1>5, <1>6, FS_Bijection

LEMMA Least ==
  ASSUME NEW S \in SUBSET Nat, S # {}
  PROVE  \E i \in S : \A j \in S : i <= j
<1> DEFINE R == OpToRel(<, Nat)
<1>1. IsWellFoundedOn(R, Nat)
  BY NatLessThanWellFounded
<1>2. PICK i \in S : \A j \in S : ~ (<<j, i>> \in R)
  <2> HIDE DEF R
  <2> QED BY <1>1, WFMin
<1>3. ASSUME NEW j \in S, ~(i <= j) PROVE FALSE
  <2>1. i \in Nat /\ j \in Nat /\ j < i
    BY <1>3
  <2>2. <<j, i>> \in R
    BY <2>1 DEF OpToRel
  <2> QED BY <1>2, <2>2
<1> QED BY <1>3

(* Entries that are known by numbers below the next are finitely many. *)
LEMMA FiniteTexts ==
  ASSUME NEW T, NEW n \in Nat, \A t \in T : t.id \in 1 .. n,
         \A t, u \in T : t.id = u.id => t = u
  PROVE  IsFiniteSet(T)
<1> DEFINE f == [t \in T |-> t.id]
<1>1. f \in Injection(T, 1 .. n)
  BY DEF Injection, IsInjective
<1>2. IsFiniteSet(1 .. n)
  BY FS_Interval
<1> QED BY <1>1, <1>2, FS_Injection

LEMMA KnownFinite ==
  ASSUME NEW f \in Flows, Known(f)
  PROVE  /\ IsFiniteSet(f.clip.nodes) /\ IsFiniteSet(f.clip.links)
         /\ f.clip.links \in SUBSET AllTexts(f)
         /\ \A t \in f.clip.nodes : t.id \in Nat
         /\ \A t \in f.clip.links : t.id \in Nat
<1> DEFINE T == f.clip.nodes
           L == f.clip.links
           n == f.next
<1>1. /\ T \in SUBSET NodeTexts /\ L \in SUBSET LinkTextSet /\ n \in Nat
      /\ L \in SUBSET AllTexts(f)
  BY FlowFacts DEF AllTexts
<1>2. \A t \in T : t.id \in 1 .. n
  BY <1>1 DEF Known, NodeTexts
<1>3. \A t \in L : t.id \in 1 .. n
  BY <1>1 DEF Known, LinkTextSet
<1>4. /\ \A t, u \in T : t.id = u.id => t = u
      /\ \A t, u \in L : t.id = u.id => t = u
  BY <1>1 DEF Known
<1> HIDE DEF T, L, n
<1>5. IsFiniteSet(T) /\ IsFiniteSet(L)
  BY <1>1, <1>2, <1>3, <1>4, FiniteTexts
<1>6. (\A t \in T : t.id \in Nat) /\ (\A t \in L : t.id \in Nat)
  BY <1>2, <1>3
<1> QED BY <1>1, <1>5, <1>6 DEF T, L

(* While the text of f is read: k nodes of it are there. *)
Pasting(f, g, k) ==
  /\ Sound(g) /\ Known(g) /\ g.clip = f.clip /\ g.cut = f.cut /\ g.saving = FALSE
  /\ Len(g.order) = Len(f.order) + k

(* There is room for the next. *)
LEMMA FreeThere ==
  ASSUME NEW f, Sound(f), NEW g, NEW k \in Nat, NEW j \in Nat, Pasting(f, g, j),
         j < k, k <= Cardinality(Slots \ Live(f))
  PROVE  Free(g) \in Slots \ Live(g)
<1>1. /\ f \in Flows /\ g \in Flows /\ Listed(f) /\ Listed(g)
      /\ Len(g.order) = Len(f.order) + j
  BY DEF Pasting, Sound, Whole
<1>2. /\ Live(f) \subseteq Slots /\ Live(g) \subseteq Slots
      /\ Len(f.order) \in Nat /\ Len(g.order) \in Nat
  BY <1>1, FlowFacts
<1>3. Cardinality(Live(f)) = Len(f.order) /\ Cardinality(Live(g)) = Len(g.order)
  BY <1>1, ListedOnce
<1>4. IsFiniteSet(Slots) /\ Cardinality(Slots) \in Nat
  BY GraphAssumption, FS_CardinalityType
<1>5. Slots \cap Live(f) = Live(f) /\ Slots \cap Live(g) = Live(g)
  BY <1>2
<1>6. /\ Cardinality(Slots \ Live(f)) = Cardinality(Slots) - Len(f.order)
      /\ Cardinality(Slots \ Live(g)) = Cardinality(Slots) - Len(g.order)
  <2>1. \A L : Cardinality(Slots \ L) = Cardinality(Slots) - Cardinality(Slots \cap L)
    BY <1>4, FS_Difference
  <2> QED BY <1>3, <1>5, <2>1
<1>7. Cardinality(Slots \ Live(g)) # 0
  BY <1>1, <1>2, <1>4, <1>6
<1>8. Slots \ Live(g) # {}
  BY <1>7, FS_EmptySet
<1> QED BY <1>8 DEF Free

(* A node that was copied: AddNode, and then pins with new numbers. *)
LEMMA LoadNewKeeps ==
  ASSUME NEW f, Sound(f), NEW t \in NodeTexts, NEW g, NEW k \in Nat, Pasting(f, g, k),
         Free(g) \in Slots \ Live(g)
  PROVE  Pasting(f, LoadNewNode(g, t), k + 1)
<1> DEFINE n == Free(g)
           h == AddNode(g, n, t.kind)
           k1 == t.kind[1]
           k2 == t.kind[2]
           in == IF k1 = 1 THEN h.next ELSE 0
           out == IF k2 = 1 THEN h.next + k1 ELSE 0
           r == [h.node[n] EXCEPT !.in = in, !.out = out]
           after == h.next + k1 + k2
<1>1. /\ g \in Flows /\ Sound(g) /\ Known(g) /\ n \in Slots \ Live(g) /\ t.kind \in Kinds
      /\ g.saving = FALSE
  BY DEF Pasting, Sound, Whole, NodeTexts
<1>2. /\ Sound(h) /\ Tame(g, h) /\ h.order = Append(g.order, n)
      /\ h.node[n].to = {} /\ h.node[n].from = NoLink
  <2> HIDE DEF n
  <2> QED BY <1>1, AddNodeKeeps
<1>3. k1 \in 0 .. 1 /\ k2 \in 0 .. 1
  BY <1>1, KindFacts
<1>4. LoadNewNode(g, t) = [h EXCEPT !.node[n].in = in, !.node[n].out = out, !.next = after]
  BY DEF LoadNewNode
<1> HIDE DEF n, h, k1, k2
<1>5. /\ h \in Flows /\ h.node \in Nodes /\ h.next \in Nat \ {0} /\ n \in Slots
      /\ h.node[n] \in NodeRecs /\ g.order \in Seq(Slots)
  BY <1>1, <1>2, FlowFacts, NodeFacts DEF Sound, Whole
<1>6. after \in Nat /\ h.next <= after /\ in \in Nat /\ out \in Nat
  BY <1>3, <1>5
<1>7. LoadNewNode(g, t) = Updated(h, h.order, n, r, after)
  <2> HIDE DEF in, out, after
  <2> QED BY <1>4, <1>5 DEF Updated, Flows
<1>8. /\ r \in NodeRecs /\ r.id = h.node[n].id /\ r.to = h.node[n].to
      /\ r.from = h.node[n].from /\ r.in = in /\ r.out = out
  <2> DEFINE x == h.node[n]
  <2>1. x \in NodeRecs /\ r = [x EXCEPT !.in = in, !.out = out]
    BY <1>5
  <2> HIDE DEF in, out, x, r
  <2> QED BY <1>6, <2>1 DEF NodeRecs, x
<1>9. /\ in < after /\ out < after /\ (in = 0 \/ h.next <= in) /\ (out = 0 \/ h.next <= out)
      /\ in = out => in = 0
  BY <1>3, <1>5
<1>10. n \in Live(h)
  <2>1. Len(g.order) \in Nat
    BY <1>5
  <2>2. h.order[Len(g.order) + 1] = n /\ Len(g.order) + 1 \in DOMAIN h.order
    BY <1>2, <1>5, <2>1
  <2> QED BY <2>2 DEF Live
<1> DEFINE p == Updated(h, h.order, n, r, after)
<1>11. /\ Sound(p) /\ Tame(h, p) /\ p.order = h.order
  <2> HIDE DEF in, out, after, r
  <2>1. /\ r.in < after /\ r.out < after
        /\ r.in = 0 \/ h.next <= r.in
        /\ r.out = 0 \/ h.next <= r.out
        /\ r.in = r.out => r.in = 0
    BY <1>8, <1>9
  <2>2. /\ r.in = h.node[n].in \/ h.node[n].from = NoLink
        /\ r.out = h.node[n].out \/ h.node[n].to = {}
        /\ Sound(h) /\ after \in Nat /\ h.next <= after
        /\ r \in NodeRecs /\ r.id = h.node[n].id /\ r.to = h.node[n].to
        /\ r.from = h.node[n].from
    BY <1>2, <1>6, <1>8
  <2>3. LET q == Updated(h, h.order, n, r, after)
        IN  Sound(q) /\ Tame(h, q) /\ q.order = h.order
    BY <1>10, <2>1, <2>2, PinsKeep
  <2> QED BY <2>3
<1> HIDE DEF p, r, in, out, after
<1>12. p \in Flows
  BY <1>11 DEF Sound, Whole
<1>13. Tame(g, p)
  BY <1>1, <1>2, <1>5, <1>11, <1>12, TameTwice
<1>14. Known(p) /\ p.cut = g.cut /\ p.saving = FALSE /\ p.clip = g.clip
  <2>1. Known(p)
    BY <1>1, <1>12, <1>13, TameCopied
  <2> QED BY <1>1, <1>13, <2>1 DEF Tame, SameClip
<1>15. Len(p.order) = Len(f.order) + (k + 1)
  <2>1. Len(g.order) = Len(f.order) + k /\ Len(f.order) \in Nat /\ Len(g.order) \in Nat
    <3>1. f \in Flows
      BY DEF Sound, Whole
    <3> QED BY <1>5, <3>1, FlowFacts DEF Pasting
  <2>2. Len(p.order) = Len(g.order) + 1
    BY <1>2, <1>5, <1>11
  <2> DEFINE a == Len(f.order)
             b == Len(g.order)
  <2>3. b = a + k /\ a \in Nat /\ Len(p.order) = b + 1
    BY <2>1, <2>2
  <2> HIDE DEF a, b
  <2>4. Len(p.order) = a + (k + 1)
    BY <2>3
  <2> QED BY <2>4 DEF a
<1> QED BY <1>7, <1>11, <1>14, <1>15 DEF Pasting, p

(* A node that was cut: AddNode, and then the numbers that it had.             *)
LEMMA LoadKeeps ==
  ASSUME NEW f, Sound(f), NEW T \in SUBSET NodeTexts, NEW t \in T, NEW g, NEW k \in Nat,
         Pasting(f, g, k), Unused(g, T), Free(g) \in Slots \ Live(g)
  PROVE  Pasting(f, LoadNode(g, t), k + 1) /\ Unused(LoadNode(g, t), T \ {t})
<1> DEFINE n == Free(g)
           h == AddNode(g, n, t.kind)
           r == [h.node[n] EXCEPT !.id = t.id, !.in = t.in, !.out = t.out]
<1>1. /\ g \in Flows /\ Sound(g) /\ Known(g) /\ n \in Slots \ Live(g) /\ t.kind \in Kinds
      /\ g.saving = FALSE /\ t.id \in Nat /\ t.in \in Nat /\ t.out \in Nat
  BY DEF Pasting, Sound, Whole, NodeTexts
<1>2. /\ Sound(h) /\ Tame(g, h) /\ h.order = Append(g.order, n)
      /\ h.node[n].to = {} /\ h.node[n].from = NoLink
  <2> HIDE DEF n
  <2> QED BY <1>1, AddNodeKeeps
<1>3. LoadNode(g, t) = [h EXCEPT !.node[n].id = t.id, !.node[n].in = t.in, !.node[n].out = t.out,
                                 !.next = Most(@, Most(t.in, t.out) + 1)]
  BY DEF LoadNode
<1> HIDE DEF n, h
<1>4. /\ h \in Flows /\ h.node \in Nodes /\ h.next \in Nat \ {0} /\ n \in Slots
      /\ h.node[n] \in NodeRecs /\ g.order \in Seq(Slots) /\ h.order \in Seq(Slots)
      /\ Agree(h.node) /\ Numbered(h.node, h.next) /\ Listed(h)
  BY <1>1, <1>2, FlowFacts, NodeFacts DEF Sound, Whole
<1>5. Known(h) /\ Unused(h, T)
  BY <1>1, <1>2, <1>4, TameCopied
<1>6. /\ t.id # 0 /\ t.id < h.next /\ t.in < h.next /\ t.out < h.next
      /\ \A m \in Slots : t.id # h.node[m].id
      /\ Vacant(h.node, t.in) /\ Vacant(h.node, t.out)
      /\ t.in = t.out => t.in = 0
  BY <1>5 DEF Unused
<1>7. Most(h.next, Most(t.in, t.out) + 1) = h.next
  BY <1>1, <1>4, <1>6 DEF Most
<1>8. LoadNode(g, t) = Updated(h, h.order, n, r, h.next)
  <2> DEFINE next == Most(h.next, Most(t.in, t.out) + 1)
  <2>1. LoadNode(g, t) = [h EXCEPT !.node[n].id = t.id, !.node[n].in = t.in,
                                   !.node[n].out = t.out, !.next = next]
    BY <1>3
  <2>2. next = h.next
    BY <1>7
  <2> DEFINE a == t.id
             b == t.in
             c == t.out
  <2>3. LoadNode(g, t) = [h EXCEPT !.node[n].id = a, !.node[n].in = b,
                                   !.node[n].out = c, !.next = h.next]
    BY <2>1, <2>2
  <2>4. r = [h.node[n] EXCEPT !.id = a, !.in = b, !.out = c]
    OBVIOUS
  <2> DEFINE N == h.node
             x == N[n]
             N1 == [N EXCEPT ![n].id = a]
             N2 == [N1 EXCEPT ![n].in = b]
             N3 == [N2 EXCEPT ![n].out = c]
  <2>5. LoadNode(g, t) = [h EXCEPT !.node = N3, !.next = h.next]
    <3> HIDE DEF next, a, b, c, r
    <3> QED BY <1>4, <2>3 DEF Flows
  <2>6. N3 = [N EXCEPT ![n] = r]
    <3>1. N \in [Slots -> NodeRecs] /\ r = [x EXCEPT !.id = a, !.in = b, !.out = c] /\ x = N[n]
      BY <1>4, <2>4 DEF Nodes
    <3> HIDE DEF next, a, b, c, r, x, N
    <3> QED BY <1>4, <3>1
  <2>7. h = [h EXCEPT !.order = h.order]
    BY <1>4 DEF Flows
  <2> HIDE DEF next, a, b, c, r, N3
  <2> QED BY <1>4, <2>5, <2>6, <2>7 DEF Updated, Flows
<1>9. /\ r \in NodeRecs /\ r.id = t.id /\ r.in = t.in /\ r.out = t.out
      /\ r.to = {} /\ r.from = NoLink
  <2> DEFINE x == h.node[n]
  <2>1. x \in NodeRecs /\ r = [x EXCEPT !.id = t.id, !.in = t.in, !.out = t.out]
        /\ x.to = {} /\ x.from = NoLink
    BY <1>2, <1>4
  <2> HIDE DEF x, r
  <2> QED BY <1>1, <2>1 DEF NodeRecs
<1> DEFINE p == Updated(h, h.order, n, r, h.next)
           M == p.node
<1>10. /\ p \in Flows /\ M \in Nodes /\ p.order = h.order /\ p.next = h.next
       /\ M[n] = r /\ (\A m \in Slots : m # n => M[m] = h.node[m])
       /\ SameClip(h, p) /\ p.clip = h.clip
  <2> HIDE DEF r
  <2> QED BY <1>4, <1>9, UpdatedFacts
<1> HIDE DEF p, r
<1>11. Agree(M) /\ Numbered(M, h.next)
  <2>1. /\ M[n].to = h.node[n].to /\ M[n].from = h.node[n].from
        /\ M[n].id < h.next /\ M[n].in < h.next /\ M[n].out < h.next
        /\ M[n].in = M[n].out => M[n].in = 0
        /\ M[n].id # 0 /\ h.node[n].to = {} /\ h.node[n].from = NoLink
    BY <1>2, <1>6, <1>9, <1>10
  <2>2. ASSUME NEW m \in Slots, m # n
        PROVE  /\ M[n].id = h.node[m].id => M[n].id = 0
               /\ M[n].in \in {h.node[m].in, h.node[m].out} => M[n].in = 0
               /\ M[n].out \in {h.node[m].in, h.node[m].out} => M[n].out = 0
    BY <1>6, <1>9, <1>10 DEF Vacant
  <2> HIDE DEF M
  <2>3. h.next \in Nat /\ h.next <= h.next
    BY <1>4
  <2> QED BY <1>4, <1>10, <2>1, <2>2, <2>3, NumbersSet
<1>12. Live(p) = Live(h) /\ n \in Live(h)
  <2>1. Len(g.order) \in Nat
    BY <1>4
  <2>2. h.order[Len(g.order) + 1] = n /\ Len(g.order) + 1 \in DOMAIN h.order
    BY <1>2, <1>4, <2>1
  <2> QED BY <1>10, <2>2 DEF Live
<1>13. Sound(p)
  <2>1. Listed(p)
    BY <1>4, <1>6, <1>9, <1>10, <1>12 DEF Listed
  <2> QED BY <1>10, <1>11, <2>1 DEF Sound, Whole
<1>14. AllTexts(p) \subseteq AllTexts(h)
  <2>1. /\ M[n].to = h.node[n].to /\ M[n].from = h.node[n].from
        /\ h.node[n].to = {} /\ h.node[n].from = NoLink
    BY <1>2, <1>9, <1>10
  <2>2. Whole(h)
    BY <1>2 DEF Sound
  <2> QED BY <1>4, <1>10, <2>1, <2>2, TextsNode
<1>15. Known(p)
  <2>1. h.next <= p.next /\ p.clip.nodes = h.clip.nodes
    BY <1>4, <1>10
  <2> QED BY <1>4, <1>5, <1>10, <1>14, <2>1, KnownFewer
<1>16. Unused(p, T \ {t})
  <2>1. ASSUME NEW u \in T \ {t}
        PROVE  /\ u.id # 0 /\ u.id < p.next /\ u.in < p.next /\ u.out < p.next
               /\ \A m \in Slots : u.id # M[m].id
               /\ Vacant(M, u.in) /\ Vacant(M, u.out)
               /\ u.in = u.out => u.in = 0
    <3>1. /\ u.id # 0 /\ u.id < h.next /\ u.in < h.next /\ u.out < h.next
          /\ \A m \in Slots : u.id # h.node[m].id
          /\ Vacant(h.node, u.in) /\ Vacant(h.node, u.out)
          /\ u.in = u.out => u.in = 0
      BY <1>5 DEF Unused
    <3>2. /\ u.id # t.id
          /\ u.in = t.in => u.in = 0
          /\ u.out = t.out => u.out = 0
          /\ u.in = t.out => u.in = 0
          /\ t.in = u.out => t.in = 0
      BY <1>5 DEF Unused
    <3>3. \A m \in Slots : u.id # M[m].id
      BY <1>9, <1>10, <3>1, <3>2
    <3>4. Vacant(M, u.in) /\ Vacant(M, u.out)
      BY <1>9, <1>10, <3>1, <3>2 DEF Vacant
    <3> QED BY <1>10, <3>1, <3>3, <3>4
  <2>2. \A u, v \in T \ {t} : u # v => /\ u.id # v.id
                                       /\ u.in = v.in => u.in = 0
                                       /\ u.out = v.out => u.out = 0
                                       /\ u.in = v.out => u.in = 0
    BY <1>5 DEF Unused
  <2> QED BY <2>1, <2>2 DEF Unused
<1>17. p.cut = g.cut /\ p.saving = FALSE /\ p.clip = g.clip
  BY <1>1, <1>2, <1>10 DEF Tame, SameClip
<1>18. Len(p.order) = Len(f.order) + (k + 1)
  <2>1. Len(g.order) = Len(f.order) + k /\ Len(f.order) \in Nat /\ Len(g.order) \in Nat
    <3>1. f \in Flows
      BY DEF Sound, Whole
    <3> QED BY <1>4, <3>1, FlowFacts DEF Pasting
  <2>2. Len(p.order) = Len(g.order) + 1
    BY <1>2, <1>4, <1>10
  <2> DEFINE a == Len(f.order)
             b == Len(g.order)
  <2>3. b = a + k /\ a \in Nat /\ Len(p.order) = b + 1
    BY <2>1, <2>2
  <2> HIDE DEF a, b
  <2>4. Len(p.order) = a + (k + 1)
    BY <2>3
  <2> QED BY <2>4 DEF a
<1>19. Pasting(f, p, k + 1)
  BY <1>13, <1>15, <1>17, <1>18 DEF Pasting
<1> QED BY <1>8, <1>16, <1>19 DEF p

LEMMA NodesLoaded ==
  ASSUME NEW f, Sound(f), Known(f), f.saving = FALSE, Unused(f, f.clip.nodes),
         Cardinality(f.clip.nodes) <= Cardinality(Slots \ Live(f))
  PROVE  Pasting(f, ForEach(LoadNode, f, f.clip.nodes), Cardinality(f.clip.nodes))
<1> DEFINE T == f.clip.nodes
           P == [s \in SUBSET T |-> Last(s)]
           X == [s \in SUBSET T |-> {g \in Flows : Pasting(f, g, Cardinality(s)) /\ Unused(g, T \ s)}]
           G == [s \in SUBSET T |-> [g \in Flows |-> LoadNode(g, Last(s))]]
           Def(h) == h = [s \in SUBSET T |->
                            IF s = {} THEN f
                            ELSE LoadNode(h[s \ {Last(s)}], Last(s))]
<1>0. /\ f \in Flows /\ IsFiniteSet(T) /\ T \in SUBSET NodeTexts /\ \A t \in T : t.id \in Nat
  BY KnownFinite, FlowFacts DEF Sound, Whole
<1>1. f \in X[{}]
  <2>1. Len(f.order) = Len(f.order) + 0 /\ Cardinality({}) = 0 /\ T \ {} = T
    <3>1. Len(f.order) \in Nat
      BY <1>0, FlowFacts
    <3> QED BY <3>1, FS_EmptySet
  <2>2. Pasting(f, f, 0) /\ Unused(f, T)
    BY <2>1 DEF Pasting
  <2> HIDE DEF T
  <2> QED BY <1>0, <2>1, <2>2
<1>2. ASSUME NEW s \in SUBSET T, s # {}, NEW g \in X[s \ {Last(s)}]
      PROVE  g \in Flows /\ LoadNode(g, Last(s)) \in X[s]
  <2> DEFINE t == Last(s)
             r == s \ {t}
             j == Cardinality(r)
             d == LoadNode(g, t)
  <2>1. t \in s /\ r \in SUBSET T
    BY <1>0, <1>2, LastTaken DEF Takes
  <2>2. /\ IsFiniteSet(s) /\ IsFiniteSet(r) /\ j \in Nat /\ Cardinality(s) \in Nat
        /\ Cardinality(s) <= Cardinality(T) /\ Cardinality(T) \in Nat
    BY <1>0, <2>1, FS_Subset, FS_CardinalityType
  <2>3. Cardinality(s) = j + 1
    BY <2>1, <2>2, FS_RemoveElement
  <2>4. Pasting(f, g, j) /\ Unused(g, T \ r) /\ g \in Flows
    <3> HIDE DEF T, r
    <3> QED BY <1>2, <2>1 DEF r
  <2>5. Free(g) \in Slots \ Live(g)
    <3>1. Cardinality(T) <= Cardinality(Slots \ Live(f)) /\ j < Cardinality(T)
      BY <2>2, <2>3
    <3> HIDE DEF T, j, r
    <3> QED BY <2>2, <2>4, <3>1, FreeThere
  <2>6. Pasting(f, d, j + 1) /\ Unused(d, (T \ r) \ {t})
    <3>1. T \ r \in SUBSET NodeTexts /\ t \in T \ r
      BY <1>0, <2>1
    <3> HIDE DEF T, j, r, t
    <3> QED BY <2>2, <2>4, <2>5, <3>1, LoadKeeps DEF d
  <2>7. (T \ r) \ {t} = T \ s
    BY <2>1
  <2> HIDE DEF d, j, r, t, T
  <2>8. d \in X[s]
    BY <2>3, <2>6, <2>7 DEF Pasting, Sound, Whole
  <2> QED BY <2>4, <2>8 DEF d, t
<1>3. /\ Takes(P, T)
      /\ \A s \in SUBSET T : P[s] = Last(s)
      /\ \A s \in SUBSET T : s \ {Last(s)} \in SUBSET T
  BY <1>0, LastTaken
<1>4. PICK h : Folded(T, P, f, G, h) /\ \A s \in SUBSET T : h[s] \in X[s]
  <2>1. ASSUME NEW s \in SUBSET T, s # {}, NEW x \in X[s \ {P[s]}] PROVE G[s][x] \in X[s]
    <3> HIDE DEF X, P
    <3>1. x \in Flows /\ LoadNode(x, Last(s)) \in X[s]
      BY <1>2, <1>3, <2>1
    <3> QED BY <3>1
  <2> HIDE DEF T, G, X, P
  <2> QED BY <1>0, <1>1, <1>3, <2>1, FoldIn
<1>5. Def(h)
  <2>1. ASSUME NEW s \in SUBSET T, s # {}
        PROVE  h[s] = LoadNode(h[s \ {Last(s)}], Last(s))
    <3> HIDE DEF X, P
    <3>1. h[s \ {Last(s)}] \in Flows
      BY <1>2, <1>3, <1>4, <2>1
    <3>2. h[s] = G[s][h[s \ {Last(s)}]]
      <4> HIDE DEF G
      <4> QED BY <1>3, <1>4, <2>1 DEF Folded
    <3> QED BY <3>1, <3>2
  <2> HIDE DEF G, X, P
  <2> QED BY <1>4, <2>1 DEF Folded
<1> DEFINE iter == CHOOSE h2 : Def(h2)
<1>6. Def(iter)
  <2> HIDE DEF Def
  <2> QED BY <1>5
<1>7. \A s \in SUBSET T : iter[s] \in X[s]
  <2> HIDE DEF iter
  <2>1. iter[{}] \in X[{}]
    <3> HIDE DEF X
    <3> QED BY <1>1, <1>6
  <2>2. ASSUME NEW s \in SUBSET T, s # {}, iter[s \ {P[s]}] \in X[s \ {P[s]}]
        PROVE  iter[s] \in X[s]
    <3> HIDE DEF X, P
    <3>1. LoadNode(iter[s \ {Last(s)}], Last(s)) \in X[s]
      BY <1>2, <1>3, <2>2
    <3> QED BY <1>6, <2>2, <3>1
  <2> HIDE DEF X, T, Def, P
  <2> QED BY <1>0, <1>3, <2>1, <2>2, AlongSubsets
<1>8. ForEach(LoadNode, f, T) = iter[T]
  BY DEF ForEach, MapThenFoldSet, Last
<1> HIDE DEF iter
<1>9. ForEach(LoadNode, f, T) \in X[T]
  <2> HIDE DEF X
  <2> QED BY <1>7, <1>8
<1> QED BY <1>9

LEMMA NewNodesLoaded ==
  ASSUME NEW f, Sound(f), Known(f), f.saving = FALSE,
         Cardinality(f.clip.nodes) <= Cardinality(Slots \ Live(f))
  PROVE  Pasting(f, ForEach(LoadNewNode, f, f.clip.nodes), Cardinality(f.clip.nodes))
<1> DEFINE T == f.clip.nodes
           P == [s \in SUBSET T |-> Last(s)]
           X == [s \in SUBSET T |-> {g \in Flows : Pasting(f, g, Cardinality(s))}]
           G == [s \in SUBSET T |-> [g \in Flows |-> LoadNewNode(g, Last(s))]]
           Def(h) == h = [s \in SUBSET T |->
                            IF s = {} THEN f
                            ELSE LoadNewNode(h[s \ {Last(s)}], Last(s))]
<1>0. /\ f \in Flows /\ IsFiniteSet(T) /\ T \in SUBSET NodeTexts /\ \A t \in T : t.id \in Nat
  BY KnownFinite, FlowFacts DEF Sound, Whole
<1>1. f \in X[{}]
  <2>1. Len(f.order) = Len(f.order) + 0 /\ Cardinality({}) = 0
    <3>1. Len(f.order) \in Nat
      BY <1>0, FlowFacts
    <3> QED BY <3>1, FS_EmptySet
  <2>2. Pasting(f, f, 0)
    BY <2>1 DEF Pasting
  <2> HIDE DEF T
  <2> QED BY <1>0, <2>1, <2>2
<1>2. ASSUME NEW s \in SUBSET T, s # {}, NEW g \in X[s \ {Last(s)}]
      PROVE  g \in Flows /\ LoadNewNode(g, Last(s)) \in X[s]
  <2> DEFINE t == Last(s)
             r == s \ {t}
             j == Cardinality(r)
             d == LoadNewNode(g, t)
  <2>1. t \in s /\ r \in SUBSET T
    BY <1>0, <1>2, LastTaken DEF Takes
  <2>2. /\ IsFiniteSet(s) /\ IsFiniteSet(r) /\ j \in Nat /\ Cardinality(s) \in Nat
        /\ Cardinality(s) <= Cardinality(T) /\ Cardinality(T) \in Nat
    BY <1>0, <2>1, FS_Subset, FS_CardinalityType
  <2>3. Cardinality(s) = j + 1
    BY <2>1, <2>2, FS_RemoveElement
  <2>4. Pasting(f, g, j) /\ g \in Flows
    <3> HIDE DEF T, r
    <3> QED BY <1>2, <2>1 DEF r
  <2>5. Free(g) \in Slots \ Live(g)
    <3>1. Cardinality(T) <= Cardinality(Slots \ Live(f)) /\ j < Cardinality(T)
      BY <2>2, <2>3
    <3> HIDE DEF T, j, r
    <3> QED BY <2>2, <2>4, <3>1, FreeThere
  <2>6. Pasting(f, d, j + 1)
    <3>1. t \in NodeTexts
      BY <1>0, <2>1
    <3> HIDE DEF T, j, r, t
    <3> QED BY <2>2, <2>4, <2>5, <3>1, LoadNewKeeps DEF d
  <2> HIDE DEF d, j, r, t, T
  <2>7. d \in X[s]
    BY <2>3, <2>6 DEF Pasting, Sound, Whole
  <2> QED BY <2>4, <2>7 DEF d, t
<1>3. /\ Takes(P, T)
      /\ \A s \in SUBSET T : P[s] = Last(s)
      /\ \A s \in SUBSET T : s \ {Last(s)} \in SUBSET T
  BY <1>0, LastTaken
<1>4. PICK h : Folded(T, P, f, G, h) /\ \A s \in SUBSET T : h[s] \in X[s]
  <2>1. ASSUME NEW s \in SUBSET T, s # {}, NEW x \in X[s \ {P[s]}] PROVE G[s][x] \in X[s]
    <3> HIDE DEF X, P
    <3>1. x \in Flows /\ LoadNewNode(x, Last(s)) \in X[s]
      BY <1>2, <1>3, <2>1
    <3> QED BY <3>1
  <2> HIDE DEF T, G, X, P
  <2> QED BY <1>0, <1>1, <1>3, <2>1, FoldIn
<1>5. Def(h)
  <2>1. ASSUME NEW s \in SUBSET T, s # {}
        PROVE  h[s] = LoadNewNode(h[s \ {Last(s)}], Last(s))
    <3> HIDE DEF X, P
    <3>1. h[s \ {Last(s)}] \in Flows
      BY <1>2, <1>3, <1>4, <2>1
    <3>2. h[s] = G[s][h[s \ {Last(s)}]]
      <4> HIDE DEF G
      <4> QED BY <1>3, <1>4, <2>1 DEF Folded
    <3> QED BY <3>1, <3>2
  <2> HIDE DEF G, X, P
  <2> QED BY <1>4, <2>1 DEF Folded
<1> DEFINE iter == CHOOSE h2 : Def(h2)
<1>6. Def(iter)
  <2> HIDE DEF Def
  <2> QED BY <1>5
<1>7. \A s \in SUBSET T : iter[s] \in X[s]
  <2> HIDE DEF iter
  <2>1. iter[{}] \in X[{}]
    <3> HIDE DEF X
    <3> QED BY <1>1, <1>6
  <2>2. ASSUME NEW s \in SUBSET T, s # {}, iter[s \ {P[s]}] \in X[s \ {P[s]}]
        PROVE  iter[s] \in X[s]
    <3> HIDE DEF X, P
    <3>1. LoadNewNode(iter[s \ {Last(s)}], Last(s)) \in X[s]
      BY <1>2, <1>3, <2>2
    <3> QED BY <1>6, <2>2, <3>1
  <2> HIDE DEF X, T, Def, P
  <2> QED BY <1>0, <1>3, <2>1, <2>2, AlongSubsets
<1>8. ForEach(LoadNewNode, f, T) = iter[T]
  BY DEF ForEach, MapThenFoldSet, Last
<1> HIDE DEF iter
<1>9. ForEach(LoadNewNode, f, T) \in X[T]
  <2> HIDE DEF X
  <2> QED BY <1>7, <1>8
<1> QED BY <1>9

(* The first node that has a pin of that number, if there is one. *)
LEMMA FirstHas ==
  ASSUME NEW f \in Flows, NEW id
  PROVE  /\ LET s == FirstWith(f, LAMBDA n : f.node[n].out, id)
            IN  s # 0 => s \in Live(f) /\ f.node[s].out = id
         /\ LET e == FirstWith(f, LAMBDA n : f.node[n].in, id)
            IN  e # 0 => e \in Live(f) /\ f.node[e].in = id
<1>1. f.order \in Seq(Slots) /\ DOMAIN f.order \subseteq Nat
  BY FlowFacts
<1>2. ASSUME NEW at \in SUBSET DOMAIN f.order, at # {}
      PROVE  (CHOOSE i \in at : \A j \in at : i <= j) \in at
  <2>1. \E i \in at : \A j \in at : i <= j
    BY <1>1, <1>2, Least
  <2> QED BY <2>1
<1>3. ASSUME NEW i \in DOMAIN f.order PROVE f.order[i] \in Live(f)
  BY DEF Live
<1> DEFINE outs == {i \in DOMAIN f.order : f.node[f.order[i]].out = id}
           ins == {i \in DOMAIN f.order : f.node[f.order[i]].in = id}
           o == CHOOSE i \in outs : \A j \in outs : i <= j
           p == CHOOSE i \in ins : \A j \in ins : i <= j
<1>4. outs # {} => o \in outs
  <2>1. outs \in SUBSET DOMAIN f.order
    OBVIOUS
  <2> HIDE DEF outs
  <2> QED BY <1>2, <2>1
<1>5. ins # {} => p \in ins
  <2>1. ins \in SUBSET DOMAIN f.order
    OBVIOUS
  <2> HIDE DEF ins
  <2> QED BY <1>2, <2>1
<1>6. /\ FirstWith(f, LAMBDA n : f.node[n].out, id) = IF outs = {} THEN 0 ELSE f.order[o]
      /\ FirstWith(f, LAMBDA n : f.node[n].in, id) = IF ins = {} THEN 0 ELSE f.order[p]
  BY DEF FirstWith
<1> HIDE DEF o, p
<1>7. /\ outs # {} => f.order[o] \in Live(f) /\ f.node[f.order[o]].out = id
      /\ ins # {} => f.order[p] \in Live(f) /\ f.node[f.order[p]].in = id
  BY <1>3, <1>4, <1>5
<1> HIDE DEF outs, ins
<1> QED BY <1>6, <1>7

(* A link of the text. *)
LEMMA LoadLinkKeeps ==
  ASSUME NEW f, NEW g, NEW k, Pasting(f, g, k), NEW t \in f.clip.links
  PROVE  Pasting(f, LoadLink(g, t), k)
<1> DEFINE s == FirstWith(g, LAMBDA n : g.node[n].out, t.start)
           e == FirstWith(g, LAMBDA n : g.node[n].in, t.end)
           d == CreateLink(g, s, e, t.id)
<1>1. /\ g \in Flows /\ Whole(g) /\ Listed(g) /\ Known(g) /\ g.saving = FALSE
      /\ t \in AllTexts(g)
  BY DEF Pasting, Sound, Whole, AllTexts
<1>2. LoadLink(g, t) = IF s # 0 /\ e # 0 THEN d ELSE g
  BY DEF LoadLink
<1>3. /\ s # 0 => s \in Live(g) /\ g.node[s].out = t.start
      /\ e # 0 => e \in Live(g) /\ g.node[e].in = t.end
  <2> DEFINE a == t.start
             c == t.end
  <2> HIDE DEF a, c
  <2>1. /\ LET x == FirstWith(g, LAMBDA n : g.node[n].out, a)
           IN  x # 0 => x \in Live(g) /\ g.node[x].out = a
        /\ LET x == FirstWith(g, LAMBDA n : g.node[n].in, c)
           IN  x # 0 => x \in Live(g) /\ g.node[x].in = c
    BY <1>1, FirstHas
  <2> QED BY <2>1 DEF a, c
<1> HIDE DEF s, e
<1>4. CASE s # 0 /\ e # 0
  <2>1. s \in Slots /\ e \in Slots /\ g.node[s].id # 0 /\ g.node[e].id # 0
    <3>1. s \in Slots /\ e \in Slots
      BY <1>1, <1>3, <1>4, FlowFacts
    <3> QED BY <1>1, <1>3, <1>4, <3>1 DEF Listed
  <2>2. /\ Whole(d) /\ SameNodes(g, d) /\ d.clip = g.clip /\ d.cut = g.cut
        /\ d.saving = FALSE /\ d.next = g.next /\ AllTexts(d) \subseteq AllTexts(g)
    BY <1>1, <1>3, <1>4, <2>1, LinkAgainKeeps
  <2> HIDE DEF d
  <2>3. Sound(d) /\ d \in Flows
    BY <1>1, <2>2, ListedSame DEF Sound, Whole
  <2>4. Known(d)
    <3>1. g.next <= d.next
      BY <1>1, <2>2, FlowFacts
    <3> QED BY <1>1, <2>2, <2>3, <3>1, KnownFewer
  <2>5. LoadLink(g, t) = d
    BY <1>2, <1>4
  <2> QED BY <2>2, <2>3, <2>4, <2>5 DEF Pasting, SameNodes
<1>5. CASE ~(s # 0 /\ e # 0)
  BY <1>2, <1>5
<1> QED BY <1>4, <1>5

LEMMA LinksLoaded ==
  ASSUME NEW f, Sound(f), NEW b, NEW k, Pasting(f, b, k)
  PROVE  Pasting(f, ForEach(LoadLink, b, f.clip.links), k)
<1> DEFINE T == f.clip.links
           P == [s \in SUBSET T |-> Last(s)]
           S == {g \in Flows : Pasting(f, g, k)}
           X == [s \in SUBSET T |-> S]
           G == [s \in SUBSET T |-> [g \in Flows |-> LoadLink(g, Last(s))]]
           Def(h) == h = [s \in SUBSET T |->
                            IF s = {} THEN b
                            ELSE LoadLink(h[s \ {Last(s)}], Last(s))]
<1>0. /\ f \in Flows /\ b \in Flows /\ b.clip = f.clip /\ IsFiniteSet(T)
      /\ \A t \in T : t.id \in Nat
  <2>1. f \in Flows /\ b \in Flows /\ b.clip = f.clip /\ Known(b)
    BY DEF Pasting, Sound, Whole
  <2> QED BY <2>1, KnownFinite
<1>1. b \in X[{}]
  <2> HIDE DEF T
  <2> QED BY <1>0
<1>2. ASSUME NEW s \in SUBSET T, s # {}, NEW g \in X[s \ {Last(s)}]
      PROVE  g \in Flows /\ LoadLink(g, Last(s)) \in X[s]
  <2> DEFINE t == Last(s)
             d == LoadLink(g, t)
  <2>1. t \in s
    BY <1>0, <1>2, LastTaken DEF Takes
  <2>2. s \ {t} \in SUBSET T
    OBVIOUS
  <2>3. g \in S
    <3> HIDE DEF T, S
    <3> QED BY <1>2, <2>2
  <2>4. Pasting(f, g, k) /\ g \in Flows
    BY <2>3
  <2>5. Pasting(f, d, k)
    <3>1. t \in f.clip.links
      BY <2>1
    <3> HIDE DEF T, t
    <3> QED BY <2>4, <3>1, LoadLinkKeeps DEF d
  <2> HIDE DEF d, T
  <2>6. d \in S
    BY <2>5 DEF Pasting, Sound, Whole
  <2> HIDE DEF S, t
  <2> QED BY <2>4, <2>6 DEF d, t
<1>3. /\ Takes(P, T)
      /\ \A s \in SUBSET T : P[s] = Last(s)
      /\ \A s \in SUBSET T : s \ {Last(s)} \in SUBSET T
  BY <1>0, LastTaken
<1>4. PICK h : Folded(T, P, b, G, h) /\ \A s \in SUBSET T : h[s] \in X[s]
  <2>1. ASSUME NEW s \in SUBSET T, s # {}, NEW x \in X[s \ {P[s]}] PROVE G[s][x] \in X[s]
    <3> HIDE DEF X, P
    <3>1. x \in Flows /\ LoadLink(x, Last(s)) \in X[s]
      BY <1>2, <1>3, <2>1
    <3> QED BY <3>1
  <2> HIDE DEF T, G, X, P
  <2> QED BY <1>0, <1>1, <1>3, <2>1, FoldIn
<1>5. Def(h)
  <2>1. ASSUME NEW s \in SUBSET T, s # {}
        PROVE  h[s] = LoadLink(h[s \ {Last(s)}], Last(s))
    <3> HIDE DEF X, P
    <3>1. h[s \ {Last(s)}] \in Flows
      BY <1>2, <1>3, <1>4, <2>1
    <3>2. h[s] = G[s][h[s \ {Last(s)}]]
      <4> HIDE DEF G
      <4> QED BY <1>3, <1>4, <2>1 DEF Folded
    <3> QED BY <3>1, <3>2
  <2> HIDE DEF G, X, P
  <2> QED BY <1>4, <2>1 DEF Folded
<1> DEFINE iter == CHOOSE h2 : Def(h2)
<1>6. Def(iter)
  <2> HIDE DEF Def
  <2> QED BY <1>5
<1>7. \A s \in SUBSET T : iter[s] \in X[s]
  <2> HIDE DEF iter
  <2>1. iter[{}] \in X[{}]
    <3> HIDE DEF X
    <3> QED BY <1>1, <1>6
  <2>2. ASSUME NEW s \in SUBSET T, s # {}, iter[s \ {P[s]}] \in X[s \ {P[s]}]
        PROVE  iter[s] \in X[s]
    <3> HIDE DEF X, P
    <3>1. LoadLink(iter[s \ {Last(s)}], Last(s)) \in X[s]
      BY <1>2, <1>3, <2>2
    <3> QED BY <1>6, <2>2, <3>1
  <2> HIDE DEF X, T, S, Def, P
  <2> QED BY <1>0, <1>3, <2>1, <2>2, AlongSubsets
<1>8. ForEach(LoadLink, b, T) = iter[T]
  BY DEF ForEach, MapThenFoldSet, Last
<1> HIDE DEF iter
<1>9. ForEach(LoadLink, b, T) \in X[T]
  <2> HIDE DEF X
  <2> QED BY <1>7, <1>8
<1> QED BY <1>9

(* A link has a number: where there is none, there is no link. *)
LEMMA NotLinked ==
  ASSUME NEW f, Whole(f), NEW e \in Slots, f.node[e].from.link = 0
  PROVE  f.node[e].from = NoLink
<1> DEFINE N == f.node
           m == N[e].from.node
           l == [link |-> N[e].from.link, node |-> e]
<1>1. N \in Nodes /\ Agree(N) /\ Numbered(N, f.next)
  BY FlowFacts DEF Whole
<1>2. SUFFICES ASSUME N[e].from # NoLink PROVE FALSE
  OBVIOUS
<1>3. l.link = 0
  OBVIOUS
<1>4. m \in Slots /\ l \in N[m].to
  <2> HIDE DEF N
  <2> QED BY <1>1, <1>2, FromTo
<1> HIDE DEF l, m, N
<1>5. 0 < l.link
  BY <1>1, <1>4 DEF Numbered
<1> QED BY <1>3, <1>5

(* The nodes made of the entries are at the end of the list. *)
LEMMA CopyThere ==
  ASSUME NEW f, Sound(f), Known(f), NEW b, b.order = f.order, NEW g,
         Pasting(f, g, Cardinality(f.clip.nodes)), NEW t \in g.clip.nodes
  PROVE  CopyOf(b, g, t) \in Live(g)
<1> DEFINE T == g.clip.nodes
           earlier == {u \in T : Rank(u.id) < Rank(t.id)}
           a == Len(f.order)
           i == a + 1 + Cardinality(earlier)
<1>1. /\ f \in Flows /\ g \in Flows /\ T = f.clip.nodes
      /\ Len(g.order) = a + Cardinality(T)
  BY DEF Pasting, Sound, Whole
<1>2. IsFiniteSet(T) /\ \A u \in T : u.id \in Nat
  BY <1>1, KnownFinite
<1>3. /\ g.order \in Seq(Slots) /\ a \in Nat
  BY <1>1, FlowFacts
<1>4. earlier \in SUBSET (T \ {t})
  <2>1. Rank(t.id) \in Int
    BY <1>2 DEF Rank
  <2>2. ~(Rank(t.id) < Rank(t.id))
    BY <2>1
  <2> QED BY <2>2
<1>5. /\ IsFiniteSet(T \ {t}) /\ Cardinality(T \ {t}) = Cardinality(T) - 1
      /\ Cardinality(T) \in Nat
  BY <1>2, FS_RemoveElement, FS_CardinalityType
<1>6. Cardinality(earlier) \in Nat /\ Cardinality(earlier) <= Cardinality(T) - 1
  <2> HIDE DEF earlier, T
  <2> QED BY <1>4, <1>5, FS_Subset, FS_CardinalityType
<1>7. CopyOf(b, g, t) = g.order[i]
  BY DEF CopyOf
<1>8. i \in 1 .. Len(g.order)
  <2> DEFINE c == Cardinality(earlier)
             n == Cardinality(T)
  <2>1. c \in Nat /\ n \in Nat /\ c <= n - 1 /\ i = a + 1 + c /\ Len(g.order) = a + n
    BY <1>1, <1>5, <1>6
  <2> HIDE DEF c, n, a, i
  <2>2. i \in 1 .. a + n
    BY <1>3, <2>1
  <2> QED BY <2>1, <2>2
<1> HIDE DEF i
<1>9. i \in DOMAIN g.order
  BY <1>3, <1>8
<1> QED BY <1>7, <1>9 DEF Live

(* The link between two copies gets a number of its own. *)
LEMMA RelinkKeeps ==
  ASSUME NEW f, Sound(f), Known(f), NEW b, b.order = f.order, NEW g, NEW l,
         Pasting(f, g, Cardinality(f.clip.nodes))
  PROVE  Pasting(f, RelinkCopies(b, g, l), Cardinality(f.clip.nodes))
<1> DEFINE from == {t \in g.clip.nodes : t.out = l.start}
           to == {t \in g.clip.nodes : t.in = l.end}
           s == CopyOf(b, g, CHOOSE t \in from : TRUE)
           e == CopyOf(b, g, CHOOSE t \in to : TRUE)
           d == CreateLink(g, s, e, 0)
<1>1. /\ g \in Flows /\ Whole(g) /\ Listed(g) /\ Known(g) /\ g.saving = FALSE
  BY DEF Pasting, Sound, Whole
<1>2. RelinkCopies(b, g, l) = IF from # {} /\ to # {} /\ g.node[e].from.link = 0 THEN d ELSE g
  BY DEF RelinkCopies
<1>3. CASE from # {} /\ to # {} /\ g.node[e].from.link = 0
  <2>1. (CHOOSE t \in from : TRUE) \in g.clip.nodes /\ (CHOOSE t \in to : TRUE) \in g.clip.nodes
    BY <1>3
  <2>2. s \in Live(g) /\ e \in Live(g)
    <3> DEFINE x == CHOOSE t \in from : TRUE
               y == CHOOSE t \in to : TRUE
    <3>1. x \in g.clip.nodes /\ y \in g.clip.nodes
      BY <2>1
    <3> HIDE DEF x, y
    <3>2. CopyOf(b, g, x) \in Live(g) /\ CopyOf(b, g, y) \in Live(g)
      BY <3>1, CopyThere
    <3> QED BY <3>2 DEF x, y
  <2>3. RelinkCopies(b, g, l) = d
    BY <1>2, <1>3
  <2>4. g.node[e].from.link = 0
    BY <1>3
  <2> HIDE DEF s, e
  <2>5. s \in Slots /\ e \in Slots /\ g.node[s].id # 0 /\ g.node[e].id # 0
    <3>1. s \in Slots /\ e \in Slots
      BY <1>1, <2>2, FlowFacts
    <3> QED BY <1>1, <2>2, <3>1 DEF Listed
  <2>6. g.node[e].from = NoLink
    BY <1>1, <2>4, <2>5, NotLinked
  <2>7. Whole(d) /\ SameNodes(g, d) /\ SameClip(g, d) /\ Known(d)
    BY <1>1, <2>5, <2>6, CreateLinkKeeps, LinkCopied
  <2> HIDE DEF d
  <2>8. Sound(d)
    BY <1>1, <2>7, ListedSame DEF Sound
  <2>9. d.clip = g.clip /\ d.cut = g.cut /\ d.saving = FALSE /\ d.order = g.order
    BY <1>1, <2>7 DEF SameClip, SameNodes
  <2> QED BY <2>3, <2>7, <2>8, <2>9 DEF Pasting
<1>4. CASE ~(from # {} /\ to # {} /\ g.node[e].from.link = 0)
  <2>1. RelinkCopies(b, g, l) = g
    BY <1>2, <1>4
  <2> QED BY <2>1
<1> QED BY <1>3, <1>4

Relinked(before, f, links) ==
  ForEach(LAMBDA g, l : RelinkCopies(before, g, l), f, links)

LEMMA CopiesLinked ==
  ASSUME NEW f, Sound(f), Known(f), NEW a, a.order = f.order, NEW b, NEW k,
         k = Cardinality(f.clip.nodes), Pasting(f, b, k)
  PROVE  Pasting(f, Relinked(a, b, f.clip.links), k)
<1> DEFINE T == f.clip.links
           P == [s \in SUBSET T |-> Last(s)]
           S == {g \in Flows : Pasting(f, g, k)}
           X == [s \in SUBSET T |-> S]
           G == [s \in SUBSET T |-> [g \in Flows |-> RelinkCopies(a, g, Last(s))]]
           Def(h) == h = [s \in SUBSET T |->
                            IF s = {} THEN b
                            ELSE RelinkCopies(a, h[s \ {Last(s)}], Last(s))]
<1>0. /\ f \in Flows /\ b \in Flows /\ b.clip = f.clip /\ IsFiniteSet(T)
      /\ \A t \in T : t.id \in Nat
  <2>1. f \in Flows /\ b \in Flows /\ b.clip = f.clip /\ Known(b)
    BY DEF Pasting, Sound, Whole
  <2> QED BY <2>1, KnownFinite
<1>1. b \in X[{}]
  <2> HIDE DEF T
  <2> QED BY <1>0
<1>2. ASSUME NEW s \in SUBSET T, s # {}, NEW g \in X[s \ {Last(s)}]
      PROVE  g \in Flows /\ RelinkCopies(a, g, Last(s)) \in X[s]
  <2> DEFINE t == Last(s)
             d == RelinkCopies(a, g, t)
  <2>1. t \in s
    BY <1>0, <1>2, LastTaken DEF Takes
  <2>2. s \ {t} \in SUBSET T
    OBVIOUS
  <2>3. g \in S
    <3> HIDE DEF T, S
    <3> QED BY <1>2, <2>2
  <2>4. Pasting(f, g, k) /\ g \in Flows
    BY <2>3
  <2>5. Pasting(f, d, k)
    <3>1. t \in f.clip.links
      BY <2>1
    <3> HIDE DEF T, t
    <3> QED BY <2>4, <3>1, RelinkKeeps DEF d
  <2> HIDE DEF d, T
  <2>6. d \in S
    BY <2>5 DEF Pasting, Sound, Whole
  <2> HIDE DEF S, t
  <2> QED BY <2>4, <2>6 DEF d, t
<1>3. /\ Takes(P, T)
      /\ \A s \in SUBSET T : P[s] = Last(s)
      /\ \A s \in SUBSET T : s \ {Last(s)} \in SUBSET T
  BY <1>0, LastTaken
<1>4. PICK h : Folded(T, P, b, G, h) /\ \A s \in SUBSET T : h[s] \in X[s]
  <2>1. ASSUME NEW s \in SUBSET T, s # {}, NEW x \in X[s \ {P[s]}] PROVE G[s][x] \in X[s]
    <3> HIDE DEF X, P
    <3>1. x \in Flows /\ RelinkCopies(a, x, Last(s)) \in X[s]
      BY <1>2, <1>3, <2>1
    <3> QED BY <3>1
  <2> HIDE DEF T, G, X, P
  <2> QED BY <1>0, <1>1, <1>3, <2>1, FoldIn
<1>5. Def(h)
  <2>1. ASSUME NEW s \in SUBSET T, s # {}
        PROVE  h[s] = RelinkCopies(a, h[s \ {Last(s)}], Last(s))
    <3> HIDE DEF X, P
    <3>1. h[s \ {Last(s)}] \in Flows
      BY <1>2, <1>3, <1>4, <2>1
    <3>2. h[s] = G[s][h[s \ {Last(s)}]]
      <4> HIDE DEF G
      <4> QED BY <1>3, <1>4, <2>1 DEF Folded
    <3> QED BY <3>1, <3>2
  <2> HIDE DEF G, X, P
  <2> QED BY <1>4, <2>1 DEF Folded
<1> DEFINE iter == CHOOSE h2 : Def(h2)
<1>6. Def(iter)
  <2> HIDE DEF Def
  <2> QED BY <1>5
<1>7. \A s \in SUBSET T : iter[s] \in X[s]
  <2> HIDE DEF iter
  <2>1. iter[{}] \in X[{}]
    <3> HIDE DEF X
    <3> QED BY <1>1, <1>6
  <2>2. ASSUME NEW s \in SUBSET T, s # {}, iter[s \ {P[s]}] \in X[s \ {P[s]}]
        PROVE  iter[s] \in X[s]
    <3> HIDE DEF X, P
    <3>1. RelinkCopies(a, iter[s \ {Last(s)}], Last(s)) \in X[s]
      BY <1>2, <1>3, <2>2
    <3> QED BY <1>6, <2>2, <3>1
  <2> HIDE DEF X, T, S, Def, P
  <2> QED BY <1>0, <1>3, <2>1, <2>2, AlongSubsets
<1>8. Relinked(a, b, T) = iter[T]
  BY DEF Relinked, ForEach, MapThenFoldSet, Last
<1> HIDE DEF iter
<1>9. Relinked(a, b, T) \in X[T]
  <2> HIDE DEF X
  <2> QED BY <1>7, <1>8
<1> QED BY <1>9

(* What is pasted is nodes and links like any others, and can be pasted again. *)
LEMMA PasteKeeps ==
  ASSUME NEW f, Sound(f), Copied(f),
         Cardinality(f.clip.nodes) <= Cardinality(Slots \ Live(f))
  PROVE  Sound(PasteElements(f)) /\ Copied(PasteElements(f))
<1> DEFINE q == Quiet(f)
           T == f.clip.nodes
           L == f.clip.links
           k == Cardinality(T)
           nodes == IF ~f.cut THEN ForEach(LoadNewNode, q, T) ELSE ForEach(LoadNode, q, T)
           once == ForEach(LoadLink, nodes, L)
           loaded == ForEach(LoadLink, once, L)
           linked == Relinked(f, loaded, L)
           e == [linked EXCEPT !.cut = FALSE]
<1>1. PasteElements(f) = Loud(e)
  BY DEF PasteElements, LoadJson, Relinked
<1>2. /\ Sound(q) /\ SameData(f, q) /\ q.saving = FALSE /\ q.cut = f.cut
      /\ Live(q) = Live(f)
  BY FlagsKeep DEF Quiet
<1>3. q.clip = f.clip /\ f.order = q.order
  BY <1>2 DEF SameData
<1> HIDE DEF q
<1>4. Known(q) /\ (f.cut => Unused(q, T))
  BY <1>2, DataCopied DEF Copied
<1>5. Pasting(q, nodes, k)
  <2>1. CASE f.cut
    <3>1. Pasting(q, ForEach(LoadNode, q, T), k)
      BY <1>2, <1>3, <1>4, <2>1, NodesLoaded
    <3> QED BY <2>1, <3>1
  <2>2. CASE ~f.cut
    <3>1. Pasting(q, ForEach(LoadNewNode, q, T), k)
      BY <1>2, <1>3, <1>4, <2>2, NewNodesLoaded
    <3> QED BY <2>2, <3>1
  <2> QED BY <2>1, <2>2
<1> HIDE DEF nodes
<1>6. Pasting(q, once, k)
  BY <1>2, <1>3, <1>5, LinksLoaded
<1> HIDE DEF once
<1>7. Pasting(q, loaded, k)
  BY <1>2, <1>3, <1>6, LinksLoaded
<1> HIDE DEF loaded
<1>8. Pasting(q, linked, k)
  <2>1. k = Cardinality(q.clip.nodes) /\ L = q.clip.links
    BY <1>3
  <2> HIDE DEF k, L, T
  <2>2. Pasting(q, Relinked(f, loaded, q.clip.links), k)
    BY <1>2, <1>3, <1>4, <1>7, <2>1, CopiesLinked
  <2> QED BY <2>1, <2>2
<1> HIDE DEF linked
<1>9. Sound(linked) /\ Known(linked)
  BY <1>8 DEF Pasting
<1>10. Sound(e) /\ SameData(linked, e) /\ e.cut = FALSE
  BY <1>9, FlagsKeep
<1> HIDE DEF e
<1>11. Copied(e)
  BY <1>9, <1>10, DataCopied DEF Copied
<1> QED BY <1>1, <1>10, <1>11, LoudKeeps

-------------------------------------------------------------------------------
(* The invariant is inductive.                                                 *)

LEMMA InitIInv ==
  ASSUME EditingOnly, Init
  PROVE  IInv
<1>1. session \in Sessions /\ file = NoText
  BY DEF Init, EditingOnly
<1>2. NoText \in Texts
  BY NoTextIsText
<1>3. Quiet(Clear) \in Flows
  <2> DEFINE N == [s \in Slots |-> NoNode]
  <2>1. NoNode \in NodeRecs
    BY DEF NoNode, NodeRecs, NoLink, Kinds
  <2>2. N \in [Slots -> NodeRecs]
    BY <2>1
  <2>3. Clear = [order |-> <<>>, node |-> N, next |-> 1,
                 clip |-> NoText, cut |-> FALSE, saving |-> TRUE]
    BY DEF Clear
  <2> HIDE DEF N
  <2>4. Clear \in Flows
    BY <1>2, <2>2, <2>3 DEF Flows
  <2> DEFINE c == Clear
  <2>5. Quiet(Clear) = [c EXCEPT !.saving = FALSE] /\ c \in Flows
    BY <2>4 DEF Quiet
  <2> HIDE DEF c
  <2> QED BY <2>5 DEF Flows
<1> DEFINE d == DeleteAllNodes(Quiet(Clear))
<1>4. Sound(d) /\ d.clip = NoText /\ d.cut = FALSE
  <2> DEFINE q == Quiet(Clear)
  <2>1. q.clip = NoText /\ q.cut = FALSE /\ q.saving = FALSE
    BY DEF Quiet, Clear
  <2> HIDE DEF q
  <2>2. Sound(DeleteAllNodes(q)) /\ SameClip(q, DeleteAllNodes(q))
    BY <1>3, DeleteAllKeeps DEF q
  <2> QED BY <2>1, <2>2 DEF SameClip, q
<1>5. flow = Loud(d)
  <2>1. flow = LoadFlow(Clear, NoText)
    BY <1>1 DEF Init, EditingOnly
  <2>2. flow = Loud(LoadJson(d, NoText, FALSE))
    BY <2>1 DEF LoadFlow
  <2> HIDE DEF d
  <2> QED BY <2>2, NothingLoaded
<1> HIDE DEF d
<1>6. Copied(d)
  <2>1. d.clip = NoText /\ d.cut = FALSE
    BY <1>4
  <2> QED BY <1>4, <2>1, LinksKnown DEF Copied, Sound
<1>7. Sound(flow) /\ Copied(flow)
  BY <1>4, <1>5, <1>6, LoudKeeps
<1> QED BY <1>1, <1>2, <1>7 DEF IInv

LEMMA SelectionFacts ==
  ASSUME IInv, NEW ids \in Selections
  PROVE  Selected(flow, ids)
<1> DEFINE S == {flow.node[n].id : n \in Live(flow)}
<1>1. flow \in Flows
  BY DEF IInv, Sound, Whole
<1>2. S \subseteq Nat
  BY <1>1, FlowFacts, NodeFacts
<1>3. Len(flow.order) \in Nat
  BY <1>1, FlowFacts
<1>4. PICK k \in 1 .. Len(flow.order) : ids \in [1 .. k -> S]
  BY DEF Selections
<1>5. k \in Nat /\ \A i, j \in DOMAIN ids : ids[i] = ids[j] => i = j
  BY <1>3, <1>4 DEF Selections
<1>6. ids \in Seq(Nat) /\ Len(ids) = k /\ \A i \in 1 .. k : ids[i] \in S
  <2> HIDE DEF S
  <2>1. ids \in [1 .. k -> Nat]
    BY <1>2, <1>4
  <2> QED BY <1>4, <1>5, <2>1
<1> QED BY <1>4, <1>5, <1>6 DEF Selected

LEMMA SafeAction ==
  ASSUME EditingOnly, IInv, Next
  PROVE  IInv'
<1>0. /\ Sound(flow) /\ Whole(flow) /\ Listed(flow) /\ flow \in Flows /\ file \in Texts
      /\ session \in Sessions /\ session' = session
      /\ flow.node \in Nodes /\ Agree(flow.node) /\ Live(flow) \subseteq Slots
  BY FlowFacts DEF IInv, Sound, Whole, Next
<1>1. SUFFICES /\ Sound(flow') /\ file' \in Texts
               /\ "paste" \in session.ops /\ Copied(flow) => Copied(flow')
  <2>1. session \in Sessions /\ session' = session
    BY <1>0
  <2>2. "paste" \in session.ops => Copied(flow)
    BY DEF IInv
  <2>3. "paste" \in session'.ops => Copied(flow')
    BY <1>1, <2>1, <2>2
  <2>4. Sound(flow') /\ file' \in Texts /\ session' \in Sessions
    BY <1>1, <2>1
  <2> QED BY <2>3, <2>4, Zenon DEF IInv
<1>2. \A n \in Live(flow) : flow.node[n].id # 0
  BY <1>0 DEF Listed
<1>3. CASE Create
  <2>1. PICK k \in session.kinds : flow' = AddNode(flow, Free(flow), k)
    BY <1>3 DEF Create
  <2>2. k \in Kinds
    BY <1>0, GraphAssumption
  <2>3. Free(flow) \in Slots \ Live(flow)
    <3>1. Slots \ Live(flow) # {}
      <4>1. Cardinality(Slots \ Live(flow)) >= 1
        BY <1>3 DEF Create, Room
      <4> QED BY <4>1, FS_EmptySet
    <3> QED BY <3>1 DEF Free
  <2>4. Sound(flow') /\ Tame(flow, flow')
    BY <1>0, <2>1, <2>2, <2>3, AddNodeKeeps
  <2> QED BY <1>0, <1>3, <2>4, TameCopied DEF Create, Sound, Whole
<1>4. CASE Link
  <2>1. PICK s \in Live(flow), e \in Live(flow) :
          flow.node[e].from.link = 0 /\ flow' = CreateLink(flow, s, e, 0)
    BY <1>4 DEF Link
  <2>2. s \in Slots /\ e \in Slots
    BY <1>0
  <2>3. flow.node[e].from = NoLink
    BY <1>0, <2>1, <2>2, NotLinked
  <2>4. Whole(flow') /\ SameNodes(flow, flow')
    BY <1>0, <1>2, <2>1, <2>2, <2>3, CreateLinkKeeps
  <2>5. Copied(flow) => Copied(flow')
    BY <1>0, <1>2, <2>1, <2>2, <2>3, LinkCopied
  <2> QED BY <1>0, <1>4, <2>4, <2>5, ListedSame DEF Sound, Link
<1>5. CASE Unlink
  <2>1. PICK s \in Live(flow), e \in Live(flow) : flow' = DeleteLink(flow, s, e)
    BY <1>5 DEF Unlink
  <2>2. Fewer(flow, flow')
    BY <1>0, <2>1, DeleteLinkKeeps
  <2>3. Sound(flow') /\ Tame(flow, flow')
    BY <1>0, <2>2, SoundFewer, TameFewer
  <2> QED BY <1>0, <1>5, <2>3, TameCopied DEF Unlink, Sound, Whole
<1>6. CASE Relink
  <2>1. PICK s \in Live(flow), e \in Live(flow) :
          /\ Linked(flow, s, e)
          /\ flow' = CreateLink(DeleteLink(flow, s, e), s, e, 0)
    BY <1>6 DEF Relink
  <2>2. s \in Slots /\ e \in Slots
    BY <1>0
  <2>3. flow.node[e].from.node = s
    <3>1. PICK l \in flow.node[s].to : l.node = e
      BY <2>1 DEF Linked
    <3>2. flow.node[l.node].from = [link |-> l.link, node |-> s]
      BY <1>0, <2>2, <3>1, ToFrom
    <3> QED BY <3>1, <3>2
  <2> DEFINE g == DeleteLink(flow, s, e)
  <2>4. Fewer(flow, g) /\ g.node[e].from = NoLink
    BY <1>0, <2>2, <2>3, DeleteLinkKeeps
  <2>5. flow' = CreateLink(g, s, e, 0)
    BY <2>1
  <2> HIDE DEF g
  <2>6. Sound(g) /\ Whole(g) /\ g.node[s].id # 0 /\ g.node[e].id # 0
    BY <1>0, <1>2, <2>2, <2>4, SoundFewer, FewerSame DEF SameNodes
  <2>7. Whole(flow') /\ SameNodes(g, flow')
    BY <2>2, <2>4, <2>5, <2>6, CreateLinkKeeps
  <2>8. Copied(flow) => Copied(g)
    BY <1>0, <2>4, <2>6, TameFewer, TameCopied DEF Whole
  <2>9. Copied(g) => Copied(flow')
    BY <2>2, <2>4, <2>5, <2>6, LinkCopied
  <2> QED BY <1>0, <1>6, <2>6, <2>7, <2>8, <2>9, ListedSame DEF Sound, Relink
<1>7. CASE Delete
  <2>1. PICK n \in Live(flow) : flow' = DeleteNode(flow, flow.node[n].id)
    BY <1>7 DEF Delete
  <2>2. Sound(flow') /\ Tame(flow, flow')
    BY <1>0, <2>1, DeleteNodeKeeps
  <2> QED BY <1>0, <1>7, <2>2, TameCopied DEF Delete, Sound, Whole
<1>8. CASE AddPin
  <2>1. PICK n \in Live(flow) :
          \/ flow.node[n].in = 0 /\ flow' = CreateInputPin(flow, n)
          \/ flow.node[n].out = 0 /\ flow' = CreateOutputPin(flow, n)
    BY <1>8 DEF AddPin
  <2>2. Sound(flow') /\ Tame(flow, flow')
    BY <1>0, <2>1, CreatePinKeeps
  <2> QED BY <1>0, <1>8, <2>2, TameCopied DEF AddPin, Sound, Whole
<1>9. CASE DropPin
  <2>1. PICK n \in Live(flow) : \/ flow' = DeleteInputPin(flow, n)
                                \/ flow' = DeleteOutputPin(flow, n)
    BY <1>9 DEF DropPin
  <2>2. Sound(flow') /\ Tame(flow, flow')
    BY <1>0, <2>1, DeletePinKeeps
  <2> QED BY <1>0, <1>9, <2>2, TameCopied DEF DropPin, Sound, Whole
<1>10. CASE Cut
  <2>1. PICK ids \in Selections : flow' = CutElements(flow, ids)
    BY <1>10 DEF Cut
  <2>2. Selected(flow, ids)
    BY SelectionFacts
  <2> QED BY <1>0, <1>10, <2>1, <2>2, CutKeeps DEF Cut
<1>11. CASE Copy
  <2>1. PICK ids \in Selections : flow' = CopyElements(flow, ids)
    BY <1>11 DEF Copy
  <2>2. Selected(flow, ids)
    BY SelectionFacts
  <2> QED BY <1>0, <1>11, <2>1, <2>2, CopyKeeps DEF Copy
<1>12. CASE Save
  BY <1>0, <1>12, TextKeeps DEF Save
<1>13. CASE New
  <2>1. "paste" \notin session.ops
    BY <1>0, <1>13 DEF New, Does, EditingOnly
  <2> QED BY <1>0, <1>13, <2>1, DeleteAllKeeps DEF New
<1>14. CASE Paste
  <2>1. Copied(flow)
    BY <1>14 DEF IInv, Paste, Does
  <2>2. Cardinality(flow.clip.nodes) <= Cardinality(Slots \ Live(flow))
    <3>1. /\ Cardinality(flow.clip.nodes) \in Nat
          /\ Cardinality(Slots \ Live(flow)) \in Nat
      BY <1>0, <2>1, KnownFinite, FS_CardinalityType, FS_Difference, GraphAssumption
         DEF Copied
    <3>2. Cardinality(Slots \ Live(flow)) >= Cardinality(flow.clip.nodes)
      BY <1>14 DEF Paste, Room
    <3> QED BY <3>1, <3>2
  <2>3. Sound(flow') /\ Copied(flow') /\ file' = file
    BY <1>0, <1>14, <2>1, <2>2, PasteKeeps DEF Paste
  <2> QED BY <1>0, <2>3
<1>15. ~Load
  BY <1>0 DEF EditingOnly, Load, Does
<1> QED BY <1>3, <1>4, <1>5, <1>6, <1>7, <1>8, <1>9, <1>10, <1>11, <1>12, <1>13, <1>14,
           <1>15 DEF Next

LEMMA SafeStutter ==
  ASSUME IInv, UNCHANGED vars
  PROVE  IInv'
<1>1. flow' = flow /\ file' = file /\ session' = session
  BY DEF vars
<1> QED BY <1>1 DEF IInv

LEMMA Safe ==
  ASSUME EditingOnly
  PROVE  Spec => []IInv
<1>1. Init => IInv
  BY InitIInv
<1>2. IInv /\ [Next]_vars => IInv'
  BY SafeAction, SafeStutter
<1> QED BY <1>1, <1>2, PTL DEF Spec

-------------------------------------------------------------------------------
(* What it implies.                                                            *)

LEMMA TypeFollows ==
  ASSUME IInv
  PROVE  TypeOK
<1>1. flow \in Flows /\ Listed(flow) /\ file \in Texts
  BY DEF IInv, Sound, Whole
<1>2. /\ flow.order \in Seq(Slots) /\ flow.next \in Nat
      /\ {flow.cut, flow.saving} \subseteq BOOLEAN
  BY <1>1, FlowFacts
<1>3. Cardinality(Live(flow)) = Len(flow.order)
  BY <1>1, ListedOnce
<1>4. flow.node \in [Slots -> NodeRecs]
  BY <1>1, FlowFacts DEF Nodes
<1>5. \A n \in Slots : flow.node[n].id = 0 <=> n \notin Live(flow)
  BY <1>1 DEF Listed
<1>6. \A text \in {file, flow.clip} :
        /\ text.nodes \subseteq [kind : Kinds, id : Nat, in : Nat, out : Nat]
        /\ text.links \subseteq [id : Nat, start : Nat, end : Nat]
  BY <1>1, FlowFacts DEF Texts, NodeTexts, LinkTextSet
<1> QED BY <1>2, <1>3, <1>4, <1>5, <1>6 DEF TypeOK, NodeRecs, Links

LEMMA EndsFollow ==
  ASSUME IInv
  PROVE  EndsAgree
<1>1. /\ Agree(flow.node) /\ Listed(flow) /\ flow.node \in Nodes
  BY FlowFacts DEF IInv, Sound, Whole
<1>2. ASSUME NEW s \in Slots, NEW e \in Slots, NEW id \in 1 .. MaxId
      PROVE  [link |-> id, node |-> e] \in flow.node[s].to
               <=> flow.node[e].from = [link |-> id, node |-> s]
  BY <1>1, GraphAssumption DEF Agree
<1>3. ASSUME NEW s \in Slots, NEW l \in flow.node[s].to
      PROVE  {s, l.node} \subseteq Live(flow)
  <2>1. l.node \in Slots
    BY <1>1, NodeFacts
  <2>2. flow.node[s].id # 0 /\ flow.node[l.node].id # 0
    BY <1>1 DEF Agree
  <2> QED BY <1>1, <2>1, <2>2 DEF Listed
<1> QED BY <1>2, <1>3 DEF EndsAgree

LEMMA UniqueFollow ==
  ASSUME IInv
  PROVE  UniqueIds
<1> DEFINE pins == Live(flow) \X {"in", "out"}
           links == UNION {{s} \X flow.node[s].to : s \in Live(flow)}
           N == flow.node
<1>1. Numbered(N, flow.next) /\ Live(flow) \subseteq Slots
  BY FlowFacts DEF IInv, Sound, Whole
<1>2. \A x, y \in Live(flow) : x # y => N[x].id # N[y].id \/ N[x].id = 0
  BY <1>1 DEF Numbered
<1>3. ASSUME NEW x \in pins, NEW y \in pins, x # y
      PROVE  N[x[1]][x[2]] # N[y[1]][y[2]] \/ N[x[1]][x[2]] = 0
  <2> DEFINE m == x[1]
             n == y[1]
  <2>1. /\ m \in Slots /\ n \in Slots
        /\ x = <<m, "in">> \/ x = <<m, "out">>
        /\ y = <<n, "in">> \/ y = <<n, "out">>
    BY <1>1
  <2>2. /\ N[m].in = N[n].in => N[m].in = 0 \/ m = n
        /\ N[m].out = N[n].out => N[m].out = 0 \/ m = n
        /\ N[m].in = N[n].out => N[m].in = 0
        /\ N[n].in = N[m].out => N[n].in = 0
    BY <1>1, <2>1 DEF Numbered
  <2>3. CASE x[2] = "in" /\ y[2] = "in"
    BY <1>3, <2>1, <2>2, <2>3
  <2>4. CASE x[2] = "out" /\ y[2] = "out"
    BY <1>3, <2>1, <2>2, <2>4
  <2>5. CASE x[2] = "in" /\ y[2] = "out"
    BY <2>2, <2>5
  <2>6. CASE x[2] = "out" /\ y[2] = "in"
    BY <2>2, <2>6
  <2> QED BY <2>1, <2>3, <2>4, <2>5, <2>6
<1>4. ASSUME NEW x \in links, NEW y \in links, x # y
      PROVE  x[2].link # y[2].link \/ x[2].link = 0
  <2>1. PICK m \in Live(flow) : x \in {m} \X N[m].to
    OBVIOUS
  <2>2. PICK n \in Live(flow) : y \in {n} \X N[n].to
    OBVIOUS
  <2>3. x = <<m, x[2]>> /\ y = <<n, y[2]>> /\ x[2] \in N[m].to /\ y[2] \in N[n].to
    BY <2>1, <2>2
  <2>4. x[2].link = y[2].link => m = n /\ x[2] = y[2]
    <3> HIDE DEF N
    <3> QED BY <1>1, <2>1, <2>2, <2>3 DEF Numbered
  <2> QED BY <1>4, <2>3, <2>4
<1> QED BY <1>2, <1>3, <1>4 DEF UniqueIds

-------------------------------------------------------------------------------
(* Theorems.                                                                   *)

(* While no flow is loaded, everything the program holds of its flow, its      *)
(* clipboard and its file has its type, and the list of nodes is those that    *)
(* have a number, each once (NodeManager.cpp).                                 *)
THEOREM GraphTypeCorrect == EditingOnly => (Spec => []TypeOK)
<1>1. IInv => TypeOK
  BY TypeFollows
<1>2. EditingOnly => (Spec => []IInv)
  BY Safe
<1> QED BY <1>1, <1>2, PTL

(* Whatever nodes, pins and links are made, made again, cut, copied, pasted    *)
(* and deleted, and in which order: the two pins of a link both know it, by    *)
(* the same number, and none points to a node that is gone (Pin.cpp,           *)
(* NodeManager.cpp, GlobalActions.cpp).                                        *)
THEOREM LinksAgree == EditingOnly => (Spec => []EndsAgree)
<1>1. IInv => EndsAgree
  BY EndsFollow
<1>2. EditingOnly => (Spec => []IInv)
  BY Safe
<1> QED BY <1>1, <1>2, PTL

(* And no two nodes, pins or links have the same number, those that were cut   *)
(* and come back with the numbers they had included (NodeManager.cpp,          *)
(* GlobalActions.cpp).                                                         *)
THEOREM NumbersUnique == EditingOnly => (Spec => []UniqueIds)
<1>1. IInv => UniqueIds
  BY UniqueFollow
<1>2. EditingOnly => (Spec => []IInv)
  BY Safe
<1> QED BY <1>1, <1>2, PTL
===============================================================================
