------------------------------- MODULE FlowGraph ------------------------------
(***************************************************************************)
(* The graph of a flow as the editor builds it: nodes with pins, the links *)
(* between them, the numbers they are known by, and what copies them:      *)
(* the clipboard and the flow file (Pin.cpp, NodeManager.cpp,              *)
(* FlowManager.cpp, GlobalActions.cpp).                                    *)
(*                                                                         *)
(* Every operation is called by the user interface's thread and runs to    *)
(* its end, so each is one step; it is written as a function of the flow,  *)
(* a record with the nodes, m_NextId, the clipboard and the two flags the  *)
(* operations read.  A node has at most one pin on either side.  What the  *)
(* operations do to the life cycle of the nodes is in NodeLifecycle.       *)
(***************************************************************************)
EXTENDS Integers, Sequences, FiniteSets, Folds

CONSTANTS Slots,   (* where node objects are allocated                   *)
          MaxId,   (* bound: ids handed out                              *)
          MaxEdits,(* bound: what a user does in a session               *)
          Sessions (* what a session may contain: operations, kinds of   *)
                   (* nodes, and the flow file the program starts with   *)

(* A kind of node, by the number of its input and of its output pins. *)
Kinds == (0 .. 1) \X (0 .. 1)

Operations == {"create", "link", "unlink", "relink", "delete", "addpin", "droppin",
               "cut", "copy", "paste", "save", "load", "clear"}

ASSUME GraphAssumption ==
  /\ Slots \subseteq Nat \ {0} /\ IsFiniteSet(Slots)
  /\ MaxId \in 1 .. 99  (* the order of the keys below has two digits *)
  /\ MaxEdits \in Nat
  /\ \A s \in Sessions : s.ops \subseteq Operations /\ s.kinds \subseteq Kinds

VARIABLES flow,    (* what the program holds       *)
          file,    (* the saved flow               *)
          session, (* one of Sessions              *)
          edits    (* how much the user has done   *)

vars == <<flow, file, session, edits>>

-------------------------------------------------------------------------------
(* The flow: its nodes by slot, in the order m_nodes has them.  `from' is the  *)
(* link of the input pin, `to' are the links of the output pin; link 0 is none. *)

NoLink == [link |-> 0, node |-> 0]
NoNode == [kind |-> <<0, 0>>, id |-> 0, in |-> 0, out |-> 0, from |-> NoLink, to |-> {}]
NoText == [nodes |-> {}, links |-> {}]

Clear == [order |-> <<>>, node |-> [s \in Slots |-> NoNode], next |-> 1,
          clip |-> NoText, cut |-> FALSE, saving |-> TRUE]

Live(f) == {f.order[i] : i \in DOMAIN f.order}

Most(x, y) == IF x >= y THEN x ELSE y

Linked(f, s, e) == \E l \in f.node[s].to : l.node = e

(* OutgoingLink entries of the pin of s, but for those to e. *)
Without(f, s, e) == [f EXCEPT !.node[s].to = {l \in @ : l.node # e}]

(* InputPin::disconnect, and the entry of the pin at the other end. *)
Disconnected(f, e) ==
  LET s == f.node[e].from.node
      g == [f EXCEPT !.node[e].from = NoLink]
  IN  IF s = 0 THEN g ELSE Without(g, s, e)

(* OutputPin::connect and InputPin::connect, which call each other. *)
Connected(f, s, e, id) ==
  LET new == IF id # 0 THEN id
             ELSE IF f.node[e].from.node = s THEN f.node[e].from.link ELSE f.next
      g == [f EXCEPT !.node[s].to = @ \cup {[link |-> new, node |-> e]},
                     !.next = IF id = 0 /\ f.node[e].from.node # s THEN @ + 1 ELSE @]
      h == IF id # 0 /\ f.node[e].from.link # id THEN Disconnected(g, e) ELSE g
  IN  [h EXCEPT !.node[e].from = [link |-> new, node |-> s]]

(* What the text of the flow says of a node and of the links of its output. *)
NodeText(f, n) == [kind |-> f.node[n].kind, id |-> f.node[n].id,
                   in |-> f.node[n].in, out |-> f.node[n].out]
LinkTexts(f, n) == {[id |-> l.link, start |-> f.node[n].out, end |-> f.node[l.node].in]
                      : l \in f.node[n].to}

(* Entries are kept by their id: a new one replaces the old. *)
Put(texts, new) == {t \in texts : \A u \in new : t.id # u.id} \cup new

(* saveLastAction, as called by ApplyChanges.  The list of the actions itself  *)
(* is left out, nothing reads it; the links are written to the clipboard.  The *)
(* frames right after a load, when ApplyChanges does nothing, are left out.    *)
Changed(f) == IF f.saving
                THEN [f EXCEPT !.clip.links = Put(@, UNION {LinkTexts(f, n) : n \in Live(f)})]
                ELSE f

-------------------------------------------------------------------------------
(* Links.                                                                      *)

CanLink(f, s, e) == /\ s # e
                    /\ f.node[s].out # f.node[e].in
                    /\ f.node[s].out # 0 /\ f.node[e].in # 0

CreateLink(f, s, e, id) ==
  IF Linked(f, s, e) \/ ~CanLink(f, s, e) THEN f
  ELSE LET g == Connected(f, s, e, id)
       IN  Changed([g EXCEPT !.next = Most(@, id + 1)])

(* Mutant: only the output pin forgets the link. *)
DeleteLink_OneEnd(f, s, e) == IF Linked(f, s, e) THEN Changed(Without(f, s, e)) ELSE f

DeleteLink(f, s, e) ==
  IF Linked(f, s, e) THEN Changed(Disconnected(Without(f, s, e), e)) ELSE f

(* All links of the output pin of n. *)
DeleteLinks(f, n) ==
  LET Drop(l, acc) == DeleteLink(acc, n, l.node)
  IN  MapThenFoldSet(Drop, f, LAMBDA l : l, LAMBDA L : CHOOSE l \in L : TRUE, f.node[n].to)

(* Nodes.                                                                      *)

(* The constructor creates the pins, the inputs first, AddNode gives the id. *)
AddNode(f, n, k) ==
  LET in == f.next   out == in + k[1]   id == out + k[2]
      node == [NoNode EXCEPT !.kind = k, !.id = id,
                             !.in = IF k[1] = 1 THEN in ELSE 0,
                             !.out = IF k[2] = 1 THEN out ELSE 0]
  IN  Changed([f EXCEPT !.order = Append(@, n), !.node[n] = node, !.next = id + 1])

(* Where the first node with that id is in m_nodes, and the node. *)
Place(f, id) == CHOOSE i \in DOMAIN f.order :
                  /\ f.node[f.order[i]].id = id
                  /\ \A j \in 1 .. i - 1 : f.node[f.order[j]].id # id

FindNode(f, id) == f.order[Place(f, id)]

Erased(order, i) == SubSeq(order, 1, i - 1) \o SubSeq(order, i + 1, Len(order))

(* Mutant: the node is gone, m_nodes still has it. *)
DeleteNode_StaysListed(f, id) ==
  LET n == FindNode(f, id)
      s == f.node[n].from.node
      g == IF s = 0 THEN f ELSE DeleteLink(f, s, n)
  IN  Changed([DeleteLinks(g, n) EXCEPT !.node[n] = NoNode])

DeleteNode(f, id) ==
  LET n == FindNode(f, id)
      g == [f EXCEPT !.order = Erased(@, Place(f, id))]
      s == g.node[n].from.node
      h == IF s = 0 THEN g ELSE DeleteLink(g, s, n)
  IN  Changed([DeleteLinks(h, n) EXCEPT !.node[n] = NoNode])

(* Pins that come and go with the settings of a node.  DeleteInputPin and      *)
(* DeleteOutputPin do not call ApplyChanges, their deleteLink does.            *)
CreateInputPin(f, n) ==
  Changed([f EXCEPT !.node[n].kind[1] = 1, !.node[n].in = f.next, !.next = @ + 1])

CreateOutputPin(f, n) ==
  Changed([f EXCEPT !.node[n].kind[2] = 1, !.node[n].out = f.next, !.next = @ + 1])

DeleteInputPin(f, n) ==
  LET s == f.node[n].from.node
      g == IF s = 0 THEN f ELSE DeleteLink(f, s, n)
  IN  [g EXCEPT !.node[n].kind[1] = 0, !.node[n].in = 0]

DeleteOutputPin(f, n) ==
  [DeleteLinks(f, n) EXCEPT !.node[n].kind[2] = 0, !.node[n].out = 0]

Free(f) == CHOOSE n \in Slots \ Live(f) : TRUE

(* DeleteAllNodes: the numbers start again, the clipboard stays. *)
DeleteAllNodes(f) == Changed([Clear EXCEPT !.clip = f.clip, !.cut = f.cut, !.saving = f.saving])

-------------------------------------------------------------------------------
(* The text of a flow.                                                         *)

(* Keys are compared as strings: "link-10" is before "link-9". *)
Rank(id) == IF id < 10 THEN 11 * id ELSE 11 * (id \div 10) + 1 + (id % 10)

(* Doing something for every entry, in the order of the keys. *)
ForEach(Do(_, _), f, texts) ==
  MapThenFoldSet(LAMBDA t, acc : Do(acc, t), f, LAMBDA t : t,
                 LAMBDA T : CHOOSE t \in T : \A u \in T : Rank(u.id) <= Rank(t.id), texts)

Text(f) ==
  LET Write(acc, i) == [nodes |-> Put(acc.nodes, {NodeText(f, f.order[i])}),
                        links |-> Put(acc.links, LinkTexts(f, f.order[i]))]
      text[i \in 0 .. Len(f.order)] == IF i = 0 THEN NoText ELSE Write(text[i - 1], i)
  IN  text[Len(f.order)]

(* Mutant: m_NextId does not hear of the loaded pins. *)
LoadNode_NoUpdate(f, t) ==
  LET n == Free(f)   g == AddNode(f, n, t.kind)
  IN  [g EXCEPT !.node[n].id = t.id, !.node[n].in = t.in, !.node[n].out = t.out]

(* Mutant: the node keeps the numbers its constructor gave it. *)
LoadNode_KeepsNew(f, t) == AddNode(f, Free(f), t.kind)

LoadNode(f, t) ==
  LET n == Free(f)   g == AddNode(f, n, t.kind)
  IN  [g EXCEPT !.node[n].id = t.id, !.node[n].in = t.in, !.node[n].out = t.out,
                !.next = Most(@, Most(t.in, t.out) + 1)]

(* requestNewIds: the id AddNode gave, and new pins. *)
LoadNewNode(f, t) ==
  LET n == Free(f)   g == AddNode(f, n, t.kind)
  IN  [g EXCEPT !.node[n].in = IF t.kind[1] = 1 THEN g.next ELSE 0,
                !.node[n].out = IF t.kind[2] = 1 THEN g.next + t.kind[1] ELSE 0,
                !.next = @ + t.kind[1] + t.kind[2]]

(* The first node whose pin has that id. *)
FirstWith(f, Pin(_), id) ==
  LET at == {i \in DOMAIN f.order : Pin(f.order[i]) = id}
  IN  IF at = {} THEN 0 ELSE f.order[CHOOSE i \in at : \A j \in at : i <= j]

LoadLink(f, t) ==
  LET s == FirstWith(f, LAMBDA n : f.node[n].out, t.start)
      e == FirstWith(f, LAMBDA n : f.node[n].in, t.end)
  IN  IF s # 0 /\ e # 0 THEN CreateLink(f, s, e, t.id) ELSE f

(* The links go twice, as pins can change their type with other links. *)
LoadJson(f, text, new) ==
  LET nodes == IF new THEN ForEach(LoadNewNode, f, text.nodes)
                      ELSE ForEach(LoadNode, f, text.nodes)
  IN  ForEach(LoadLink, ForEach(LoadLink, nodes, text.links), text.links)

Quiet(f) == [f EXCEPT !.saving = FALSE]
Loud(f) == Changed([f EXCEPT !.saving = TRUE])

LoadFlow(f, text) == Loud(LoadJson(DeleteAllNodes(Quiet(f)), text, FALSE))

-------------------------------------------------------------------------------
(* The clipboard.                                                              *)

Clip(f, id) == LET n == FindNode(f, id)
               IN  [f EXCEPT !.clip.nodes = Put(@, {NodeText(f, n)}),
                             !.clip.links = Put(@, LinkTexts(f, n))]

(* Each selected node, in the order of the selection, is written and deleted. *)
CutElements(f, ids) ==
  LET cut[i \in 0 .. Len(ids)] ==
        IF i = 0 THEN [Quiet(f) EXCEPT !.clip = NoText]
                 ELSE DeleteNode(Clip(cut[i - 1], ids[i]), ids[i])
  IN  Loud([cut[Len(ids)] EXCEPT !.cut = TRUE])

CopyElements(f, ids) ==
  LET copy[i \in 0 .. Len(ids)] == IF i = 0 THEN [f EXCEPT !.clip = NoText]
                                            ELSE Clip(copy[i - 1], ids[i])
  IN  [copy[Len(ids)] EXCEPT !.cut = FALSE]

(* The node made of an entry: they are at the end, in the order of the keys. *)
CopyOf(before, f, t) ==
  f.order[Len(before.order) + 1
          + Cardinality({u \in f.clip.nodes : Rank(u.id) < Rank(t.id)})]

(* Mutant: the link of the copies is made when the old pin is free. *)
RelinkCopies_OldPin(before, f, l) ==
  LET from == {t \in f.clip.nodes : t.out = l.start}
      to == {t \in f.clip.nodes : t.in = l.end}
  IN  IF from # {} /\ to # {}
        THEN LET s == CopyOf(before, f, CHOOSE t \in from : TRUE)
                 e == CopyOf(before, f, CHOOSE t \in to : TRUE)
                 old == FirstWith(f, LAMBDA n : f.node[n].in, l.end)
             IN  IF old = 0 \/ f.node[old].from.link = 0 THEN CreateLink(f, s, e, 0) ELSE f
        ELSE f

(* The link between the copies of the nodes that a link of the clipboard joins. *)
RelinkCopies(before, f, l) ==
  LET from == {t \in f.clip.nodes : t.out = l.start}
      to == {t \in f.clip.nodes : t.in = l.end}
  IN  IF from # {} /\ to # {}
        THEN LET s == CopyOf(before, f, CHOOSE t \in from : TRUE)
                 e == CopyOf(before, f, CHOOSE t \in to : TRUE)
             IN  IF f.node[e].from.link = 0 THEN CreateLink(f, s, e, 0) ELSE f
        ELSE f

PasteElements(f) ==
  LET loaded == LoadJson(Quiet(f), f.clip, ~f.cut)
      linked == ForEach(LAMBDA g, l : RelinkCopies(f, g, l), loaded, f.clip.links)
  IN  Loud([linked EXCEPT !.cut = FALSE])

-------------------------------------------------------------------------------
(* What the user does.                                                         *)

Does(op) == op \in session.ops

(* Room for n nodes and for the numbers that they, new pins and links take. *)
Room(n) == /\ Cardinality(Slots \ Live(flow)) >= n
           /\ flow.next + 6 * n <= MaxId

Selections == {sel \in UNION {[1 .. k -> {flow.node[n].id : n \in Live(flow)}]
                                : k \in 1 .. Len(flow.order)} :
                 \A i, j \in DOMAIN sel : sel[i] = sel[j] => i = j}

Create == /\ Does("create") /\ Room(1)
          /\ \E k \in session.kinds : flow' = AddNode(flow, Free(flow), k)
          /\ UNCHANGED file

(* Dragged in the editor, which refuses an input pin that is linked already. *)
Link == /\ Does("link") /\ flow.next < MaxId
        /\ \E s, e \in Live(flow) : /\ CanLink(flow, s, e) /\ flow.node[e].from.link = 0
                                    /\ flow' = CreateLink(flow, s, e, 0)
        /\ UNCHANGED file

Unlink == /\ Does("unlink")
          /\ \E s, e \in Live(flow) : Linked(flow, s, e) /\ flow' = DeleteLink(flow, s, e)
          /\ UNCHANGED file

(* recreateLink: the type of the data has changed. *)
Relink == /\ Does("relink") /\ flow.next < MaxId
          /\ \E s, e \in Live(flow) :
               /\ Linked(flow, s, e)
               /\ flow' = CreateLink(DeleteLink(flow, s, e), s, e, 0)
          /\ UNCHANGED file

Delete == /\ Does("delete")
          /\ \E n \in Live(flow) : flow' = DeleteNode(flow, flow.node[n].id)
          /\ UNCHANGED file

AddPin == /\ Does("addpin") /\ flow.next < MaxId
          /\ \E n \in Live(flow) :
               \/ flow.node[n].in = 0 /\ flow' = CreateInputPin(flow, n)
               \/ flow.node[n].out = 0 /\ flow' = CreateOutputPin(flow, n)
          /\ UNCHANGED file

DropPin == /\ Does("droppin")
           /\ \E n \in Live(flow) :
                \/ flow.node[n].in # 0 /\ flow' = DeleteInputPin(flow, n)
                \/ flow.node[n].out # 0 /\ flow' = DeleteOutputPin(flow, n)
           /\ UNCHANGED file

Cut == /\ Does("cut")
       /\ \E ids \in Selections : flow' = CutElements(flow, ids)
       /\ UNCHANGED file

Copy == /\ Does("copy")
        /\ \E ids \in Selections : flow' = CopyElements(flow, ids)
        /\ UNCHANGED file

Paste == /\ Does("paste") /\ flow.clip # NoText
         /\ Room(Cardinality(flow.clip.nodes))
         /\ flow' = PasteElements(flow)
         /\ UNCHANGED file

Save == /\ Does("save")
        /\ file' = Text(flow)
        /\ UNCHANGED flow

Load == /\ Does("load")
        /\ flow' = LoadFlow(flow, file)
        /\ UNCHANGED file

New == /\ Does("clear")
       /\ flow' = DeleteAllNodes(flow)
       /\ UNCHANGED file

Init == /\ session \in Sessions
        /\ file = session.file
        /\ flow = LoadFlow(Clear, session.file)
        /\ edits = 0

Next == /\ edits < MaxEdits /\ edits' = edits + 1
        /\ \/ Create \/ Link \/ Unlink \/ Relink \/ Delete
           \/ AddPin \/ DropPin
           \/ Cut \/ Copy \/ Paste \/ Save \/ Load \/ New
        /\ UNCHANGED session

Spec == Init /\ [][Next]_vars

-------------------------------------------------------------------------------
TypeOK ==
  /\ flow.order \in Seq(Slots) /\ flow.next \in Nat /\ {flow.cut, flow.saving} \subseteq BOOLEAN
  /\ Cardinality(Live(flow)) = Len(flow.order)
  /\ flow.node \in [Slots -> [kind : Kinds, id : Nat, in : Nat, out : Nat,
                              from : [link : Nat, node : Slots \cup {0}],
                              to : SUBSET [link : Nat, node : Slots]]]
  /\ \A n \in Slots : flow.node[n].id = 0 <=> n \notin Live(flow)
  /\ \A text \in {file, flow.clip} :
       /\ text.nodes \subseteq [kind : Kinds, id : Nat, in : Nat, out : Nat]
       /\ text.links \subseteq [id : Nat, start : Nat, end : Nat]

(* Both ends of a link know it, by the same id, and no end points to a node    *)
(* that is deleted: createLink and deleteLink change two objects that point to *)
(* each other, from whichever end or file they are called.                     *)
EndsAgree ==
  /\ \A s, e \in Slots, id \in 1 .. MaxId :
       [link |-> id, node |-> e] \in flow.node[s].to
         <=> flow.node[e].from = [link |-> id, node |-> s]
  /\ \A s \in Slots : \A l \in flow.node[s].to : {s, l.node} \subseteq Live(flow)

(* "Unique Id of the Node", "Unique Id of the Pin", "Unique Id of the link": no *)
(* two nodes, pins or links of the flow have the same number.                  *)
UniqueIds ==
  LET Distinct(S, Num(_)) == \A x, y \in S : x # y => Num(x) # Num(y) \/ Num(x) = 0
      pins == Live(flow) \X {"in", "out"}
      links == UNION {{s} \X flow.node[s].to : s \in Live(flow)}
  IN  /\ Distinct(Live(flow), LAMBDA n : flow.node[n].id)
      /\ Distinct(pins, LAMBDA p : flow.node[p[1]][p[2]])
      /\ Distinct(links, LAMBDA l : l[2].link)

(* A flow that is saved and loaded again is the flow that was saved: the same  *)
(* nodes, pins and links under the same numbers, whatever numbers the nodes    *)
(* get while they are constructed and whatever the program held before.        *)
LoadRestores == [][Load => Text(flow') = file]_vars

(* Pasted copies are linked among each other as the nodes they are copies of:  *)
(* an input pin that a link of the clipboard joins to a copied node is linked  *)
(* to the copy of such a node.                                                 *)
PasteLinksCopies ==
  [][Paste => \A t \in flow.clip.nodes :
       LET starts == {u \in flow.clip.nodes : \E l \in flow.clip.links :
                                                 l.end = t.in /\ l.start = u.out}
           e == CopyOf(flow, [flow' EXCEPT !.clip = flow.clip], t)
       IN  starts # {} =>
             \E u \in starts : flow'.node[e].from.node
                                 = CopyOf(flow, [flow' EXCEPT !.clip = flow.clip], u)]_vars
===============================================================================
