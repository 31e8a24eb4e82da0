----------------------------- MODULE LinkedQueue -----------------------------
(***************************************************************************)
(* JDKLinkedQueue (src/queue/jdkLinkedQueue.go): the non-blocking linked   *)
(* queue of java.util.concurrent.ConcurrentLinkedQueue.  Every atomic load,*)
(* store and CAS of a node's item or next pointer, or of head or tail, is  *)
(* one step of a thread.  Modelled operations: Offer, Poll, Peek, and an   *)
(* iteration (newJdkLinkedQueueIter, HasNext, Next, optional Remove of     *)
(* the element just returned) until HasNext is false, and Size.            *)
(*                                                                         *)
(* A node is a record in the sequence nodes: item (whether its item       *)
(* pointer is non-nil), val, and next, a node index or Nil.  Node 1 is the *)
(* dummy NewJDKLinkedQueue allocates.                                      *)
(***************************************************************************)
EXTENDS Integers, Sequences, FiniteSets, SequencesExt

CONSTANTS Threads, Values, NoVal, Pending, MaxOps

Nil == 0

VARIABLES
    nodes,      \* the allocated nodes
    head,       \* queue.h
    tail,       \* queue.t
    offered,    \* values offered so far (each value is offered once)
    ops,        \* operations started so far
    res,        \* res[th]: result of th's last Poll or Peek
    lc          \* lc[th]: the locals of th's current call

vars == <<nodes, head, tail, offered, ops, res, lc>>

(* Locals: pc; op, whether a first() walk is Peek's or Size's; cont,     *)
(* where updateHead returns to; t, p, q, h and nn (the                     *)
(* new node) of Offer and Poll; tgt, the node updateHead moves head to;    *)
(* the iterator's pred, nextNode, nextItem, nextVal and lastRet.           *)
IdleLocals ==
    [pc |-> "idle", op |-> "peek", cont |-> "idle", t |-> Nil, p |-> Nil, q |-> Nil,
     h |-> Nil, nn |-> Nil, tgt |-> Nil, pred |-> Nil, nextNode |-> Nil,
     nextItem |-> FALSE, nextVal |-> NoVal, lastRet |-> Nil]

\* A call that returns leaves no locals behind.
Set(th, r) == lc' = [lc EXCEPT ![th] = IF r.pc = "idle" THEN IdleLocals ELSE r]
Goto(th, pc) == Set(th, [lc[th] EXCEPT !.pc = pc])
Nxt(n) == nodes[n].next

(***************************************************************************)
(* Offer                                                                   *)
(***************************************************************************)
\* newLinkedListNode(v), then t := tail(), p := t.
OfferStart(th, v) ==
    /\ lc[th].pc = "idle"
    /\ ops < MaxOps
    /\ v \notin offered
    /\ nodes' = Append(nodes, [item |-> TRUE, val |-> v, next |-> Nil])
    /\ Set(th, [lc[th] EXCEPT !.pc = "o_next", !.nn = Len(nodes) + 1,
                              !.t = tail, !.p = tail])
    /\ offered' = offered \cup {v}
    /\ ops' = ops + 1
    /\ UNCHANGED <<head, tail, res>>

\* q := p.next(): the last node, a node fallen off the list, a hop past t,
\* or the next node.
OfferNext(th) ==
    LET l == lc[th]
        q == Nxt(l.p)
    IN /\ l.pc = "o_next"
       /\ Set(th, CASE q = Nil -> [l EXCEPT !.pc = "o_cas"]
                    [] q = l.p -> [l EXCEPT !.pc = "o_fell"]
                    [] l.p /= l.t -> [l EXCEPT !.pc = "o_hop", !.q = q]
                    [] OTHER -> [l EXCEPT !.p = q])
       /\ UNCHANGED <<nodes, head, tail, offered, ops, res>>

\* Mutant: p.next is stored rather than CASed from nil.
OfferCasBlind(th) ==
    LET l == lc[th] IN
    /\ l.pc = "o_cas"
    /\ nodes' = [nodes EXCEPT ![l.p].next = l.nn]
    /\ Goto(th, IF l.p /= l.t THEN "o_tail" ELSE "idle")
    /\ UNCHANGED <<head, tail, offered, ops, res>>

\* p.casNext(nil, newNode); on success, casTail(t, newNode) if p is not t.
OfferCas(th) ==
    LET l == lc[th] IN
    /\ l.pc = "o_cas"
    /\ IF Nxt(l.p) = Nil
       THEN /\ nodes' = [nodes EXCEPT ![l.p].next = l.nn]
            /\ Goto(th, IF l.p /= l.t THEN "o_tail" ELSE "idle")
       ELSE /\ Goto(th, "o_next")
            /\ UNCHANGED nodes
    /\ UNCHANGED <<head, tail, offered, ops, res>>

OfferCasTail(th) ==
    LET l == lc[th] IN
    /\ l.pc = "o_tail"
    /\ tail' = IF tail = l.t THEN l.nn ELSE tail
    /\ Goto(th, "idle")
    /\ UNCHANGED <<nodes, head, offered, ops, res>>

\* Fallen off the list: t := tail(); a new tail is a better bet, else jump
\* to head.
OfferFell(th) ==
    LET l == lc[th] IN
    /\ l.pc = "o_fell"
    /\ Set(th, IF tail /= l.t THEN [l EXCEPT !.pc = "o_next", !.t = tail, !.p = tail]
               ELSE [l EXCEPT !.pc = "o_head"])
    /\ UNCHANGED <<nodes, head, tail, offered, ops, res>>

OfferHead(th) ==
    /\ lc[th].pc = "o_head"
    /\ Set(th, [lc[th] EXCEPT !.pc = "o_next", !.p = head])
    /\ UNCHANGED <<nodes, head, tail, offered, ops, res>>

\* After two hops: t := tail(); go to a new tail, else to q.
OfferHop(th) ==
    LET l == lc[th] IN
    /\ l.pc = "o_hop"
    /\ Set(th, [l EXCEPT !.pc = "o_next", !.t = tail,
                         !.p = IF tail /= l.t THEN tail ELSE l.q])
    /\ UNCHANGED <<nodes, head, tail, offered, ops, res>>

(***************************************************************************)
(* updateHead(h, tgt): if h != tgt and casHead(h, tgt), h.setNext(h).      *)
(***************************************************************************)
UpdateHead(th) ==
    LET l == lc[th] IN
    /\ l.pc = "uh"
    /\ IF l.h /= l.tgt /\ head = l.h
       THEN /\ head' = l.tgt
            /\ Goto(th, "uh_link")
       ELSE /\ Goto(th, l.cont)
            /\ UNCHANGED head
    /\ UNCHANGED <<nodes, tail, offered, ops, res>>

UpdateHeadLink(th) ==
    LET l == lc[th] IN
    /\ l.pc = "uh_link"
    /\ nodes' = [nodes EXCEPT ![l.h].next = l.h]
    /\ Goto(th, l.cont)
    /\ UNCHANGED <<head, tail, offered, ops, res>>

\* Continue with updateHead(h, tgt), then at cont.
ThenUpdateHead(l, tgt, cont) == [l EXCEPT !.pc = "uh", !.tgt = tgt, !.cont = cont]

(***************************************************************************)
(* Poll and Peek                                                           *)
(***************************************************************************)
PollStart(th) ==
    /\ lc[th].pc = "idle"
    /\ ops < MaxOps
    /\ res' = [res EXCEPT ![th] = Pending]
    /\ Goto(th, "p_head")
    /\ ops' = ops + 1
    /\ UNCHANGED <<nodes, head, tail, offered>>

\* h := head(), p := h (also the restart after falling off the list).
PollHead(th) ==
    /\ lc[th].pc = "p_head"
    /\ Set(th, [lc[th] EXCEPT !.pc = "p_item", !.h = head, !.p = head])
    /\ UNCHANGED <<nodes, head, tail, offered, ops, res>>

PollItem(th) ==
    /\ lc[th].pc = "p_item"
    /\ Goto(th, IF nodes[lc[th].p].item THEN "p_cas" ELSE "p_next")
    /\ UNCHANGED <<nodes, head, tail, offered, ops, res>>

\* Mutant: the item is cleared by a store, not a CAS from the item read.
PollCasBlind(th) ==
    LET l == lc[th] IN
    /\ l.pc = "p_cas"
    /\ nodes' = [nodes EXCEPT ![l.p].item = FALSE]
    /\ res' = [res EXCEPT ![th] = nodes[l.p].val]
    /\ Goto(th, IF l.p /= l.h THEN "p_succ" ELSE "idle")
    /\ UNCHANGED <<head, tail, offered, ops>>

\* p.casItemNil(item): the value is taken; hop head two nodes at a time.
PollCas(th) ==
    LET l == lc[th] IN
    /\ l.pc = "p_cas"
    /\ IF nodes[l.p].item
       THEN /\ nodes' = [nodes EXCEPT ![l.p].item = FALSE]
            /\ res' = [res EXCEPT ![th] = nodes[l.p].val]
            /\ Goto(th, IF l.p /= l.h THEN "p_succ" ELSE "idle")
       ELSE /\ Goto(th, "p_next")
            /\ UNCHANGED <<nodes, res>>
    /\ UNCHANGED <<head, tail, offered, ops>>

\* q := p.next(); updateHead(h, q != nil ? q : p).
\* Mutant of PollSucc: updateHead(h, q) without the q != nil test, so head
\* can be set to nil after taking the last element.
PollSuccNoNilCheck(th) ==
    LET l == lc[th] IN
    /\ l.pc = "p_succ"
    /\ Set(th, ThenUpdateHead(l, Nxt(l.p), "idle"))
    /\ UNCHANGED <<nodes, head, tail, offered, ops, res>>

PollSucc(th) ==
    LET l == lc[th] IN
    /\ l.pc = "p_succ"
    /\ Set(th, ThenUpdateHead(l, IF Nxt(l.p) /= Nil THEN Nxt(l.p) ELSE l.p, "idle"))
    /\ UNCHANGED <<nodes, head, tail, offered, ops, res>>

\* Mutant: a self-linked node is followed (p := q) instead of restarting.
PollNextNoRestart(th) ==
    LET l == lc[th]
        q == Nxt(l.p)
    IN /\ l.pc = "p_next"
       /\ IF q = Nil
          THEN /\ res' = [res EXCEPT ![th] = NoVal]
               /\ Set(th, ThenUpdateHead(l, l.p, "idle"))
          ELSE /\ Set(th, [l EXCEPT !.pc = "p_item", !.p = q])
               /\ UNCHANGED res
       /\ UNCHANGED <<nodes, head, tail, offered, ops>>

\* q := p.next(): nil means empty (updateHead(h, p), return nil); a
\* self-link restarts from head; else p := q.
PollNext(th) ==
    LET l == lc[th]
        q == Nxt(l.p)
    IN /\ l.pc = "p_next"
       /\ IF q = Nil
          THEN /\ res' = [res EXCEPT ![th] = NoVal]
               /\ Set(th, ThenUpdateHead(l, l.p, "idle"))
          ELSE /\ Set(th, IF q = l.p THEN [l EXCEPT !.pc = "p_head"]
                          ELSE [l EXCEPT !.pc = "p_item", !.p = q])
               /\ UNCHANGED res
       /\ UNCHANGED <<nodes, head, tail, offered, ops>>

PeekStart(th) ==
    /\ lc[th].pc = "idle"
    /\ ops < MaxOps
    /\ res' = [res EXCEPT ![th] = Pending]
    /\ Set(th, [lc[th] EXCEPT !.pc = "k_head", !.op = "peek"])
    /\ ops' = ops + 1
    /\ UNCHANGED <<nodes, head, tail, offered>>

PeekHead(th) ==
    /\ lc[th].pc = "k_head"
    /\ Set(th, [lc[th] EXCEPT !.pc = "k_item", !.h = head, !.p = head])
    /\ UNCHANGED <<nodes, head, tail, offered, ops, res>>

\* first() (of Size; IsEmpty is first() == nil) walks as Peek does and
\* returns the node n it stopped at (Nil at the end) after updateHead(h, p);
\* Size goes on walking from n.
FirstReturns(l, n) ==
    [ThenUpdateHead(l, l.p, IF l.op = "size" THEN "s_walk" ELSE "idle") EXCEPT !.p = n]

\* Peek's result: the value read, or nil; first() sets no result.
PeekResult(th, v) ==
    res' = IF lc[th].op = "peek" THEN [res EXCEPT ![th] = v] ELSE res

\* A live node's value is the result; updateHead(h, p).
PeekItem(th) ==
    LET l == lc[th] IN
    /\ l.pc = "k_item"
    /\ IF nodes[l.p].item
       THEN /\ PeekResult(th, nodes[l.p].val)
            /\ Set(th, FirstReturns(l, l.p))
       ELSE /\ Goto(th, "k_next")
            /\ UNCHANGED res
    /\ UNCHANGED <<nodes, head, tail, offered, ops>>

PeekNext(th) ==
    LET l == lc[th]
        q == Nxt(l.p)
    IN /\ l.pc = "k_next"
       /\ IF q = Nil
          THEN /\ PeekResult(th, NoVal)
               /\ Set(th, FirstReturns(l, Nil))
          ELSE /\ Set(th, IF q = l.p THEN [l EXCEPT !.pc = "k_head"]
                          ELSE [l EXCEPT !.pc = "k_item", !.p = q])
               /\ UNCHANGED res
       /\ UNCHANGED <<nodes, head, tail, offered, ops>>

(***************************************************************************)
(* Size: p := first(), then count the live nodes following next; a        *)
(* self-linked node restarts from first().  The count is not kept: the    *)
(* code documents it as inaccurate under concurrency and nothing reads it.*)
(***************************************************************************)
SizeStart(th) ==
    /\ lc[th].pc = "idle"
    /\ ops < MaxOps
    /\ Set(th, [lc[th] EXCEPT !.pc = "k_head", !.op = "size"])
    /\ ops' = ops + 1
    /\ UNCHANGED <<nodes, head, tail, offered, res>>

SizeWalk(th) ==
    LET l == lc[th] IN
    /\ l.pc = "s_walk"
    /\ Set(th, CASE l.p = Nil -> [l EXCEPT !.pc = "idle"]
                 [] Nxt(l.p) = l.p -> [l EXCEPT !.pc = "k_head"]
                 [] OTHER -> [l EXCEPT !.p = Nxt(l.p)])
    /\ UNCHANGED <<nodes, head, tail, offered, ops, res>>

(***************************************************************************)
(* Iteration: newJdkLinkedQueueIter, then Next (and, by choice of the      *)
(* caller, Remove) while HasNext.                                          *)
(***************************************************************************)
IterStart(th) ==
    /\ lc[th].pc = "idle"
    /\ ops < MaxOps
    /\ Goto(th, "i_head")
    /\ ops' = ops + 1
    /\ UNCHANGED <<nodes, head, tail, offered, res>>

IterHead(th) ==
    /\ lc[th].pc = "i_head"
    /\ Set(th, [lc[th] EXCEPT !.pc = "i_item", !.h = head, !.p = head])
    /\ UNCHANGED <<nodes, head, tail, offered, ops, res>>

\* The first live node becomes nextNode; updateHead(h, p) either way.
IterItem(th) ==
    LET l == lc[th] IN
    /\ l.pc = "i_item"
    /\ Set(th, IF nodes[l.p].item
               THEN ThenUpdateHead([l EXCEPT !.nextNode = l.p, !.nextItem = TRUE,
                                       !.nextVal = nodes[l.p].val], l.p, "it")
               ELSE [l EXCEPT !.pc = "i_next"])
    /\ UNCHANGED <<nodes, head, tail, offered, ops, res>>

IterNext(th) ==
    LET l == lc[th]
        q == Nxt(l.p)
    IN /\ l.pc = "i_next"
       /\ Set(th, CASE q = Nil -> ThenUpdateHead(l, l.p, "it")
                    [] q = l.p -> [l EXCEPT !.pc = "i_head"]
                    [] OTHER -> [l EXCEPT !.pc = "i_item", !.p = q])
       /\ UNCHANGED <<nodes, head, tail, offered, ops, res>>

\* HasNext: the caller iterates while nextItem is not nil.
HasNext(th) ==
    LET l == lc[th] IN
    /\ l.pc = "it"
    /\ Set(th, IF l.nextItem THEN [l EXCEPT !.pc = "n_succ", !.pred = l.nextNode,
                                           !.lastRet = l.nextNode]
               ELSE [l EXCEPT !.pc = "idle"])
    /\ UNCHANGED <<nodes, head, tail, offered, ops, res>>

\* Next: p := succ(pred): pred.next, or head if pred fell off the list.
NextSucc(th) ==
    LET l == lc[th] IN
    /\ l.pc = "n_succ"
    /\ Set(th, IF Nxt(l.pred) = l.pred THEN [l EXCEPT !.pc = "n_succ_head"]
               ELSE [l EXCEPT !.pc = "n_loop", !.p = Nxt(l.pred)])
    /\ UNCHANGED <<nodes, head, tail, offered, ops, res>>

NextSuccHead(th) ==
    /\ lc[th].pc = "n_succ_head"
    /\ Set(th, [lc[th] EXCEPT !.pc = "n_loop", !.p = head])
    /\ UNCHANGED <<nodes, head, tail, offered, ops, res>>

\* The end of the list or a live node becomes the next position and the
\* previous nextVal is returned; a deleted node is skipped by q := succ(p).
NextLoop(th) ==
    LET l == lc[th] IN
    /\ l.pc = "n_loop"
    /\ Set(th, CASE l.p = Nil ->
                     [l EXCEPT !.pc = "n_done", !.nextNode = Nil, !.nextItem = FALSE,
                               !.nextVal = NoVal]
                 [] nodes[l.p].item ->
                     [l EXCEPT !.pc = "n_done", !.nextNode = l.p, !.nextItem = TRUE,
                               !.nextVal = nodes[l.p].val]
                 [] OTHER -> [l EXCEPT !.pc = "n_usucc"])
    /\ UNCHANGED <<nodes, head, tail, offered, ops, res>>

NextUnlinkSucc(th) ==
    LET l == lc[th] IN
    /\ l.pc = "n_usucc"
    /\ Set(th, IF Nxt(l.p) = l.p THEN [l EXCEPT !.pc = "n_usucc_head"]
               ELSE [l EXCEPT !.pc = "n_unlink", !.q = Nxt(l.p)])
    /\ UNCHANGED <<nodes, head, tail, offered, ops, res>>

NextUnlinkSuccHead(th) ==
    /\ lc[th].pc = "n_usucc_head"
    /\ Set(th, [lc[th] EXCEPT !.pc = "n_unlink", !.q = head])
    /\ UNCHANGED <<nodes, head, tail, offered, ops, res>>

\* Mutant: the unlink is done also when p has no successor.
NextUnlinkNoNilCheck(th) ==
    LET l == lc[th] IN
    /\ l.pc = "n_unlink"
    /\ nodes' = IF Nxt(l.pred) = l.p
                THEN [nodes EXCEPT ![l.pred].next = l.q] ELSE nodes
    /\ Set(th, [l EXCEPT !.pc = "n_loop", !.p = l.q])
    /\ UNCHANGED <<head, tail, offered, ops, res>>

\* Unlink the deleted node p: if q != nil, pred.casNext(p, q); p := q.
NextUnlink(th) ==
    LET l == lc[th] IN
    /\ l.pc = "n_unlink"
    /\ nodes' = IF l.q /= Nil /\ Nxt(l.pred) = l.p
                THEN [nodes EXCEPT ![l.pred].next = l.q] ELSE nodes
    /\ Set(th, [l EXCEPT !.pc = "n_loop", !.p = l.q])
    /\ UNCHANGED <<head, tail, offered, ops, res>>

\* After Next returns, the caller may Remove: lastRet.setItemNil().
IterRemove(th) ==
    LET l == lc[th] IN
    /\ l.pc = "n_done"
    /\ l.lastRet /= Nil
    /\ nodes' = [nodes EXCEPT ![l.lastRet].item = FALSE]
    /\ Set(th, [l EXCEPT !.pc = "it", !.lastRet = Nil])
    /\ UNCHANGED <<head, tail, offered, ops, res>>

IterKeep(th) ==
    /\ lc[th].pc = "n_done"
    /\ Goto(th, "it")
    /\ UNCHANGED <<nodes, head, tail, offered, ops, res>>

(***************************************************************************)
(* Specification                                                           *)
(***************************************************************************)
Init ==
    /\ nodes = <<[item |-> FALSE, val |-> NoVal, next |-> Nil]>>
    /\ head = 1
    /\ tail = 1
    /\ offered = {}
    /\ ops = 0
    /\ res = [th \in Threads |-> NoVal]
    /\ lc = [th \in Threads |-> IdleLocals]

Step(th) ==
    \/ OfferNext(th) \/ OfferCas(th) \/ OfferCasTail(th) \/ OfferFell(th)
    \/ OfferHead(th) \/ OfferHop(th) \/ UpdateHead(th) \/ UpdateHeadLink(th)
    \/ PollHead(th) \/ PollItem(th) \/ PollCas(th) \/ PollSucc(th) \/ PollNext(th)
    \/ PeekHead(th) \/ PeekItem(th) \/ PeekNext(th) \/ SizeWalk(th)
    \/ IterHead(th) \/ IterItem(th) \/ IterNext(th) \/ HasNext(th)
    \/ NextSucc(th) \/ NextSuccHead(th) \/ NextLoop(th) \/ NextUnlinkSucc(th)
    \/ NextUnlinkSuccHead(th) \/ NextUnlink(th) \/ IterRemove(th) \/ IterKeep(th)

Next ==
    \E th \in Threads :
        \/ \E v \in Values : OfferStart(th, v)
        \/ PollStart(th) \/ PeekStart(th) \/ SizeStart(th) \/ IterStart(th)
        \/ Step(th)

\* Goroutines that are runnable run: every started call keeps taking steps.
\* Whether a caller starts another call is its own choice.
Spec == Init /\ [][Next]_vars /\ \A th \in Threads : WF_vars(Step(th))

(***************************************************************************)
(* Properties                                                              *)
(***************************************************************************)
\* The nodes met following next pointers from n (a self-link ends the walk).
RECURSIVE ListFrom(_, _)
ListFrom(n, fuel) ==
    IF n = Nil \/ fuel = 0 THEN <<>>
    ELSE <<n>> \o (IF Nxt(n) = n THEN <<>> ELSE ListFrom(Nxt(n), fuel - 1))

Reachable == ToSet(ListFrom(head, Len(nodes)))

\* The abstract queue: the values of the live nodes reachable from head.
AbsQueue ==
    LET live == SelectSeq(ListFrom(head, Len(nodes)), LAMBDA n : nodes[n].item)
    IN [i \in 1..Len(live) |-> nodes[live[i]].val]

\* New nodes of Offer calls that have not yet linked them.
Unlinked ==
    {lc[th].nn : th \in {x \in Threads :
        lc[x].pc \in {"o_next", "o_cas", "o_fell", "o_head", "o_hop"}}}

Pcs == {"idle", "o_next", "o_cas", "o_tail", "o_fell", "o_head", "o_hop",
        "uh", "uh_link", "p_head", "p_item", "p_cas", "p_succ", "p_next",
        "k_head", "k_item", "k_next", "s_walk", "i_head", "i_item", "i_next", "it",
        "n_succ", "n_succ_head", "n_loop", "n_usucc", "n_usucc_head",
        "n_unlink", "n_done"}
NodeIds == 0..Cardinality(Values) + 1

TypeOK ==
    /\ nodes \in Seq([item : BOOLEAN, val : Values \cup {NoVal}, next : NodeIds])
    /\ head \in 1..Len(nodes) /\ tail \in 1..Len(nodes)
    /\ res \in [Threads -> Values \cup {NoVal, Pending}]
    /\ \A th \in Threads :
          /\ lc[th].pc \in Pcs
          /\ lc[th].op \in {"peek", "size"}
          /\ \A f \in {"t", "p", "q", "h", "nn", "tgt", "pred", "nextNode", "lastRet"} :
                lc[th][f] \in 0..Len(nodes)

\* No live node is ever cut off: every node whose item is set and that an
\* Offer has linked stays reachable from head, whatever Poll's head updates,
\* the self-links of old heads and the iterators' unlinking do.
NoLostNode ==
    \A n \in 1..Len(nodes) :
        nodes[n].item /\ n \notin Unlinked => n \in Reachable

\* The queue is a FIFO queue: each CAS that links a node appends its value,
\* each successful item CAS of Poll takes the head, Peek reads the head, a
\* nil result is only found when the queue is empty, and Remove takes out
\* one element; every other step leaves the queue as it is.
Abstract == INSTANCE QueueSpec WITH Procs <- Threads, q <- AbsQueue
QueueImplementsSpec == Abstract!Spec

\* Every call returns: Offer's CAS retries, Poll's restarts from head and
\* the iterator's skips of deleted nodes all end.
CallsReturn == \A th \in Threads : lc[th].pc /= "idle" ~> lc[th].pc = "idle"
====
