----------------------------- MODULE Collective -----------------------------
(***************************************************************************)
(* Message delivery in charmlite (archive/charmlite): one collective, a    *)
(* group or an array of chares spread over the PEs, from its creation on.  *)
(* A PE runs one handler at a time; a handler is one step, except that the *)
(* loops which call back into delivery (flush_buffers, and the flush of    *)
(* collective_buffer_) take a step per iteration, with the calls still     *)
(* active kept in frames.  Entry methods only record that they ran.        *)
(***************************************************************************)
EXTENDS Integers, Sequences, FiniteSets, SequencesExt

CONSTANTS
  NPes,        \* CmiNumPes()
  Creator,     \* the PE that constructs the collective
  ArrayIndices,\* the indices inserted when it is an array
  Children,    \* Children[pe]: CmiSpanTreeChildren, a tree rooted at 0
  ChareMax,    \* chare_bcast_root_, the largest chare index (2^64 - 1)
  BcastMod,    \* bcast_id_t counts modulo BcastMod (2^16)
  Instances    \* the programs: a group or an array; whether the machine
               \* layer keeps the order of a channel; as bounds, how many
               \* messages are sent to elements, how many broadcasts, and
               \* the PEs that insert, send and broadcast (clients)

Pes == 0 .. NPes - 1
Root == 0
Elements == Pes \cup ArrayIndices
MaxSends == Max({0} \cup {r.sends : r \in Instances})
MaxBcasts == Max({0} \cup {r.bcasts : r \in Instances})

ASSUME CollectiveAssumption ==
  /\ NPes \in Nat \ {0} /\ Creator \in Pes
  /\ ArrayIndices \subseteq Nat /\ ChareMax \in Nat \ Elements
  /\ BcastMod \in Nat \ {0, 1}
  /\ Children \in [Pes -> SUBSET Pes]
  /\ Instances \subseteq [group : BOOLEAN, fifo : BOOLEAN, sends : Nat, bcasts : Nat,
                    clients : SUBSET Pes]

VARIABLES
  inst,        \* the program that runs
  made,        \* construct was called
  net,         \* net[src][dst]: messages in flight (src = dst: loopback)
  created,     \* per PE: the collective is in collective_table_
  cbuf,        \* per PE: collective_buffer_ for the collective
  cflush,      \* per PE: inside the loop that empties cbuf
  chares,      \* the elements constructed (on their home PE)
  last_bcast,  \* per element: last_bcast_
  buffers,     \* per element: buffers_
  frames,      \* per PE: the flush_buffers calls active, innermost first
  handled,     \* history, per element: what its entry methods were run on
  delivered,   \* history, per element: the broadcasts among them
  inserted, sends, bcasts   \* history: what the clients have done

vars == <<inst, made, net, created, cbuf, cflush, chares, last_bcast, buffers,
          frames, handled, delivered, inserted, sends, bcasts>>
client == <<inst, made, inserted, sends, bcasts>>
table == <<created, cbuf, cflush>>
history == <<handled, delivered>>

(* group_proxy::construct, or collective_proxy::construct, and its elements. *)
IsGroup == inst.group
Indices == IF IsGroup THEN Pes ELSE ArrayIndices

(* default_mapper::pe_for *)
PeFor(idx) == idx % NPes

Messages ==
  [kind : {"create", "ctor", "p2p", "bcast"}, id : Nat,
   to : Elements \cup {ChareMax}, bcast : 0 .. BcastMod - 1]

Message(kind, id, to) == [kind |-> kind, id |-> id, to |-> to, bcast |-> 0]

TypeOK ==
  /\ inst \in Instances
  /\ made \in BOOLEAN
  /\ net \in [Pes -> [Pes -> Seq(Messages)]]
  /\ created \in [Pes -> BOOLEAN] /\ cflush \in [Pes -> BOOLEAN]
  /\ cbuf \in [Pes -> Seq(Messages)]
  /\ chares \subseteq Indices
  /\ last_bcast \in [Elements -> 0 .. BcastMod - 1]
  /\ buffers \in [Elements -> Seq(Messages)]
  /\ frames \in [Pes -> Seq(Indices)]
  /\ handled \in [Elements -> Seq(Messages)]
  /\ delivered \in [Elements -> Seq(Nat)]
  /\ inserted \subseteq Indices
  /\ sends \in 0 .. inst.sends /\ bcasts \in 0 .. inst.bcasts

Init ==
  /\ inst \in Instances
  /\ made = FALSE
  /\ net = [s \in Pes |-> [d \in Pes |-> << >>]]
  /\ created = [p \in Pes |-> FALSE] /\ cflush = [p \in Pes |-> FALSE]
  /\ cbuf = [p \in Pes |-> << >>]
  /\ chares = {}
  /\ last_bcast = [i \in Elements |-> 0]
  /\ buffers = [i \in Elements |-> << >>]
  /\ frames = [p \in Pes |-> << >>]
  /\ handled = [i \in Elements |-> << >>] /\ delivered = [i \in Elements |-> << >>]
  /\ inserted = {} /\ sends = 0 /\ bcasts = 0

-----------------------------------------------------------------------------
(* CmiSyncSend and CmiPushPE: the message joins the channel src -> dst. *)
Post(n, src, dst, m) == [n EXCEPT ![src][dst] = Append(@, m)]

(* CmiSyncBroadcastAll: one copy to every PE, the sender included. *)
PostAll(n, src, m) == [n EXCEPT ![src] = [d \in Pes |-> Append(@[d], m)]]

Idle(pe) == frames[pe] = << >> /\ ~cflush[pe]

(* A call of flush_buffers(idx), which returns at once without a buffer. *)
CallFlush(pe, idx) ==
  frames' = IF buffers[idx] = << >> THEN frames
            ELSE [frames EXCEPT ![pe] = <<idx>> \o @]

(* The entry method of element i runs on m. *)
Run(i, m) ==
  /\ handled' = [handled EXCEPT ![i] = Append(@, m)]
  /\ delivered' = IF m.kind = "bcast" THEN [delivered EXCEPT ![i] = Append(@, m.id)]
                  ELSE delivered

(* Faulty: any broadcast that arrives counts as the next one. *)
InOrderAny(m) == TRUE

(* "broadcasts are processed in-order": this one is the next. *)
InOrder(m) == m.bcast = last_bcast[m.to] + 1

(* buffer_ of an out-of-order broadcast. *)
Rebuffer(rest, m) == Append(rest, m)

(***************************************************************************)
(* handle_: run the entry method, or put an out-of-order broadcast into    *)
(* the buffer.  n is the network the handler started from, rest what is    *)
(* left of the buffer when the message came out of its front.  After an    *)
(* in-order broadcast handle_ calls flush_buffers itself, and the message, *)
(* although consumed, stays at the front of the buffer it came from until  *)
(* that call returns.                                                      *)
(***************************************************************************)
Handle(pe, m, n, rest) ==
  LET i == m.to
      clone(c) == [m EXCEPT !.to = c]
  IN  /\ UNCHANGED chares
      /\ \/ /\ m.bcast = 0
            /\ Run(i, m)
            /\ buffers' = [buffers EXCEPT ![i] = rest]
            /\ net' = n
            /\ UNCHANGED <<last_bcast, frames>>
         \/ /\ m.bcast # 0 /\ InOrder(m)
            /\ last_bcast' = [last_bcast EXCEPT ![i] = @ + 1]
            /\ net' = [n EXCEPT ![pe] =
                         [d \in Pes |-> IF d \in Children[pe]
                                        THEN Append(@[d], clone(d)) ELSE @[d]]]
            /\ Run(i, m)
            /\ CallFlush(pe, i)
            /\ UNCHANGED buffers
         \/ /\ m.bcast # 0 /\ ~InOrder(m)
            /\ buffers' = [buffers EXCEPT ![i] = Rebuffer(rest, m)]
            /\ net' = n
            /\ UNCHANGED <<last_bcast, history, frames>>

(* Faulty: the buffer is not flushed after the constructor. *)
ConstructChareNoFlush(pe, m, n) ==
  /\ m.kind = "ctor" /\ PeFor(m.to) = pe
  /\ chares' = chares \cup {m.to}
  /\ Run(m.to, m)
  /\ net' = n
  /\ UNCHANGED <<last_bcast, buffers, frames>>

(* try_deliver on the element's home PE: construct it, and flush. *)
ConstructChare(pe, m, n) ==
  /\ m.kind = "ctor" /\ PeFor(m.to) = pe
  /\ chares' = chares \cup {m.to}
  /\ Run(m.to, m)
  /\ CallFlush(pe, m.to)
  /\ net' = n
  /\ UNCHANGED <<last_bcast, buffers>>

(* try_deliver: the element is on this PE. *)
InvokeChare(pe, m, n) ==
  /\ m.kind # "ctor" /\ m.to \in chares /\ PeFor(m.to) = pe
  /\ Handle(pe, m, n, buffers[m.to])

(* Faulty: the entry method runs although the element is missing. *)
BufferMessageRuns(pe, m, n) ==
  /\ m.kind # "ctor" /\ m.to \notin chares /\ PeFor(m.to) = pe
  /\ Run(m.to, m)
  /\ net' = n
  /\ UNCHANGED <<chares, last_bcast, frames, buffers>>

(* try_deliver returns false: deliver_now buffers the message. *)
BufferMessage(pe, m, n) ==
  /\ m.kind # "ctor" /\ m.to \notin chares /\ PeFor(m.to) = pe
  /\ buffers' = [buffers EXCEPT ![m.to] = Append(@, m)]
  /\ net' = n
  /\ UNCHANGED <<chares, last_bcast, frames, history>>

(* try_deliver: the home of the element is another PE. *)
RouteMessage(pe, m, n) ==
  /\ PeFor(m.to) # pe
  /\ net' = Post(n, pe, PeFor(m.to), m)
  /\ UNCHANGED <<chares, last_bcast, buffers, frames, history>>

(* Faulty: the broadcast keeps the number of the one before. *)
SameBcast == last_bcast[Root]

(* last_bcast_ + 1, converted to bcast_id_t. *)
NextBcast == (last_bcast[Root] + 1) % BcastMod

(* deliver_now for a message to the broadcast root. *)
OrderBroadcast(pe, m, n) ==
  IF Root \in chares /\ PeFor(Root) = pe
  THEN Handle(pe, [m EXCEPT !.to = Root, !.bcast = NextBcast], n, buffers[Root])
  ELSE /\ net' = Post(n, pe, PeFor(Root), m)
       /\ UNCHANGED <<chares, last_bcast, buffers, frames, history>>

DeliverNow(pe, m, n) ==
  \/ m.to = ChareMax /\ OrderBroadcast(pe, m, n)
  \/ /\ m.to # ChareMax
     /\ \/ ConstructChare(pe, m, n)
        \/ InvokeChare(pe, m, n)
        \/ BufferMessage(pe, m, n)
        \/ RouteMessage(pe, m, n)

(* Faulty: messages that waited for the collective are not delivered. *)
CreateCollectiveNoFlush(pe, m, n) ==
  /\ m.kind = "create"
  /\ created' = [created EXCEPT ![pe] = TRUE]
  /\ net' = n
  /\ UNCHANGED <<cbuf, cflush, chares, last_bcast, buffers, frames, history>>

(* deliver_to_endpoint_ for a message that creates the collective. *)
CreateCollective(pe, m, n) ==
  /\ m.kind = "create"
  /\ created' = [created EXCEPT ![pe] = TRUE]
  /\ cflush' = [cflush EXCEPT ![pe] = cbuf[pe] # << >>]
  /\ net' = n
  /\ UNCHANGED <<cbuf, chares, last_bcast, buffers, frames, history>>

(* Faulty: a message for an unknown collective is dropped. *)
AwaitCollectiveDrops(pe, m, n) ==
  /\ m.kind # "create" /\ ~created[pe]
  /\ net' = n
  /\ UNCHANGED <<table, chares, last_bcast, buffers, frames, history>>

(* deliver_to_endpoint_ before the collective is known here. *)
AwaitCollective(pe, m, n) ==
  /\ m.kind # "create" /\ ~created[pe]
  /\ cbuf' = [cbuf EXCEPT ![pe] = Append(@, m)]
  /\ net' = n
  /\ UNCHANGED <<created, cflush, chares, last_bcast, buffers, frames, history>>

(* deliver(msg): deliver_to_endpoint_ with immediate = true. *)
Deliver(pe, m, n) ==
  \/ CreateCollective(pe, m, n)
  \/ AwaitCollective(pe, m, n)
  \/ /\ m.kind # "create" /\ created[pe]
     /\ DeliverNow(pe, m, n)
     /\ UNCHANGED table

-----------------------------------------------------------------------------
(* An iteration of the loop that empties collective_buffer_. *)
FlushCollectiveBuffer(pe) ==
  /\ cflush[pe] /\ frames[pe] = << >>
  /\ DeliverNow(pe, Head(cbuf[pe]), net)
  /\ cbuf' = [cbuf EXCEPT ![pe] = Tail(@)]
  /\ cflush' = [cflush EXCEPT ![pe] = Len(cbuf[pe]) > 1]
  /\ UNCHANGED <<created, client>>

(***************************************************************************)
(* An iteration of the innermost flush_buffers loop.  It can go on for     *)
(* ever: inside another one, because the message the outer one is          *)
(* delivering is still in the buffer (ConsumedLeavesBuffer), and by        *)
(* itself, with nothing left but broadcasts that are not yet the next.     *)
(***************************************************************************)
FlushBuffers(pe) ==
  /\ frames[pe] # << >>
  /\ LET i == Head(frames[pe])
     IN  \/ /\ buffers[i] # << >>
            /\ Handle(pe, Head(buffers[i]), net, Tail(buffers[i]))
         \/ /\ buffers[i] = << >>
            /\ frames' = [frames EXCEPT ![pe] = Tail(@)]
            /\ UNCHANGED <<net, chares, last_bcast, buffers, history>>
  /\ UNCHANGED <<table, client>>

(* The scheduler hands a message of the machine layer to deliver. *)
ReceiveNth(pe, src, k) ==
  /\ Idle(pe)
  /\ Deliver(pe, net[src][pe][k], [net EXCEPT ![src][pe] = RemoveAt(@, k)])
  /\ UNCHANGED client

Receive(pe, src) ==
  \E k \in DOMAIN net[src][pe] : (inst.fifo => k = 1) /\ ReceiveNth(pe, src, k)

(* A message no other overtakes. *)
ReceiveFirst(pe, src) == net[src][pe] # << >> /\ ReceiveNth(pe, src, 1)

(* The element a PE hosts: index_view<int>::encode(pe). *)
ElementOf(pe) == pe

(* construct of a group: the collective, then its element, on every PE. *)
ConstructGroup ==
  /\ IsGroup /\ ~made
  /\ made' = TRUE
  /\ inserted' = Indices
  /\ LET n == PostAll(net, Creator, Message("create", 0, ChareMax))
     IN  net' = [n EXCEPT ![Creator] =
                   [d \in Pes |-> Append(@[d], Message("ctor", 0, ElementOf(d)))]]
  /\ UNCHANGED <<inst, table, chares, last_bcast, buffers, frames, history,
                 sends, bcasts>>

(* construct of an array. *)
ConstructArray ==
  /\ ~IsGroup /\ ~made
  /\ made' = TRUE
  /\ net' = PostAll(net, Creator, Message("create", 0, ChareMax))
  /\ UNCHANGED <<inst, table, chares, last_bcast, buffers, frames, history,
                 inserted, sends, bcasts>>

(* element_proxy::insert, called on a PE that got the proxy. *)
Insert(pe, idx) ==
  /\ ~IsGroup /\ made /\ Idle(pe) /\ pe \in inst.clients
  /\ idx \notin inserted
  /\ inserted' = inserted \cup {idx}
  /\ Deliver(pe, Message("ctor", 0, idx), net)
  /\ UNCHANGED <<inst, made, sends, bcasts>>

(* element_proxy::send *)
Send(pe, idx) ==
  /\ made /\ Idle(pe) /\ pe \in inst.clients
  /\ sends < inst.sends
  /\ sends' = sends + 1
  /\ Deliver(pe, Message("p2p", sends', idx), net)
  /\ UNCHANGED <<inst, made, inserted, bcasts>>

(***************************************************************************)
(* collective_proxy_base_::broadcast: send, which is deliver_to_endpoint_  *)
(* with immediate = false.  An array's locmgr has no root ("not            *)
(* implemented"): groups only.                                             *)
(***************************************************************************)
Broadcast(pe) ==
  /\ IsGroup /\ made /\ Idle(pe) /\ pe \in inst.clients
  /\ bcasts < inst.bcasts
  /\ bcasts' = bcasts + 1
  /\ LET m == Message("bcast", bcasts', ChareMax)
     IN  IF created[pe]
         THEN net' = Post(net, pe, PeFor(ChareMax), m) /\ UNCHANGED cbuf
         ELSE cbuf' = [cbuf EXCEPT ![pe] = Append(@, m)] /\ UNCHANGED net
  /\ UNCHANGED <<inst, made, created, cflush, chares, last_bcast, buffers, frames,
                 history, inserted, sends>>

-----------------------------------------------------------------------------
(* What a PE does on its own. *)
PeStep(pe) ==
  \/ FlushCollectiveBuffer(pe)
  \/ FlushBuffers(pe)
  \/ \E src \in Pes : Receive(pe, src)

Next ==
  \/ ConstructGroup \/ ConstructArray
  \/ \E pe \in Pes : \E idx \in Indices : Insert(pe, idx) \/ Send(pe, idx)
  \/ \E pe \in Pes : Broadcast(pe) \/ PeStep(pe)

Spec == Init /\ [][Next]_vars

(***************************************************************************)
(* Handlers run on, the scheduler polls every channel, and where messages  *)
(* overtake each other none is overtaken for ever.                         *)
(***************************************************************************)
Fairness ==
  \A pe \in Pes :
    /\ WF_vars(FlushCollectiveBuffer(pe)) /\ WF_vars(FlushBuffers(pe))
    /\ \A src \in Pes : WF_vars(ReceiveFirst(pe, src))

FairSpec == Spec /\ Fairness

-----------------------------------------------------------------------------
Ran(s) == {s[k] : k \in DOMAIN s}

(***************************************************************************)
(* An element's constructor runs before any of its entry methods, although *)
(* messages for it overtake its creation and that of the collective.       *)
(***************************************************************************)
ConstructedFirst ==
  \A i \in Indices :
    handled[i] # << >> => /\ Head(handled[i]).kind = "ctor"
                          /\ \A k \in 2 .. Len(handled[i]) :
                               handled[i][k].kind # "ctor"

(* Where a message can be, and the messages there. *)
Places == ({"net"} \X Pes \X Pes) \cup ({"cbuf"} \X Pes)
            \cup ({"buffer", "handled"} \X Elements)

At(place) ==
  CASE place[1] = "net"     -> net[place[2]][place[3]]
    [] place[1] = "cbuf"    -> cbuf[place[2]]
    [] place[1] = "buffer"  -> buffers[place[2]]
    [] place[1] = "handled" -> handled[place[2]]

(***************************************************************************)
(* A message to an element, however often it is buffered, rerouted or      *)
(* flushed, is in exactly one place: in flight, in one buffer, or handled. *)
(***************************************************************************)
MessageConserved ==
  \A id \in 1 .. sends :
    LET in(place) == {k \in DOMAIN At(place) :
                        At(place)[k].kind = "p2p" /\ At(place)[k].id = id}
    IN  \E place \in Places :
          /\ \E k \in in(place) : in(place) = {k}
          /\ \A other \in Places \ {place} : in(other) = {}

(***************************************************************************)
(* No message is left in a buffer nobody will flush: once the collective   *)
(* exists cbuf is empty, or being emptied; once an element exists only     *)
(* broadcasts wait for it, or its buffer is being flushed.                 *)
(***************************************************************************)
NoStrandedMessage ==
  /\ \A pe \in Pes : created[pe] /\ cbuf[pe] # << >> => cflush[pe]
  /\ \A i \in chares :
       \A m \in Ran(buffers[i]) :
         m.bcast = 0 => i \in Ran(frames[PeFor(i)])

Ordered == INSTANCE OrderedBroadcast WITH Broadcasts <- 1 .. MaxBcasts

(* All elements of a group handle the broadcasts in one order. *)
OrderedBroadcasts == Ordered!Spec

(* Message id, to an element that gets inserted, is on PE pe or on its way. *)
SendAt(id, pe) ==
  LET unhandled(s) == \E k \in DOMAIN s :
        s[k].kind = "p2p" /\ s[k].id = id /\ s[k].to \in inserted
  IN  \/ unhandled(cbuf[pe])
      \/ \E q \in Pes : unhandled(net[q][pe])
      \/ \E i \in Elements : PeFor(i) = pe /\ unhandled(buffers[i])

(***************************************************************************)
(* flush_buffers pops and buffers again for ever, and the PE receives      *)
(* nothing any more: all that is left in the buffer is broadcasts whose    *)
(* turn has passed (ConsumedLeavesBuffer), or whose predecessor is yet to  *)
(* be received.                                                            *)
(***************************************************************************)
CaughtInFlush(pe) ==
  /\ frames[pe] # << >>
  /\ LET waiting == Ran(buffers[Head(frames[pe])])
     IN  waiting # {} /\ \A m \in waiting : m.bcast # 0 /\ ~InOrder(m)

(***************************************************************************)
(* Every message to an element that gets inserted is handled, unless it is *)
(* at, or on its way to, a PE that broadcasts out of order have caught in  *)
(* a flush.                                                                *)
(***************************************************************************)
SendsHandled ==
  \A id \in 1 .. MaxSends :
    (id <= sends /\ \E pe \in Pes : SendAt(id, pe))
    ~> \/ \E i \in Elements : \E m \in Ran(handled[i]) :
            m.kind = "p2p" /\ m.id = id /\ m.to = i
       \/ \E pe \in Pes : SendAt(id, pe) /\ CaughtInFlush(pe)

(***************************************************************************)
(* "send a copy of the message to all our children": over ordered channels *)
(* and a spanning tree that is a star around the creator every broadcast   *)
(* is handled by every element, wherever it came from and however early.   *)
(* (Otherwise a broadcast may have to wait in a buffer, and see            *)
(* ConsumedLeavesBuffer.)                                                  *)
(***************************************************************************)
BroadcastsReachAll ==
  \A b \in 1 .. MaxBcasts :
    (inst.fifo /\ bcasts >= b)
    ~> \A i \in Pes : \E m \in Ran(handled[i]) : m.kind = "bcast" /\ m.id = b

(***************************************************************************)
(* flush_buffers: "release since we consumed the message", "the[n] pop it  *)
(* from the queue".  A message that was handled leaves the buffer.         *)
(***************************************************************************)
ConsumedLeavesBuffer ==
  \A i \in Elements :
    (Ran(buffers[i]) \cap Ran(handled[i]) # {})
    ~> (Ran(buffers[i]) \cap Ran(handled[i]) = {})
=============================================================================
