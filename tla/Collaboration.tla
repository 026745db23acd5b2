---------------------------- MODULE Collaboration ----------------------------
(* Two people editing one workbook: on each side a replica                  *)
(* (crates/betteroffice-xlsx, collaborative mode), the provider that turns  *)
(* its updates into frames (packages/xlsx/src/collaboration/provider.ts)    *)
(* and a socket (apps/demo/app/collab/createRoomTransport.ts); between them *)
(* the relay room, of which only the log and the broadcast are kept here    *)
(* (RelayRoom models its storage).                                          *)
(*                                                                          *)
(* An item is one cell set by one client: the client and its clock.  It     *)
(* names the item it was typed over and needs that one to be integrated,    *)
(* not the client's earlier items: the CRDT library leaves a hole for them, *)
(* and counts the client's items up to the first hole.  An update carries   *)
(* items and deletes all that its author no longer shows.  Values are       *)
(* distinct.  Awareness, undo, structure and formulas are left out.         *)
EXTENDS Integers, Sequences, FiniteSets, SequencesExt

CONSTANTS Clients,      \* the client ids, as numbers: the greater one wins a conflict
          Cells,        \* the cells that are edited
          MaxHeld,      \* the updates a replica holds back (MAX_PENDING_COLLABORATION_UPDATES)
          MaxQueue,     \* the frames a provider queues (maxPendingBytes)
          MaxLog,       \* the frames the relay retains (MAX_RETAINED_UPDATES)
          MaxInputs     \* bound: the edits made and the connections opened

\* Two, because a third would let an update depend on items of a client of which
\* the replica has a hole: the library's own pending store is not modelled.
ASSUME ClientsAssumption ==
  Clients \subseteq Nat /\ IsFiniteSet(Clients) /\ Cardinality(Clients) <= 2
ASSUME BoundsAssumption  == /\ MaxHeld \in Nat /\ MaxQueue \in Nat /\ MaxLog \in Nat
                            /\ MaxInputs \in Nat

VARIABLES made,      \* every item there is: its cell and the item it was typed over
          doc,       \* replica: the authority's document
          screen,    \* replica: the model, as the item each cell shows
          held,      \* replica: pending_remote_updates
          spins,     \* replica: whether resolving what it holds never ends
          link,      \* provider and socket: off, opening, accepted (by the relay) or open
          synced,    \* provider: isSynced
          queue,     \* provider: pendingFrames
          toRelay,   \* the socket, from client to relay
          toClient,  \* the socket, from relay to client
          log,       \* relay: the retained frames
          seniors,   \* history, read by no action: of an open client, those that were
                     \* open before it and still are
          connects   \* the connections opened (bounded)

replica  == <<doc, screen, held, spins>>
provider == <<link, synced, queue>>
sockets  == <<toRelay, toClient>>
vars == <<made, replica, provider, sockets, log, seniors, connects>>

Nothing == <<0, 0>>       \* an empty cell: no item
Items   == DOMAIN made
MayGoOn == Cardinality(Items) + connects < MaxInputs

\* A document: the items it has integrated and those it knows to be deleted.
\* An update has the same form.
Document(items, gone) == [items |-> items, gone |-> gone]
Documents == [items : SUBSET Items, gone : SUBSET Items]
Vectors   == [Clients -> -1..MaxInputs]

Step1(vector) == [kind |-> "step1", vector |-> vector]
Step2(diff)   == [kind |-> "step2", diff |-> diff]
Update(diff)  == [kind |-> "update", diff |-> diff]
IsDocument(f) == f.kind # "step1"

Init ==
  /\ made = <<>>
  /\ doc = [c \in Clients |-> Document({}, {})]
  /\ screen = [c \in Clients |-> [k \in Cells |-> Nothing]]
  /\ held = [c \in Clients |-> <<>>] /\ spins = [c \in Clients |-> FALSE]
  /\ link = [c \in Clients |-> "off"] /\ synced = [c \in Clients |-> FALSE]
  /\ queue = [c \in Clients |-> <<>>]
  /\ toRelay = [c \in Clients |-> <<>>] /\ toClient = [c \in Clients |-> <<>>]
  /\ log = <<>> /\ seniors = [c \in Clients |-> {}] /\ connects = 0

----------------------------------------------------------------------------
(* The document: what the CRDT library makes of items and deletions.        *)

One(set) == CHOOSE x \in set : TRUE

\* The items known once an update is integrated: an item waits for the one it
\* was typed over and for its client's earlier items in the same update.
Integrated[known \in SUBSET Items] ==
  [items \in SUBSET Items |->
     LET Before(i) == {j \in items : j[1] = i[1] /\ j[2] < i[2]} \cup ({made[i].over} \ {Nothing})
         further   == items \ known
     IN known \cup One({new \in SUBSET further :
                         new = {i \in further : Before(i) \subseteq known \cup new}})]

\* The last item of cell k: from the empty cell on, one follows the greatest
\* client among those that typed over the item before.
LastOf[items \in SUBSET Items] ==
  [k \in Cells |->
     LET Over(i) == {j \in items : made[j].cell = k /\ made[j].over = i}
         winners == {j \in items : /\ made[j].cell = k
                                   /\ \A o \in Over(made[j].over) : o[1] <= j[1]}
         path    == One({line \in SUBSET winners :
                           line = {j \in winners : made[j].over \in line \cup {Nothing}}})
     IN CHOOSE i \in path \cup {Nothing} : Over(i) = {}]

Hidden[items \in SUBSET Items] == {i \in items : i # LastOf[items][made[i].cell]}

\* A document with further items and deletions; a deletion may be ahead of its item.
Joined(d, items, gone) == Document(items, d.gone \cup gone \cup Hidden[items])
Content[d \in Documents] ==
  [k \in Cells |-> LET i == LastOf[d.items][k] IN IF i \in d.gone THEN Nothing ELSE i]
IsWhole(d) == d.gone \subseteq d.items

\* The state vector: for each client the items before its first hole, or -1 when
\* the document has none of its items at all.
Vector[d \in Documents] ==
  [c \in Clients |->
     LET clocks == {i[2] : i \in {j \in d.items : j[1] = c}}
     IN IF clocks = {} THEN -1
        ELSE Cardinality({n \in clocks : 1..n \subseteq clocks})]

\* encode_diff_v1: what a document has beyond a state vector, holes excepted:
\* nothing of a client of which it has as much up to the hole.
Diff[d \in Documents] ==
  [vector \in Vectors |->
     Document({i \in d.items : Vector[d][i[1]] > vector[i[1]] /\ i[2] > vector[i[1]]},
              d.gone \cap d.items)]

----------------------------------------------------------------------------
(* The replica.                                                             *)

\* stage_updates_v1: the document a copy of the authority's becomes.
Staged[d \in Documents] ==
  [update \in Documents |-> Joined(d, Integrated[d.items][update.items], update.gone)]

IsPending(staged, update) == ~(update.items \subseteq staged.items /\ IsWhole(staged))

\* What the authority is given of it: the difference to its own state vector.
Commit(d, staged) == Diff[staged][Vector[d]]

IsEffective(d, staged, update) ==
  /\ Vector[staged] # Vector[d] \/ Content[staged] # Content[d]
  /\ IsPending(staged, update) => Commit(d, staged) # Document({}, {})

\* apply_staged_remote_update: the authority takes the difference, the model is
\* the staged one.
AfterUpdate(r, staged, update) ==
  IF ~IsEffective(r.doc, staged, update) THEN r
  ELSE LET commit == Commit(r.doc, staged)
       IN [r EXCEPT !.doc = Joined(@, @.items \cup commit.items, commit.gone),
                    !.screen = Content[staged]]

\* resolve_pending_remote_updates: from the front, until nothing moves; a held
\* update that stays and has an effect makes it start over, and it never ends
\* when that effect does not reach the document.
Moving(r) == {n \in 1..Len(r.held) :
                LET staged == Staged[r.doc][r.held[n]]
                IN ~IsPending(staged, r.held[n]) \/ IsEffective(r.doc, staged, r.held[n])}
ResolveStep(r, n, staged) ==
  LET after == AfterUpdate(r, staged, r.held[n])
  IN IF ~IsPending(staged, r.held[n]) THEN [after EXCEPT !.held = RemoveAt(@, n)]
     ELSE [after EXCEPT !.spins = (after.doc = r.doc)]
Settles(r) == r.spins \/ Moving(r) = {}
Turn(r) ==
  IF Settles(r) THEN r
  ELSE LET first == CHOOSE n \in Moving(r) : \A o \in Moving(r) : n <= o
       IN ResolveStep(r, first, Staged[r.doc][r.held[first]])

\* A turn takes out an update or adds to the document, unless it is the one that
\* does not end: there are no more turns than this.
Turns(r) == Len(r.held) + 2 * Cardinality(Items) + 1
HeldForGood(r) == r
Resolved(r) ==
  LET after[n \in 0..Turns(r)] == IF n = 0 THEN r ELSE Turn(after[n - 1])
  IN after[CHOOSE n \in 0..Turns(r) : Settles(after[n])]

\* apply_update_v1: an equal update that is held back is taken out first; a
\* pending one is held back.
Applied(r, staged, update) ==
  {Resolved(given) :
     given \in {[after EXCEPT !.held = IF IsPending(staged, update) THEN Append(@, update) ELSE @] :
                 after \in {AfterUpdate(r, staged, update)}}}

----------------------------------------------------------------------------
(* The provider.                                                            *)

\* What a client leaves behind when its socket is gone: neither what waits nor
\* what is on the wire survives.
SocketGone(c, state) ==
  /\ link' = [link EXCEPT ![c] = state]
  /\ synced' = [synced EXCEPT ![c] = FALSE]
  /\ queue' = [queue EXCEPT ![c] = <<>>]
  /\ toRelay' = [toRelay EXCEPT ![c] = <<>>]
  /\ toClient' = [toClient EXCEPT ![c] = <<>>]
  /\ seniors' = [d \in Clients |-> IF d = c THEN {} ELSE seniors[d] \ {c}]

\* failConnection: the provider gives up until the host connects again.
Fails(c) == SocketGone(c, "off")

\* sendFrame: into the socket, unless frames wait before this one or the socket
\* refuses, as it may when it holds unsent data; then into the queue, and a full
\* queue ends the connection.  inbox is what is left to read.
MayRefuse(c) == queue[c] # <<>> \/ toRelay[c] # <<>>
Transmits(c, frame) ==
  /\ queue[c] = <<>>
  /\ toRelay' = [toRelay EXCEPT ![c] = Append(@, frame)]
  /\ UNCHANGED queue
Waits(c, frame) ==
  /\ MayRefuse(c)
  /\ queue' = [queue EXCEPT ![c] = Append(@, frame)]
  /\ UNCHANGED toRelay
Reads(c, inbox) ==
  /\ toClient' = [toClient EXCEPT ![c] = inbox]
  /\ UNCHANGED <<link, synced, seniors>>
Sends(c, frame, inbox) ==
  \/ Reads(c, inbox) /\ Transmits(c, frame)
  \/ Reads(c, inbox) /\ Waits(c, frame) /\ Len(queue[c]) < MaxQueue
  \/ MayRefuse(c) /\ Len(queue[c]) >= MaxQueue /\ Fails(c)

\* A local edit is committed to the replica, and forwarded while connected.
Edit(c, k) ==
  /\ MayGoOn /\ ~spins[c]
  /\ LET item  == <<c, Cardinality({i \in Items : i[1] = c}) + 1>>
         over  == LastOf[doc[c].items][k]
         items == doc[c].items \cup {item}
         gone  == doc[c].gone \cup ({over} \ {Nothing})
     IN /\ made' = [i \in Items \cup {item} |->
                     IF i = item THEN [cell |-> k, over |-> over] ELSE made[i]]
        /\ doc' = [doc EXCEPT ![c] = Document(items, gone)]
        /\ screen' = [screen EXCEPT ![c] = [Content[doc[c]] EXCEPT ![k] = item]]
        /\ IF link[c] = "open"
           THEN Sends(c, Update(Document({item}, gone \cap items)), toClient[c])
           ELSE UNCHANGED <<provider, sockets, seniors>>
  /\ UNCHANGED <<held, spins, log, connects>>

\* connect: the host asks for a connection.
Connect(c) ==
  /\ link[c] = "off" /\ MayGoOn /\ ~spins[c]
  /\ link' = [link EXCEPT ![c] = "opening"]
  /\ connects' = connects + 1
  /\ UNCHANGED <<made, replica, synced, queue, sockets, log, seniors>>

\* handleOpen: the socket is open, and asks the others for what is missing.
Opened(c) ==
  /\ link[c] = "accepted" /\ ~spins[c]
  /\ link' = [link EXCEPT ![c] = "open"]
  /\ toRelay' = [toRelay EXCEPT ![c] = Append(@, Step1(Vector[doc[c]]))]
  /\ seniors' = [seniors EXCEPT ![c] = {d \in Clients : link[d] = "open"}]
  /\ UNCHANGED <<made, replica, synced, queue, toClient, log, connects>>

\* close: the network drops the socket, and the transport tries again.
ConnectionLost(c) ==
  /\ link[c] \in {"accepted", "open"} /\ MayGoOn
  /\ SocketGone(c, "opening")
  /\ connects' = connects + 1
  /\ UNCHANGED <<made, replica, log>>

\* disconnect by the host, or an error of the socket.
Disconnect(c) ==
  /\ link[c] # "off" /\ ~spins[c]
  /\ Fails(c)
  /\ UNCHANGED <<made, replica, log, connects>>

\* respondToSyncStep1: what the other one has not got, be it nothing.
SilentIfNothing(c, vector, inbox) ==
  IF Diff[doc[c]][vector].items = {}
  THEN toClient' = [toClient EXCEPT ![c] = inbox] /\ UNCHANGED <<provider, toRelay, seniors>>
  ELSE Sends(c, Step2(Diff[doc[c]][vector]), inbox)
SilentUnlessSynced(c, vector, inbox) ==
  IF ~synced[c]
  THEN toClient' = [toClient EXCEPT ![c] = inbox] /\ UNCHANGED <<provider, toRelay, seniors>>
  ELSE Sends(c, Step2(Diff[doc[c]][vector]), inbox)
Answers(c, vector, inbox) == Sends(c, Step2(Diff[doc[c]][vector]), inbox)

\* applyRemoteUpdate: a document; the end of the connection if the replica
\* refuses to hold one more.
Receives(c, frame, inbox) ==
  \E staged \in {Staged[doc[c]][frame.diff]}, others \in {RemoveFirst(held[c], frame.diff)} :
    \/ /\ IsPending(staged, frame.diff) /\ Len(others) >= MaxHeld
       /\ held' = [held EXCEPT ![c] = others]
       /\ Fails(c)
       /\ UNCHANGED <<doc, screen, spins>>
    \/ /\ IsPending(staged, frame.diff) => Len(others) < MaxHeld
       /\ \E r \in {[doc |-> doc[c], screen |-> screen[c], held |-> others, spins |-> FALSE]} :
          \E after \in Applied(r, staged, frame.diff) :
            /\ doc' = [doc EXCEPT ![c] = after.doc]
            /\ screen' = [screen EXCEPT ![c] = after.screen]
            /\ held' = [held EXCEPT ![c] = after.held]
            /\ spins' = [spins EXCEPT ![c] = after.spins]
            /\ synced' = [synced EXCEPT ![c] = @ \/ (frame.kind = "step2" /\ ~after.spins)]
       /\ toClient' = [toClient EXCEPT ![c] = inbox]
       /\ UNCHANGED <<link, queue, toRelay, seniors>>

\* handleMessage: one frame from the relay.
Deliver(c) ==
  /\ link[c] = "open" /\ toClient[c] # <<>> /\ ~spins[c]
  /\ LET frame == Head(toClient[c])
         inbox == Tail(toClient[c])
     IN \/ /\ frame.kind = "step1"
           /\ Answers(c, frame.vector, inbox)
           /\ UNCHANGED replica
        \/ IsDocument(frame) /\ Receives(c, frame, inbox)
  /\ UNCHANGED <<made, log, connects>>

\* flushPending, on a drain event: as many frames as the socket takes.
Drain(c) ==
  /\ link[c] = "open" /\ queue[c] # <<>> /\ ~spins[c]
  /\ \E n \in 1..Len(queue[c]) :
       /\ toRelay' = [toRelay EXCEPT ![c] = @ \o SubSeq(queue[c], 1, n)]
       /\ queue' = [queue EXCEPT ![c] = SubSeq(@, n + 1, Len(@))]
  /\ UNCHANGED <<made, replica, link, synced, toClient, log, seniors, connects>>

----------------------------------------------------------------------------
(* The relay.                                                               *)

\* fetch: a socket is accepted, and reads the log first.
Accept(c) ==
  /\ link[c] = "opening"
  /\ link' = [link EXCEPT ![c] = "accepted"]
  /\ toClient' = [toClient EXCEPT ![c] = log]
  /\ UNCHANGED <<made, replica, synced, queue, toRelay, log, seniors, connects>>

Trimmed(frames) == IF Len(frames) > MaxLog
                   THEN SubSeq(frames, Len(frames) - MaxLog + 1, Len(frames)) ELSE frames

\* webSocketMessage: documents are retained, and every frame is broadcast.
Relays(c) ==
  /\ toRelay[c] # <<>>
  /\ LET frame == Head(toRelay[c])
     IN /\ log' = IF IsDocument(frame) THEN Trimmed(Append(log, frame)) ELSE log
        /\ toClient' = [d \in Clients |->
                          IF d # c /\ link[d] \in {"accepted", "open"}
                          THEN Append(toClient[d], frame) ELSE toClient[d]]
  /\ toRelay' = [toRelay EXCEPT ![c] = Tail(@)]
  /\ UNCHANGED <<made, replica, provider, seniors, connects>>

----------------------------------------------------------------------------

Next == \E c \in Clients :
  \/ \E k \in Cells : Edit(c, k)
  \/ Connect(c) \/ Opened(c) \/ ConnectionLost(c) \/ Disconnect(c)
  \/ Deliver(c) \/ Drain(c)
  \/ Accept(c) \/ Relays(c)

Spec == Init /\ [][Next]_vars

\* Something that can be carried or handled is, sooner or later: sockets that
\* stay up carry their frames and event loops run their handlers.
Handled == \E c \in Clients : Deliver(c) \/ Drain(c) \/ Relays(c)
FairSpec == Spec /\ WF_vars(Handled)

----------------------------------------------------------------------------
(* What must hold.                                                          *)

\* What a replica holds back it could not take, in whatever order and however often
\* its pieces arrived: each lacks something, and brings no client's items any further
\* (resolve_pending_remote_updates), unless resolving never ends.
HeldIsBlocked ==
  \A c \in Clients : ~spins[c] =>
    \A d \in ToSet(held[c]) :
      LET staged == Staged[doc[c]][d]
      IN IsPending(staged, d) /\ Vector[staged] = Vector[doc[c]]

Quiet == \A c \in Clients : toRelay[c] = <<>> /\ toClient[c] = <<>> /\ queue[c] = <<>>

Senior(d, c) == d \in seniors[c]

\* Once nothing is on the way, a client has every item of each client that
\* opened before it, however many frames the log has dropped and whatever hole
\* the suffix that was replayed has left: the answer to its Step1, and the
\* updates sent since, complete it.  (Not the other way round: nobody asks the
\* newcomer for what it typed while it was away.)
NewcomersCatchUp ==
  Quiet => \A c, d \in Clients : Senior(d, c) => doc[d].items \subseteq doc[c].items

\* Again and again, whoever opened while another was there is synced: the
\* answer to Step1 always comes, also when there is nothing to say, when a socket
\* refuses frames and when the log is full, unless one of the two goes away or
\* spins.
NewcomersSync ==
  []<>(\A c, d \in Clients : Senior(d, c) => synced[c] \/ spins[c] \/ spins[d])

\* What does not hold; the runs leave these out and the README tells how they fail.
\* Open clients have the same items once nothing is on the way.
EveryoneConverges ==
  Quiet => \A c, d \in Clients :
             link[c] = "open" /\ link[d] = "open" => doc[c].items = doc[d].items
\* The model shows what the document says.
ScreenIsTheDocument == \A c \in Clients : screen[c] = Content[doc[c]]
\* Resolving what is held back always ends.
ResolvingEnds == \A c \in Clients : ~spins[c]
=============================================================================
