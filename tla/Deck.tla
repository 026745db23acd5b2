-------------------------------- MODULE Deck --------------------------------
(* A presentation edited by several people (crates/pptx-edit): on each side *)
(* a session with its CRDT document and its undo history, between them the  *)
(* frames a relay retains and replays (packages/pptx/src/collaboration).    *)
(*                                                                          *)
(* The document keeps an order apart from what is ordered: "pptx:slide-     *)
(* order" is a list of slide ids and each slide holds a list of shape ids,  *)
(* "pptx:slides" and "pptx:shapes" map the ids to their content.  So a      *)
(* slide or shape is made of two kinds of items, a place in a list and an   *)
(* entry in a map, and it can only be shown when both are there.  Geometry, *)
(* style and text of a shape belong to its entry and are left out; so are   *)
(* groups, and edits made on behalf of an agent, which no history tracks.   *)
(*                                                                          *)
(* A slide or shape is named by its first entry.  The library keeps its     *)
(* items for all replicas in one order; a replica is the items it knows and *)
(* those it knows to be deleted.  People edit while they are connected, so  *)
(* nobody lacks an earlier item of an author (Collaboration has the holes), *)
(* and a frame may stand for all its author's document says.                *)
EXTENDS Integers, Sequences, FiniteSets, SequencesExt

CONSTANTS Clients,      \* the client ids, as numbers: the greater one wins a conflict
          SeedSlides,   \* the slides of the file everybody opened, of one shape each
          Ops,          \* the operations people use
          MaxInputs     \* bound: the edits, undos and redos made

\* Two, because where an entry goes among those of several other clients is not
\* modelled (Appended).
ASSUME ClientsAssumption ==
  Clients \subseteq Nat \ {0} /\ IsFiniteSet(Clients) /\ Cardinality(Clients) <= 2
ASSUME SeedSlidesAssumption == SeedSlides \in Nat
ASSUME OpsAssumption ==
  Ops \subseteq {"insert_slide", "delete_slide", "move_slide", "add_shape", "remove_shape",
                 "undo", "redo"}
ASSUME MaxInputsAssumption == MaxInputs \in Nat

VARIABLES made,    \* every item there is: its kind, what it is of, the list it is
                   \* a place in, and the item it brings back
          list,    \* list: its places, in order, for all replicas
          chain,   \* slide or shape: its entries, in order, for all replicas
          doc,     \* replica: the items it knows and those gone
          past,    \* replica: undo_stack, the changes to take back
          future,  \* replica: redo_stack
          fresh,   \* replica: last_change is set, the next edit may join the last
          link,    \* provider: on or off
          read,    \* provider: how much of the log it was sent (its own frames,
                   \* which the relay does not send back, say nothing new)
          asked,   \* the clients that owe a newcomer a SyncStep2
          log,     \* relay: the retained frames
          inputs   \* the edits, undos and redos made (bounded)

library  == <<made, list, chain>>
sessions == <<doc, past, future, fresh>>
network  == <<link, read, asked, log>>
vars == <<library, sessions, network, inputs>>

Nothing == <<0, 0>>     \* no item, and no list
Slides  == <<0, 1>>     \* "pptx:slide-order", the list that is in no slide
Items   == DOMAIN made

Place(of, within, redoes) == [kind |-> "place", of |-> of, within |-> within, redoes |-> redoes]
Entry(of, redoes) == [kind |-> "entry", of |-> of, within |-> Nothing, redoes |-> redoes]
IsPlace(i) == made[i].kind = "place"

\* A document, or what a frame says of one.
Document(items, gone) == [items |-> items, gone |-> gone]
Live(d) == d.items \ d.gone

\* seed_doc: of slide k and of its shape, the entry and the place after it.
SeedSlide(k) == <<0, 4 * k>>
SeedShape(k) == <<0, 4 * k + 2>>
PlaceOfSeed(x) == <<0, x[2] + 1>>
Seeds == {SeedSlide(k) : k \in 1..SeedSlides} \cup {SeedShape(k) : k \in 1..SeedSlides}
SeedSlideIds == {SeedSlide(k) : k \in 1..SeedSlides}
SeedList(x) == IF x \in SeedSlideIds THEN Slides ELSE <<0, x[2] - 2>>

Init ==
  /\ made = [i \in Seeds \cup {PlaceOfSeed(x) : x \in Seeds} |->
               IF i \in Seeds THEN Entry(i, Nothing)
               ELSE LET x == <<0, i[2] - 1>> IN Place(x, SeedList(x), Nothing)]
  /\ list = [l \in {Slides} \cup SeedSlideIds |->
               IF l = Slides THEN [k \in 1..SeedSlides |-> PlaceOfSeed(SeedSlide(k))]
               ELSE <<PlaceOfSeed(<<0, l[2] + 2>>)>>]
  /\ chain = [x \in Seeds |-> <<x>>]
  /\ doc = [c \in Clients |-> Document(Items, {})]
  /\ past = [c \in Clients |-> <<>>] /\ future = [c \in Clients |-> <<>>]
  /\ fresh = [c \in Clients |-> FALSE]
  /\ link = [c \in Clients |-> "on"] /\ read = [c \in Clients |-> 0]
  /\ asked = {} /\ log = <<>> /\ inputs = 0

----------------------------------------------------------------------------
(* What a document shows.                                                   *)

PlacesIn(d, l) == SelectSeq(list[l], LAMBDA i : i \in Live(d))
Places(d, l) == {i \in Live(d) : IsPlace(i) /\ made[i].within = l}
PlacesOf(d, l, x) == {i \in Places(d, l) : made[i].of = x}
EntriesOf(d, x) == {i \in ToSet(chain[x]) : i \in Live(d)}
Has(d, x) == EntriesOf(d, x) # {}
EntryOf(d, x) == CHOOSE i \in EntriesOf(d, x) : TRUE
SlideIds == {made[i].of : i \in {j \in Items : IsPlace(j) /\ made[j].within = Slides}}

\* array_index: the first place of x in list l, if there is one.
IsBefore(l, i, j) == \E m, n \in DOMAIN list[l] : m < n /\ list[l][m] = i /\ list[l][n] = j
FirstPlaces(d, l, x) ==
  {i \in PlacesOf(d, l, x) : ~\E j \in PlacesOf(d, l, x) \ {i} : IsBefore(l, j, i)}

\* The shapes a slide lists, dangling or not.
ShapesOn(d, s) == {made[i].of : i \in Places(d, EntryOf(d, s))}

\* validate_doc, snapshot_doc: every slide in the order has an entry, and so has
\* every shape in a shown slide's list.
SlideIsWhole(d, s) == Has(d, s) /\ \A x \in ShapesOn(d, s) : Has(d, x)
IsWhole(d) == \A i \in Places(d, Slides) : SlideIsWhole(d, made[i].of)

\* snapshot_doc: the slides in order, each once, each with its shapes; nothing of
\* a deck that is not whole.
OnceEach(places) ==
  LET IsFirst(n) == \A m \in 1..(n - 1) : made[places[m]].of # made[places[n]].of
      first      == SelectSeq([n \in DOMAIN places |-> n], IsFirst)
  IN [k \in DOMAIN first |-> made[places[first[k]]].of]
Shown(d) ==
  LET slides == IF IsWhole(d) THEN OnceEach(PlacesIn(d, Slides)) ELSE <<>>
  IN [n \in DOMAIN slides |->
        [slide |-> slides[n], shapes |-> OnceEach(PlacesIn(d, EntryOf(d, slides[n])))]]

----------------------------------------------------------------------------
(* What the library makes of items and deletions.                           *)

\* The last of x's entries that are among items hides the others.
Hidden(items, m, ch) ==
  {i \in items : m[i].kind = "entry" /\
     LET entries == ch[m[i].of]
     IN \E n, o \in DOMAIN entries : entries[n] = i /\ n < o /\ entries[o] \in items}

\* With a slide's entry go the places in its list.
Settled(items, gone, m, ch) ==
  LET dead == gone \cup Hidden(items, m, ch)
  IN Document(items, dead \cup {i \in items : m[i].kind = "place" /\ m[i].within \in dead})

JoinedItemsOnly(d, frame) == Settled(d.items \cup frame.items, d.gone, made, chain)
Joined(d, frame) == Settled(d.items \cup frame.items, d.gone \cup frame.gone, made, chain)

\* A new entry is put after the last its author knows; among those the author
\* does not know the client ids decide: the greater one goes last.
Appended(c, entries, items, new) ==
  LET known == {n \in DOMAIN entries : entries[n] \in items}
      last  == CHOOSE n \in known : \A o \in known : o <= n
  IN IF \A d \in Clients : d <= c THEN Append(entries, new) ELSE InsertAt(entries, last + 1, new)

\* The library's place for a new item after the n-th live one: at once after it.
\* (Which goes first of two put there at the same time is left to the order in
\* which they are made; the library asks the client ids.)
PositionAfter(d, l, n) ==
  IF n = 0 THEN 1
  ELSE 1 + CHOOSE at \in DOMAIN list[l] : list[l][at] = PlacesIn(d, l)[n]

\* The k-th item a client is about to make.
NewId(c, k) == <<c, Cardinality({i \in Items : i[1] = c}) + k>>

----------------------------------------------------------------------------
(* A transaction of the person at c, and its update event.                  *)

\* The person at c does something, connected and within the bound.
MayAct(c) == link[c] = "on" /\ inputs < MaxInputs

\* What an UndoManager remembers of a transaction (StackItem).
Change(before, after) == [ins |-> after.items \ before.items, del |-> after.gone \ before.gone]

\* A transaction leaves the document after, in the library as it is then: the
\* update it is reaches the log.
Transacts(c, after) ==
  /\ inputs' = inputs + 1
  /\ doc' = [doc EXCEPT ![c] = after]
  /\ log' = Append(log, after)
  /\ UNCHANGED <<link, read, asked>>

\* handle_after_transaction for an edit: the undone future is forgotten, and the
\* edit joins the one before when that was less than CAPTURE_TIMEOUT_MS ago.
Captured(c, change) ==
  LET stack  == past[c]
      top    == stack[Len(stack)]
      merged == [ins |-> top.ins \cup change.ins, del |-> top.del \cup change.del]
  IN /\ \/ past' = [past EXCEPT ![c] = Append(@, change)]
        \/ /\ fresh[c] /\ stack # <<>>
           /\ past' = [past EXCEPT ![c] = [@ EXCEPT ![Len(stack)] = merged]]
     /\ future' = [future EXCEPT ![c] = <<>>]
     /\ fresh' = [fresh EXCEPT ![c] = TRUE]

Edits(c, new, gone) ==
  \E after \in {Settled(doc[c].items \cup new, doc[c].gone \cup gone, made', chain')} :
    Transacts(c, after) /\ Captured(c, Change(doc[c], after))

----------------------------------------------------------------------------
(* The operations of a session.                                             *)

\* f with a value for x; the library with an object, its entry and its place in l.
With(f, x, value) == [y \in DOMAIN f \cup {x} |-> IF y = x THEN value ELSE f[y]]
WithObject(x, p, l) == With(With(made, x, Entry(x, Nothing)), p, Place(x, l, Nothing))

\* insert_slide at index at: an entry with an empty list, and a place.
InsertSlide(c, at) ==
  LET s == NewId(c, 1)
      p == NewId(c, 2)
  IN /\ "insert_slide" \in Ops
     /\ at <= Len(PlacesIn(doc[c], Slides))
     /\ made' = WithObject(s, p, Slides)
     /\ list' = With([list EXCEPT ![Slides] = InsertAt(@, PositionAfter(doc[c], Slides, at), p)],
                     s, <<>>)
     /\ chain' = With(chain, s, <<s>>)
     /\ Edits(c, {s, p}, {})

\* delete_slide: its first place, its entry and those of its shapes; it fails on
\* a shape without an entry.
DeleteLastPlace(c, s) ==
  LET d      == doc[c]
      places == PlacesIn(d, Slides)
  IN /\ "delete_slide" \in Ops
     /\ PlacesOf(d, Slides, s) # {} /\ SlideIsWhole(d, s)
     /\ UNCHANGED library
     /\ Edits(c, {}, {places[Len(places)], EntryOf(d, s)} \cup {EntryOf(d, x) : x \in ShapesOn(d, s)})
DeleteSlide(c, s) ==
  LET d == doc[c]
  IN /\ "delete_slide" \in Ops
     /\ SlideIsWhole(d, s)
     /\ UNCHANGED library
     /\ \E p \in FirstPlaces(d, Slides, s) :
          Edits(c, {}, {p, EntryOf(d, s)} \cup {EntryOf(d, x) : x \in ShapesOn(d, s)})

\* move_slide: its first place goes, and a new one is put at index to.
MoveSlide(c, s, to) ==
  LET d == doc[c]
      p == NewId(c, 1)
  IN /\ "move_slide" \in Ops
     /\ to \in DOMAIN PlacesIn(d, Slides)
     /\ \E old \in FirstPlaces(d, Slides, s) :
          LET from == CHOOSE n \in DOMAIN PlacesIn(d, Slides) : PlacesIn(d, Slides)[n] = old
              left == IF to < from THEN to - 1 ELSE to
          IN /\ to # from
             /\ made' = With(made, p, Place(s, Slides, Nothing))
             /\ list' = [list EXCEPT ![Slides] = InsertAt(@, PositionAfter(d, Slides, left), p)]
             /\ UNCHANGED chain
             /\ Edits(c, {p}, {old})

\* add_text_box, add_shape: an entry, and a place at the end of the slide's list.
AddShape(c, s) ==
  LET d == doc[c]
      x == NewId(c, 1)
      p == NewId(c, 2)
      l == EntryOf(d, s)
  IN /\ "add_shape" \in Ops
     /\ Has(d, s)
     /\ made' = WithObject(x, p, l)
     /\ list' = [list EXCEPT ![l] = InsertAt(@, PositionAfter(d, l, Len(PlacesIn(d, l))), p)]
     /\ chain' = With(chain, x, <<x>>)
     /\ Edits(c, {x, p}, {})

\* remove_shape: its first place and its entry.
RemoveShape(c, s, x) ==
  LET d == doc[c]
      l == EntryOf(d, s)
  IN /\ "remove_shape" \in Ops
     /\ Has(d, s) /\ Has(d, x)
     /\ UNCHANGED library
     /\ \E p \in FirstPlaces(d, l, x) : Edits(c, {}, {p, EntryOf(d, x)})

----------------------------------------------------------------------------
(* Undo and redo: the library's UndoManager.                                *)

\* The item c has brought i back as, which only c's library knows (redone).
Redone(c, i) == {j \in Items : j[1] = c /\ made[j].redoes = i}

\* follow_redone: to the last item c has brought i back as.
LastRedone(c) ==
  LET follow[i \in Items] ==
        IF Redone(c, i) = {} THEN i ELSE follow[CHOOSE j \in Redone(c, i) : TRUE]
  IN follow

\* What taking back a change deletes: of what it had put in, what is still there.
ToDelete(c, change) == {LastRedone(c)[i] : i \in change.ins} \ doc[c].gone

\* What it brings back: of what it had deleted, what it had not put in itself.
ToRedo(change) == change.del \ change.ins

\* An entry that others follow may come back only if these are c's to replace:
\* brought back, about to be deleted, or deleted by a change of its stacks.
EntryReturns(c, i, change, others) ==
  LET known == SelectSeq(chain[made[i].of], LAMBDA j : j \in doc[c].items)
      Ours(j) == Redone(c, j) # {} \/ j \in change.ins \/ \E o \in others : j \in o.del
      At(j) == CHOOSE n \in DOMAIN known : known[n] = j
      last[n \in DOMAIN known] ==
        IF n = Len(known) THEN TRUE
        ELSE Ours(known[n + 1]) /\ last[At(LastRedone(c)[known[n + 1]])]
  IN last[At(i)]

\* redo: the items that come back, each once; a place in a list that is gone
\* only when the list came back before or does now.
ReturningWhole(c, change, others) ==
  {i \in ToRedo(change) : Redone(c, i) = {} /\
     \E j \in ToRedo(change) : ~IsPlace(j) /\ made[j].of = made[i].of}
Returning(c, change, others) ==
  LET absent  == {i \in ToRedo(change) : Redone(c, i) = {}}
      entries == {i \in absent : ~IsPlace(i) /\ EntryReturns(c, i, change, others)}
      ListIsThere(l) == \/ l = Slides \/ l \notin doc[c].gone
                        \/ Redone(c, l) # {} \/ l \in entries
  IN entries \cup {i \in absent : IsPlace(i) /\ ListIsThere(made[i].within)}

\* Whether taking it back counts as a change; what had come back before does.
Performs(c, change, others) ==
  \/ ToDelete(c, change) # {} \/ Returning(c, change, others) # {}
  \/ \E i \in ToRedo(change) : Redone(c, i) # {}

\* The ids of the items that come back.
Precedes(i, j) == i[1] < j[1] \/ (i[1] = j[1] /\ i[2] < j[2])
NewIds(c, back) == [i \in back |-> NewId(c, Cardinality({j \in back : Precedes(j, i)}) + 1)]

\* The list a place comes back to.
NewList(c, l, new) ==
  IF l = Slides \/ l \notin doc[c].gone THEN l
  ELSE LET last == LastRedone(c)[l] IN IF last \in DOMAIN new THEN new[last] ELSE last

\* It comes back before the place it had; in another list, after those places
\* to the left of it that came back before.
Anchor(c, here, i) ==
  LET old  == list[made[i].within]
      left == {n \in DOMAIN old : LastRedone(c)[old[n]] \in ToSet(here)
                                  /\ \E o \in DOMAIN old : old[o] = i /\ n < o}
  IN IF left = {} THEN Nothing ELSE LastRedone(c)[old[CHOOSE n \in left : \A o \in left : o <= n]]
RestoredAtTheEnd(c, l, here, new) ==
  LET from == {k \in DOMAIN list : NewList(c, k, new) = l}
      back == FlattenSeq(SetToSeq({SelectSeq(list[k], LAMBDA i : i \in DOMAIN new) : k \in from}))
  IN here \o [n \in DOMAIN back |-> new[back[n]]]
Restored(c, l, here, new) ==
  LET from == {k \in DOMAIN list \ {l} : NewList(c, k, new) = l}
      Moved(at) ==
        LET Returned(k) == SelectSeq(list[k], LAMBDA i : i \in DOMAIN new /\ Anchor(c, here, i) = at)
            back == FlattenSeq(SetToSeq({Returned(k) : k \in from}))
        IN [n \in DOMAIN back |-> new[back[n]]]
      InPlace(i) == IF i \in DOMAIN new /\ NewList(c, l, new) = l THEN <<new[i]>> ELSE <<>>
  IN Moved(Nothing) \o FlattenSeq([n \in DOMAIN here |-> InPlace(here[n]) \o <<here[n]>> \o Moved(here[n])])

\* The items that come back, in the library.
Recreated(i, new, c) ==
  IF IsPlace(i) THEN Place(made[i].of, NewList(c, made[i].within, new), i) ELSE Entry(made[i].of, i)
Original(j, new) == CHOOSE i \in DOMAIN new : new[i] = j
ToRange(new) == {new[i] : i \in DOMAIN new}
Library(c, new) ==
  LET lists == {j \in ToRange(new) : Original(j, new) \in DOMAIN list}
      Entered(x) == {i \in DOMAIN new : ~IsPlace(i) /\ made[i].of = x}
  IN /\ made' = [j \in Items \cup ToRange(new) |->
                   IF j \in Items THEN made[j] ELSE Recreated(Original(j, new), new, c)]
     /\ list' = [l \in DOMAIN list \cup lists |->
                   Restored(c, l, IF l \in lists THEN <<>> ELSE list[l], new)]
     /\ chain' = [x \in DOMAIN chain |->
                    IF Entered(x) = {} THEN chain[x]
                    ELSE Appended(c, chain[x], doc[c].items, new[CHOOSE i \in Entered(x) : TRUE])]

\* try_process: a change is taken back, in a transaction of its own; what that
\* changes in turn is what the other history can take back.
TakesBack(c, change, others, other) ==
  \E new \in {NewIds(c, Returning(c, change, others))} :
    /\ Library(c, new)
    /\ \E after \in {Settled(doc[c].items \cup ToRange(new),
                             doc[c].gone \cup ToDelete(c, change), made', chain')} :
         /\ Transacts(c, after)
         /\ other' = [other EXCEPT ![c] =
                        IF after = doc[c] THEN @ ELSE Append(@, Change(doc[c], after))]

\* pop: changes are dropped until one can be taken back.
Pop(c, stack, other) ==
  LET Others(n) == ToSet(SubSeq(stack[c], 1, n - 1)) \cup ToSet(other[c])
      able == {n \in DOMAIN stack[c] : Performs(c, stack[c][n], Others(n))}
      top  == CHOOSE n \in able : \A m \in able : m <= n
  IN /\ stack[c] # <<>>
     /\ \/ /\ able = {}
           /\ inputs' = inputs + 1
           /\ stack' = [stack EXCEPT ![c] = <<>>]
           /\ UNCHANGED <<library, doc, other, fresh, network>>
        \/ /\ able # {}
           /\ TakesBack(c, stack[c][top], Others(top), other)
           /\ stack' = [stack EXCEPT ![c] = SubSeq(@, 1, top - 1)]

\* After an undo that changed something the next edit starts a change of its own.
Undo(c) == /\ "undo" \in Ops /\ MayAct(c)
           /\ Pop(c, past, future)
           /\ fresh' = [fresh EXCEPT ![c] = @ /\ doc'[c] = doc[c]]
Redo(c) == /\ "redo" \in Ops /\ MayAct(c)
           /\ Pop(c, future, past)
           /\ UNCHANGED fresh

----------------------------------------------------------------------------
(* The relay and the providers.                                             *)

\* A provider without a connection is opened again: it is sent the log, and its
\* SyncStep1 asks the others for what they have.
Connect(c) ==
  /\ link[c] = "off"
  /\ link' = [link EXCEPT ![c] = "on"]
  /\ read' = [read EXCEPT ![c] = 0]
  /\ asked' = asked \cup {d \in Clients : d # c /\ link[d] = "on"}
  /\ UNCHANGED <<library, sessions, log, inputs>>

\* respondToSyncStep1.
Answer(d) ==
  /\ d \in asked
  /\ asked' = asked \ {d}
  /\ log' = IF doc[d] \in ToSet(log) THEN log ELSE Append(log, doc[d])
  /\ UNCHANGED <<library, sessions, link, read, inputs>>

\* applyRemoteUpdate: the frame is applied to a copy; when the copy is no whole
\* deck the document stays as it was and the connection fails.
ReceiveTracked(c) ==
  /\ link[c] = "on" /\ read[c] < Len(log)
  /\ \E staged \in {Joined(doc[c], log[read[c] + 1])} :
       /\ doc' = [doc EXCEPT ![c] = staged]
       /\ past' = IF staged = doc[c] THEN past
                  ELSE [past EXCEPT ![c] = Append(@, Change(doc[c], staged))]
  /\ read' = [read EXCEPT ![c] = @ + 1]
  /\ UNCHANGED <<library, future, fresh, link, asked, log, inputs>>
Receive(c) ==
  /\ link[c] = "on" /\ read[c] < Len(log)
  /\ \E staged \in {Joined(doc[c], log[read[c] + 1])} :
       \/ /\ IsWhole(staged)
          /\ doc' = [doc EXCEPT ![c] = staged]
          /\ read' = [read EXCEPT ![c] = @ + 1]
          /\ UNCHANGED <<link, asked>>
       \/ /\ ~IsWhole(staged)
          /\ link' = [link EXCEPT ![c] = "off"]
          /\ read' = [read EXCEPT ![c] = 0]
          /\ asked' = asked \ {c}
          /\ UNCHANGED doc
  /\ UNCHANGED <<library, past, future, fresh, log, inputs>>

----------------------------------------------------------------------------

Edit(c) ==
  /\ MayAct(c)
  /\ \/ \E at \in 0..Len(PlacesIn(doc[c], Slides)) : InsertSlide(c, at)
     \/ \E s \in SlideIds :
          \/ DeleteSlide(c, s) \/ AddShape(c, s)
          \/ \E to \in DOMAIN PlacesIn(doc[c], Slides) : MoveSlide(c, s, to)
          \/ Has(doc[c], s) /\ \E x \in ShapesOn(doc[c], s) : RemoveShape(c, s, x)

Next == \E c \in Clients :
          Edit(c) \/ Undo(c) \/ Redo(c) \/ Connect(c) \/ Answer(c) \/ Receive(c)

Spec == Init /\ [][Next]_vars

\* A socket that stays up carries its frames, event loops run their handlers, and
\* people open a connection that has failed again.
Fairness == \A c \in Clients : WF_vars(Receive(c)) /\ WF_vars(Answer(c)) /\ WF_vars(Connect(c))

----------------------------------------------------------------------------
(* What must hold.                                                          *)

\* A slide whose content nobody has deleted has a place in the order: moves, their
\* undos and redos, made by the two people at once and merged in any order, never
\* leave a slide that nobody can see (move_slide takes the place away to put it
\* back).  Of content that was deleted and came back this is not so: see the README.
NoSlideVanishes ==
  \A c \in Clients : \A s \in SlideIds :
    s \in Live(doc[c]) => PlacesOf(doc[c], Slides, s) # {}

\* Whoever has read the whole log has the same document, in whatever order the
\* other's frames came between its own edits, and wherever entries that came back
\* on both sides hide one another.
ReadersAgree ==
  \A c, d \in Clients :
    link[c] = "on" /\ link[d] = "on" /\ read[c] = Len(log) /\ read[d] = Len(log)
      => doc[c] = doc[d]

\* No slide has been moved, and nothing undone or redone has brought anything back:
\* every slide and shape has the entry and the place it was made with.
NothingReplaced ==
  /\ \A i \in Items : made[i].redoes = Nothing
  /\ \A i, j \in Items : IsPlace(i) /\ IsPlace(j) /\ made[i].of = made[j].of => i = j

\* Until then every deck can be shown, after every edit, undo and update (validate_doc,
\* snapshot_doc); so no frame is refused.
DecksStayWhole ==
  NothingReplaced => \A c \in Clients : IsWhole(doc[c]) /\ link[c] = "on"

\* Undo at c takes away what c has put in itself, and what was put into slides that
\* c had put in: never a slide or a shape of the other person elsewhere, whatever
\* came in between the edits of a group or since (tracked_origins).
UndoTakesBackItsOwn ==
  [][\A c \in Clients :
       past'[c] # past[c] /\ Len(past'[c]) < Len(past[c]) =>
         \A i \in doc'[c].gone \ doc[c].gone :
           i[1] = c \/ (IsPlace(i) /\ made[i].within[1] = c)]_vars

\* And those who stop editing have the same deck in the end.
EveryoneConverges == []NothingReplaced => <>[](\A c, d \in Clients : doc[c] = doc[d])
=============================================================================
