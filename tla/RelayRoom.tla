----------------------------- MODULE RelayRoom -----------------------------
(***************************************************************************)
(* One room of the collaboration relay (apps/relay/src): a Durable Object  *)
(* that broadcasts document updates between its sockets, retains the most  *)
(* recent ones for joiners, mirrors what it retains in its storage through *)
(* one chain of writes, and is wiped by an alarm once it has been idle.    *)
(*                                                                         *)
(* The object may be dropped between any two steps.  Its fields go; its    *)
(* storage, its alarm and, when it only hibernated, its sockets stay.  The *)
(* runtime delivers no event while a storage operation is in progress.     *)
(*                                                                         *)
(* A document update is its number in the order the room accepted them.    *)
(* `accepted`, `lost` and the `at` of an entry are history: the updates so *)
(* far, those a drop caught before they were stored, and when each came.   *)
(***************************************************************************)
EXTENDS Naturals, Sequences, FiniteSetsExt

CONSTANTS
    Sockets,       \* clients
    Sizes,         \* sizes of a frame's document messages
    MaxCount,      \* MAX_RETAINED_COUNT
    MaxBytes,      \* MAX_COLLABORATION_FRAME_BYTES
    StorageLimit,  \* largest value the storage accepts
    Ttl,           \* ROOM_TTL_MS
    Slack,         \* TTL_REFRESH_SLACK_MS
    MaxUpdates,    \* bound: updates accepted
    MaxTime        \* bound: time

ASSUME RelayAssumption ==
    /\ Sizes \subseteq 1..MaxBytes
    /\ {MaxCount, MaxBytes, Ttl, MaxUpdates} \subseteq Nat \ {0}
    /\ {StorageLimit, Slack, MaxTime} \subseteq Nat
    /\ Slack <= Ttl

VARIABLES
    status,      \* "down", "booting" (blockConcurrencyWhile) or "up"
    updates,     \* RetainedUpdateLog.updates
    nextSeq,     \* RetainedUpdateLog.nextSeq
    expiresAt,   \* the deadline the object believes in, or NoAlarm
    persist,     \* storage operations chained and not done, oldest first
    rejected,    \* the chain is a rejected promise
    stored,      \* the update keys in storage
    stray,       \* storage also holds keys no version can read any more
    alarm,       \* the alarm of the object, or NoAlarm
    sockets,     \* getWebSockets()
    seen,        \* updates each socket was sent, or sent itself
    now,
    accepted,    \* history: see above
    lost         \* history: see above

vars == <<status, updates, nextSeq, expiresAt, persist, rejected, stored, stray,
          alarm, sockets, seen, now, accepted, lost>>

memVars == <<updates, nextSeq, expiresAt, persist, rejected>>
storeVars == <<stored, stray, alarm>>
peerVars == <<sockets, seen>>

NoAlarm == 0

\* `form` tells apart what an older version may have stored: frames that still
\* carry awareness, and frames that do not decode.
Entry == [seq : Nat, n : 0..MaxUpdates, size : 1..MaxBytes, at : 0..MaxTime,
          form : {"canonical", "mixed", "invalid"}]

Operation ==
    [op : {"put"}, entries : SUBSET Entry]
    \cup [op : {"delete"}, seqs : SUBSET Nat]
    \cup [op : {"setAlarm"}, deadline : Nat]
    \cup [op : {"deleteStray"}]

Canonical(entries) == {entry \in entries : entry.form = "canonical"}

TypeOK ==
    /\ status \in {"down", "booting", "up"}
    /\ updates \subseteq Entry /\ updates = Canonical(updates)
    /\ nextSeq \in Nat /\ \A entry \in updates : entry.seq < nextSeq
    /\ expiresAt \in Nat
    /\ persist \in Seq(Operation)
    /\ rejected \in BOOLEAN
    /\ stored \subseteq Entry
    /\ stray \in BOOLEAN
    /\ alarm \in Nat
    /\ sockets \subseteq Sockets
    /\ seen \in [Sockets -> SUBSET (0..MaxUpdates)]
    /\ now \in 0..MaxTime
    /\ accepted \in 0..MaxUpdates
    /\ lost \subseteq 1..MaxUpdates

\* What a version that retained whole frames left: the first update with the
\* awareness it travelled with, and a frame that does not decode any more.
OldStorage ==
    {[seq |-> 0, n |-> 1, size |-> 1, at |-> 0, form |-> "mixed"],
     [seq |-> 1, n |-> 0, size |-> 1, at |-> 0, form |-> "invalid"]}

Init ==
    /\ status = "down"
    /\ updates = {} /\ nextSeq = 0 /\ expiresAt = NoAlarm
    /\ persist = <<>> /\ rejected = FALSE
    /\ \/ stored = {} /\ stray \in BOOLEAN /\ alarm = NoAlarm /\ accepted = 0
       \/ stored = OldStorage /\ stray = FALSE /\ alarm = Ttl /\ accepted = 1
    /\ sockets = {} /\ seen = [s \in Sockets |-> {}]
    /\ now = 0 /\ lost = {}

-----------------------------------------------------------------------------
(* RetainedUpdateLog *)

TotalSize(entries) == MapThenSumSet(LAMBDA entry : entry.size, entries)

From(entries, seq) == {entry \in entries : entry.seq >= seq}

Seqs(entries) == {entry.seq : entry \in entries}

\* trim: the oldest entries go until count and size are within their limits.
Fits(entries) == Cardinality(entries) <= MaxCount /\ TotalSize(entries) <= MaxBytes
Trimmed(entries) ==
    IF Fits(entries) THEN entries
    ELSE From(entries, Min({seq \in Seqs(entries) :
                               Fits(From(entries, seq + 1))}) + 1)

\* restore numbers what comes next above everything it found.
AfterCount(entries) == Cardinality(entries)
AfterHighest(entries) == IF entries = {} THEN 0 ELSE Max(Seqs(entries)) + 1

-----------------------------------------------------------------------------
(* The chain of storage writes. *)

\* `this.persist.then(...)`: nothing runs after a rejection.
Chained(operations) == IF rejected THEN persist ELSE persist \o operations

\* writeMutation: the puts, then the deletes.
PutsOnly(puts, deletes) ==
    IF puts = {} THEN <<>> ELSE <<[op |-> "put", entries |-> puts]>>
Mutation(puts, deletes) ==
    (IF puts = {} THEN <<>> ELSE <<[op |-> "put", entries |-> puts]>>)
    \o (IF deletes = {} THEN <<>> ELSE <<[op |-> "delete", seqs |-> deletes]>>)

\* The storage rejects a value that is too large for it.
Rejects(operation) ==
    operation.op = "put" /\ \E entry \in operation.entries : entry.size > StorageLimit

\* The oldest operation of the chain is done.
StoreNext ==
    /\ status # "down" /\ persist # <<>>
    /\ LET operation == Head(persist) IN
       \/ /\ Rejects(operation)
          /\ rejected' = TRUE /\ persist' = <<>>
          /\ UNCHANGED storeVars
       \/ /\ ~Rejects(operation)
          /\ persist' = Tail(persist)
          /\ \/ /\ operation.op = "put"
                /\ stored' = {entry \in stored : entry.seq \notin Seqs(operation.entries)}
                                 \cup operation.entries
                /\ UNCHANGED <<stray, alarm>>
             \/ /\ operation.op = "delete"
                /\ stored' = {entry \in stored : entry.seq \notin operation.seqs}
                /\ UNCHANGED <<stray, alarm>>
             \/ /\ operation.op = "setAlarm"
                /\ alarm' = operation.deadline
                /\ UNCHANGED <<stored, stray>>
             \/ /\ operation.op = "deleteStray"
                /\ stray' = FALSE
                /\ UNCHANGED <<stored, alarm>>
          /\ UNCHANGED rejected
    /\ UNCHANGED <<status, updates, nextSeq, expiresAt, peerVars, now, accepted, lost>>

-----------------------------------------------------------------------------
(* The life of the object. *)

Awake == status = "up" /\ persist = <<>>

\* The constructor reads the storage, restores the log and repairs the storage.
Boot ==
    /\ status = "down"
    /\ status' = "booting"
    /\ LET decoded == {entry \in stored : entry.form # "invalid"}
           log == Trimmed({[entry EXCEPT !.form = "canonical"] : entry \in decoded})
       IN  /\ updates' = log
           /\ nextSeq' = AfterHighest(stored)
           /\ persist' = (IF stray THEN <<[op |-> "deleteStray"]>> ELSE <<>>)
                         \o Mutation(log \ stored, Seqs(stored) \ Seqs(log))
    /\ expiresAt' = alarm
    /\ rejected' = FALSE
    /\ UNCHANGED <<storeVars, peerVars, now, accepted, lost>>

\* blockConcurrencyWhile is over.
Booted ==
    /\ status = "booting" /\ persist = <<>>
    /\ status' = "up"
    /\ UNCHANGED <<memVars, storeVars, peerVars, now, accepted, lost>>

\* The object is dropped, whatever its chain still had to write.  Its sockets
\* stay when it hibernates, and it only does once there is nothing to write.
Drop ==
    /\ status # "down"
    /\ status' = "down"
    /\ updates' = {} /\ nextSeq' = 0 /\ expiresAt' = NoAlarm
    /\ persist' = <<>> /\ rejected' = FALSE
    /\ lost' = lost \cup {entry.n : entry \in {e \in updates : e.seq \notin Seqs(stored)}}
    /\ sockets' \in (IF persist = <<>> THEN {sockets, {}} ELSE {{}})
    /\ UNCHANGED <<storeVars, seen, now, accepted>>

Tick ==
    /\ now < MaxTime /\ now' = now + 1
    /\ UNCHANGED <<status, memVars, storeVars, peerVars, accepted, lost>>

-----------------------------------------------------------------------------
(* The events of the room. *)

\* refreshExpiry: a deadline that is not materially stale is left alone.
DeadlineIsFresh == expiresAt # NoAlarm /\ now + Ttl < expiresAt + Slack
Deadline == IF DeadlineIsFresh THEN expiresAt ELSE now + Ttl
ExpiryOps == IF DeadlineIsFresh THEN <<>>
             ELSE <<[op |-> "setAlarm", deadline |-> now + Ttl]>>

\* The deadline is written before the update it is for.
UpdateFirst(mutation) == mutation \o ExpiryOps
DeadlineFirst(mutation) == ExpiryOps \o mutation

\* fetch: a socket is accepted and the log replayed to it.
ReplayNothing == {}
Replayed == {entry.n : entry \in updates}
Join(s) ==
    /\ Awake /\ s \notin sockets
    /\ sockets' = sockets \cup {s}
    /\ seen' = [seen EXCEPT ![s] = Replayed]
    /\ expiresAt' = Deadline
    /\ persist' = Chained(ExpiryOps)
    /\ UNCHANGED <<status, updates, nextSeq, rejected, storeVars, now, accepted, lost>>

\* webSocketMessage, a frame that carries document state: it is retained and
\* goes to every other socket.
DocumentFrame(s, size) ==
    /\ Awake /\ s \in sockets /\ accepted < MaxUpdates
    /\ accepted' = accepted + 1
    /\ LET entry == [seq |-> nextSeq, n |-> accepted + 1, size |-> size,
                     at |-> now, form |-> "canonical"]
           log == updates \cup {entry}
       IN  /\ updates' = Trimmed(log)
           /\ persist' = Chained(DeadlineFirst(
                            Mutation({entry}, Seqs(log \ Trimmed(log)))))
    /\ nextSeq' = nextSeq + 1
    /\ expiresAt' = Deadline
    /\ seen' = [t \in Sockets |->
                  IF t \in sockets THEN seen[t] \cup {accepted + 1} ELSE seen[t]]
    /\ UNCHANGED <<status, rejected, storeVars, sockets, now, lost>>

\* A frame without document state is only passed on.
TransientFrame(s) ==
    /\ Awake /\ s \in sockets
    /\ expiresAt' = Deadline
    /\ persist' = Chained(ExpiryOps)
    /\ UNCHANGED <<status, updates, nextSeq, rejected, storeVars, peerVars, now,
                   accepted, lost>>

\* A text, oversized, malformed or auth frame closes the socket that sent it; a
\* socket also closes, or errs, of its own.
Leave(s) ==
    /\ Awake /\ s \in sockets
    /\ sockets' = sockets \ {s}
    /\ UNCHANGED <<status, memVars, storeVars, seen, now, accepted, lost>>

\* deleteAll
StorageKept == stored
StorageWiped == {}

\* alarm: a room in use is given another term, an idle one is wiped.  It waits
\* for the chain, and fails with it.
Alarm ==
    /\ Awake /\ alarm # NoAlarm /\ alarm <= now /\ ~rejected
    /\ \/ /\ sockets # {}
          /\ expiresAt' = now + Ttl /\ alarm' = now + Ttl
          /\ UNCHANGED <<updates, nextSeq, stored, stray>>
       \/ /\ sockets = {}
          /\ updates' = {} /\ nextSeq' = 0
          /\ expiresAt' = NoAlarm /\ alarm' = NoAlarm
          /\ stored' = StorageWiped /\ stray' = FALSE
    /\ UNCHANGED <<status, persist, rejected, peerVars, now, accepted, lost>>

-----------------------------------------------------------------------------
Next ==
    \/ Boot \/ Booted \/ Drop \/ StoreNext \/ Alarm \/ Tick
    \/ \E s \in Sockets :
          \/ Join(s) \/ TransientFrame(s) \/ Leave(s)
          \/ \E size \in Sizes : DocumentFrame(s, size)

Spec == Init /\ [][Next]_vars

-----------------------------------------------------------------------------
(* Properties. *)

\* The storage mirrors the memory: once the chain of writes is done, the stored
\* log, its sequence numbers and the alarm are exactly what the object believes,
\* after trims, repairs, drops and wipes.
StorageFollowsMemory ==
    Awake => stored = updates /\ alarm = expiresAt

\* What a restart would replay if the object were dropped now has no holes: of
\* the updates between its oldest and its newest, only those a drop caught
\* before they were stored are missing.
RestartLeavesNoHole ==
    LET kept == {entry.n : entry \in {e \in stored : e.form # "invalid"}}
    IN  \A low, high \in kept : low..high \subseteq kept \cup lost

\* A socket in the room has every update a joiner would be given: nothing that
\* is retained reached only some of them, across drops and hibernation.
PeersHaveTheLog ==
    \A s \in sockets : \A entry \in updates : entry.n \in seen[s]

\* A room that holds updates has an alarm, so none is kept forever: also when
\* the object was dropped between any two of its writes.
StoredRoomsExpire == stored # {} => alarm # NoAlarm

\* An alarm never wipes an update that has not been idle for a full term less
\* the slack, nor a room that somebody is in.
OnlyIdleRoomsAreWiped ==
    [][stored # {} /\ stored' = {} /\ alarm' = NoAlarm
          => /\ sockets = {}
             /\ \A entry \in stored : now + Slack >= entry.at + Ttl]_vars

\* The chain of writes brings the storage back in line with memory: what an
\* object retains is stored, unless the storage refused that very value.
OnlyRefusedUpdatesAreMissing ==
    Awake => \A entry \in updates : entry.size <= StorageLimit => entry \in stored
=============================================================================
