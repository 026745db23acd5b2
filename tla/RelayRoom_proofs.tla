-------------------------- MODULE RelayRoom_proofs --------------------------
(***************************************************************************)
(* Proofs about RelayRoom, for any clients, sizes, limits and terms: a     *)
(* room that holds updates expires, and only an idle room does; storage    *)
(* follows memory, peers have the log and a restart replays it without a   *)
(* hole, where the storage refuses nothing; and types.                     *)
(***************************************************************************)
EXTENDS RelayRoom, FiniteSetTheorems, SequenceTheorems, WellFoundedInduction, TLAPS

\* A chain of writes, whatever they write.
IsChain(chain) == chain \in Seq(Range(chain))

-----------------------------------------------------------------------------
(* Chains.                                                                 *)

\* The empty chain and the chain of one write.
LEMMA ShortChains ==
    /\ IsChain(<<>>) /\ Range(<<>>) = {}
    /\ \A x : IsChain(<<x>>) /\ Range(<<x>>) = {x} /\ <<x>> # <<>> /\ Head(<<x>>) = x
<1>1. IsChain(<<>>) /\ Range(<<>>) = {}
  <2>1. <<>> \in Seq({})
    BY EmptySeq
  <2>2. Range(<<>>) \in SUBSET {}
    BY <2>1, RangeOfSeq, Zenon
  <2> QED
    BY <2>1, <2>2 DEF IsChain
<1>2. ASSUME NEW x
      PROVE  IsChain(<<x>>) /\ Range(<<x>>) = {x} /\ <<x>> # <<>> /\ Head(<<x>>) = x
  <2>1. <<x>> \in Seq({x}) /\ Len(<<x>>) = 1 /\ <<x>>[1] = x
    OBVIOUS
  <2>2. Range(<<x>>) = {<<x>>[i] : i \in 1..1}
    BY <2>1, RangeEquality
  <2>3. Range(<<x>>) = {x}
    BY <2>1, <2>2
  <2>4. IsChain(<<x>>)
    BY <2>1, <2>3 DEF IsChain
  <2> QED
    BY <2>3, <2>4
<1> QED
  BY <1>1, <1>2

\* A chain continued by another.
LEMMA ChainsJoined ==
    ASSUME NEW s, IsChain(s), NEW t, IsChain(t)
    PROVE  IsChain(s \o t) /\ Range(s \o t) = Range(s) \cup Range(t)
<1> DEFINE S == Range(s) \cup Range(t)
<1>1. s \in Seq(S) /\ t \in Seq(S)
  BY SeqMonotonic DEF IsChain
<1> HIDE DEF S
<1>2. s \o t \in Seq(S) /\ Range(s \o t) = Range(s) \cup Range(t)
  BY <1>1, ConcatProperties, RangeConcatenation
<1> QED
  BY <1>2, SeqOfRange DEF IsChain

\* What a chain is continued by does not change its first write.
LEMMA ChainWithHead ==
    ASSUME NEW x, NEW t, IsChain(t)
    PROVE  /\ <<x>> \o t # <<>> /\ Head(<<x>> \o t) = x /\ Tail(<<x>> \o t) = t
           /\ <<x>> \o <<>> = <<x>> /\ <<>> \o t = t
<1> DEFINE S == {x} \cup Range(t)
<1>1. <<x>> \in Seq(S) /\ t \in Seq(S)
  BY SeqMonotonic DEF IsChain
<1> HIDE DEF S
<1>2. <<x>> # <<>> /\ Head(<<x>>) = x /\ Tail(<<x>>) = <<>>
  OBVIOUS
<1> QED
  BY <1>1, <1>2, ConcatSimplifications, ConcatEmptySeq

\* The oldest write and the rest of a chain that is not done.
LEMMA ChainSplit ==
    ASSUME NEW s, IsChain(s), s # <<>>
    PROVE  /\ Head(s) \in Range(s)
           /\ IsChain(Tail(s)) /\ Range(Tail(s)) \subseteq Range(s)
<1> DEFINE S == Range(s)
<1>1. s \in Seq(S)
  BY DEF IsChain
<1> HIDE DEF S
<1>2. Head(s) \in S /\ Tail(s) \in Seq(S)
  BY <1>1, HeadTailProperties
<1> QED
  BY <1>2, RangeOfSeq, SeqOfRange DEF IsChain, S

-----------------------------------------------------------------------------
(* The deadline.                                                           *)

\* The deadline is set by the oldest write of the chain or by none of it, and
\* is the one the alarm has once the chain is done.
SetsDeadline == persist # <<>> /\ Head(persist).op = "setAlarm"
Armed == IF SetsDeadline THEN Head(persist).deadline ELSE alarm

Counters == /\ now \in Nat /\ alarm \in Nat /\ expiresAt \in Nat
            /\ rejected \in BOOLEAN /\ IsChain(persist)

DeadlineComesFirst ==
  /\ SetsDeadline => Head(persist).deadline \in Nat \ {NoAlarm}
  /\ persist # <<>> => \A write \in Range(Tail(persist)) : write.op # "setAlarm"

\* Entries that came in time and are covered by a deadline.
Covered(entries, deadline) ==
  \A entry \in entries : /\ entry.at \in Nat /\ entry.at <= now
                         /\ entry.at + Ttl <= deadline + Slack

\* What is stored is covered by the alarm, now and once it is set anew.
StoredIsCovered ==
  /\ stored # {} => alarm # NoAlarm
  /\ Covered(stored, alarm) /\ Covered(stored, Armed)

\* What is still to be stored will be covered by then.
PutsAreCovered ==
  \A write \in Range(persist) :
    write.op = "put" => Armed # NoAlarm /\ Covered(write.entries, Armed)

\* The object believes in the deadline there will be, unless it cannot write.
DeadlineIsKnown == status = "down" \/ rejected \/ expiresAt = Armed

ExpiryInv == /\ Counters /\ DeadlineComesFirst /\ StoredIsCovered
             /\ PutsAreCovered /\ DeadlineIsKnown

\* The constants of the room are numbers, and a term takes time.
LEMMA Numbers == /\ Ttl \in Nat /\ Ttl > 0 /\ Slack \in Nat /\ Slack <= Ttl
                 /\ NoAlarm = 0
<1>1. Ttl \in Nat \ {0} /\ Slack \in Nat /\ Slack <= Ttl
  BY RelayAssumption
<1> QED
  BY <1>1 DEF NoAlarm

\* A room starts empty, or with what an older version left and its alarm.
LEMMA ExpiryInit == Init => ExpiryInv
<1> SUFFICES ASSUME Init PROVE ExpiryInv
  OBVIOUS
<1>1. persist = <<>> /\ IsChain(persist) /\ Range(persist) = {}
  BY ShortChains DEF Init
<1>2. /\ now = 0 /\ expiresAt = 0 /\ rejected = FALSE
      /\ \/ stored = {} /\ alarm = 0
         \/ stored = OldStorage /\ alarm = Ttl
  BY DEF Init, NoAlarm
<1>3. Armed = alarm /\ ~SetsDeadline
  BY <1>1 DEF Armed, SetsDeadline
<1>4. Counters
  <2>1. now \in Nat /\ alarm \in Nat /\ expiresAt \in Nat
    BY <1>2, Numbers
  <2>2. rejected \in BOOLEAN
    BY <1>2
  <2> QED
    BY <1>1, <2>1, <2>2, Zenon DEF Counters
<1>5. DeadlineComesFirst /\ PutsAreCovered
  BY <1>1, <1>3 DEF DeadlineComesFirst, PutsAreCovered
<1>6. StoredIsCovered
  <2>1. CASE stored = {} /\ alarm = 0
    BY <2>1 DEF StoredIsCovered, Covered
  <2>2. CASE stored = OldStorage /\ alarm = Ttl
    <3>1. \A entry \in stored : entry.at = 0
      BY <2>2 DEF OldStorage
    <3> QED
      BY <1>2, <1>3, <2>2, <3>1, Numbers DEF StoredIsCovered, Covered
  <2> QED
    BY <1>2, <2>1, <2>2
<1>7. DeadlineIsKnown
  BY DEF Init, DeadlineIsKnown
<1> QED
  BY <1>4, <1>5, <1>6, <1>7 DEF ExpiryInv

\* What covers some entries covers the fewer and the ones that came as they did.
LEMMA CoveredToo ==
    ASSUME NEW some, NEW deadline, Covered(some, deadline),
           NEW others, \A entry \in others : \E one \in some : entry.at = one.at
    PROVE  Covered(others, deadline)
  BY DEF Covered

\* The writes of a mutation.
LEMMA MutationIsChain ==
    ASSUME NEW puts, NEW deletes
    PROVE  /\ IsChain(Mutation(puts, deletes))
           /\ \A write \in Range(Mutation(puts, deletes)) :
                \/ write = [op |-> "put", entries |-> puts] /\ puts # {}
                \/ write = [op |-> "delete", seqs |-> deletes] /\ deletes # {}
<1> DEFINE p == IF puts = {} THEN <<>> ELSE <<[op |-> "put", entries |-> puts]>>
           d == IF deletes = {} THEN <<>> ELSE <<[op |-> "delete", seqs |-> deletes]>>
<1>1. /\ IsChain(p)
      /\ \A write \in Range(p) : write = [op |-> "put", entries |-> puts] /\ puts # {}
  <2>1. CASE puts = {}
    BY <2>1, ShortChains
  <2>2. CASE puts # {}
    BY <2>2, ShortChains
  <2> QED
    BY <2>1, <2>2
<1>2. /\ IsChain(d)
      /\ \A write \in Range(d) : write = [op |-> "delete", seqs |-> deletes] /\ deletes # {}
  <2>1. CASE deletes = {}
    BY <2>1, ShortChains
  <2>2. CASE deletes # {}
    BY <2>2, ShortChains
  <2> QED
    BY <2>1, <2>2
<1>3. Mutation(puts, deletes) = p \o d
  BY DEF Mutation
<1> HIDE DEF p, d
<1> QED
  BY <1>1, <1>2, <1>3, ChainsJoined

\* An event that is answered by an idle chain of writes: the deadline, when it
\* is stale, and then what there is to store.
LEMMA EventKeepsExpiry ==
    ASSUME ExpiryInv, Awake, NEW mutation, IsChain(mutation),
           \A write \in Range(mutation) :
             /\ write.op # "setAlarm"
             /\ write.op = "put" => \A entry \in write.entries : entry.at = now,
           persist' = Chained(DeadlineFirst(mutation)), expiresAt' = Deadline,
           UNCHANGED <<status, rejected, storeVars, now>>
    PROVE  ExpiryInv'
<1>1. /\ persist = <<>> /\ status = "up" /\ ~SetsDeadline /\ Armed = alarm
      /\ rejected \/ expiresAt = alarm
  BY DEF Awake, ExpiryInv, DeadlineIsKnown, SetsDeadline, Armed
<1>2. /\ now \in Nat /\ alarm \in Nat /\ expiresAt \in Nat /\ rejected \in BOOLEAN
      /\ Covered(stored, alarm) /\ stored # {} => alarm # NoAlarm
  BY DEF ExpiryInv, Counters, StoredIsCovered
<1>20. Covered(stored, alarm)
  BY DEF ExpiryInv, StoredIsCovered
<1>3. status' = status /\ rejected' = rejected /\ stored' = stored /\ alarm' = alarm /\ now' = now
  BY DEF storeVars
<1>4. expiresAt' \in Nat
  BY <1>2, Numbers DEF Deadline
<1>5. Covered(stored, alarm)'
  BY <1>20, <1>3 DEF Covered
<1>6. CASE rejected
  <2>1. persist' = <<>> /\ ~SetsDeadline' /\ Armed' = alarm
    BY <1>1, <1>3, <1>6 DEF Chained, SetsDeadline, Armed
  <2>2. IsChain(persist') /\ Range(persist') = {}
    BY <2>1, ShortChains
  <2>3. Counters'
    BY <1>2, <1>3, <1>4, <2>2 DEF Counters
  <2>4. DeadlineComesFirst' /\ PutsAreCovered' /\ DeadlineIsKnown'
    BY <1>3, <1>6, <2>1, <2>2 DEF DeadlineComesFirst, PutsAreCovered, DeadlineIsKnown
  <2>5. StoredIsCovered'
    BY <1>2, <1>3, <1>5, <2>1 DEF StoredIsCovered, Covered
  <2> QED
    BY <2>3, <2>4, <2>5 DEF ExpiryInv
<1>7. CASE ~rejected /\ DeadlineIsFresh
  <2>1. persist' = mutation
    BY <1>1, <1>7, ChainWithHead, ChainsJoined, ConcatEmptySeq
       DEF Chained, DeadlineFirst, ExpiryOps, IsChain
  <2>2. expiresAt' = alarm /\ expiresAt = alarm /\ alarm # NoAlarm /\ now + Ttl < alarm + Slack
    BY <1>1, <1>7 DEF Deadline, DeadlineIsFresh
  <2>3. ~SetsDeadline' /\ Armed' = alarm
    BY <1>3, <2>1, ChainSplit DEF SetsDeadline, Armed
  <2>4. Counters'
    BY <1>2, <1>3, <1>4, <2>1 DEF Counters
  <2>5. DeadlineComesFirst'
    BY <2>1, <2>3, ChainSplit DEF DeadlineComesFirst
  <2>6. PutsAreCovered'
    <3> SUFFICES ASSUME NEW write \in Range(mutation), write.op = "put",
                        NEW entry \in write.entries
                 PROVE  entry.at \in Nat /\ entry.at <= now /\ entry.at + Ttl <= alarm + Slack
      BY <1>3, <2>1, <2>2, <2>3 DEF PutsAreCovered, Covered
    <3>1. entry.at = now
      OBVIOUS
    <3> QED
      BY <1>2, <2>2, <3>1, Numbers
  <2>7. StoredIsCovered'
    BY <1>2, <1>3, <1>5, <2>3 DEF StoredIsCovered, Covered
  <2>8. DeadlineIsKnown'
    BY <2>2, <2>3 DEF DeadlineIsKnown
  <2> QED
    BY <2>4, <2>5, <2>6, <2>7, <2>8 DEF ExpiryInv
<1>8. CASE ~rejected /\ ~DeadlineIsFresh
  <2> DEFINE set == [op |-> "setAlarm", deadline |-> now + Ttl]
  <2>1. DeadlineFirst(mutation) = <<set>> \o mutation
    BY <1>8 DEF DeadlineFirst, ExpiryOps
  <2>2. set.op = "setAlarm" /\ set.deadline = now + Ttl
    OBVIOUS
  <2> HIDE DEF set
  <2>3. /\ persist' = <<set>> \o mutation
        /\ IsChain(persist') /\ Range(persist') = {set} \cup Range(mutation)
        /\ persist' # <<>> /\ Head(persist') = set /\ Tail(persist') = mutation
    <3>1. /\ IsChain(<<set>> \o mutation) /\ Range(<<set>> \o mutation) = {set} \cup Range(mutation)
          /\ <<set>> \o mutation # <<>>
          /\ Head(<<set>> \o mutation) = set /\ Tail(<<set>> \o mutation) = mutation
      BY ShortChains, ChainsJoined, ChainWithHead
    <3>2. <<>> \o (<<set>> \o mutation) = <<set>> \o mutation
      BY <3>1, ChainWithHead
    <3>3. persist' = <<set>> \o mutation
      BY <1>1, <1>8, <2>1, <3>2 DEF Chained
    <3> QED
      BY <3>1, <3>3
  <2>4. expiresAt' = now + Ttl /\ now + Ttl \in Nat \ {NoAlarm}
    BY <1>2, <1>8, Numbers DEF Deadline
  <2>5. SetsDeadline' /\ Armed' = now + Ttl
    BY <2>2, <2>3 DEF SetsDeadline, Armed
  <2>6. Counters'
    BY <1>2, <1>3, <1>4, <2>3 DEF Counters
  <2>7. DeadlineComesFirst'
    BY <2>2, <2>3, <2>4 DEF DeadlineComesFirst
  <2>8. PutsAreCovered'
    <3> SUFFICES ASSUME NEW write \in Range(mutation), write.op = "put",
                        NEW entry \in write.entries
                 PROVE  entry.at \in Nat /\ entry.at <= now /\ entry.at + Ttl <= now + Ttl + Slack
      BY <1>3, <2>2, <2>3, <2>4, <2>5 DEF PutsAreCovered, Covered
    <3>1. entry.at = now
      OBVIOUS
    <3> QED
      BY <1>2, <3>1, Numbers
  <2>9. StoredIsCovered'
    <3>1. Covered(stored, now + Ttl)
      <4> SUFFICES ASSUME NEW entry \in stored
                   PROVE  entry.at \in Nat /\ entry.at <= now /\ entry.at + Ttl <= now + Ttl + Slack
        BY DEF Covered
      <4>1. entry.at \in Nat /\ entry.at <= now
        BY <1>20 DEF Covered
      <4> QED
        BY <1>2, <4>1, Numbers
    <3> QED
      BY <1>2, <1>3, <1>5, <2>5, <3>1 DEF StoredIsCovered, Covered
  <2>10. DeadlineIsKnown'
    BY <2>4, <2>5 DEF DeadlineIsKnown
  <2> QED
    BY <2>6, <2>7, <2>8, <2>9, <2>10 DEF ExpiryInv
<1> QED
  BY <1>6, <1>7, <1>8

\* A step that writes nothing and only lets time pass or the object wake up.
LEMMA QuietKeepsExpiry ==
    ASSUME ExpiryInv, now' \in Nat, now <= now', status = "down" => status' = "down",
           UNCHANGED <<stored, alarm, persist, expiresAt, rejected>>
    PROVE  ExpiryInv'
<1>1. now \in Nat
  BY DEF ExpiryInv, Counters
<1>2. Armed' = Armed
  BY DEF Armed, SetsDeadline
<1>3. ASSUME NEW entries, NEW deadline, Covered(entries, deadline)
      PROVE  \A entry \in entries : /\ entry.at \in Nat /\ entry.at <= now'
                                    /\ entry.at + Ttl <= deadline + Slack
  BY <1>1, <1>3 DEF Covered
<1>4. Counters'
  BY DEF ExpiryInv, Counters
<1>5. DeadlineComesFirst'
  BY DEF ExpiryInv, DeadlineComesFirst, SetsDeadline
<1>6. StoredIsCovered'
  <2>1. Covered(stored, alarm) /\ Covered(stored, Armed) /\ (stored # {} => alarm # NoAlarm)
    BY DEF ExpiryInv, StoredIsCovered
  <2> QED
    BY <1>2, <1>3, <2>1 DEF StoredIsCovered, Covered
<1>7. PutsAreCovered'
  <2> SUFFICES ASSUME NEW write \in Range(persist), write.op = "put"
               PROVE  /\ Armed # NoAlarm
                      /\ \A entry \in write.entries :
                            /\ entry.at \in Nat /\ entry.at <= now'
                            /\ entry.at + Ttl <= Armed + Slack
    BY <1>2 DEF PutsAreCovered, Covered
  <2>1. Armed # NoAlarm /\ Covered(write.entries, Armed)
    BY DEF ExpiryInv, PutsAreCovered
  <2> QED
    BY <1>3, <2>1
<1>8. DeadlineIsKnown'
  BY <1>2 DEF ExpiryInv, DeadlineIsKnown
<1> QED
  BY <1>4, <1>5, <1>6, <1>7, <1>8 DEF ExpiryInv

\* A step after which nothing is left to write, the deadline is known, and the
\* alarm covers what is stored.
LEMMA DoneKeepsExpiry ==
    ASSUME ExpiryInv, persist' = <<>>, rejected' \in BOOLEAN,
           UNCHANGED now, alarm' \in Nat, expiresAt' \in Nat,
           \/ status' = "down" \/ rejected' \/ expiresAt' = alarm',
           stored' # {} => alarm' # NoAlarm, Covered(stored', alarm')
    PROVE  ExpiryInv'
<1>1. ~SetsDeadline' /\ Armed' = alarm'
  BY DEF SetsDeadline, Armed
<1>2. IsChain(persist') /\ Range(persist') = {}
  BY ShortChains
<1>3. Covered(stored, alarm)'
  BY DEF Covered
<1>4. Counters'
  <2>1. now \in Nat
    BY DEF ExpiryInv, Counters
  <2> QED
    BY <1>2, <2>1, Zenon DEF Counters
<1>5. DeadlineComesFirst' /\ PutsAreCovered' /\ DeadlineIsKnown'
  BY <1>1, <1>2 DEF DeadlineComesFirst, PutsAreCovered, DeadlineIsKnown
<1>6. StoredIsCovered'
  BY <1>1, <1>3 DEF StoredIsCovered, Covered
<1> QED
  BY <1>4, <1>5, <1>6 DEF ExpiryInv

\* The oldest write is done, or rejected.
LEMMA StoreKeepsExpiry ==
    ASSUME ExpiryInv, StoreNext
    PROVE  ExpiryInv'
<1> DEFINE write == Head(persist)
<1>1. /\ IsChain(persist) /\ persist # <<>> /\ now' = now /\ expiresAt' = expiresAt
      /\ status' = status /\ status # "down"
  BY DEF ExpiryInv, Counters, StoreNext
<1>2. /\ write \in Range(persist) /\ IsChain(Tail(persist))
      /\ Range(Tail(persist)) \subseteq Range(persist)
  BY <1>1, ChainSplit
<1>3. now \in Nat /\ alarm \in Nat /\ expiresAt \in Nat
  BY DEF ExpiryInv, Counters
<1>4. /\ Covered(stored, alarm) /\ Covered(stored, Armed)
      /\ stored # {} => alarm # NoAlarm
  BY DEF ExpiryInv, StoredIsCovered
<1>5. CASE Rejects(write)
  <2>1. persist' = <<>> /\ rejected' = TRUE /\ stored' = stored /\ alarm' = alarm
    BY <1>5 DEF StoreNext, storeVars
  <2>2. rejected' \in BOOLEAN /\ alarm' \in Nat /\ expiresAt' \in Nat /\ rejected'
    BY <1>1, <1>3, <2>1
  <2>3. Covered(stored', alarm') /\ (stored' # {} => alarm' # NoAlarm)
    BY <1>4, <2>1
  <2> QED
    BY <1>1, <2>1, <2>2, <2>3, DoneKeepsExpiry, Zenon
<1>6. CASE ~Rejects(write)
  <2>1. persist' = Tail(persist) /\ rejected' = rejected
    BY <1>6 DEF StoreNext
  <2>2. ~SetsDeadline'
    <3>1. CASE Tail(persist) = <<>>
      BY <2>1, <3>1 DEF SetsDeadline
    <3>2. CASE Tail(persist) # <<>>
      <4>1. Head(Tail(persist)) \in Range(Tail(persist))
        BY <1>2, <3>2, ChainSplit
      <4> QED
        BY <1>1, <2>1, <4>1 DEF ExpiryInv, DeadlineComesFirst, SetsDeadline
    <3> QED
      BY <3>1, <3>2
  <2>3. Armed' = alarm'
    BY <2>2 DEF Armed
  <2>4. alarm' = Armed /\ alarm' \in Nat
    <3>1. CASE write.op = "setAlarm"
      BY <1>1, <1>6, <3>1 DEF StoreNext, SetsDeadline, Armed, ExpiryInv, DeadlineComesFirst
    <3>2. CASE write.op # "setAlarm"
      BY <1>3, <1>6, <3>2 DEF StoreNext, SetsDeadline, Armed
    <3> QED
      BY <3>1, <3>2
  <2>5. \/ stored' \subseteq stored
        \/ write.op = "put" /\ stored' \subseteq stored \cup write.entries
    BY <1>6 DEF StoreNext
  <2>6. Covered(stored', Armed) /\ (stored' # {} => Armed # NoAlarm)
    <3>1. CASE stored' \subseteq stored
      <4>1. Covered(stored', Armed)
        BY <1>4, <3>1 DEF Covered
      <4>2. stored' # {} => Armed # NoAlarm
        BY <1>4, <3>1 DEF Armed, ExpiryInv, DeadlineComesFirst
      <4> QED
        BY <4>1, <4>2
    <3>2. CASE write.op = "put" /\ stored' \subseteq stored \cup write.entries
      <4>1. Armed # NoAlarm /\ Covered(write.entries, Armed)
        BY <1>2, <3>2 DEF ExpiryInv, PutsAreCovered
      <4>2. Covered(stored', Armed)
        BY <1>4, <3>2, <4>1 DEF Covered
      <4> QED
        BY <4>1, <4>2
    <3> QED
      BY <2>5, <3>1, <3>2
  <2>7. StoredIsCovered'
    <3>1. Covered(stored, alarm)' /\ Covered(stored, Armed)'
      BY <1>1, <2>3, <2>4, <2>6 DEF Covered
    <3> QED
      BY <2>4, <2>6, <3>1 DEF StoredIsCovered
  <2>8. Counters'
    <3>1. IsChain(persist')
      BY <1>2, <2>1
    <3> QED
      BY <1>1, <2>1, <2>4, <3>1 DEF ExpiryInv, Counters
  <2>9. DeadlineComesFirst'
    <3> SUFFICES ASSUME Tail(persist) # <<>>, NEW later \in Range(Tail(Tail(persist)))
                 PROVE  later.op # "setAlarm"
      BY <2>1, <2>2 DEF DeadlineComesFirst
    <3>1. later \in Range(Tail(persist))
      BY <1>2, ChainSplit
    <3> QED
      BY <1>1, <3>1 DEF ExpiryInv, DeadlineComesFirst
  <2>10. PutsAreCovered'
    <3> SUFFICES ASSUME NEW later \in Range(Tail(persist)), later.op = "put"
                 PROVE  Armed # NoAlarm /\ Covered(later.entries, Armed)
      BY <1>1, <2>1, <2>3, <2>4 DEF PutsAreCovered, Covered
    <3> QED
      BY <1>2 DEF ExpiryInv, PutsAreCovered
  <2>11. DeadlineIsKnown'
    BY <1>1, <2>1, <2>3, <2>4 DEF ExpiryInv, DeadlineIsKnown
  <2> QED
    BY <2>7, <2>8, <2>9, <2>10, <2>11 DEF ExpiryInv
<1> QED
  BY <1>5, <1>6

\* What is kept of a log was in it.
LEMMA TrimmedIsSubset ==
    ASSUME NEW entries
    PROVE  Trimmed(entries) \subseteq entries
  BY DEF Trimmed, From

\* A restart repairs what it finds under the alarm that it finds.
LEMMA BootKeepsExpiry ==
    ASSUME ExpiryInv, Boot
    PROVE  ExpiryInv'
<1> DEFINE decoded == {entry \in stored : entry.form # "invalid"}
           log == Trimmed({[entry EXCEPT !.form = "canonical"] : entry \in decoded})
           keys == IF stray THEN <<[op |-> "deleteStray"]>> ELSE <<>>
           repair == Mutation(log \ stored, Seqs(stored) \ Seqs(log))
<1>1. /\ persist' = keys \o repair /\ expiresAt' = alarm /\ rejected' = FALSE
      /\ stored' = stored /\ alarm' = alarm /\ now' = now /\ status' = "booting"
  BY DEF Boot, storeVars
<1>2. \A entry \in log : \E one \in stored : entry.at = one.at
  <2> SUFFICES ASSUME NEW entry \in log
               PROVE  \E one \in stored : entry.at = one.at
    OBVIOUS
  <2>1. entry \in {[one EXCEPT !.form = "canonical"] : one \in decoded}
    BY TrimmedIsSubset
  <2>2. PICK one \in stored : entry = [one EXCEPT !.form = "canonical"]
    BY <2>1
  <2>3. entry.at = one.at
    BY <2>2
  <2> QED
    BY <2>3
<1>3. /\ IsChain(repair)
      /\ \A write \in Range(repair) :
           \/ write = [op |-> "put", entries |-> log \ stored] /\ log \ stored # {}
           \/ write = [op |-> "delete", seqs |-> Seqs(stored) \ Seqs(log)]
  BY MutationIsChain
<1>4. IsChain(keys) /\ \A write \in Range(keys) : write = [op |-> "deleteStray"]
  BY ShortChains
<1> HIDE DEF keys, repair, log
<1>5. /\ IsChain(persist')
      /\ \A write \in Range(persist') :
           /\ write.op # "setAlarm"
           /\ write.op = "put" => write.entries = log \ stored /\ log \ stored # {}
  <2>1. IsChain(keys \o repair) /\ Range(keys \o repair) = Range(keys) \cup Range(repair)
    BY <1>3, <1>4, ChainsJoined
  <2> QED
    BY <1>1, <1>3, <1>4, <2>1
<1>6. ~SetsDeadline' /\ Armed' = alarm
  BY <1>1, <1>5, ChainSplit DEF SetsDeadline, Armed
<1>7. Covered(stored, alarm) /\ (stored # {} => alarm # NoAlarm)
  BY DEF ExpiryInv, StoredIsCovered
<1>8. Covered(log \ stored, alarm) /\ (log \ stored # {} => alarm # NoAlarm)
  <2>1. \A entry \in log \ stored : \E one \in stored : entry.at = one.at
    BY <1>2
  <2> QED
    BY <1>7, <2>1, CoveredToo
<1>9. Counters'
  <2>1. now \in Nat /\ alarm \in Nat
    BY DEF ExpiryInv, Counters
  <2> QED
    BY <1>1, <1>5, <2>1 DEF Counters
<1>10. DeadlineComesFirst'
  BY <1>5, <1>6, ChainSplit DEF DeadlineComesFirst
<1>11. StoredIsCovered' /\ PutsAreCovered' /\ DeadlineIsKnown'
  <2>1. StoredIsCovered'
    BY <1>1, <1>6, <1>7 DEF StoredIsCovered, Covered
  <2>2. PutsAreCovered'
    BY <1>1, <1>5, <1>6, <1>8 DEF PutsAreCovered, Covered
  <2>3. DeadlineIsKnown'
    BY <1>1, <1>6 DEF DeadlineIsKnown
  <2> QED
    BY <2>1, <2>2, <2>3
<1> QED
  BY <1>9, <1>10, <1>11 DEF ExpiryInv

\* The alarm of a room in use is set anew; an idle room is wiped with its alarm.
LEMMA AlarmKeepsExpiry ==
    ASSUME ExpiryInv, Alarm
    PROVE  ExpiryInv'
<1>1. /\ persist' = <<>> /\ now' = now /\ rejected' = rejected
      /\ now \in Nat /\ now + Ttl \in Nat \ {NoAlarm}
  BY Numbers DEF ExpiryInv, Counters, Alarm, Awake
<1>2. rejected' \in BOOLEAN
  BY <1>1 DEF ExpiryInv, Counters
<1>3. CASE sockets # {}
  <2>1. expiresAt' = now + Ttl /\ alarm' = now + Ttl /\ stored' = stored
    BY <1>3 DEF Alarm
  <2>2. Covered(stored', alarm')
    <3> SUFFICES ASSUME NEW entry \in stored
                 PROVE  entry.at \in Nat /\ entry.at <= now /\ entry.at + Ttl <= now + Ttl + Slack
      BY <2>1 DEF Covered
    <3>1. entry.at \in Nat /\ entry.at <= now
      BY DEF ExpiryInv, StoredIsCovered, Covered
    <3> QED
      BY <1>1, <3>1, Numbers
  <2> QED
    BY <1>1, <1>2, <2>1, <2>2, DoneKeepsExpiry
<1>4. CASE sockets = {}
  <2>1. expiresAt' = NoAlarm /\ alarm' = NoAlarm /\ stored' = {}
    BY <1>4 DEF Alarm, StorageWiped
  <2>2. NoAlarm \in Nat /\ Covered(stored', alarm')
    BY <2>1, Numbers DEF Covered
  <2> QED
    BY <1>1, <1>2, <2>1, <2>2, DoneKeepsExpiry
<1> QED
  BY <1>3, <1>4

\* A dropped object forgets what it had to write, not what is stored.
LEMMA DropKeepsExpiry ==
    ASSUME ExpiryInv, Drop
    PROVE  ExpiryInv'
<1>1. /\ persist' = <<>> /\ now' = now /\ rejected' = FALSE /\ status' = "down"
      /\ stored' = stored /\ alarm' = alarm /\ expiresAt' = NoAlarm
  BY DEF Drop, storeVars
<1>2. /\ rejected' \in BOOLEAN /\ alarm' \in Nat /\ expiresAt' \in Nat
      /\ Covered(stored', alarm') /\ (stored' # {} => alarm' # NoAlarm)
  BY <1>1, Numbers DEF ExpiryInv, Counters, StoredIsCovered
<1> QED
  BY <1>1, <1>2, DoneKeepsExpiry

\* Whatever happens to the room keeps its updates under a deadline.
LEMMA ExpiryStep ==
    ASSUME ExpiryInv, [Next]_vars
    PROVE  ExpiryInv'
<1> USE DEF memVars, storeVars, peerVars
<1>0. now \in Nat /\ IsChain(<<>>) /\ Range(<<>>) = {}
  BY ShortChains DEF ExpiryInv, Counters
<1>1. CASE Boot
  BY <1>1, BootKeepsExpiry
<1>2. CASE Booted
  BY <1>0, <1>2, QuietKeepsExpiry DEF Booted
<1>3. CASE Drop
  BY <1>3, DropKeepsExpiry
<1>4. CASE StoreNext
  BY <1>4, StoreKeepsExpiry
<1>5. CASE Alarm
  BY <1>5, AlarmKeepsExpiry
<1>6. CASE Tick
  <2>1. now' \in Nat /\ now <= now'
    BY <1>0, <1>6 DEF Tick
  <2> QED
    BY <1>6, <2>1, QuietKeepsExpiry DEF Tick
<1>7. DeadlineFirst(<<>>) = ExpiryOps
  <2>1. IsChain(ExpiryOps)
    BY ShortChains DEF ExpiryOps
  <2> QED
    BY <2>1, ConcatEmptySeq DEF DeadlineFirst, IsChain
<1>8. ASSUME NEW s \in Sockets, Join(s) \/ TransientFrame(s)
      PROVE  ExpiryInv'
  <2>1. /\ Awake /\ persist' = Chained(DeadlineFirst(<<>>)) /\ expiresAt' = Deadline
        /\ UNCHANGED <<status, rejected, storeVars, now>>
    BY <1>7, <1>8 DEF Join, TransientFrame
  <2> QED
    BY <1>0, <2>1, EventKeepsExpiry
<1>9. ASSUME NEW s \in Sockets, Leave(s)
      PROVE  ExpiryInv'
  BY <1>0, <1>9, QuietKeepsExpiry DEF Leave, Awake
<1>10. ASSUME NEW s \in Sockets, NEW size \in Sizes, DocumentFrame(s, size)
       PROVE  ExpiryInv'
  <2> DEFINE entry == [seq |-> nextSeq, n |-> accepted + 1, size |-> size,
                       at |-> now, form |-> "canonical"]
             log == updates \cup {entry}
             mutation == Mutation({entry}, Seqs(log \ Trimmed(log)))
  <2>1. /\ Awake /\ persist' = Chained(DeadlineFirst(mutation)) /\ expiresAt' = Deadline
        /\ UNCHANGED <<status, rejected, storeVars, now>>
    BY <1>10 DEF DocumentFrame
  <2>2. /\ IsChain(mutation)
        /\ \A write \in Range(mutation) :
             /\ write.op # "setAlarm"
             /\ write.op = "put" => \A one \in write.entries : one.at = now
    BY MutationIsChain
  <2> HIDE DEF mutation
  <2> QED
    BY <2>1, <2>2, EventKeepsExpiry
<1>11. CASE UNCHANGED vars
  BY <1>0, <1>11, QuietKeepsExpiry DEF vars
<1> QED
  BY <1>1, <1>2, <1>3, <1>4, <1>5, <1>6, <1>8, <1>9, <1>10, <1>11 DEF Next

-----------------------------------------------------------------------------
\* A room whose storage holds updates has an alarm, so that none is kept for
\* ever, wherever the object is dropped between its writes and also when the
\* storage rejects one (refreshExpiry in webSocketMessage, before persistUpdates).
THEOREM RoomsExpire == Spec => []StoredRoomsExpire
<1>1. Init => ExpiryInv
  BY ExpiryInit
<1>2. ExpiryInv /\ [Next]_vars => ExpiryInv'
  BY ExpiryStep
<1>3. ExpiryInv => StoredRoomsExpire
  BY DEF ExpiryInv, StoredIsCovered, StoredRoomsExpire
<1> QED
  BY <1>1, <1>2, <1>3, PTL DEF Spec

\* A room is only wiped when nobody is in it and none of its updates came less
\* than a term, less the slack, ago (alarm, and refreshExpiry's slack).
THEOREM WipedRoomsWereIdle == Spec => OnlyIdleRoomsAreWiped
<1> DEFINE Wiped == stored # {} /\ stored' = {} /\ alarm' = NoAlarm
           Idle == /\ sockets = {}
                   /\ \A entry \in stored : now + Slack >= entry.at + Ttl
<1>1. Init => ExpiryInv
  BY ExpiryInit
<1>2. ExpiryInv /\ [Next]_vars => ExpiryInv'
  BY ExpiryStep
<1>3. ExpiryInv /\ [Next]_vars => [Wiped => Idle]_vars
  <2> SUFFICES ASSUME ExpiryInv, Next, Wiped
               PROVE  Idle
    OBVIOUS
  <2>1. stored # {} /\ stored' = {} /\ alarm # NoAlarm /\ alarm' = NoAlarm
    BY DEF ExpiryInv, StoredIsCovered
  <2>2. ~StoreNext
    <3> SUFFICES ASSUME StoreNext PROVE FALSE
      OBVIOUS
    <3>1. Head(persist).op = "setAlarm" /\ persist # <<>> /\ alarm' = Head(persist).deadline
      BY <2>1 DEF StoreNext, storeVars
    <3> QED
      BY <2>1, <3>1 DEF ExpiryInv, DeadlineComesFirst, SetsDeadline
  <2>3. Alarm
    BY <2>1, <2>2 DEF Next, Boot, Booted, Drop, Tick, Join, TransientFrame, Leave,
                      DocumentFrame, storeVars
  <2>4. sockets = {} /\ alarm <= now
    BY <2>1, <2>3, Numbers DEF Alarm, ExpiryInv, Counters
  <2>5. ASSUME NEW entry \in stored
        PROVE  now + Slack >= entry.at + Ttl
    <3>1. entry.at \in Nat /\ entry.at + Ttl <= alarm + Slack
      BY DEF ExpiryInv, StoredIsCovered, Covered
    <3>2. now \in Nat /\ alarm \in Nat
      BY DEF ExpiryInv, Counters
    <3> QED
      BY <2>4, <3>1, <3>2, Numbers
  <2> QED
    BY <2>4, <2>5
<1> QED
  BY <1>1, <1>2, <1>3, PTL DEF Spec, OnlyIdleRoomsAreWiped

-----------------------------------------------------------------------------
(* The log.                                                                *)

\* The storage accepts what the room retains: a frame is at most as large as a
\* value may be.
NothingRefused == 1 <= StorageLimit /\ \A size \in Sizes : size <= StorageLimit

Unique(entries) == \A one, other \in entries : one.seq = other.seq => one = other
Small(entries) == \A entry \in entries : entry.size \in Nat /\ entry.size <= StorageLimit
Below(entries, bound) == \A entry \in entries : entry.seq \in Nat /\ entry.seq < bound

\* What is stored after some puts and then some deletes.
Written(puts, deletes) ==
  {entry \in {one \in stored : one.seq \notin Seqs(puts)} \cup puts : entry.seq \notin deletes}

\* Writes of the chain that are not about updates.
Aside(writes) ==
  writes = <<>> \/ \E write : writes = <<write>> /\ write.op \in {"setAlarm", "deleteStray"}

\* What the chain still has to write brings the storage in line with the log.
Pending(writes, puts, deletes) ==
  /\ persist = writes \o Mutation(puts, deletes)
  /\ Aside(writes)
  /\ Unique(puts) /\ Small(puts) /\ Below(puts, nextSeq)
  /\ Written(puts, deletes) = updates

StoredIsSound == /\ Unique(stored) /\ Small(stored)
                 /\ \E bound \in Nat : Below(stored, bound)

LogIsSound == /\ rejected = FALSE /\ nextSeq \in Nat /\ Below(updates, nextSeq)
              /\ status # "down" => \E writes, puts, deletes : Pending(writes, puts, deletes)
              /\ status = "down" => updates = {}

\* While the object sleeps, its sockets have what it will find when it wakes up.
SleepersHaveTheLog ==
  status = "down" => \A s \in sockets : \A entry \in stored :
                       entry.form # "invalid" => entry.n \in seen[s]

PeersAreSound == /\ sockets \subseteq Sockets /\ DOMAIN seen = Sockets
                 /\ PeersHaveTheLog /\ SleepersHaveTheLog

LogInv == StoredIsSound /\ LogIsSound /\ PeersAreSound

\* Numbers that have a bound have a greatest among them.
LEMMA GreatestNumber ==
    ASSUME NEW T, T \subseteq Nat, T # {}, NEW bound \in Nat, \A t \in T : t < bound
    PROVE  Max(T) \in T /\ \A t \in T : Max(T) >= t
<1> DEFINE R == {p \in Nat \X Nat : p[1] < p[2]}
           U == {u \in Nat : \A t \in T : t <= u}
<1>1. IsWellFoundedOn(R, Nat)
  <2>1. OpToRel(<, Nat) = R
    BY DEF OpToRel
  <2> QED
    BY <2>1, NatLessThanWellFounded
<1>2. U \subseteq Nat /\ bound \in U
  OBVIOUS
<1>3. PICK u \in U : \A y \in U : ~(<<y, u>> \in R)
  BY <1>1, <1>2, WFMin
<1>4. u \in Nat /\ \A t \in T : t \in Nat /\ t <= u
  BY <1>3
<1>5. u \in T
  <2> SUFFICES ASSUME u \notin T PROVE FALSE
    OBVIOUS
  <2>1. \A t \in T : t # u
    OBVIOUS
  <2>2. u # 0
    <3>1. PICK t \in T : t \in Nat /\ t <= u /\ t # u
      BY <1>4, <2>1
    <3> QED
      BY <1>4, <3>1
  <2>3. u - 1 \in Nat /\ \A t \in T : t <= u - 1
    BY <1>4, <2>1, <2>2
  <2>4. u - 1 \in U /\ <<u - 1, u>> \in R
    BY <1>4, <2>3
  <2> QED
    BY <1>3, <2>4
<1> QED
  BY <1>4, <1>5 DEF Max

\* What comes next is numbered above everything that was found.
LEMMA NextIsAbove ==
    ASSUME NEW entries, NEW bound \in Nat, Below(entries, bound)
    PROVE  AfterHighest(entries) \in Nat /\ Below(entries, AfterHighest(entries))
<1>1. CASE entries = {}
  BY <1>1 DEF AfterHighest, Below
<1>2. CASE entries # {}
  <2>1. Seqs(entries) \subseteq Nat /\ Seqs(entries) # {} /\ \A t \in Seqs(entries) : t < bound
    BY <1>2 DEF Below, Seqs
  <2>2. Max(Seqs(entries)) \in Nat /\ \A t \in Seqs(entries) : Max(Seqs(entries)) >= t
    BY <2>1, GreatestNumber
  <2>3. AfterHighest(entries) = Max(Seqs(entries)) + 1
    BY <1>2 DEF AfterHighest
  <2>4. \A entry \in entries : entry.seq \in Seqs(entries) /\ entry.seq \in Nat
    BY DEF Seqs, Below
  <2>5. \A entry \in entries : entry.seq < AfterHighest(entries)
    BY <2>2, <2>3, <2>4
  <2> QED
    BY <2>2, <2>3, <2>4, <2>5 DEF Below
<1> QED
  BY <1>1, <1>2

\* A mutation from its first write on.
LEMMA MutationUnfolds ==
    ASSUME NEW puts, NEW deletes
    PROVE  /\ Mutation({}, {}) = <<>>
           /\ deletes # {} =>
                Mutation({}, deletes) = <<[op |-> "delete", seqs |-> deletes]>>
           /\ puts # {} =>
                Mutation(puts, deletes) = <<[op |-> "put", entries |-> puts]>> \o Mutation({}, deletes)
<1> DEFINE d == IF deletes = {} THEN <<>> ELSE <<[op |-> "delete", seqs |-> deletes]>>
<1>1. IsChain(d) /\ IsChain(<<>>)
  BY ShortChains
<1> HIDE DEF d
<1>2. <<>> \o d = d /\ <<>> \o <<>> = <<>>
  BY <1>1, ChainWithHead
<1>3. Mutation({}, deletes) = d
  BY <1>2 DEF Mutation, d
<1>4. Mutation({}, {}) = <<>>
  BY <1>2 DEF Mutation
<1>5. puts # {} =>
        Mutation(puts, deletes) = <<[op |-> "put", entries |-> puts]>> \o Mutation({}, deletes)
  BY <1>3 DEF Mutation, d
<1> QED
  BY <1>3, <1>4, <1>5 DEF d

\* Once the chain is done, what is stored is the log.
LEMMA NothingPending ==
    ASSUME LogInv, status # "down", persist = <<>>
    PROVE  stored = updates
<1>1. PICK writes, puts, deletes : Pending(writes, puts, deletes)
  BY DEF LogInv, LogIsSound
<1>2. IsChain(writes) /\ IsChain(Mutation(puts, deletes)) /\ IsChain(Mutation({}, deletes))
  BY <1>1, ShortChains, MutationIsChain DEF Pending, Aside
<1>3. writes = <<>> /\ Mutation(puts, deletes) = <<>>
  <2>1. CASE writes = <<>>
    BY <1>1, <1>2, <2>1, ChainWithHead DEF Pending
  <2>2. CASE \E write : writes = <<write>>
    BY <1>1, <1>2, <2>2, ChainWithHead DEF Pending
  <2> QED
    BY <1>1, <2>1, <2>2 DEF Pending, Aside
<1>4. puts = {}
  <2>1. ASSUME puts # {} PROVE FALSE
    <3> DEFINE put == [op |-> "put", entries |-> puts]
    <3>1. Mutation(puts, deletes) = <<put>> \o Mutation({}, deletes)
      BY <2>1, MutationUnfolds
    <3> HIDE DEF put
    <3> QED
      BY <1>2, <1>3, <3>1, ChainWithHead
  <2> QED
    BY <2>1
<1>5. deletes = {}
  <2>1. ASSUME deletes # {} PROVE FALSE
    <3>1. <<[op |-> "delete", seqs |-> deletes]>> = <<>>
      BY <1>3, <1>4, <2>1, MutationUnfolds
    <3> QED
      BY <3>1
  <2> QED
    BY <2>1
<1>6. Written({}, {}) = stored
  BY DEF Written, Seqs
<1> QED
  BY <1>1, <1>4, <1>5, <1>6 DEF Pending

\* The oldest write of a chain that brings the storage in line, and the rest.
LEMMA PendingSplit ==
    ASSUME NEW writes, NEW puts, NEW deletes, Pending(writes, puts, deletes), persist # <<>>
    PROVE  \/ /\ Head(persist).op \in {"setAlarm", "deleteStray"}
              /\ Tail(persist) = Mutation(puts, deletes)
           \/ /\ Head(persist) = [op |-> "put", entries |-> puts] /\ puts # {}
              /\ Tail(persist) = Mutation({}, deletes)
              /\ Written(puts, deletes) = updates
           \/ /\ Head(persist) = [op |-> "delete", seqs |-> deletes] /\ puts = {}
              /\ Tail(persist) = Mutation({}, {})
<1>1. /\ persist = writes \o Mutation(puts, deletes) /\ Aside(writes)
      /\ Written(puts, deletes) = updates
  BY DEF Pending
<1>2. IsChain(Mutation(puts, deletes)) /\ IsChain(Mutation({}, deletes)) /\ IsChain(<<>>)
  BY MutationIsChain, ShortChains
<1>3. ASSUME NEW write, writes = <<write>>, write.op \in {"setAlarm", "deleteStray"}
      PROVE  /\ Head(persist).op \in {"setAlarm", "deleteStray"}
             /\ Tail(persist) = Mutation(puts, deletes)
  BY <1>1, <1>2, <1>3, ChainWithHead
<1>4. CASE writes = <<>>
  <2>1. persist = Mutation(puts, deletes)
    BY <1>1, <1>2, <1>4, ChainWithHead
  <2>2. CASE puts # {}
    <3>1. PICK put : /\ put = [op |-> "put", entries |-> puts]
                     /\ Mutation(puts, deletes) = <<put>> \o Mutation({}, deletes)
      BY <2>2, MutationUnfolds
    <3>2. Head(persist) = put /\ Tail(persist) = Mutation({}, deletes)
      BY <1>2, <2>1, <3>1, ChainWithHead
    <3> QED
      BY <1>1, <2>2, <3>1, <3>2
  <2>3. CASE puts = {}
    <3>1. deletes # {}
      BY <2>1, <2>3, MutationUnfolds
    <3>2. persist = <<[op |-> "delete", seqs |-> deletes]>> /\ Mutation({}, {}) = <<>>
      BY <2>1, <2>3, <3>1, MutationUnfolds
    <3> QED
      BY <2>3, <3>2
  <2> QED
    BY <2>2, <2>3
<1> QED
  BY <1>1, <1>3, <1>4 DEF Aside

\* A room starts empty or with what an older version stored.
LEMMA LogInit == ASSUME NothingRefused PROVE Init => LogInv
<1> SUFFICES ASSUME Init PROVE LogInv
  OBVIOUS
<1>1. /\ status = "down" /\ updates = {} /\ nextSeq = 0 /\ rejected = FALSE
      /\ sockets = {} /\ DOMAIN seen = Sockets
      /\ stored = {} \/ stored = OldStorage
  BY DEF Init
<1>2. StoredIsSound
  <2>1. CASE stored = {}
    BY <2>1 DEF StoredIsSound, Unique, Small, Below
  <2>2. CASE stored = OldStorage
    <3>1. Unique(stored)
      BY <2>2 DEF OldStorage, Unique
    <3>2. Small(stored)
      BY <2>2 DEF OldStorage, Small, NothingRefused
    <3>3. Below(stored, 2)
      BY <2>2 DEF OldStorage, Below
    <3> QED
      BY <3>1, <3>2, <3>3 DEF StoredIsSound
  <2> QED
    BY <1>1, <2>1, <2>2
<1>3. LogIsSound
  BY <1>1 DEF LogIsSound, Below
<1>4. PeersAreSound
  BY <1>1 DEF PeersAreSound, PeersHaveTheLog, SleepersHaveTheLog
<1> QED
  BY <1>2, <1>3, <1>4 DEF LogInv

\* What the storage holds after a put, and after a delete.
LEMMA StorePreserves ==
    ASSUME StoredIsSound, NEW puts, Unique(puts), Small(puts), nextSeq \in Nat,
           Below(puts, nextSeq), NEW deletes
    PROVE  /\ Unique(Written(puts, deletes)) /\ Small(Written(puts, deletes))
           /\ \E bound \in Nat : Below(Written(puts, deletes), bound)
<1>1. PICK bound \in Nat : Below(stored, bound)
  BY DEF StoredIsSound
<1>2. Below(Written(puts, deletes), bound + nextSeq) /\ bound + nextSeq \in Nat
  BY <1>1 DEF Below, Written
<1>3. Unique(Written(puts, deletes))
  BY DEF Written, Unique, StoredIsSound, Seqs
<1>4. Small(Written(puts, deletes))
  BY DEF Written, Small, StoredIsSound
<1> QED
  BY <1>2, <1>3, <1>4

\* The oldest write is done; it is never rejected.
LEMMA StoreKeepsLog ==
    ASSUME LogInv, StoreNext
    PROVE  LogInv'
<1>1. PICK writes, puts, deletes : Pending(writes, puts, deletes)
  BY DEF LogInv, LogIsSound, StoreNext
<1>2. /\ persist # <<>> /\ status # "down"
      /\ UNCHANGED <<status, updates, nextSeq, sockets, seen>>
  BY DEF StoreNext, peerVars
<1>3. /\ rejected = FALSE /\ nextSeq \in Nat /\ Below(updates, nextSeq) /\ StoredIsSound
      /\ Unique(puts) /\ Small(puts) /\ Below(puts, nextSeq) /\ Written(puts, deletes) = updates
  BY <1>1 DEF LogInv, LogIsSound, Pending
<1>4. PeersAreSound'
  BY <1>2 DEF LogInv, PeersAreSound, PeersHaveTheLog, SleepersHaveTheLog
<1>5. Unique({}) /\ Small({}) /\ Below({}, nextSeq) /\ Aside(<<>>)
  BY DEF Unique, Small, Below, Aside
<1>6. \A p, d : <<>> \o Mutation(p, d) = Mutation(p, d)
  BY MutationIsChain, ChainWithHead
<1>7. \E p, d : /\ rejected' = FALSE /\ persist' = Mutation(p, d)
                /\ Unique(p) /\ Small(p) /\ Below(p, nextSeq)
                /\ Written(p, d)' = updates /\ StoredIsSound'
  <2>1. CASE /\ Head(persist).op \in {"setAlarm", "deleteStray"}
             /\ Tail(persist) = Mutation(puts, deletes)
    <3>1. ~Rejects(Head(persist))
      BY <2>1 DEF Rejects
    <3>2. rejected' = FALSE /\ persist' = Mutation(puts, deletes) /\ stored' = stored
      BY <1>3, <2>1, <3>1 DEF StoreNext
    <3>3. StoredIsSound' /\ Written(puts, deletes)' = updates
      BY <1>3, <3>2 DEF StoredIsSound, Written
    <3> QED
      BY <1>3, <3>2, <3>3
  <2>2. CASE /\ Head(persist) = [op |-> "put", entries |-> puts] /\ puts # {}
             /\ Tail(persist) = Mutation({}, deletes)
             /\ Written(puts, deletes) = updates
    <3>1. ~Rejects(Head(persist))
      <4> SUFFICES ASSUME NEW entry \in puts, entry.size > StorageLimit PROVE FALSE
        BY <2>2 DEF Rejects
      <4>1. entry.size \in Nat /\ entry.size <= StorageLimit /\ StorageLimit \in Nat
        BY <1>3, RelayAssumption DEF Small
      <4> QED
        BY <4>1
    <3>2. rejected' = FALSE /\ persist' = Mutation({}, deletes) /\ stored' = Written(puts, {})
      BY <1>3, <2>2, <3>1 DEF StoreNext, Written
    <3>3. StoredIsSound'
      BY <1>3, <3>2, StorePreserves DEF StoredIsSound
    <3>4. Written({}, deletes)' = updates
      BY <2>2, <3>2 DEF Written, Seqs
    <3> QED
      BY <1>5, <3>2, <3>3, <3>4
  <2>3. CASE /\ Head(persist) = [op |-> "delete", seqs |-> deletes] /\ puts = {}
             /\ Tail(persist) = Mutation({}, {})
    <3>1. ~Rejects(Head(persist))
      BY <2>3 DEF Rejects
    <3>2. rejected' = FALSE /\ persist' = Mutation({}, {}) /\ stored' = Written({}, deletes)
      BY <1>3, <2>3, <3>1 DEF StoreNext, Written, Seqs
    <3>3. StoredIsSound'
      BY <1>3, <1>5, <3>2, StorePreserves DEF StoredIsSound
    <3>4. Written({}, {})' = updates
      BY <1>3, <2>3, <3>2 DEF Written, Seqs
    <3> QED
      BY <1>5, <3>2, <3>3, <3>4
  <2> QED
    BY <1>1, <1>2, <2>1, <2>2, <2>3, PendingSplit
<1>8. StoredIsSound' /\ LogIsSound'
  <2>1. PICK p, d : /\ rejected' = FALSE /\ persist' = Mutation(p, d)
                    /\ Unique(p) /\ Small(p) /\ Below(p, nextSeq)
                    /\ Written(p, d)' = updates /\ StoredIsSound'
    BY <1>7
  <2>2. Pending(<<>>, p, d)'
    BY <1>2, <1>5, <1>6, <2>1 DEF Pending
  <2> QED
    BY <1>2, <1>3, <2>1, <2>2 DEF LogIsSound
<1> QED
  BY <1>4, <1>8 DEF LogInv

\* A trimmed log keeps what is numbered above what it drops.
LEMMA TrimmedFromBelow ==
    ASSUME NEW entries
    PROVE  \A entry \in entries :
             entry \in Trimmed(entries) <=> entry.seq \notin Seqs(entries \ Trimmed(entries))
<1> DEFINE cut == Min({seq \in Seqs(entries) : Fits(From(entries, seq + 1))}) + 1
<1>1. Trimmed(entries) = IF Fits(entries) THEN entries ELSE From(entries, cut)
  BY DEF Trimmed
<1> HIDE DEF cut
<1> QED
  BY <1>1 DEF From, Seqs

\* A restart: the log that is read is what the storage will hold, once repaired.
LEMMA BootKeepsLog ==
    ASSUME LogInv, Boot
    PROVE  LogInv'
<1> DEFINE decoded == {entry \in stored : entry.form # "invalid"}
           canonical == {[entry EXCEPT !.form = "canonical"] : entry \in decoded}
           log == Trimmed(canonical)
           keys == IF stray THEN <<[op |-> "deleteStray"]>> ELSE <<>>
           puts == log \ stored
           deletes == Seqs(stored) \ Seqs(log)
<1>1. /\ persist' = keys \o Mutation(puts, deletes) /\ rejected' = FALSE
      /\ updates' = log /\ nextSeq' = AfterHighest(stored) /\ status' = "booting"
      /\ stored' = stored /\ sockets' = sockets /\ seen' = seen /\ status = "down"
  BY DEF Boot, storeVars, peerVars
<1>2. /\ Unique(stored) /\ Small(stored)
      /\ \E bound \in Nat : Below(stored, bound)
  BY DEF LogInv, StoredIsSound
<1>3. \A entry \in log : \E one \in stored :
        /\ one.form # "invalid" /\ entry = [one EXCEPT !.form = "canonical"]
        /\ entry.seq = one.seq /\ entry.size = one.size /\ entry.n = one.n
  <2> SUFFICES ASSUME NEW entry \in log
               PROVE  \E one \in stored :
                        /\ one.form # "invalid" /\ entry = [one EXCEPT !.form = "canonical"]
                        /\ entry.seq = one.seq /\ entry.size = one.size /\ entry.n = one.n
    OBVIOUS
  <2>1. entry \in canonical
    BY TrimmedIsSubset
  <2>2. PICK one \in decoded : entry = [one EXCEPT !.form = "canonical"]
    BY <2>1
  <2>3. entry.seq = one.seq /\ entry.size = one.size /\ entry.n = one.n
    BY <2>2
  <2> QED
    BY <2>2, <2>3
<1>4. Aside(keys)
  BY DEF Aside
<1> HIDE DEF log, keys, decoded, canonical
<1>5. Unique(log) /\ Small(log)
  BY <1>2, <1>3 DEF Unique, Small
<1>6. nextSeq' \in Nat /\ Below(log, nextSeq') /\ Below(stored, nextSeq')
  <2>1. nextSeq' \in Nat /\ Below(stored, nextSeq')
    BY <1>1, <1>2, NextIsAbove
  <2> QED
    BY <1>3, <2>1 DEF Below
<1>7. Written(puts, deletes) = log
  <2>1. ASSUME NEW entry \in log PROVE entry \in Written(puts, deletes)
    <3>1. entry.seq \notin deletes
      BY DEF Seqs
    <3>2. CASE entry \in stored
      <4>1. entry.seq \notin Seqs(puts)
        BY <1>5, <3>2 DEF Seqs, Unique
      <4> QED
        BY <3>1, <3>2, <4>1 DEF Written
    <3>3. CASE entry \notin stored
      BY <3>1, <3>3 DEF Written
    <3> QED
      BY <3>2, <3>3
  <2>2. ASSUME NEW entry \in Written(puts, deletes) PROVE entry \in log
    <3>1. CASE entry \in puts
      BY <3>1
    <3>2. CASE entry \in stored /\ entry.seq \notin Seqs(puts) /\ entry.seq \notin deletes
      <4>1. PICK one \in log : one.seq = entry.seq
        BY <3>2 DEF Seqs
      <4>2. one \in stored
        BY <3>2, <4>1 DEF Seqs
      <4> QED
        BY <1>2, <3>2, <4>1, <4>2 DEF Unique
    <3> QED
      BY <3>1, <3>2 DEF Written
  <2> QED
    BY <2>1, <2>2
<1>8. StoredIsSound'
  BY <1>1, <1>2 DEF StoredIsSound
<1>9. LogIsSound'
  <2>1. Unique(puts) /\ Small(puts) /\ Below(puts, nextSeq')
    BY <1>5, <1>6 DEF Unique, Small, Below
  <2>2. PICK w, p, d : w = keys /\ p = puts /\ d = deletes
    OBVIOUS
  <2>3. /\ persist' = w \o Mutation(p, d) /\ Aside(w)
        /\ Unique(p) /\ Small(p) /\ Below(p, nextSeq') /\ Written(p, d) = updates'
    BY <1>1, <1>4, <1>7, <2>1, <2>2
  <2>4. Written(p, d)' = Written(p, d)
    BY <1>1 DEF Written
  <2>5. Pending(w, p, d)'
    BY <2>3, <2>4 DEF Pending
  <2> QED
    BY <1>1, <1>6, <2>5 DEF LogIsSound
<1>10. PeersAreSound'
  <2>1. PeersHaveTheLog'
    BY <1>1, <1>3 DEF LogInv, PeersAreSound, SleepersHaveTheLog, PeersHaveTheLog
  <2> QED
    BY <1>1, <2>1 DEF LogInv, PeersAreSound, SleepersHaveTheLog
<1> QED
  BY <1>8, <1>9, <1>10 DEF LogInv

\* A step that leaves the log and its writes alone.
LEMMA QuietKeepsLog ==
    ASSUME LogInv, UNCHANGED <<stored, updates, nextSeq, rejected, persist>>,
           status' = status \/ (status # "down" /\ status' # "down")
    PROVE  StoredIsSound' /\ LogIsSound'
<1>1. StoredIsSound'
  BY DEF LogInv, StoredIsSound
<1>2. LogIsSound'
  BY DEF LogInv, LogIsSound, Pending, Written
<1> QED
  BY <1>1, <1>2

\* A step after which the storage is in line with the log, and at most the
\* deadline is still to be written.
LEMMA InLineKeepsLog ==
    ASSUME LogInv, rejected' = FALSE, nextSeq' \in Nat, Below(updates', nextSeq'),
           status' # "down", stored' = updates', stored' \subseteq stored,
           NEW writes, Aside(writes), persist' = writes
    PROVE  StoredIsSound' /\ LogIsSound'
<1>1. StoredIsSound'
  BY DEF LogInv, StoredIsSound, Unique, Small, Below
<1>2. IsChain(writes)
  BY ShortChains DEF Aside
<1>3. writes \o Mutation({}, {}) = writes
  <2>1. Mutation({}, {}) = <<>>
    BY MutationUnfolds
  <2> QED
    BY <1>2, <2>1, ConcatEmptySeq DEF IsChain
<1>4. Unique({}) /\ Small({}) /\ Below({}, nextSeq')
  BY DEF Unique, Small, Below
<1>5. Written({}, {})' = updates'
  BY DEF Written, Seqs
<1>6. Pending(writes, {}, {})'
  BY <1>3, <1>4, <1>5 DEF Pending
<1>7. LogIsSound'
  BY <1>6 DEF LogIsSound
<1> QED
  BY <1>1, <1>7

\* The deadline is not about updates.
LEMMA DeadlineIsAside == Aside(ExpiryOps)
  BY DEF Aside, ExpiryOps

\* A frame enters the log, which is trimmed, and both are written.
LEMMA FrameKeepsLog ==
    ASSUME NothingRefused, LogInv, NEW s \in Sockets, NEW size \in Sizes, DocumentFrame(s, size)
    PROVE  StoredIsSound' /\ LogIsSound'
<1>1. PICK entry : entry = [seq |-> nextSeq, n |-> accepted + 1, size |-> size,
                            at |-> now, form |-> "canonical"]
  OBVIOUS
<1>2. PICK log, w, d : /\ log = updates \cup {entry} /\ w = ExpiryOps
                       /\ d = Seqs(log \ Trimmed(log))
  OBVIOUS
<1>3. /\ rejected = FALSE /\ nextSeq \in Nat /\ Below(updates, nextSeq) /\ status = "up"
      /\ stored = updates
  BY NothingPending DEF LogInv, LogIsSound, DocumentFrame, Awake
<1>4. /\ updates' = Trimmed(log) /\ nextSeq' = nextSeq + 1 /\ stored' = stored
      /\ rejected' = FALSE /\ status' = "up"
  BY <1>1, <1>2, <1>3 DEF DocumentFrame, storeVars
<1>5. persist' = w \o Mutation({entry}, d)
  <2>1. persist = <<>> /\ persist' = Chained(DeadlineFirst(Mutation({entry}, d)))
    BY <1>1, <1>2 DEF DocumentFrame, Awake
  <2>2. IsChain(w) /\ IsChain(Mutation({entry}, d))
    BY <1>2, ShortChains, MutationIsChain DEF ExpiryOps
  <2>3. IsChain(w \o Mutation({entry}, d))
    BY <2>2, ChainsJoined
  <2>4. <<>> \o (w \o Mutation({entry}, d)) = w \o Mutation({entry}, d)
    BY <2>3, ChainWithHead
  <2> QED
    BY <1>2, <1>3, <2>1, <2>4 DEF Chained, DeadlineFirst
<1>6. entry.seq = nextSeq /\ entry.size = size
  BY <1>1
<1>7. Unique({entry}) /\ Small({entry}) /\ Below({entry}, nextSeq') /\ Below(updates', nextSeq')
      /\ nextSeq' \in Nat
  <2>1. size \in Nat /\ size <= StorageLimit
    BY RelayAssumption DEF NothingRefused
  <2>2. Unique({entry})
    BY DEF Unique
  <2>3. Small({entry})
    BY <1>6, <2>1 DEF Small
  <2>4. \A one \in log : one.seq \in Nat /\ one.seq < nextSeq + 1
    BY <1>2, <1>3, <1>6 DEF Below
  <2>5. Trimmed(log) \subseteq log
    BY TrimmedIsSubset
  <2>6. Below({entry}, nextSeq') /\ Below(updates', nextSeq')
    BY <1>2, <1>4, <2>4, <2>5 DEF Below
  <2>7. nextSeq' \in Nat
    BY <1>3, <1>4
  <2> QED
    BY <2>2, <2>3, <2>6, <2>7
<1>8. Written({entry}, d) = Trimmed(log)
  <2>1. {one \in stored : one.seq \notin Seqs({entry})} \cup {entry} = log
    <3>1. \A one \in stored : one.seq # nextSeq
      BY <1>3 DEF Below
    <3> QED
      BY <1>2, <1>3, <1>6, <3>1 DEF Seqs
  <2>2. \A one \in log : one \in Trimmed(log) <=> one.seq \notin d
    BY <1>2, TrimmedFromBelow
  <2>3. Trimmed(log) \subseteq log
    BY TrimmedIsSubset
  <2> QED
    BY <2>1, <2>2, <2>3 DEF Written
<1>9. Pending(w, {entry}, d)'
  <2>1. Written({entry}, d)' = Written({entry}, d)
    BY <1>4 DEF Written
  <2>2. Aside(w)
    BY <1>2, DeadlineIsAside
  <2> QED
    BY <1>4, <1>5, <1>7, <1>8, <2>1, <2>2 DEF Pending
<1>10. StoredIsSound'
  BY <1>4 DEF LogInv, StoredIsSound
<1>11. LogIsSound'
  BY <1>4, <1>7, <1>9 DEF LogIsSound
<1> QED
  BY <1>10, <1>11

\* Every step keeps the log and what its peers and its storage have of it.
LEMMA LogStep ==
    ASSUME NothingRefused, LogInv, [Next]_vars
    PROVE  LogInv'
<1> USE DEF memVars, storeVars, peerVars
<1>0. /\ sockets \subseteq Sockets /\ DOMAIN seen = Sockets
      /\ PeersHaveTheLog /\ SleepersHaveTheLog
  BY DEF LogInv, PeersAreSound
<1>1. CASE Boot
  BY <1>1, BootKeepsLog
<1>2. CASE StoreNext
  BY <1>2, StoreKeepsLog
<1>3. CASE Booted \/ Tick
  <2>1. StoredIsSound' /\ LogIsSound'
    BY <1>3, QuietKeepsLog DEF Booted, Tick
  <2>2. PeersAreSound'
    BY <1>0, <1>3 DEF Booted, Tick, PeersAreSound, PeersHaveTheLog, SleepersHaveTheLog
  <2> QED
    BY <2>1, <2>2 DEF LogInv
<1>4. CASE Drop
  <2>1. /\ status # "down" /\ status' = "down" /\ updates' = {} /\ nextSeq' = 0
        /\ rejected' = FALSE /\ stored' = stored /\ seen' = seen
        /\ sockets' # {} => persist = <<>> /\ sockets' = sockets
    BY <1>4 DEF Drop
  <2>2. StoredIsSound'
    BY <2>1 DEF LogInv, StoredIsSound
  <2>3. LogIsSound'
    BY <2>1 DEF LogIsSound, Below
  <2>4. SleepersHaveTheLog'
    <3>1. CASE sockets' = {}
      BY <3>1 DEF SleepersHaveTheLog
    <3>2. CASE sockets' # {}
      <4>1. stored = updates
        BY <2>1, <3>2, NothingPending
      <4> QED
        BY <1>0, <2>1, <3>2, <4>1 DEF SleepersHaveTheLog, PeersHaveTheLog
    <3> QED
      BY <3>1, <3>2
  <2>5. PeersAreSound'
    BY <1>0, <2>1, <2>4 DEF PeersAreSound, PeersHaveTheLog
  <2> QED
    BY <2>2, <2>3, <2>5 DEF LogInv
<1>5. ASSUME Awake
      PROVE  /\ status = "up" /\ persist = <<>> /\ stored = updates
             /\ rejected = FALSE /\ nextSeq \in Nat /\ Below(updates, nextSeq)
  BY <1>5, NothingPending DEF Awake, LogInv, LogIsSound
<1>6. CASE Alarm
  <2>1. /\ Awake /\ persist' = <<>> /\ status' = status /\ rejected' = rejected
        /\ sockets' = sockets /\ seen' = seen
        /\ \/ UNCHANGED <<updates, nextSeq, stored>>
           \/ updates' = {} /\ nextSeq' = 0 /\ stored' = {}
    BY <1>6 DEF Alarm, Awake, StorageWiped
  <2>2. Aside(<<>>)
    BY DEF Aside
  <2>3. StoredIsSound' /\ LogIsSound'
    <3>1. /\ rejected' = FALSE /\ nextSeq' \in Nat /\ status' # "down"
          /\ stored' = updates' /\ stored' \subseteq stored
      BY <1>5, <2>1
    <3>2. Below(updates', nextSeq')
      BY <1>5, <2>1 DEF Below
    <3>3. PICK writes : persist' = writes /\ Aside(writes)
      BY <2>1, <2>2
    <3> QED
      BY <3>1, <3>2, <3>3, InLineKeepsLog
  <2>4. PeersAreSound'
    BY <1>0, <1>5, <2>1 DEF PeersAreSound, PeersHaveTheLog, SleepersHaveTheLog
  <2> QED
    BY <2>3, <2>4 DEF LogInv
<1>7. ASSUME Awake, persist' = Chained(ExpiryOps),
             UNCHANGED <<status, updates, nextSeq, rejected, stored>>
      PROVE  StoredIsSound' /\ LogIsSound'
  <2>1. IsChain(ExpiryOps)
    BY ShortChains DEF ExpiryOps
  <2>2. PICK w : w = ExpiryOps
    OBVIOUS
  <2>3. persist' = w /\ Aside(w)
    BY <1>5, <1>7, <2>1, <2>2, ChainWithHead, DeadlineIsAside DEF Chained
  <2> QED
    BY <1>5, <1>7, <2>3, InLineKeepsLog
<1>8. ASSUME NEW s \in Sockets, Join(s)
      PROVE  LogInv'
  <2>1. StoredIsSound' /\ LogIsSound'
    BY <1>7, <1>8 DEF Join
  <2>2. /\ sockets' = sockets \cup {s} /\ seen' = [seen EXCEPT ![s] = Replayed]
        /\ updates' = updates /\ status' = "up"
    BY <1>5, <1>8 DEF Join
  <2>3. PeersHaveTheLog'
    <3> SUFFICES ASSUME NEW t \in sockets', NEW entry \in updates
                 PROVE  entry.n \in seen'[t]
      BY <2>2 DEF PeersHaveTheLog
    <3>1. CASE t = s
      BY <1>0, <2>2, <3>1 DEF Replayed
    <3>2. CASE t # s
      BY <1>0, <2>2, <3>2 DEF PeersHaveTheLog
    <3> QED
      BY <3>1, <3>2
  <2>4. PeersAreSound'
    BY <1>0, <2>2, <2>3 DEF PeersAreSound, SleepersHaveTheLog
  <2> QED
    BY <2>1, <2>4 DEF LogInv
<1>9. ASSUME NEW s \in Sockets, TransientFrame(s)
      PROVE  LogInv'
  <2>1. StoredIsSound' /\ LogIsSound'
    BY <1>7, <1>9 DEF TransientFrame
  <2>2. PeersAreSound'
    BY <1>0, <1>9 DEF TransientFrame, PeersAreSound, PeersHaveTheLog, SleepersHaveTheLog
  <2> QED
    BY <2>1, <2>2 DEF LogInv
<1>10. ASSUME NEW s \in Sockets, Leave(s)
       PROVE  LogInv'
  <2>1. StoredIsSound' /\ LogIsSound'
    BY <1>10, QuietKeepsLog DEF Leave
  <2>2. PeersAreSound'
    BY <1>0, <1>10 DEF Leave, PeersAreSound, PeersHaveTheLog, SleepersHaveTheLog
  <2> QED
    BY <2>1, <2>2 DEF LogInv
<1>11. ASSUME NEW s \in Sockets, NEW size \in Sizes, DocumentFrame(s, size)
       PROVE  LogInv'
  <2>1. StoredIsSound' /\ LogIsSound'
    BY <1>11, FrameKeepsLog
  <2>2. PICK entry : entry.n = accepted + 1 /\ updates' = Trimmed(updates \cup {entry})
    BY <1>11 DEF DocumentFrame
  <2>3. /\ sockets' = sockets /\ status' = "up" /\ DOMAIN seen' = Sockets
        /\ \A t \in sockets : seen'[t] = seen[t] \cup {accepted + 1}
    BY <1>0, <1>5, <1>11 DEF DocumentFrame
  <2>4. updates' \subseteq updates \cup {entry}
    BY <2>2, TrimmedIsSubset
  <2>5. PeersHaveTheLog'
    BY <1>0, <2>2, <2>3, <2>4 DEF PeersHaveTheLog
  <2>6. PeersAreSound'
    BY <1>0, <2>3, <2>5 DEF PeersAreSound, SleepersHaveTheLog
  <2> QED
    BY <2>1, <2>6 DEF LogInv
<1>12. CASE UNCHANGED vars
  <2>1. StoredIsSound' /\ LogIsSound'
    BY <1>12, QuietKeepsLog DEF vars
  <2>2. PeersAreSound'
    BY <1>0, <1>12 DEF vars, PeersAreSound, PeersHaveTheLog, SleepersHaveTheLog
  <2> QED
    BY <2>1, <2>2 DEF LogInv
<1> QED
  BY <1>1, <1>2, <1>3, <1>4, <1>6, <1>8, <1>9, <1>10, <1>11, <1>12 DEF Next

-----------------------------------------------------------------------------
\* Where the storage takes every frame the room retains, a chain of writes that
\* is done leaves the storage and the alarm as the object believes them to be,
\* after trims, the repairs of a restart and drops between two writes
\* (persistUpdates, writeMutation and the constructor).
THEOREM StorageMirrorsMemory ==
    ASSUME NothingRefused
    PROVE  Spec => []StorageFollowsMemory
<1>1. Init => LogInv /\ ExpiryInv
  BY LogInit, ExpiryInit
<1>2. (LogInv /\ ExpiryInv) /\ [Next]_vars => (LogInv /\ ExpiryInv)'
  BY LogStep, ExpiryStep
<1>3. LogInv /\ ExpiryInv => StorageFollowsMemory
  <2> SUFFICES ASSUME LogInv, ExpiryInv, Awake
               PROVE  stored = updates /\ alarm = expiresAt
    BY DEF StorageFollowsMemory
  <2>1. persist = <<>> /\ status = "up" /\ rejected = FALSE
    BY DEF Awake, LogInv, LogIsSound
  <2>2. alarm = expiresAt
    BY <2>1 DEF ExpiryInv, DeadlineIsKnown, Armed, SetsDeadline
  <2> QED
    BY <2>1, <2>2, NothingPending
<1> QED
  BY <1>1, <1>2, <1>3, PTL DEF Spec

\* Under the same assumption everybody in the room has every update a joiner
\* would be given, also those who slept through a drop (fetch, webSocketMessage
\* and the constructor).
THEOREM PeersAreComplete ==
    ASSUME NothingRefused
    PROVE  Spec => []PeersHaveTheLog
<1>1. Init => LogInv
  BY LogInit
<1>2. LogInv /\ [Next]_vars => LogInv'
  BY LogStep
<1>3. LogInv => PeersHaveTheLog
  BY DEF LogInv, PeersAreSound
<1> QED
  BY <1>1, <1>2, <1>3, PTL DEF Spec

-----------------------------------------------------------------------------
(* Types.                                                                  *)

Fields ==
  /\ status \in {"down", "booting", "up"}
  /\ nextSeq \in Nat /\ expiresAt \in Nat /\ alarm \in Nat
  /\ rejected \in BOOLEAN /\ stray \in BOOLEAN
  /\ now \in 0..MaxTime /\ accepted \in 0..MaxUpdates
Peers == sockets \subseteq Sockets /\ seen \in [Sockets -> SUBSET (0..MaxUpdates)]

\* Updates are numbered from 1; what does not decode has no number.
Real(entries) == \A entry \in entries : entry.form # "invalid" => entry.n # 0

TypedLog == /\ updates \subseteq Entry /\ updates = Canonical(updates)
            /\ Real(updates) /\ Below(updates, nextSeq)
TypedStore == /\ stored \subseteq Entry /\ Real(stored)
              /\ \E bound \in Nat : Below(stored, bound)
TypedWrites == /\ persist \in Seq(Operation)
               /\ \A write \in Range(persist) :
                    write.op = "put" => Real(write.entries) /\ Below(write.entries, nextSeq)

TypeInv == Fields /\ Peers /\ TypedLog /\ TypedStore /\ TypedWrites /\ lost \subseteq 1..MaxUpdates

\* The bounds are numbers.
LEMMA Bounds == /\ MaxUpdates \in Nat /\ MaxUpdates > 0 /\ MaxBytes \in Nat /\ MaxBytes > 0
                /\ MaxTime \in Nat /\ Sizes \subseteq 1..MaxBytes
<1>1. MaxUpdates \in Nat \ {0} /\ MaxBytes \in Nat \ {0} /\ MaxTime \in Nat
  BY RelayAssumption
<1> QED
  BY <1>1, RelayAssumption

\* The invariant is about the types.
LEMMA TypeInvTypes == TypeInv => TypeOK
  BY DEF TypeInv, Fields, Peers, TypedLog, TypedStore, TypedWrites, TypeOK, Below

\* A room starts typed.
LEMMA TypeInit == Init => TypeInv
<1> SUFFICES ASSUME Init PROVE TypeInv
  OBVIOUS
<1>1. Fields
  <2>1. /\ status = "down" /\ nextSeq = 0 /\ expiresAt = 0 /\ rejected = FALSE /\ now = 0
        /\ alarm = 0 \/ alarm = Ttl
        /\ accepted = 0 \/ accepted = 1
        /\ stray \in BOOLEAN
    BY DEF Init, NoAlarm
  <2>2. /\ nextSeq \in Nat /\ expiresAt \in Nat /\ alarm \in Nat
        /\ now \in 0..MaxTime /\ accepted \in 0..MaxUpdates
    BY <2>1, Bounds, Numbers
  <2>3. status \in {"down", "booting", "up"} /\ rejected \in BOOLEAN
    BY <2>1
  <2> QED
    BY <2>1, <2>2, <2>3, Zenon DEF Fields
<1>2. Peers /\ lost \subseteq 1..MaxUpdates
  BY DEF Init, Peers
<1>3. TypedLog
  BY DEF Init, TypedLog, Canonical, Real, Below
<1>4. TypedStore
  <2>1. CASE stored = {}
    BY <2>1 DEF TypedStore, Real, Below
  <2>2. CASE stored = OldStorage
    <3>1. stored \subseteq Entry
      BY <2>2, Bounds DEF OldStorage, Entry
    <3>2. Real(stored) /\ Below(stored, 2)
      BY <2>2 DEF OldStorage, Real, Below
    <3> QED
      BY <3>1, <3>2 DEF TypedStore
  <2> QED
    BY <2>1, <2>2 DEF Init
<1>5. TypedWrites
  BY ShortChains, EmptySeq DEF Init, TypedWrites
<1> QED
  BY <1>1, <1>2, <1>3, <1>4, <1>5 DEF TypeInv

\* The writes of a mutation are typed when what they write is.
LEMMA MutationTyped ==
    ASSUME NEW puts, puts \subseteq Entry, NEW deletes, deletes \subseteq Nat
    PROVE  Mutation(puts, deletes) \in Seq(Operation)
<1>1. [op |-> "put", entries |-> puts] \in Operation
  BY DEF Operation
<1>2. [op |-> "delete", seqs |-> deletes] \in Operation
  BY DEF Operation
<1>3. (IF puts = {} THEN <<>> ELSE <<[op |-> "put", entries |-> puts]>>) \in Seq(Operation)
  BY <1>1
<1>4. (IF deletes = {} THEN <<>> ELSE <<[op |-> "delete", seqs |-> deletes]>>) \in Seq(Operation)
  BY <1>2
<1> QED
  BY <1>3, <1>4, ConcatProperties DEF Mutation

\* So is a deadline.
LEMMA DeadlineTyped ==
    ASSUME Fields
    PROVE  ExpiryOps \in Seq(Operation) /\ Deadline \in Nat
<1>1. now + Ttl \in Nat /\ expiresAt \in Nat
  BY Numbers, Bounds DEF Fields
<1>2. [op |-> "setAlarm", deadline |-> now + Ttl] \in Operation
  BY <1>1 DEF Operation
<1> QED
  BY <1>1, <1>2 DEF ExpiryOps, Deadline

\* A write is done: what it put was typed.
LEMMA StoreKeepsTypes ==
    ASSUME TypeInv, StoreNext
    PROVE  TypeInv'
<1> DEFINE write == Head(persist)
<1>1. /\ persist # <<>> /\ persist \in Seq(Operation) /\ IsChain(persist)
      /\ UNCHANGED <<status, updates, nextSeq, expiresAt, sockets, seen, now, accepted, lost>>
      /\ nextSeq \in Nat
  BY SeqOfRange DEF TypeInv, TypedWrites, Fields, StoreNext, peerVars, IsChain
<1>2. write \in Operation /\ Tail(persist) \in Seq(Operation) /\ write \in Range(persist)
      /\ Range(Tail(persist)) \subseteq Range(persist)
  BY <1>1, HeadTailProperties, ChainSplit
<1>3. TypedWrites'
  <2>1. CASE persist' = <<>>
    BY <2>1, ShortChains, EmptySeq DEF TypedWrites
  <2>2. CASE persist' = Tail(persist)
    BY <1>1, <1>2, <2>2 DEF TypeInv, TypedWrites
  <2> QED
    BY <2>1, <2>2 DEF StoreNext
<1>4. TypedLog' /\ Peers' /\ (lost \subseteq 1..MaxUpdates)'
  BY <1>1 DEF TypeInv, TypedLog, Peers, Canonical
<1>5. TypedStore'
  <2>1. stored' \subseteq stored \/ (write.op = "put" /\ stored' \subseteq stored \cup write.entries)
    BY DEF StoreNext, storeVars
  <2>2. CASE stored' \subseteq stored
    BY <2>2 DEF TypeInv, TypedStore, Real, Below
  <2>3. CASE write.op = "put" /\ stored' \subseteq stored \cup write.entries
    <3>1. write.entries \subseteq Entry
      BY <1>2, <2>3 DEF Operation
    <3>2. Real(write.entries) /\ Below(write.entries, nextSeq)
      BY <1>2, <2>3 DEF TypeInv, TypedWrites
    <3>3. PICK bound \in Nat : Below(stored, bound)
      BY DEF TypeInv, TypedStore
    <3>4. Below(stored', bound + nextSeq) /\ bound + nextSeq \in Nat
      BY <1>1, <2>3, <3>2, <3>3 DEF Below
    <3>5. stored' \subseteq Entry /\ Real(stored')
      BY <2>3, <3>1, <3>2 DEF TypeInv, TypedStore, Real
    <3> QED
      BY <3>4, <3>5 DEF TypedStore
  <2> QED
    BY <2>1, <2>2, <2>3
<1>6. alarm' \in Nat
  <2>1. alarm' = alarm \/ (write.op = "setAlarm" /\ alarm' = write.deadline)
    BY DEF StoreNext, storeVars
  <2>2. write.op = "setAlarm" => write.deadline \in Nat
    BY <1>2 DEF Operation
  <2> QED
    BY <2>1, <2>2 DEF TypeInv, Fields
<1>7. rejected' \in BOOLEAN /\ stray' \in BOOLEAN
  BY DEF StoreNext, storeVars, TypeInv, Fields
<1>8. Fields'
  BY <1>1, <1>6, <1>7 DEF TypeInv, Fields
<1> QED
  BY <1>3, <1>4, <1>5, <1>8 DEF TypeInv

\* A restart reads typed entries and repairs them into typed ones.
LEMMA BootKeepsTypes ==
    ASSUME TypeInv, Boot
    PROVE  TypeInv'
<1> DEFINE decoded == {entry \in stored : entry.form # "invalid"}
           canonical == {[entry EXCEPT !.form = "canonical"] : entry \in decoded}
           log == Trimmed(canonical)
           keys == IF stray THEN <<[op |-> "deleteStray"]>> ELSE <<>>
           puts == log \ stored
           deletes == Seqs(stored) \ Seqs(log)
<1>1. /\ persist' = keys \o Mutation(puts, deletes) /\ rejected' = FALSE
      /\ updates' = log /\ nextSeq' = AfterHighest(stored) /\ status' = "booting"
      /\ expiresAt' = alarm
      /\ UNCHANGED <<stored, stray, alarm, sockets, seen, now, accepted, lost>>
  BY DEF Boot, storeVars, peerVars
<1>2. stored \subseteq Entry /\ Real(stored) /\ \E bound \in Nat : Below(stored, bound)
  BY DEF TypeInv, TypedStore
<1>3. \A entry \in canonical : /\ entry \in Entry /\ entry.form = "canonical" /\ entry.n # 0
                               /\ \E one \in stored : entry.seq = one.seq
  <2> SUFFICES ASSUME NEW one \in decoded, NEW entry, entry = [one EXCEPT !.form = "canonical"]
               PROVE  /\ entry \in Entry /\ entry.form = "canonical" /\ entry.n # 0
                      /\ entry.seq = one.seq
    OBVIOUS
  <2>1. one \in Entry /\ one.n # 0
    BY <1>2 DEF Real
  <2> QED
    BY <2>1 DEF Entry
<1>4. log \subseteq canonical
  BY TrimmedIsSubset
<1>5. keys \in Seq(Operation) /\ \A write \in Range(keys) : write.op = "deleteStray"
  <2>1. [op |-> "deleteStray"] \in Operation
    BY DEF Operation
  <2> QED
    BY <2>1, ShortChains
<1> HIDE DEF log, canonical, decoded, keys
<1>6. /\ log \subseteq Entry /\ Real(log) /\ Canonical(log) = log
      /\ \A entry \in log : \E one \in stored : entry.seq = one.seq
  BY <1>3, <1>4 DEF Real, Canonical
<1>7. nextSeq' \in Nat /\ Below(stored, nextSeq')
  BY <1>1, <1>2, NextIsAbove
<1>8. Below(log, nextSeq')
  BY <1>6, <1>7 DEF Below
<1>9. TypedLog'
  BY <1>1, <1>6, <1>8 DEF TypedLog, Canonical
<1>10. TypedWrites'
  <2>1. deletes \subseteq Nat
    BY <1>7 DEF Seqs, Below
  <2>2. Mutation(puts, deletes) \in Seq(Operation)
    BY <1>6, <2>1, MutationTyped
  <2>3. \A write \in Range(Mutation(puts, deletes)) : write.op = "put" => write.entries = puts
    BY MutationIsChain
  <2>4. Real(puts) /\ Below(puts, nextSeq')
    BY <1>6, <1>8 DEF Real, Below
  <2> HIDE DEF puts, deletes
  <2>5. /\ persist' \in Seq(Operation)
        /\ Range(persist') = Range(keys) \cup Range(Mutation(puts, deletes))
    BY <1>1, <1>5, <2>2, ConcatProperties, RangeConcatenation
  <2>6. \A write \in Range(persist') :
          write.op = "put" => Real(write.entries) /\ Below(write.entries, nextSeq')
    BY <1>5, <2>3, <2>4, <2>5
  <2> QED
    BY <2>5, <2>6 DEF TypedWrites
<1>11. TypedStore' /\ Peers' /\ (lost \subseteq 1..MaxUpdates)'
  BY <1>1 DEF TypeInv, TypedStore, Peers
<1>12. Fields'
  BY <1>1, <1>7 DEF TypeInv, Fields
<1> QED
  BY <1>9, <1>10, <1>11, <1>12 DEF TypeInv

\* An event writes at most the deadline and what it puts in the log.
LEMMA EventTyped ==
    ASSUME TypeInv, Awake, NEW mutation \in Seq(Operation),
           persist' = Chained(DeadlineFirst(mutation)), nextSeq' \in Nat,
           \A write \in Range(mutation) :
             write.op = "put" => Real(write.entries) /\ Below(write.entries, nextSeq')
    PROVE  TypedWrites'
<1>1. persist = <<>>
  BY DEF Awake
<1>2. ExpiryOps \in Seq(Operation)
  BY DeadlineTyped DEF TypeInv
<1>3. \A write \in Range(ExpiryOps) : write.op # "put"
  BY ShortChains DEF ExpiryOps
<1>4. /\ DeadlineFirst(mutation) \in Seq(Operation)
      /\ Range(DeadlineFirst(mutation)) = Range(ExpiryOps) \cup Range(mutation)
  BY <1>2, ConcatProperties, RangeConcatenation DEF DeadlineFirst
<1>5. persist' = <<>> \/ persist' = DeadlineFirst(mutation)
  BY <1>1, <1>4, ConcatEmptySeq DEF Chained
<1>6. CASE persist' = <<>>
  BY <1>6, ShortChains, EmptySeq DEF TypedWrites
<1>7. CASE persist' = DeadlineFirst(mutation)
  BY <1>3, <1>4, <1>7 DEF TypedWrites
<1> QED
  BY <1>5, <1>6, <1>7

\* A term from now is a deadline.
LEMMA DeadlineNext ==
    ASSUME TypeInv, expiresAt' = Deadline
    PROVE  expiresAt' \in Nat
  BY DeadlineTyped DEF TypeInv

\* A joiner is sent updates that have a number.
LEMMA JoinKeepsTypes ==
    ASSUME TypeInv, NEW s \in Sockets, Join(s)
    PROVE  TypeInv'
<1>1. /\ UNCHANGED <<status, updates, nextSeq, rejected, stored, stray, alarm, now, accepted, lost>>
      /\ Awake /\ sockets' = sockets \cup {s} /\ seen' = [seen EXCEPT ![s] = Replayed]
      /\ expiresAt' = Deadline /\ persist' = Chained(ExpiryOps)
  BY DEF Join, storeVars
<1>2. expiresAt' \in Nat
  BY <1>1, DeadlineNext
<1>3. Fields'
  BY <1>1, <1>2 DEF TypeInv, Fields
<1>4. Replayed \subseteq 0..MaxUpdates
  BY DEF Replayed, TypeInv, TypedLog, Entry
<1>5. Peers'
  BY <1>1, <1>4 DEF TypeInv, Peers
<1>6. TypedWrites'
  <2>1. persist = <<>> /\ ExpiryOps \in Seq(Operation)
    BY <1>1, DeadlineTyped DEF Awake, TypeInv
  <2>2. persist' = <<>> \/ persist' = ExpiryOps
    BY <1>1, <2>1, ConcatEmptySeq DEF Chained
  <2>3. \A write \in Range(ExpiryOps) : write.op # "put"
    BY ShortChains DEF ExpiryOps
  <2>4. CASE persist' = <<>>
    BY <2>4, ShortChains, EmptySeq DEF TypedWrites
  <2>5. CASE persist' = ExpiryOps
    BY <2>1, <2>3, <2>5 DEF TypedWrites
  <2> QED
    BY <2>2, <2>4, <2>5
<1>7. TypedLog' /\ TypedStore' /\ (lost \subseteq 1..MaxUpdates)'
  BY <1>1 DEF TypeInv, TypedLog, TypedStore, Canonical
<1> QED
  BY <1>3, <1>5, <1>6, <1>7 DEF TypeInv

\* So does a frame that is only passed on.
LEMMA TransientKeepsTypes ==
    ASSUME TypeInv, NEW s \in Sockets, TransientFrame(s)
    PROVE  TypeInv'
<1>1. /\ UNCHANGED <<status, updates, nextSeq, rejected, stored, stray, alarm, sockets, seen,
                     now, accepted, lost>>
      /\ Awake /\ expiresAt' = Deadline /\ persist' = Chained(ExpiryOps)
  BY DEF TransientFrame, storeVars, peerVars
<1>2. expiresAt' \in Nat
  BY <1>1, DeadlineNext
<1>3. Fields' /\ Peers'
  BY <1>1, <1>2 DEF TypeInv, Fields, Peers
<1>4. TypedWrites'
  <2>1. persist = <<>> /\ ExpiryOps \in Seq(Operation)
    BY <1>1, DeadlineTyped DEF Awake, TypeInv
  <2>2. persist' = <<>> \/ persist' = ExpiryOps
    BY <1>1, <2>1, ConcatEmptySeq DEF Chained
  <2>3. \A write \in Range(ExpiryOps) : write.op # "put"
    BY ShortChains DEF ExpiryOps
  <2>4. CASE persist' = <<>>
    BY <2>4, ShortChains, EmptySeq DEF TypedWrites
  <2>5. CASE persist' = ExpiryOps
    BY <2>1, <2>3, <2>5 DEF TypedWrites
  <2> QED
    BY <2>2, <2>4, <2>5
<1>5. TypedLog' /\ TypedStore' /\ (lost \subseteq 1..MaxUpdates)'
  BY <1>1 DEF TypeInv, TypedLog, TypedStore, Canonical
<1> QED
  BY <1>3, <1>4, <1>5 DEF TypeInv

\* An accepted update is numbered, and what is retained of the log is part of it.
LEMMA FrameKeepsTypes ==
    ASSUME TypeInv, NEW s \in Sockets, NEW size \in Sizes, DocumentFrame(s, size)
    PROVE  TypeInv'
<1> DEFINE entry == [seq |-> nextSeq, n |-> accepted + 1, size |-> size,
                     at |-> now, form |-> "canonical"]
           log == updates \cup {entry}
           deletes == Seqs(log \ Trimmed(log))
           mutation == Mutation({entry}, deletes)
<1>1. /\ UNCHANGED <<status, rejected, stored, stray, alarm, sockets, now, lost>>
      /\ Awake /\ accepted < MaxUpdates /\ accepted' = accepted + 1
      /\ updates' = Trimmed(log) /\ nextSeq' = nextSeq + 1 /\ expiresAt' = Deadline
      /\ persist' = Chained(DeadlineFirst(mutation))
      /\ seen' = [t \in Sockets |->
                    IF t \in sockets THEN seen[t] \cup {accepted + 1} ELSE seen[t]]
  BY DEF DocumentFrame, storeVars
<1>2. /\ accepted \in 0..MaxUpdates /\ nextSeq \in Nat /\ now \in 0..MaxTime
      /\ size \in 1..MaxBytes
  BY Bounds DEF TypeInv, Fields
<1>3. accepted + 1 \in 1..MaxUpdates /\ accepted + 1 \in 0..MaxUpdates /\ nextSeq' \in Nat
  BY <1>1, <1>2, Bounds
<1>4. entry \in Entry /\ entry.n # 0 /\ entry.form = "canonical" /\ entry.seq = nextSeq
  <2>1. accepted + 1 # 0
    BY <1>2
  <2> QED
    BY <1>2, <1>3, <2>1 DEF Entry
<1>5. /\ updates \subseteq Entry /\ Real(updates) /\ Below(updates, nextSeq)
      /\ \A one \in updates : one.form = "canonical"
  BY DEF TypeInv, TypedLog, Canonical
<1> HIDE DEF entry
<1>6. /\ log \subseteq Entry /\ Real(log) /\ Below(log, nextSeq')
      /\ \A one \in log : one.form = "canonical"
  BY <1>1, <1>2, <1>4, <1>5 DEF Real, Below
<1>7. TypedLog'
  <2>1. updates' \subseteq log
    BY <1>1, TrimmedIsSubset
  <2> HIDE DEF log
  <2> QED
    BY <1>6, <2>1 DEF TypedLog, Canonical, Real, Below
<1>8. deletes \subseteq Nat
  BY <1>6 DEF Seqs, Entry
<1>9. mutation \in Seq(Operation)
  BY <1>4, <1>8, MutationTyped
<1>10. \A write \in Range(mutation) :
         write.op = "put" => Real(write.entries) /\ Below(write.entries, nextSeq')
  <2>1. \A write \in Range(mutation) : write.op = "put" => write.entries = {entry}
    BY MutationIsChain
  <2>2. Real({entry}) /\ Below({entry}, nextSeq')
    BY <1>1, <1>2, <1>4 DEF Real, Below
  <2> QED
    BY <2>1, <2>2
<1> HIDE DEF mutation
<1>11. TypedWrites'
  BY <1>1, <1>3, <1>9, <1>10, EventTyped
<1>12. expiresAt' \in Nat
  BY <1>1, DeadlineNext
<1>13. Fields'
  BY <1>1, <1>3, <1>12 DEF TypeInv, Fields
<1>14. Peers'
  BY <1>1, <1>3 DEF TypeInv, Peers
<1>15. TypedStore' /\ (lost \subseteq 1..MaxUpdates)'
  BY <1>1 DEF TypeInv, TypedStore
<1> QED
  BY <1>7, <1>11, <1>13, <1>14, <1>15 DEF TypeInv

\* What a drop loses has a number.
LEMMA DropKeepsTypes ==
    ASSUME TypeInv, Drop
    PROVE  TypeInv'
<1>1. /\ status' = "down" /\ updates' = {} /\ nextSeq' = 0 /\ expiresAt' = NoAlarm
      /\ persist' = <<>> /\ rejected' = FALSE /\ sockets' \in {sockets, {}}
      /\ lost' = lost \cup {entry.n : entry \in {e \in updates : e.seq \notin Seqs(stored)}}
      /\ UNCHANGED <<stored, stray, alarm, seen, now, accepted>>
  BY DEF Drop, storeVars
<1>2. \A entry \in updates : entry.n \in 1..MaxUpdates
  <2> SUFFICES ASSUME NEW entry \in updates PROVE entry.n \in 1..MaxUpdates
    OBVIOUS
  <2>1. entry \in Entry /\ entry.form = "canonical" /\ entry.n # 0
    BY DEF TypeInv, TypedLog, Real, Canonical
  <2>2. entry.n \in 0..MaxUpdates
    BY <2>1 DEF Entry
  <2> QED
    BY <2>1, <2>2, Bounds
<1>3. lost' \subseteq 1..MaxUpdates
  BY <1>1, <1>2 DEF TypeInv
<1>4. Fields'
  <2>1. nextSeq' \in Nat /\ expiresAt' \in Nat
    BY <1>1 DEF NoAlarm
  <2>2. /\ alarm' \in Nat /\ stray' \in BOOLEAN /\ now' \in 0..MaxTime
        /\ accepted' \in 0..MaxUpdates
    BY <1>1 DEF TypeInv, Fields
  <2> QED
    BY <1>1, <2>1, <2>2, Zenon, Bounds DEF TypeInv, Fields
<1>5. Peers' /\ TypedStore'
  BY <1>1 DEF TypeInv, Peers, TypedStore
<1>6. TypedLog'
  BY <1>1 DEF TypedLog, Canonical, Real, Below
<1>7. TypedWrites'
  BY <1>1, ShortChains, EmptySeq DEF TypedWrites
<1> QED
  BY <1>3, <1>4, <1>5, <1>6, <1>7 DEF TypeInv

\* An alarm renews the term or empties the room.
LEMMA AlarmKeepsTypes ==
    ASSUME TypeInv, Alarm
    PROVE  TypeInv'
<1>1. /\ UNCHANGED <<status, persist, rejected, sockets, seen, now, accepted, lost>>
      /\ Awake
  BY DEF Alarm, peerVars
<1>2. TypedWrites'
  BY <1>1, ShortChains, EmptySeq DEF Awake, TypedWrites
<1>3. Peers' /\ (lost \subseteq 1..MaxUpdates)'
  BY <1>1 DEF TypeInv, Peers
<1>4. CASE /\ expiresAt' = now + Ttl /\ alarm' = now + Ttl
           /\ UNCHANGED <<updates, nextSeq, stored, stray>>
  <2>1. now + Ttl \in Nat
    BY Numbers, Bounds DEF TypeInv, Fields
  <2>2. Fields'
    BY <1>1, <1>4, <2>1 DEF TypeInv, Fields
  <2>3. TypedLog' /\ TypedStore'
    BY <1>4 DEF TypeInv, TypedLog, TypedStore, Canonical
  <2> QED
    BY <1>2, <1>3, <2>2, <2>3 DEF TypeInv
<1>5. CASE /\ updates' = {} /\ nextSeq' = 0 /\ expiresAt' = NoAlarm /\ alarm' = NoAlarm
           /\ stored' = {} /\ stray' = FALSE
  <2>1. nextSeq' \in Nat /\ expiresAt' \in Nat /\ alarm' \in Nat
    BY <1>5 DEF NoAlarm
  <2>2. stray' \in BOOLEAN
    BY <1>5
  <2>3. Fields'
    BY <1>1, <2>1, <2>2, Zenon DEF TypeInv, Fields
  <2>4. TypedLog'
    BY <1>5 DEF TypedLog, Canonical, Real, Below
  <2>5. TypedStore'
    BY <1>5 DEF TypedStore, Real, Below
  <2> QED
    BY <1>2, <1>3, <2>3, <2>4, <2>5 DEF TypeInv
<1> QED
  BY <1>4, <1>5 DEF Alarm, StorageWiped

\* The remaining steps leave what is typed alone.
LEMMA QuietKeepsTypes ==
    ASSUME TypeInv,
           \/ Booted \/ Tick \/ UNCHANGED vars
           \/ \E s \in Sockets : Leave(s)
    PROVE  TypeInv'
<1>1. /\ UNCHANGED <<updates, nextSeq, expiresAt, persist, rejected, stored, stray, alarm,
                     seen, accepted, lost>>
      /\ status' \in {status, "up"} /\ sockets' \subseteq sockets
  BY DEF Booted, Tick, Leave, vars, memVars, storeVars, peerVars
<1>2. now' \in 0..MaxTime
  <2>1. now' = now \/ (now < MaxTime /\ now' = now + 1)
    BY DEF Booted, Tick, Leave, vars
  <2>2. now \in 0..MaxTime
    BY DEF TypeInv, Fields
  <2> QED
    BY <2>1, <2>2, Bounds
<1>3. Fields'
  BY <1>1, <1>2 DEF TypeInv, Fields
<1>4. Peers' /\ TypedLog' /\ TypedStore' /\ TypedWrites' /\ (lost \subseteq 1..MaxUpdates)'
  BY <1>1 DEF TypeInv, Peers, TypedLog, TypedStore, TypedWrites, Canonical
<1> QED
  BY <1>3, <1>4 DEF TypeInv

\* The room's fields, its storage and the writes between them keep their types:
\* what it retains decodes and is numbered below what comes next
\* (apps/relay/src/retention.ts), also after a drop between any two writes.
THEOREM RelayTypeCorrect == Spec => []TypeOK
<1>1. Init => TypeInv
  BY TypeInit
<1>2. TypeInv /\ [Next]_vars => TypeInv'
  <2> SUFFICES ASSUME TypeInv, [Next]_vars PROVE TypeInv'
    OBVIOUS
  <2>1. CASE Boot
    BY <2>1, BootKeepsTypes
  <2>2. CASE Drop
    BY <2>2, DropKeepsTypes
  <2>3. CASE StoreNext
    BY <2>3, StoreKeepsTypes
  <2>4. CASE Alarm
    BY <2>4, AlarmKeepsTypes
  <2>5. CASE Booted \/ Tick \/ UNCHANGED vars \/ \E s \in Sockets : Leave(s)
    BY <2>5, QuietKeepsTypes
  <2>6. ASSUME NEW s \in Sockets, Join(s) PROVE TypeInv'
    BY <2>6, JoinKeepsTypes
  <2>7. ASSUME NEW s \in Sockets, TransientFrame(s) PROVE TypeInv'
    BY <2>7, TransientKeepsTypes
  <2>8. ASSUME NEW s \in Sockets, NEW size \in Sizes, DocumentFrame(s, size) PROVE TypeInv'
    BY <2>8, FrameKeepsTypes
  <2> QED
    BY <2>1, <2>2, <2>3, <2>4, <2>5, <2>6, <2>7, <2>8 DEF Next
<1>3. TypeInv => TypeOK
  BY TypeInvTypes
<1> QED
  BY <1>1, <1>2, <1>3, PTL DEF Spec

-----------------------------------------------------------------------------
(* Nothing a room keeps is ever missing from the middle of what it stored. *)

\* The updates that entries hold.
Kept(entries) == {entry.n : entry \in {e \in entries : e.form # "invalid"}}

\* What one step of a sum adds up.
LEMMA SumOfAtMostOne ==
    /\ TotalSize({}) = 0
    /\ \A entry : entry.size \in Nat => TotalSize({entry}) = entry.size
<1>1. TotalSize({}) = 0
  <2> DEFINE Sum(f) == [s \in SUBSET {} |->
                          IF s = {} THEN 0
                          ELSE LET x == CHOOSE y \in s : TRUE IN x.size + f[s \ {x}]]
             sum == CHOOSE f : f = Sum(f)
  <2>1. TotalSize({}) = sum[{}]
    BY DEF TotalSize, MapThenSumSet, MapThenFoldSet
  <2> DEFINE g == [s \in SUBSET {} |-> 0]
  <2>2. g = Sum(g)
    OBVIOUS
  <2> HIDE DEF g
  <2>3. sum = Sum(sum)
    BY <2>2
  <2> QED
    BY <2>1, <2>3
<1>2. ASSUME NEW entry, entry.size \in Nat
      PROVE  TotalSize({entry}) = entry.size
  <2> DEFINE Sum(f) == [s \in SUBSET {entry} |->
                          IF s = {} THEN 0
                          ELSE LET x == CHOOSE y \in s : TRUE IN x.size + f[s \ {x}]]
             sum == CHOOSE f : f = Sum(f)
             g == [s \in SUBSET {entry} |-> IF s = {} THEN 0 ELSE entry.size]
  <2>1. TotalSize({entry}) = sum[{entry}]
    BY DEF TotalSize, MapThenSumSet, MapThenFoldSet
  <2>2. ASSUME NEW s \in SUBSET {entry}, s # {}
        PROVE  (CHOOSE y \in s : TRUE) = entry /\ s = {entry} /\ s \ {entry} = {}
    BY <2>2
  <2>3. g = Sum(g)
    <3>1. ASSUME NEW s \in SUBSET {entry}
          PROVE  g[s] = Sum(g)[s]
      <4>1. CASE s = {}
        BY <4>1
      <4>2. CASE s # {}
        <5>1. Sum(g)[s] = entry.size + g[{}]
          BY <2>2, <4>2
        <5> QED
          BY <1>2, <4>2, <5>1
      <4> QED
        BY <4>1, <4>2
    <3> QED
      BY <3>1
  <2> HIDE DEF g
  <2>4. sum = Sum(sum)
    BY <2>3
  <2> HIDE DEF sum
  <2>5. sum[{}] = 0
    BY <2>4
  <2>6. sum[{entry}] = entry.size + sum[{}]
    BY <2>2, <2>4
  <2> QED
    BY <1>2, <2>1, <2>5, <2>6
<1> QED
  BY <1>1, <1>2

\* Numbers have a least among them.
LEMMA LeastNumber ==
    ASSUME NEW T, T \subseteq Nat, T # {}
    PROVE  Min(T) \in T /\ \A t \in T : Min(T) <= t
<1> DEFINE R == {p \in Nat \X Nat : p[1] < p[2]}
<1>1. IsWellFoundedOn(R, Nat)
  <2>1. OpToRel(<, Nat) = R
    BY DEF OpToRel
  <2> QED
    BY <2>1, NatLessThanWellFounded
<1>2. PICK u \in T : \A y \in T : ~(<<y, u>> \in R)
  BY <1>1, WFMin
<1>3. \A t \in T : u <= t
  <2> SUFFICES ASSUME NEW t \in T PROVE u <= t
    OBVIOUS
  <2>1. t \in Nat /\ u \in Nat /\ ~(<<t, u>> \in R)
    BY <1>2
  <2> QED
    BY <2>1
<1> QED
  BY <1>3 DEF Min

\* Nothing, and one frame, are within the limits of the log.
LEMMA LittleFits ==
    /\ Fits({})
    /\ \A entry : entry.size \in Nat /\ entry.size <= MaxBytes => Fits({entry})
<1>1. MaxCount \in Nat /\ MaxCount > 0 /\ MaxBytes \in Nat
  BY RelayAssumption
<1>2. Fits({})
  BY <1>1, SumOfAtMostOne, FS_EmptySet DEF Fits
<1>3. ASSUME NEW entry, entry.size \in Nat, entry.size <= MaxBytes
      PROVE  Fits({entry})
  <2>1. Cardinality({entry}) = 1
    BY FS_Singleton
  <2> QED
    BY <1>1, <1>3, <2>1, SumOfAtMostOne DEF Fits
<1> QED
  BY <1>2, <1>3

\* A trimmed log is the end of the log.
LEMMA TrimmedIsTheEnd ==
    ASSUME NEW entries, NEW bound \in Nat, Below(entries, bound)
    PROVE  \A one \in Trimmed(entries), other \in entries :
             other.seq >= one.seq => other \in Trimmed(entries)
<1> DEFINE cuts == {seq \in Seqs(entries) : Fits(From(entries, seq + 1))}
<1>1. CASE Fits(entries)
  BY <1>1 DEF Trimmed
<1>2. CASE ~Fits(entries)
  <2>1. Trimmed(entries) = From(entries, Min(cuts) + 1) /\ entries # {}
    BY <1>2, LittleFits DEF Trimmed
  <2>2. Seqs(entries) \subseteq Nat /\ Seqs(entries) # {} /\ \A seq \in Seqs(entries) : seq < bound
    BY <2>1 DEF Seqs, Below
  <2>3. Min(cuts) \in Nat
    <3>1. PICK top \in Seqs(entries) : \A seq \in Seqs(entries) : top >= seq
      BY <2>2, GreatestNumber
    <3>2. From(entries, top + 1) = {}
      <4> SUFFICES ASSUME NEW entry \in entries PROVE ~(entry.seq >= top + 1)
        BY DEF From
      <4>1. entry.seq \in Seqs(entries)
        BY DEF Seqs
      <4> QED
        BY <2>2, <3>1, <4>1
    <3>3. top \in cuts /\ cuts \subseteq Nat
      <4>1. Fits(From(entries, top + 1))
        BY <3>2, LittleFits
      <4> QED
        BY <2>2, <4>1
    <3> HIDE DEF cuts
    <3> QED
      BY <3>3, LeastNumber
  <2> HIDE DEF cuts
  <2>4. \A entry \in entries : entry.seq \in Nat
    BY DEF Below
  <2> QED
    BY <2>1, <2>3, <2>4 DEF From
<1> QED
  BY <1>1, <1>2

\* The newest entry stays: it is within the limits alone.
LEMMA TrimmedKeepsTheNewest ==
    ASSUME NEW entries, NEW bound \in Nat, Below(entries, bound),
           NEW entry \in entries, entry.size \in Nat, entry.size <= MaxBytes,
           \A other \in entries : other # entry => other.seq < entry.seq
    PROVE  entry \in Trimmed(entries)
<1> DEFINE cuts == {seq \in Seqs(entries) : Fits(From(entries, seq + 1))}
           older == entries \ {entry}
<1>1. Fits({entry})
  BY LittleFits
<1>2. CASE Fits(entries)
  BY <1>2 DEF Trimmed
<1>3. CASE ~Fits(entries)
  <2>1. Trimmed(entries) = From(entries, Min(cuts) + 1) /\ entries # {entry} /\ older # {}
    BY <1>1, <1>3 DEF Trimmed
  <2>2. Seqs(older) \subseteq Nat /\ Seqs(older) # {} /\ entry.seq \in Nat
        /\ \A seq \in Seqs(older) : seq < entry.seq
    BY <2>1 DEF Seqs, Below
  <2>3. PICK second \in Seqs(older) : \A seq \in Seqs(older) : second >= seq
    BY <2>2, GreatestNumber
  <2>4. second \in Nat /\ second < entry.seq /\ second \in Seqs(entries)
    BY <2>2, <2>3 DEF Seqs
  <2>5. From(entries, second + 1) = {entry}
    <3>1. ASSUME NEW other \in older PROVE ~(other.seq >= second + 1)
      <4>1. other.seq \in Seqs(older)
        BY DEF Seqs
      <4>2. other.seq \in Nat /\ second >= other.seq
        BY <2>2, <2>3, <4>1
      <4> QED
        BY <2>4, <4>2
    <3>2. entry.seq >= second + 1
      BY <2>2, <2>4
    <3> QED
      BY <3>1, <3>2 DEF From
  <2>6. second \in cuts /\ cuts \subseteq Nat
    <3>1. Seqs(entries) \subseteq Nat
      BY DEF Seqs, Below
    <3> QED
      BY <1>1, <2>4, <2>5, <3>1
  <2> HIDE DEF cuts, older
  <2>7. Min(cuts) \in Nat /\ Min(cuts) <= second
    BY <2>6, LeastNumber
  <2> QED
    BY <2>1, <2>2, <2>4, <2>7 DEF From
<1> QED
  BY <1>2, <1>3

\* Updates that were stored or are retained: the one with the higher key is
\* the newer, and what shares a key is one update.
InOrder(entries) ==
  \A one, other \in entries :
    one.form # "invalid" /\ other.form # "invalid" /\ one.seq < other.seq => one.n < other.n
SameUpdate(entries) ==
  \A one, other \in entries :
    one.seq = other.seq => one.n = other.n /\ (one.form = "invalid" <=> other.form = "invalid")
Accepted(entries) == \A entry \in entries : entry.n \in Nat /\ entry.n <= accepted

Numbered(entries) == InOrder(entries) /\ SameUpdate(entries) /\ Accepted(entries)

\* What came after an update that is stored is stored or retained or lost, and
\* what came after one that is retained is retained or lost.
NothingIsSkipped ==
  /\ \A low \in Kept(stored) : low..accepted \subseteq Kept(stored) \cup Kept(updates) \cup lost
  /\ \A low \in Kept(updates) : low..accepted \subseteq Kept(updates) \cup lost

\* What is retained and not stored yet is newer than all that is stored.
NewestComesLast ==
  \A n \in Kept(updates) \ Kept(stored) : \A older \in Kept(stored) : older < n

\* What the chain puts is retained: nothing is trimmed before it was stored.
PutsAreRetained == \A write \in Range(persist) : write.op = "put" => write.entries \subseteq updates

OrderInv == /\ accepted \in Nat
            /\ Numbered(stored \cup updates)
            /\ NothingIsSkipped /\ NewestComesLast
            /\ \A entry \in updates : entry.form = "canonical"
            /\ IsChain(persist) /\ PutsAreRetained

\* A room starts with what an older version stored, of which the first decodes.
LEMMA OrderInit == Init => OrderInv
<1> SUFFICES ASSUME Init PROVE OrderInv
  OBVIOUS
<1>1. updates = {} /\ persist = <<>> /\ lost = {}
  BY DEF Init
<1>2. IsChain(persist) /\ PutsAreRetained
  BY <1>1, ShortChains DEF PutsAreRetained
<1>3. CASE stored = {} /\ accepted = 0
  BY <1>1, <1>2, <1>3 DEF OrderInv, Numbered, InOrder, SameUpdate, Accepted,
                          NothingIsSkipped, NewestComesLast, Kept
<1>4. CASE stored = OldStorage /\ accepted = 1
  <2>1. /\ stored \cup updates = OldStorage
        /\ \A entry \in OldStorage :
             \/ entry.seq = 0 /\ entry.n = 1 /\ entry.form = "mixed"
             \/ entry.seq = 1 /\ entry.n = 0 /\ entry.form = "invalid"
    BY <1>1, <1>4 DEF OldStorage
  <2>2. Numbered(stored \cup updates)
    <3>1. InOrder(OldStorage) /\ SameUpdate(OldStorage)
      BY <2>1 DEF InOrder, SameUpdate
    <3>2. Accepted(OldStorage)
      BY <1>4, <2>1 DEF Accepted
    <3> QED
      BY <2>1, <3>1, <3>2 DEF Numbered
  <2>3. NothingIsSkipped /\ NewestComesLast
    <3>1. Kept(updates) = {} /\ \A n \in Kept(stored) : n = 1
      BY <1>1, <1>4, <2>1 DEF Kept
    <3> QED
      BY <1>4, <3>1 DEF NothingIsSkipped, NewestComesLast
  <2> QED
    BY <1>1, <1>2, <1>4, <2>2, <2>3 DEF OrderInv
<1> QED
  BY <1>3, <1>4 DEF Init

\* A part of what is in order is in order.
LEMMA PartIsNumbered ==
    ASSUME NEW entries, Numbered(entries), NEW part, part \subseteq entries
    PROVE  Numbered(part)
  BY DEF Numbered, InOrder, SameUpdate, Accepted

\* The property, from the invariant.
LEMMA OrderLeavesNoHole == OrderInv => RestartLeavesNoHole
<1> SUFFICES ASSUME OrderInv, NEW low \in Kept(stored), NEW high \in Kept(stored),
                    NEW n \in low..high
             PROVE  n \in Kept(stored) \cup lost
  BY DEF RestartLeavesNoHole, Kept
<1>1. /\ \A k \in Kept(stored) : k \in Nat /\ k <= accepted
      /\ accepted \in Nat
  BY DEF OrderInv, Numbered, Accepted, Kept
<1>2. n \in low..accepted
  BY <1>1
<1>3. n \in Kept(stored) \cup Kept(updates) \cup lost
  BY <1>2 DEF OrderInv, NothingIsSkipped
<1>4. ~(high < n)
  BY <1>1
<1> QED
  BY <1>3, <1>4 DEF OrderInv, NewestComesLast

\* The oldest write is done: what a put stores was retained, and a delete
\* leaves what is retained.
LEMMA StoreKeepsOrder ==
    ASSUME LogInv, OrderInv, StoreNext
    PROVE  OrderInv'
<1>1. PICK writes, puts, deletes : Pending(writes, puts, deletes)
  BY DEF LogInv, LogIsSound, StoreNext
<1>2. /\ persist # <<>> /\ UNCHANGED <<updates, accepted, lost>>
      /\ rejected = FALSE /\ Written(puts, deletes) = updates /\ Unique(stored)
  BY <1>1 DEF StoreNext, LogInv, LogIsSound, StoredIsSound, Pending
<1>3. ~Rejects(Head(persist)) /\ persist' = Tail(persist)
  <2>1. rejected' = FALSE
    BY StoreKeepsLog DEF LogInv, LogIsSound
  <2> QED
    BY <2>1 DEF StoreNext
<1>4. IsChain(persist)' /\ PutsAreRetained'
  BY <1>2, <1>3, ChainSplit DEF OrderInv, PutsAreRetained
<1>5. /\ stored' \subseteq stored \cup updates
      /\ \/ stored' = updates
         \/ updates \subseteq stored' /\ Kept(stored) \subseteq Kept(stored')
         \/ stored' = stored
  <2>1. CASE /\ Head(persist).op \in {"setAlarm", "deleteStray"}
             /\ Tail(persist) = Mutation(puts, deletes)
    BY <1>3, <2>1 DEF StoreNext
  <2>2. CASE /\ Head(persist) = [op |-> "put", entries |-> puts] /\ puts # {}
             /\ Written(puts, deletes) = updates
    <3>1. stored' = {one \in stored : one.seq \notin Seqs(puts)} \cup puts
      BY <1>3, <2>2 DEF StoreNext
    <3>2. puts \subseteq updates
      <4>1. Head(persist) \in Range(persist)
        BY <1>2, ChainSplit DEF OrderInv
      <4> QED
        BY <2>2, <4>1 DEF OrderInv, PutsAreRetained
    <3>3. updates \subseteq stored'
      BY <2>2, <3>1 DEF Written
    <3>4. ASSUME NEW n \in Kept(stored) PROVE n \in Kept(stored')
      <4>1. PICK one \in stored : one.form # "invalid" /\ one.n = n
        BY DEF Kept
      <4>2. CASE one.seq \notin Seqs(puts)
        BY <3>1, <4>1, <4>2 DEF Kept
      <4>3. CASE one.seq \in Seqs(puts)
        <5>1. PICK other \in puts : other.seq = one.seq
          BY <4>3 DEF Seqs
        <5>2. other.n = n /\ other.form # "invalid" /\ other \in stored'
          BY <3>1, <3>2, <4>1, <5>1 DEF OrderInv, Numbered, SameUpdate
        <5> QED
          BY <5>2 DEF Kept
      <4> QED
        BY <4>2, <4>3
    <3> QED
      BY <3>1, <3>2, <3>3, <3>4
  <2>3. CASE /\ Head(persist) = [op |-> "delete", seqs |-> deletes] /\ puts = {}
    <3>1. stored' = {one \in stored : one.seq \notin deletes}
      BY <1>3, <2>3 DEF StoreNext
    <3>2. stored' = updates
      BY <1>2, <2>3, <3>1 DEF Written, Seqs
    <3> QED
      BY <3>1, <3>2
  <2> QED
    BY <1>1, <1>2, <2>1, <2>2, <2>3, PendingSplit
<1>6. Numbered(stored' \cup updates)
  BY <1>5, PartIsNumbered DEF OrderInv
<1>7. Numbered(stored \cup updates)'
  BY <1>2, <1>6 DEF Numbered, InOrder, SameUpdate, Accepted
<1>8. Kept(stored') \subseteq Kept(stored) \cup Kept(updates)
  BY <1>5 DEF Kept
<1>9. NothingIsSkipped'
  <2>1. /\ \A low \in Kept(stored) : low..accepted \subseteq Kept(stored) \cup Kept(updates) \cup lost
        /\ \A low \in Kept(updates) : low..accepted \subseteq Kept(updates) \cup lost
    BY DEF OrderInv, NothingIsSkipped
  <2>2. Kept(stored') = Kept(updates) \/ Kept(stored) \subseteq Kept(stored')
    BY <1>5
  <2>3. Kept(updates)' = Kept(updates) /\ Kept(stored)' = Kept(stored')
    BY <1>2
  <2>4. \A low \in Kept(stored') : low..accepted \subseteq Kept(stored') \cup Kept(updates) \cup lost
    BY <1>8, <2>1, <2>2
  <2> QED
    BY <1>2, <2>1, <2>3, <2>4 DEF NothingIsSkipped
<1>10. NewestComesLast'
  <2>1. CASE updates \subseteq stored'
    <3>1. Kept(updates) \subseteq Kept(stored')
      BY <2>1 DEF Kept
    <3> QED
      BY <1>2, <3>1 DEF NewestComesLast
  <2>2. CASE stored' = stored
    BY <1>2, <2>2 DEF OrderInv, NewestComesLast
  <2> QED
    BY <1>5, <2>1, <2>2
<1> QED
  BY <1>2, <1>4, <1>7, <1>9, <1>10 DEF OrderInv

\* A restart: the log is the end of what decodes.
LEMMA BootKeepsOrder ==
    ASSUME LogInv, OrderInv, Boot
    PROVE  OrderInv'
<1> DEFINE decoded == {entry \in stored : entry.form # "invalid"}
           canonical == {[entry EXCEPT !.form = "canonical"] : entry \in decoded}
           log == Trimmed(canonical)
           keys == IF stray THEN <<[op |-> "deleteStray"]>> ELSE <<>>
           puts == log \ stored
           deletes == Seqs(stored) \ Seqs(log)
<1>1. /\ persist' = keys \o Mutation(puts, deletes) /\ updates' = log
      /\ stored' = stored /\ UNCHANGED <<accepted, lost>> /\ updates = {}
  BY DEF Boot, storeVars, LogInv, LogIsSound
<1>2. PICK bound \in Nat : Below(stored, bound)
  BY DEF LogInv, StoredIsSound
<1>3. /\ \A entry \in canonical : /\ entry.form = "canonical"
                                  /\ \E one \in stored : /\ one.form # "invalid"
                                                         /\ entry.seq = one.seq /\ entry.n = one.n
      /\ \A one \in stored : one.form # "invalid" =>
           \E entry \in canonical : entry.seq = one.seq /\ entry.n = one.n
  <2>1. ASSUME NEW one \in decoded, NEW entry, entry = [one EXCEPT !.form = "canonical"]
        PROVE  entry.form = "canonical" /\ entry.seq = one.seq /\ entry.n = one.n
    BY <2>1
  <2>2. ASSUME NEW entry \in canonical
        PROVE  /\ entry.form = "canonical"
               /\ \E one \in stored : one.form # "invalid" /\ entry.seq = one.seq /\ entry.n = one.n
    <3>1. PICK one \in decoded : entry = [one EXCEPT !.form = "canonical"]
      OBVIOUS
    <3> QED
      BY <2>1, <3>1
  <2>3. ASSUME NEW one \in stored, one.form # "invalid"
        PROVE  \E entry \in canonical : entry.seq = one.seq /\ entry.n = one.n
    <3>1. one \in decoded
      BY <2>3
    <3>2. PICK entry : entry = [one EXCEPT !.form = "canonical"]
      OBVIOUS
    <3>3. entry \in canonical
      BY <3>1, <3>2
    <3> QED
      BY <2>1, <3>1, <3>2, <3>3
  <2> QED
    BY <2>2, <2>3
<1>4. \A entry \in log : entry \in canonical
  BY TrimmedIsSubset
<1>5. Below(canonical, bound)
  BY <1>2, <1>3 DEF Below
<1>6. \A one \in log, other \in canonical : other.seq >= one.seq => other \in log
  BY <1>5, TrimmedIsTheEnd
<1>7. IsChain(persist)' /\ PutsAreRetained'
  <2>1. IsChain(keys) /\ \A write \in Range(keys) : write.op # "put"
    BY ShortChains
  <2>2. /\ IsChain(Mutation(puts, deletes))
        /\ \A write \in Range(Mutation(puts, deletes)) : write.op = "put" => write.entries \subseteq log
    <3> HIDE DEF log, puts, deletes
    <3>1. ASSUME NEW write \in Range(Mutation(puts, deletes)), write.op = "put"
          PROVE  write.entries \subseteq log
      <4>1. write = [op |-> "put", entries |-> puts]
        BY <3>1, MutationIsChain
      <4>2. puts \subseteq log
        BY DEF puts
      <4> QED
        BY <4>1, <4>2
    <3> QED
      BY <3>1, MutationIsChain
  <2> HIDE DEF keys, puts, deletes, log
  <2>3. IsChain(keys \o Mutation(puts, deletes))
        /\ Range(keys \o Mutation(puts, deletes)) = Range(keys) \cup Range(Mutation(puts, deletes))
    BY <2>1, <2>2, ChainsJoined
  <2> QED
    BY <1>1, <2>1, <2>2, <2>3 DEF PutsAreRetained
<1> HIDE DEF log, canonical, decoded, keys, puts, deletes
<1>8. Numbered(stored) /\ accepted \in Nat
  BY <1>1 DEF OrderInv
<1>9. Numbered(stored \cup log)
  <2>1. \A entry \in stored \cup log : \E one \in stored :
          entry.seq = one.seq /\ entry.n = one.n /\ (entry.form = "invalid" <=> one.form = "invalid")
    BY <1>3, <1>4
  <2>2. InOrder(stored \cup log)
    BY <1>8, <2>1 DEF Numbered, InOrder
  <2>3. SameUpdate(stored \cup log)
    BY <1>8, <2>1 DEF Numbered, SameUpdate
  <2>4. Accepted(stored \cup log)
    BY <1>8, <2>1 DEF Numbered, Accepted
  <2> QED
    BY <2>2, <2>3, <2>4 DEF Numbered
<1>10. Numbered(stored \cup updates)'
  BY <1>1, <1>9 DEF Numbered, InOrder, SameUpdate, Accepted
<1>11. Kept(log) \subseteq Kept(stored)
  BY <1>3, <1>4 DEF Kept
<1>12. \A low \in Kept(stored) : low..accepted \subseteq Kept(stored) \cup lost
  <2>1. Kept(updates) = {}
    BY <1>1 DEF Kept
  <2> QED
    BY <2>1 DEF OrderInv, NothingIsSkipped
<1>13. ASSUME NEW low \in Kept(log), NEW n \in low..accepted PROVE n \in Kept(log) \cup lost
  <2>1. CASE n \in Kept(stored)
    <3>1. PICK one \in log : one.n = low
      BY DEF Kept
    <3>2. PICK other \in canonical : other.n = n
      BY <1>3, <2>1 DEF Kept
    <3>3. one \in canonical
      BY <1>4
    <3>4. PICK a \in stored : a.form # "invalid" /\ one.seq = a.seq /\ a.n = low
      BY <1>3, <3>1, <3>3
    <3>5. PICK b \in stored : b.form # "invalid" /\ other.seq = b.seq /\ b.n = n
      BY <1>3, <3>2
    <3>6. ~(b.n < a.n) /\ a.seq \in Nat /\ b.seq \in Nat
      BY <1>2, <1>8, <3>4, <3>5 DEF Numbered, Accepted, Below
    <3>7. ~(b.seq < a.seq)
      BY <1>8, <3>4, <3>5, <3>6 DEF Numbered, InOrder
    <3>8. other.seq >= one.seq
      BY <3>4, <3>5, <3>6, <3>7
    <3>9. other \in log /\ other.form # "invalid"
      BY <1>3, <1>6, <3>8
    <3> QED
      BY <3>2, <3>9 DEF Kept
  <2> QED
    BY <1>11, <1>12, <2>1
<1>14. NothingIsSkipped' /\ NewestComesLast'
  BY <1>1, <1>11, <1>12, <1>13 DEF NothingIsSkipped, NewestComesLast
<1>15. \A entry \in log : entry.form = "canonical"
  BY <1>3, <1>4
<1> QED
  BY <1>1, <1>7, <1>8, <1>10, <1>14, <1>15 DEF OrderInv

\* A frame is the newest of the log, and stays when the log is trimmed.
LEMMA FrameKeepsOrder ==
    ASSUME LogInv, OrderInv, NEW s \in Sockets, NEW size \in Sizes, DocumentFrame(s, size)
    PROVE  OrderInv'
<1>1. PICK entry : entry = [seq |-> nextSeq, n |-> accepted + 1, size |-> size,
                            at |-> now, form |-> "canonical"]
  OBVIOUS
<1>2. PICK log : log = updates \cup {entry}
  OBVIOUS
<1>3. /\ rejected = FALSE /\ persist = <<>> /\ stored = updates
      /\ nextSeq \in Nat /\ Below(updates, nextSeq)
      /\ accepted \in Nat /\ Numbered(updates)
  BY NothingPending DEF LogInv, LogIsSound, OrderInv, DocumentFrame, Awake
<1>4. /\ updates' = Trimmed(log) /\ stored' = updates
      /\ accepted' = accepted + 1 /\ lost' = lost
      /\ persist' = <<>> \o (ExpiryOps \o Mutation({entry}, Seqs(log \ Trimmed(log))))
  BY <1>1, <1>2, <1>3 DEF DocumentFrame, storeVars, Chained, DeadlineFirst
<1>5. /\ entry.seq = nextSeq /\ entry.n = accepted + 1 /\ entry.form = "canonical"
      /\ entry.size \in Nat /\ entry.size <= MaxBytes
  BY <1>1, RelayAssumption
<1>6. Below(log, nextSeq + 1) /\ nextSeq + 1 \in Nat /\ entry \in log
  BY <1>2, <1>3, <1>5 DEF Below
<1>7. entry \in Trimmed(log)
  <2>1. \A other \in log : other # entry => other.seq < entry.seq
    BY <1>2, <1>3, <1>5 DEF Below
  <2> QED
    BY <1>5, <1>6, <2>1, TrimmedKeepsTheNewest
<1>8. Trimmed(log) \subseteq log
  BY TrimmedIsSubset
<1>9. \A one \in Trimmed(log), other \in log : other.seq >= one.seq => other \in Trimmed(log)
  BY <1>6, TrimmedIsTheEnd
<1>10. IsChain(persist)' /\ PutsAreRetained'
  <2> DEFINE deletes == Seqs(log \ Trimmed(log))
             mutation == Mutation({entry}, deletes)
  <2>1. IsChain(ExpiryOps) /\ \A write \in Range(ExpiryOps) : write.op # "put"
    BY ShortChains DEF ExpiryOps
  <2>2. /\ IsChain(mutation)
        /\ \A write \in Range(mutation) : write.op = "put" => write.entries = {entry}
    <3> HIDE DEF deletes
    <3> QED
      BY MutationIsChain
  <2> HIDE DEF mutation
  <2>3. /\ IsChain(ExpiryOps \o mutation)
        /\ Range(ExpiryOps \o mutation) = Range(ExpiryOps) \cup Range(mutation)
    BY <2>1, <2>2, ChainsJoined
  <2>4. persist' = ExpiryOps \o mutation
    BY <1>4, <2>3, ChainWithHead DEF mutation
  <2> QED
    BY <1>4, <1>7, <2>1, <2>2, <2>3, <2>4 DEF PutsAreRetained
<1>11. \A one \in updates : one.n \in Nat /\ one.n <= accepted /\ one.seq \in Nat
                            /\ one.seq < nextSeq /\ one.form = "canonical"
  BY <1>3 DEF OrderInv, Numbered, Accepted, Below
<1>12. InOrder(log) /\ SameUpdate(log)
  BY <1>2, <1>3, <1>5, <1>11 DEF Numbered, InOrder, SameUpdate
<1>13. Numbered(stored \cup updates)'
  <2>1. stored' \cup updates' \subseteq log
    BY <1>2, <1>4, <1>8
  <2>2. \A one \in log : one.n \in Nat /\ one.n <= accepted'
    BY <1>2, <1>3, <1>4, <1>5, <1>11
  <2> QED
    BY <1>12, <2>1, <2>2 DEF Numbered, InOrder, SameUpdate, Accepted
<1>14. /\ Kept(stored') = Kept(updates) /\ accepted + 1 \in Kept(updates')
       /\ \A n \in Kept(updates') : n = accepted + 1 \/ n \in Kept(updates)
  BY <1>2, <1>4, <1>5, <1>7, <1>8 DEF Kept
<1>15. \A low \in Kept(updates) : low..accepted \subseteq Kept(updates) \cup lost
  BY DEF OrderInv, NothingIsSkipped
<1>16. ASSUME NEW low \in Kept(updates'), NEW n \in low..(accepted + 1)
       PROVE  n \in Kept(updates') \cup lost
  <2>1. CASE n = accepted + 1
    BY <1>14, <2>1
  <2>2. CASE n # accepted + 1 /\ n \in Kept(updates)
    <3>1. PICK one \in updates' : one.n = low
      BY DEF Kept
    <3>2. PICK other \in updates : other.n = n
      BY <2>2 DEF Kept
    <3>3. one \in log /\ other \in log
      BY <1>2, <1>4, <1>8, <3>1, <3>2
    <3>4. /\ \A e \in log : e.n \in Nat /\ e.seq \in Nat /\ e.form = "canonical"
      BY <1>2, <1>3, <1>5, <1>11
    <3>5. ~(other.n < one.n)
      BY <3>1, <3>2, <3>3, <3>4
    <3>6. ~(other.seq < one.seq)
      BY <1>12, <3>3, <3>4, <3>5 DEF InOrder
    <3>7. other \in updates'
      BY <1>4, <1>9, <3>1, <3>3, <3>4, <3>6
    <3> QED
      BY <3>2, <3>3, <3>4, <3>7 DEF Kept
  <2>3. CASE n # accepted + 1 /\ n \notin Kept(updates)
    <3>1. low \in Kept(updates) /\ low \in Nat
      <4>1. low \in Nat
        BY <1>3, <1>11, <1>14 DEF Kept
      <4> QED
        BY <1>3, <1>14, <2>3, <4>1
    <3>2. n \in low..accepted
      BY <1>3, <2>3, <3>1
    <3> QED
      BY <1>15, <2>3, <3>1, <3>2
  <2> QED
    BY <2>1, <2>2, <2>3
<1>17. ASSUME NEW low \in Kept(updates), NEW n \in low..(accepted + 1)
       PROVE  n \in Kept(updates) \cup Kept(updates') \cup lost
  <2>1. CASE n = accepted + 1
    BY <1>14, <2>1
  <2>2. CASE n # accepted + 1
    <3>1. low \in Nat
      BY <1>11 DEF Kept
    <3>2. n \in low..accepted
      BY <1>3, <2>2, <3>1
    <3> QED
      BY <1>15, <3>2
  <2> QED
    BY <2>1, <2>2
<1>18. NothingIsSkipped'
  BY <1>4, <1>14, <1>16, <1>17 DEF NothingIsSkipped
<1>19. NewestComesLast'
  <2>1. \A older \in Kept(updates) : older \in Nat /\ older <= accepted
    BY <1>11 DEF Kept
  <2>2. Kept(updates)' = Kept(updates') /\ Kept(stored)' = Kept(updates)
    BY <1>14
  <2>3. ASSUME NEW n \in Kept(updates'), n \notin Kept(updates), NEW older \in Kept(updates)
        PROVE  older < n
    BY <1>3, <1>14, <2>1, <2>3
  <2> QED
    BY <2>2, <2>3 DEF NewestComesLast
<1>20. \A one \in updates' : one.form = "canonical"
  <2>1. \A one \in log : one.form = "canonical"
    BY <1>2, <1>5, <1>11
  <2> QED
    BY <1>4, <1>8, <2>1
<1> QED
  <2>1. accepted' \in Nat
    BY <1>3, <1>4
  <2> QED
    BY <2>1, <1>10, <1>13, <1>18, <1>19, <1>20 DEF OrderInv

\* A step that leaves the log and its storage alone, and puts nothing.
LEMMA QuietKeepsOrder ==
    ASSUME OrderInv, UNCHANGED <<updates, stored, accepted, lost>>,
           IsChain(persist'),
           \A write \in Range(persist') : write.op = "put" => write \in Range(persist)
    PROVE  OrderInv'
<1>1. PutsAreRetained'
  BY DEF OrderInv, PutsAreRetained
<1>2. Numbered(stored \cup updates)'
  BY DEF OrderInv, Numbered, InOrder, SameUpdate, Accepted
<1>3. NothingIsSkipped' /\ NewestComesLast'
  BY DEF OrderInv, NothingIsSkipped, NewestComesLast, Kept
<1> QED
  BY <1>1, <1>2, <1>3 DEF OrderInv

\* A drop forgets the log, and counts what was not stored among the lost.
LEMMA DropKeepsOrder ==
    ASSUME OrderInv, Drop
    PROVE  OrderInv'
<1> DEFINE missing == {entry.n : entry \in {e \in updates : e.seq \notin Seqs(stored)}}
<1>1. /\ updates' = {} /\ persist' = <<>> /\ lost' = lost \cup missing
      /\ stored' = stored /\ accepted' = accepted
  BY DEF Drop, storeVars
<1>2. Kept(updates) \subseteq Kept(stored) \cup missing
  <2> SUFFICES ASSUME NEW n \in Kept(updates), n \notin missing PROVE n \in Kept(stored)
    OBVIOUS
  <2>1. PICK entry \in updates : entry.n = n /\ entry.form # "invalid"
    BY DEF Kept
  <2>2. entry.seq \in Seqs(stored)
    BY <2>1
  <2>3. PICK one \in stored : one.seq = entry.seq
    BY <2>2 DEF Seqs
  <2>4. one.n = n /\ one.form # "invalid"
    BY <2>1, <2>3 DEF OrderInv, Numbered, SameUpdate
  <2> QED
    BY <2>4 DEF Kept
<1> HIDE DEF missing
<1>3. NothingIsSkipped' /\ NewestComesLast'
  <2>1. \A low \in Kept(stored) : low..accepted \subseteq Kept(stored) \cup Kept(updates) \cup lost
    BY DEF OrderInv, NothingIsSkipped
  <2>2. Kept({}) = {}
    BY DEF Kept
  <2> QED
    BY <1>1, <1>2, <2>1, <2>2 DEF NothingIsSkipped, NewestComesLast
<1>4. Numbered(stored \cup updates)'
  <2>1. Numbered(stored)
    BY PartIsNumbered DEF OrderInv
  <2> QED
    BY <1>1, <2>1 DEF Numbered, InOrder, SameUpdate, Accepted
<1>5. IsChain(persist)' /\ PutsAreRetained'
  BY <1>1, ShortChains DEF PutsAreRetained
<1> QED
  BY <1>1, <1>3, <1>4, <1>5 DEF OrderInv

\* A wiped room has nothing to miss.
LEMMA WipeKeepsOrder ==
    ASSUME OrderInv, updates' = {}, stored' = {}, UNCHANGED <<persist, accepted, lost>>, persist = <<>>
    PROVE  OrderInv'
<1>1. Kept({}) = {}
  BY DEF Kept
<1>2. NothingIsSkipped' /\ NewestComesLast'
  BY <1>1 DEF NothingIsSkipped, NewestComesLast
<1>3. Numbered(stored \cup updates)'
  BY DEF Numbered, InOrder, SameUpdate, Accepted
<1>4. IsChain(persist)' /\ PutsAreRetained'
  BY ShortChains DEF PutsAreRetained
<1> QED
  BY <1>2, <1>3, <1>4 DEF OrderInv

\* Every step keeps the order of what was stored and what is retained.
LEMMA OrderStep ==
    ASSUME LogInv, OrderInv, [Next]_vars
    PROVE  OrderInv'
<1>1. CASE UNCHANGED vars \/ Booted \/ Tick \/ \E s \in Sockets : Leave(s)
  <2>1. UNCHANGED <<updates, stored, accepted, lost, persist>>
    BY <1>1 DEF vars, Booted, Tick, Leave, memVars, storeVars
  <2> QED
    BY <2>1, QuietKeepsOrder DEF OrderInv
<1>2. ASSUME NEW s \in Sockets, Join(s) \/ TransientFrame(s)
      PROVE  OrderInv'
  <2>1. /\ UNCHANGED <<updates, stored, accepted, lost>>
        /\ persist = <<>> /\ persist' = <<>> \o ExpiryOps
    BY <1>2 DEF Join, TransientFrame, Awake, Chained, storeVars, LogInv, LogIsSound
  <2>2. IsChain(ExpiryOps) /\ \A write \in Range(ExpiryOps) : write.op # "put"
    BY ShortChains DEF ExpiryOps
  <2>3. persist' = ExpiryOps
    BY <2>1, <2>2, ChainWithHead
  <2> QED
    BY <2>1, <2>2, <2>3, QuietKeepsOrder
<1>3. CASE Alarm
  <2>1. CASE sockets # {}
    <3>1. UNCHANGED <<updates, stored, accepted, lost, persist>>
      BY <1>3, <2>1 DEF Alarm
    <3> QED
      BY <3>1, QuietKeepsOrder DEF OrderInv
  <2>2. CASE sockets = {}
    <3>1. updates' = {} /\ stored' = {} /\ UNCHANGED <<persist, accepted, lost>> /\ persist = <<>>
      BY <1>3, <2>2 DEF Alarm, StorageWiped, Awake
    <3> QED
      BY <3>1, WipeKeepsOrder
  <2> QED
    BY <2>1, <2>2
<1> QED
  BY <1>1, <1>2, <1>3, BootKeepsOrder, DropKeepsOrder, StoreKeepsOrder, FrameKeepsOrder DEF Next

-----------------------------------------------------------------------------
\* Where the storage takes every frame the room retains, what a restart would
\* replay has no hole: between the oldest and the newest update in storage only
\* those are missing that a drop caught before they were written, whatever was
\* trimmed, repaired or wiped meanwhile (RetainedUpdateLog.append, trim and
\* restore, writeMutation and the constructor).
THEOREM RestartsReplayEverything ==
    ASSUME NothingRefused
    PROVE  Spec => []RestartLeavesNoHole
<1>1. Init => LogInv /\ OrderInv
  BY LogInit, OrderInit
<1>2. (LogInv /\ OrderInv) /\ [Next]_vars => (LogInv /\ OrderInv)'
  BY LogStep, OrderStep
<1>3. LogInv /\ OrderInv => RestartLeavesNoHole
  BY OrderLeavesNoHole
<1> QED
  BY <1>1, <1>2, <1>3, PTL DEF Spec
=============================================================================
