----------------------------- MODULE SyncProofs ------------------------------
(***************************************************************************)
(* Proofs about SyncOutbox, for every finite set of sessions, every set of *)
(* tenants and keys, and every bound on batches and on the table.          *)
(***************************************************************************)
EXTENDS SyncProperties, FiniteSetTheorems, TLAPS

-----------------------------------------------------------------------------
(* The rows of a key, and what an insertion does to them.                  *)

RowsOf(table, key) == {i \in DOMAIN table : table[i].key = key}

Stored(key) == \E i \in DOMAIN rows : rows[i].key = key

\* The sessions that have added a row for the key and not yet committed it.
Pending(key) ==
    {s \in Sessions : sess[s] # Idle /\ \E i \in DOMAIN sess[s].added : sess[s].added[i] = key}

LEMMA RowsFinite ==
    ASSUME NEW S, NEW table \in Seq(S), NEW key
    PROVE  /\ IsFiniteSet(RowsOf(table, key))
           /\ Cardinality(RowsOf(table, key)) \in Nat
           /\ Cardinality(RowsOf(table, key)) > 0 <=> RowsOf(table, key) # {}
<1>1. Len(table) \in Nat /\ DOMAIN table = 1 .. Len(table)
  OBVIOUS
<1>2. IsFiniteSet(1 .. Len(table))
  BY <1>1, FS_Interval
<1>3. RowsOf(table, key) \subseteq 1 .. Len(table)
  BY <1>1 DEF RowsOf
<1>4. IsFiniteSet(RowsOf(table, key))
  BY <1>2, <1>3, FS_Subset
<1>5. Cardinality(RowsOf(table, key)) \in Nat
  BY <1>4, FS_CardinalityType
<1>6. Cardinality(RowsOf(table, key)) = 0 <=> RowsOf(table, key) = {}
  BY <1>4, FS_EmptySet
<1> QED
  BY <1>4, <1>5, <1>6

\* Copies counts the rows of a key.
LEMMA CopiesFacts ==
    ASSUME TypeOK, NEW key
    PROVE  /\ Copies(key) = Cardinality(RowsOf(rows, key))
           /\ Copies(key) \in Nat
           /\ Copies(key) > 0 <=> Stored(key)
<1>1. Copies(key) = Cardinality(RowsOf(rows, key))
  BY DEF Copies, RowsOf
<1>2. rows \in Seq(SyncEvent)
  BY DEF TypeOK
<1>3. RowsOf(rows, key) # {} <=> Stored(key)
  BY DEF RowsOf, Stored
<1> QED
  BY <1>1, <1>2, <1>3, RowsFinite

\* Rows without the key leave its number alone, one with it adds one.
LEMMA InsertedRows ==
    ASSUME NEW table \in Seq(SyncEvent), NEW new \in Seq(SyncEvent), NEW key
    PROVE  /\ RowsOf(table \o new, key) = {} <=> RowsOf(table, key) = {} /\ RowsOf(new, key) = {}
           /\ RowsOf(new, key) = {} =>
                  Cardinality(RowsOf(table \o new, key)) = Cardinality(RowsOf(table, key))
           /\ \A j \in DOMAIN new : RowsOf(new, key) = {j} =>
                  Cardinality(RowsOf(table \o new, key)) = Cardinality(RowsOf(table, key)) + 1
<1> DEFINE both == table \o new
           n    == Len(table)
<1>1. /\ n \in Nat /\ DOMAIN table = 1 .. n
      /\ Len(new) \in Nat /\ DOMAIN new = 1 .. Len(new)
      /\ both \in Seq(SyncEvent) /\ Len(both) = n + Len(new) /\ DOMAIN both = 1 .. Len(both)
  OBVIOUS
<1>2. \A i \in 1 .. n : both[i] = table[i]
  OBVIOUS
<1>3. \A j \in 1 .. Len(new) : both[n + j] = new[j]
  OBVIOUS
<1> HIDE DEF both, n
<1>4. \A i \in DOMAIN both : i \in 1 .. n \/ \E j \in 1 .. Len(new) : i = n + j
  <2>1. \A i \in 1 .. (n + Len(new)) : i \in 1 .. n \/ (i - n \in 1 .. Len(new) /\ i = n + (i - n))
    BY <1>1
  <2> QED
    BY <1>1, <2>1
<1>5. \A j \in 1 .. Len(new) : n + j \in DOMAIN both /\ n + j \notin 1 .. n
  BY <1>1
<1>6. 1 .. n \subseteq DOMAIN both
  BY <1>1
<1>7. RowsOf(both, key) = RowsOf(table, key) \union {n + j : j \in RowsOf(new, key)}
  BY <1>1, <1>2, <1>3, <1>4, <1>5, <1>6 DEF RowsOf
<1>8. ASSUME NEW j \in DOMAIN new, RowsOf(new, key) = {j}
      PROVE  Cardinality(RowsOf(both, key)) = Cardinality(RowsOf(table, key)) + 1
  <2>1. RowsOf(both, key) = RowsOf(table, key) \union {n + j}
    BY <1>7, <1>8
  <2>2. n + j \notin RowsOf(table, key)
    BY <1>1, <1>5 DEF RowsOf
  <2> QED
    BY <2>1, <2>2, RowsFinite, FS_AddElement
<1>9. RowsOf(new, key) = {} => RowsOf(both, key) = RowsOf(table, key)
  BY <1>7
<1>10. RowsOf(both, key) = {} <=> RowsOf(table, key) = {} /\ RowsOf(new, key) = {}
  BY <1>7
<1> QED
  BY <1>8, <1>9, <1>10 DEF both

-----------------------------------------------------------------------------
(* The inductive invariant.                                                *)

\* A session adds a key once.
AddedOnce ==
    \A s \in Sessions : sess[s] # Idle =>
        \A i, j \in DOMAIN sess[s].added : sess[s].added[i] = sess[s].added[j] => i = j

\* Every event of an open batch is still to be looked at, added or stored.
EventsAccounted ==
    \A s \in Sessions : sess[s] # Idle =>
        \A key \in ToSet(sess[s].events) :
            key \in ToSet(sess[s].todo) \union ToSet(sess[s].added) \/ Stored(key)

AckedStored == "batch" \in Commits => \A a \in acked : Stored(a[2])

\* The committed rows of a key and those on their way.
RowsAndPending ==
    \A key \in Keys : Copies(key) + Cardinality(Pending(key)) <= Cardinality(Sessions)

IInv ==
    /\ TypeOK
    /\ AddedOnce
    /\ EventsAccounted
    /\ AckedStored
    /\ RowsAndPending

-----------------------------------------------------------------------------
(* Steps of one session.                                                   *)

LEMMA OpenBatch ==
    ASSUME TypeOK, NEW s \in Sessions, sess[s] # Idle
    PROVE  sess[s] \in Batch
BY DEF TypeOK

LEMMA IdleIsNoBatch == Idle \notin Batch
BY DEF Idle, Batch

LEMMA PendingFacts ==
    ASSUME NEW key
    PROVE  /\ IsFiniteSet(Sessions) /\ Cardinality(Sessions) \in Nat
           /\ Pending(key) \subseteq Sessions
           /\ IsFiniteSet(Pending(key)) /\ Cardinality(Pending(key)) \in Nat
           /\ Cardinality(Pending(key)) <= Cardinality(Sessions)
<1>1. IsFiniteSet(Sessions)
  BY SyncAssumption
<1>2. Pending(key) \subseteq Sessions
  BY DEF Pending
<1> QED
  BY <1>1, <1>2, FS_Subset, FS_CardinalityType

\* As long as the table stays, sessions that add nothing keep the bound.
LEMMA FewerPending ==
    ASSUME IInv, UNCHANGED rows, \A key \in Keys : Pending(key)' \subseteq Pending(key)
    PROVE  RowsAndPending'
<1> SUFFICES ASSUME NEW key \in Keys
             PROVE  Copies(key)' + Cardinality(Pending(key)') <= Cardinality(Sessions)
  BY DEF RowsAndPending
<1>1. Copies(key)' = Copies(key) /\ Copies(key) \in Nat
  BY CopiesFacts DEF Copies, IInv
<1>2. IsFiniteSet(Pending(key)') /\ Cardinality(Pending(key)') <= Cardinality(Pending(key))
      /\ Cardinality(Pending(key)') \in Nat
  BY PendingFacts, FS_Subset, FS_CardinalityType
<1>3. Copies(key) + Cardinality(Pending(key)) <= Cardinality(Sessions)
  BY DEF IInv, RowsAndPending
<1> QED
  BY <1>1, <1>2, <1>3, PendingFacts

LEMMA InitInv == Init => IInv
<1> SUFFICES ASSUME Init PROVE IInv
  OBVIOUS
<1>1. TypeOK
  BY DEF Init, TypeOK
<1>2. AddedOnce /\ EventsAccounted /\ AckedStored
  BY DEF Init, AddedOnce, EventsAccounted, AckedStored
<1>3. RowsAndPending
  <2> SUFFICES ASSUME NEW key \in Keys
               PROVE  Copies(key) + Cardinality(Pending(key)) <= Cardinality(Sessions)
    BY DEF RowsAndPending
  <2>1. ~ Stored(key)
    BY DEF Init, Stored
  <2>2. Copies(key) = 0
    BY <1>1, <2>1, CopiesFacts
  <2> QED
    BY <2>2, PendingFacts
<1> QED
  BY <1>1, <1>2, <1>3 DEF IInv

LEMMA OpenInv ==
    ASSUME IInv, NEW s \in Sessions, NEW tenant \in Tenants,
           NEW events \in BoundedSeq(Keys, MaxBatch), SyncEvents(s, tenant, events)
    PROVE  IInv'
<1> DEFINE r == [op |-> "batch", tenant |-> tenant, events |-> events,
                 todo |-> events, added |-> <<>>]
<1>1. events \in Seq(Keys)
  BY SyncAssumption DEF BoundedSeq, SeqOf
<1>2. r \in Batch /\ r.events = events /\ r.todo = events /\ r.added = <<>>
  BY <1>1 DEF Batch
<1>3. sess' = [sess EXCEPT ![s] = r] /\ UNCHANGED <<rows, acked, job>>
  BY DEF SyncEvents
<1>4. sess \in [Sessions -> {Idle} \union Batch]
  BY DEF IInv, TypeOK
<1>5. sess'[s] = r /\ \A q \in Sessions \ {s} : sess'[q] = sess[q]
  BY <1>3, <1>4
<1> HIDE DEF r
<1>6. TypeOK'
  BY <1>2, <1>3, <1>4 DEF IInv, TypeOK
<1>7. AddedOnce'
  BY <1>2, <1>5 DEF IInv, AddedOnce
<1>8. EventsAccounted'
  BY <1>2, <1>3, <1>5 DEF IInv, EventsAccounted, Stored
<1>9. AckedStored'
  BY <1>3 DEF IInv, AckedStored, Stored
<1>10. \A key \in Keys : Pending(key)' \subseteq Pending(key)
  BY <1>2, <1>5 DEF Pending
<1>11. RowsAndPending'
  BY <1>3, <1>10, FewerPending
<1> QED
  BY <1>6, <1>7, <1>8, <1>9, <1>11 DEF IInv

\* A session that ends without a commit leaves the invariant alone.
LEMMA CloseInv ==
    ASSUME IInv, NEW s \in Sessions, sess' = [sess EXCEPT ![s] = Idle],
           UNCHANGED <<rows, acked, job>>
    PROVE  IInv'
<1>1. sess \in [Sessions -> {Idle} \union Batch]
  BY DEF IInv, TypeOK
<1>2. sess'[s] = Idle /\ \A q \in Sessions \ {s} : sess'[q] = sess[q]
  BY <1>1
<1>3. TypeOK'
  BY <1>1 DEF IInv, TypeOK
<1>4. AddedOnce'
  BY <1>2 DEF IInv, AddedOnce
<1>5. EventsAccounted'
  BY <1>2 DEF IInv, EventsAccounted, Stored
<1>6. AckedStored'
  BY DEF IInv, AckedStored, Stored
<1>7. \A key \in Keys : Pending(key)' \subseteq Pending(key)
  BY <1>2 DEF Pending
<1>8. RowsAndPending'
  BY <1>7, FewerPending
<1> QED
  BY <1>3, <1>4, <1>5, <1>6, <1>8 DEF IInv

-----------------------------------------------------------------------------
(* One pass of the loop: the event at the head is added if there is no row *)
(* for it, neither committed nor of the session itself.                    *)

LEMMA FoundFacts ==
    ASSUME TypeOK, NEW r \in Batch, NEW key
    PROVE  /\ Found(r, key) \in Nat
           /\ Found(r, key) = 0 <=> ~ Stored(key) /\ key \notin ToSet(r.added)
<1> DEFINE own == {i \in DOMAIN r.added : r.added[i] = key}
<1>1. r.added \in Seq(Keys)
  BY DEF Batch
<1>2. Len(r.added) \in Nat /\ DOMAIN r.added = 1 .. Len(r.added)
  BY <1>1
<1>3. IsFiniteSet(own)
  <2>1. IsFiniteSet(1 .. Len(r.added))
    <3>1. 1 \in Int /\ Len(r.added) \in Int
      BY <1>2
    <3> HIDE DEF own
    <3> QED
      BY <3>1, FS_Interval, Zenon
  <2> QED
    BY <1>2, <2>1, FS_Subset
<1>4. Cardinality(own) \in Nat /\ (Cardinality(own) = 0 <=> own = {})
  BY <1>3, FS_CardinalityType, FS_EmptySet
<1>5. own = {} <=> key \notin ToSet(r.added)
  BY DEF ToSet
<1>6. Found(r, key) = Copies(key) + Cardinality(own)
  BY DEF Found
<1> HIDE DEF own
<1> QED
  BY <1>4, <1>5, <1>6, CopiesFacts

LEMMA CheckInv ==
    ASSUME IInv, NEW s \in Sessions, CheckEvent(s)
    PROVE  IInv'
<1> DEFINE r   == sess[s]
           key == Head(r.todo)
           w   == [r EXCEPT !.todo = Tail(@), !.added = Added(r, key)]
<1>1. r # Idle /\ r.todo # <<>> /\ UNCHANGED <<rows, acked, job>>
      /\ sess' = [sess EXCEPT ![s] = IF Found(r, key) > 1 THEN Idle ELSE w]
  BY DEF CheckEvent
<1>2. TypeOK
  BY DEF IInv
<1>3. r \in Batch
  BY <1>1, <1>2, OpenBatch
<1>4. r.todo \in Seq(Keys) /\ r.added \in Seq(Keys) /\ r.events \in Seq(Keys)
  BY <1>3 DEF Batch
<1>5. key \in Keys /\ Tail(r.todo) \in Seq(Keys)
      /\ ToSet(r.todo) \subseteq {key} \union ToSet(Tail(r.todo))
  <2> HIDE DEF r
  <2>1. Len(r.todo) \in Nat \ {0} /\ DOMAIN r.todo = 1 .. Len(r.todo)
        /\ DOMAIN Tail(r.todo) = 1 .. Len(r.todo) - 1
        /\ \A i \in 1 .. Len(r.todo) - 1 : Tail(r.todo)[i] = r.todo[i + 1]
    BY <1>1, <1>4
  <2>2. \A i \in 1 .. Len(r.todo) : i = 1 \/ (i - 1 \in 1 .. Len(r.todo) - 1 /\ i = (i - 1) + 1)
    BY <2>1
  <2> QED
    BY <1>1, <1>4, <2>1, <2>2 DEF ToSet
<1>6. sess \in [Sessions -> {Idle} \union Batch]
  BY <1>2 DEF TypeOK
<1> HIDE DEF r, key, w
<1>7. CASE Found(r, key) > 1
  BY <1>1, <1>7, CloseInv
<1>8. CASE ~ (Found(r, key) > 1)
  <2>1. w \in Batch /\ w.todo = Tail(r.todo) /\ w.added = Added(r, key) /\ w.events = r.events
        /\ Added(r, key) \in Seq(Keys)
    <3>1. Added(r, key) \in Seq(Keys)
      BY <1>4, <1>5 DEF Added
    <3> QED
      BY <1>3, <1>5, <3>1 DEF w, Batch
  <2>2. sess'[s] = w /\ \A q \in Sessions \ {s} : sess'[q] = sess[q]
    BY <1>1, <1>6, <1>8
  <2>3. TypeOK'
    BY <1>1, <1>2, <1>6, <1>8, <2>1 DEF TypeOK
  <2>4. CASE Found(r, key) = 0
    <3>1. ~ Stored(key) /\ key \notin ToSet(r.added)
      BY <1>2, <1>3, <2>4, FoundFacts
    <3>2. w.added = Append(r.added, key)
      BY <2>1, <2>4 DEF Added
    <3>3. /\ DOMAIN r.added = 1 .. Len(r.added) /\ Len(r.added) \in Nat
          /\ DOMAIN w.added = 1 .. Len(r.added) + 1
          /\ \A i \in 1 .. Len(r.added) : w.added[i] = r.added[i]
          /\ w.added[Len(r.added) + 1] = key
      BY <1>4, <1>5, <3>2
    <3>4. \A i \in 1 .. Len(r.added) + 1 : i = Len(r.added) + 1 \/ i \in 1 .. Len(r.added)
      BY <3>3
    <3>5. \A i \in 1 .. Len(r.added) : r.added[i] # key
      BY <3>1, <3>3 DEF ToSet
    <3>6. AddedOnce'
      <4>1. \A i, j \in DOMAIN r.added : r.added[i] = r.added[j] => i = j
        BY <1>1 DEF IInv, AddedOnce, r
      <4>2. \A i, j \in DOMAIN w.added : w.added[i] = w.added[j] => i = j
        BY <3>3, <3>4, <3>5, <4>1
      <4> QED
        BY <2>2, <4>2 DEF IInv, AddedOnce
    <3>7. EventsAccounted'
      <4>1. ToSet(w.added) = ToSet(r.added) \union {key}
        <5>1. \A k : k \in ToSet(w.added) <=> \E i \in 1 .. Len(r.added) + 1 : w.added[i] = k
          BY <3>3 DEF ToSet
        <5>2. \A k : k \in ToSet(r.added) <=> \E i \in 1 .. Len(r.added) : r.added[i] = k
          BY <3>3 DEF ToSet
        <5>3. 1 .. Len(r.added) \subseteq 1 .. Len(r.added) + 1
              /\ Len(r.added) + 1 \in 1 .. Len(r.added) + 1
          BY <3>3
        <5> QED
          BY <3>3, <3>4, <5>1, <5>2, <5>3
      <4>2. \A k \in ToSet(r.events) : k \in ToSet(r.todo) \union ToSet(r.added) \/ Stored(k)
        BY <1>1 DEF IInv, EventsAccounted, r
      <4>3. \A k \in ToSet(w.events) : k \in ToSet(w.todo) \union ToSet(w.added) \/ Stored(k)
        BY <1>5, <2>1, <4>1, <4>2
      <4> QED
        BY <1>1, <2>2, <4>3 DEF IInv, EventsAccounted, Stored
    <3>8. AckedStored'
      BY <1>1 DEF IInv, AckedStored, Stored
    <3>9. RowsAndPending'
      <4> SUFFICES ASSUME NEW k \in Keys
                   PROVE  Copies(k)' + Cardinality(Pending(k)') <= Cardinality(Sessions)
        BY DEF RowsAndPending
      <4>1. Copies(k)' = Copies(k) /\ Copies(k) \in Nat
        BY <1>1, <1>2, CopiesFacts DEF Copies
      <4>2. Pending(k)' \subseteq Sessions
        BY DEF Pending
      <4>3. Cardinality(Pending(k)') <= Cardinality(Sessions) /\ Cardinality(Pending(k)') \in Nat
        BY <4>2, PendingFacts, FS_Subset, FS_CardinalityType
      <4>4. CASE k = key
        <5>1. Copies(k) = 0
          BY <1>2, <3>1, <4>1, <4>4, CopiesFacts
        <5> QED
          BY <4>1, <4>3, <5>1, PendingFacts
      <4>5. CASE k # key
        <5>1. Pending(k)' \subseteq Pending(k)
          <6>1. \A i \in DOMAIN w.added : w.added[i] = k => \E j \in DOMAIN r.added : r.added[j] = k
            BY <3>3, <3>4, <4>5
          <6> QED
            BY <1>1, <2>2, <6>1 DEF Pending, r
        <5>2. Cardinality(Pending(k)') <= Cardinality(Pending(k))
          BY <5>1, PendingFacts, FS_Subset
        <5>3. Copies(k) + Cardinality(Pending(k)) <= Cardinality(Sessions)
          BY DEF IInv, RowsAndPending
        <5> QED
          BY <4>1, <4>3, <5>2, <5>3, PendingFacts
      <4> QED
        BY <4>4, <4>5
    <3> QED
      BY <2>3, <3>6, <3>7, <3>8, <3>9 DEF IInv
  <2>5. CASE Found(r, key) # 0
    <3>1. Stored(key) \/ key \in ToSet(r.added)
      BY <1>2, <1>3, <2>5, FoundFacts
    <3>2. w.added = r.added
      BY <2>1, <2>5 DEF Added
    <3>3. AddedOnce'
      BY <1>1, <2>2, <3>2 DEF IInv, AddedOnce, r
    <3>4. EventsAccounted'
      <4>1. \A k \in ToSet(r.events) : k \in ToSet(r.todo) \union ToSet(r.added) \/ Stored(k)
        BY <1>1 DEF IInv, EventsAccounted, r
      <4>2. \A k \in ToSet(w.events) : k \in ToSet(w.todo) \union ToSet(w.added) \/ Stored(k)
        BY <1>5, <2>1, <3>1, <3>2, <4>1
      <4> QED
        BY <1>1, <2>2, <4>2 DEF IInv, EventsAccounted, Stored
    <3>5. AckedStored'
      BY <1>1 DEF IInv, AckedStored, Stored
    <3>6. \A k \in Keys : Pending(k)' \subseteq Pending(k)
      BY <1>1, <2>2, <3>2 DEF Pending, r
    <3>7. RowsAndPending'
      BY <1>1, <3>6, FewerPending
    <3> QED
      BY <2>3, <3>3, <3>4, <3>5, <3>7 DEF IInv
  <2> QED
    BY <2>4, <2>5
<1> QED
  BY <1>7, <1>8

-----------------------------------------------------------------------------
(* The end of a batch: what it added becomes rows, what it was sent is     *)
(* acknowledged.                                                           *)

LEMMA FinishInv ==
    ASSUME IInv, NEW s \in Sessions, FinishBatch(s)
    PROVE  IInv'
<1> DEFINE r   == sess[s]
           new == [i \in DOMAIN r.added |-> NewEvent(r.tenant, r.added[i])]
<1>1. /\ r # Idle /\ r.todo = <<>> /\ UNCHANGED job
      /\ sess' = [sess EXCEPT ![s] = Idle]
      /\ acked' = acked \union ({r.tenant} \X ToSet(r.events))
      /\ rows' = IF "batch" \in Commits THEN rows \o new ELSE rows
  BY DEF FinishBatch
<1>2. TypeOK /\ rows \in Seq(SyncEvent) /\ sess \in [Sessions -> {Idle} \union Batch]
  BY DEF IInv, TypeOK
<1>3. r \in Batch
  BY <1>1, <1>2, OpenBatch
<1>4. r.tenant \in Tenants /\ r.added \in Seq(Keys) /\ r.events \in Seq(Keys)
  BY <1>3 DEF Batch
<1>5. sess'[s] = Idle /\ \A q \in Sessions \ {s} : sess'[q] = sess[q]
  BY <1>1, <1>2
<1> HIDE DEF r
<1>6. new \in Seq(SyncEvent) /\ DOMAIN new = DOMAIN r.added
      /\ \A i \in DOMAIN r.added : new[i].key = r.added[i]
  <2>1. Len(r.added) \in Nat /\ DOMAIN r.added = 1 .. Len(r.added)
        /\ \A i \in DOMAIN r.added : r.added[i] \in Keys
    BY <1>4
  <2>2. \A i \in DOMAIN r.added : NewEvent(r.tenant, r.added[i]) \in SyncEvent
    BY <1>4, <2>1 DEF NewEvent, SyncEvent
  <2>3. \A i \in DOMAIN r.added : new[i].key = r.added[i]
    BY DEF NewEvent
  <2>4. new \in [1 .. Len(r.added) -> SyncEvent]
    BY <2>1, <2>2
  <2> HIDE DEF new
  <2> QED
    BY <2>1, <2>3, <2>4
<1> HIDE DEF new
<1>7. ToSet(r.events) \subseteq Keys /\ ToSet(r.todo) = {}
  BY <1>1, <1>4 DEF ToSet
<1>8. rows' \in Seq(SyncEvent)
  BY <1>1, <1>2, <1>6
<1>9. TypeOK'
  BY <1>1, <1>2, <1>4, <1>7, <1>8 DEF TypeOK
<1>10. AddedOnce'
  BY <1>5 DEF IInv, AddedOnce
<1>11. \A key : Stored(key)' <=>
           Stored(key) \/ ("batch" \in Commits /\ key \in ToSet(r.added))
  <2> SUFFICES ASSUME NEW key
               PROVE  Stored(key)' <=>
                          Stored(key) \/ ("batch" \in Commits /\ key \in ToSet(r.added))
    OBVIOUS
  <2>1. Stored(key) <=> RowsOf(rows, key) # {}
    BY DEF Stored, RowsOf
  <2>2. Stored(key)' <=> RowsOf(rows', key) # {}
    BY DEF Stored, RowsOf
  <2>3. key \in ToSet(r.added) <=> RowsOf(new, key) # {}
    BY <1>6 DEF ToSet, RowsOf
  <2>4. RowsOf(rows \o new, key) = {} <=> RowsOf(rows, key) = {} /\ RowsOf(new, key) = {}
    BY <1>2, <1>6, InsertedRows
  <2> QED
    BY <1>1, <2>1, <2>2, <2>3, <2>4
<1>12. EventsAccounted'
  BY <1>5, <1>11 DEF IInv, EventsAccounted
<1>13. AckedStored'
  <2> SUFFICES ASSUME "batch" \in Commits, NEW a \in acked'
               PROVE  Stored(a[2])'
    BY DEF AckedStored
  <2>1. CASE a \in acked
    BY <1>11, <2>1 DEF IInv, AckedStored
  <2>2. CASE a \in {r.tenant} \X ToSet(r.events)
    <3>1. a[2] \in ToSet(r.events)
      BY <2>2
    <3>2. a[2] \in ToSet(r.added) \/ Stored(a[2])
      BY <1>1, <1>7, <3>1 DEF IInv, EventsAccounted, r
    <3> QED
      BY <1>11, <3>2
  <2> QED
    BY <1>1, <2>1, <2>2
<1>14. RowsAndPending'
  <2>1. CASE "batch" \notin Commits
    <3>1. \A key \in Keys : Pending(key)' \subseteq Pending(key)
      BY <1>5 DEF Pending
    <3> QED
      BY <1>1, <2>1, <3>1, FewerPending
  <2>2. CASE "batch" \in Commits
    <3> SUFFICES ASSUME NEW key \in Keys
                 PROVE  Copies(key)' + Cardinality(Pending(key)') <= Cardinality(Sessions)
      BY DEF RowsAndPending
    <3>1. Copies(key) = Cardinality(RowsOf(rows, key)) /\ Copies(key) \in Nat
      BY <1>2, CopiesFacts
    <3>2. Copies(key)' = Cardinality(RowsOf(rows \o new, key))
      BY <1>1, <2>2 DEF Copies, RowsOf
    <3>3. Copies(key) + Cardinality(Pending(key)) <= Cardinality(Sessions)
      BY DEF IInv, RowsAndPending
    <3>4. Pending(key)' = Pending(key) \ {s}
      BY <1>5 DEF Pending
    <3>5. CASE key \in ToSet(r.added)
      <4>1. PICK j \in DOMAIN r.added : r.added[j] = key
        BY <3>5 DEF ToSet
      <4>2. RowsOf(new, key) = {j}
        BY <1>1, <1>6, <4>1 DEF RowsOf, IInv, AddedOnce, r
      <4>3. Copies(key)' = Copies(key) + 1
        BY <1>2, <1>6, <3>1, <3>2, <4>1, <4>2, InsertedRows
      <4>4. s \in Pending(key)
        BY <1>1, <4>1 DEF Pending, r
      <4>5. Cardinality(Pending(key)') = Cardinality(Pending(key)) - 1
        BY <3>4, <4>4, PendingFacts, FS_RemoveElement
      <4> QED
        BY <3>1, <3>3, <4>3, <4>5, PendingFacts
    <3>6. CASE key \notin ToSet(r.added)
      <4>1. RowsOf(new, key) = {}
        BY <1>6, <3>6 DEF RowsOf, ToSet
      <4>2. Copies(key)' = Copies(key)
        BY <1>2, <1>6, <3>1, <3>2, <4>1, InsertedRows
      <4>3. Cardinality(Pending(key)') <= Cardinality(Pending(key))
            /\ Cardinality(Pending(key)') \in Nat
        <5>1. Pending(key)' \subseteq Pending(key)
          BY <3>4
        <5> QED
          BY <5>1, PendingFacts, FS_Subset, FS_CardinalityType
      <4> QED
        BY <3>1, <3>3, <4>2, <4>3, PendingFacts
    <3> QED
      BY <3>5, <3>6
  <2> QED
    BY <2>1, <2>2
<1> QED
  BY <1>9, <1>10, <1>12, <1>13, <1>14 DEF IInv

-----------------------------------------------------------------------------
(* The job changes flags and never a key.                                  *)

LEMMA StartInv ==
    ASSUME IInv, NEW tenant \in Tenants, StartJob(tenant)
    PROVE  IInv'
<1>1. job' = [op |-> "job", tenant |-> tenant, events |-> {}] /\ UNCHANGED <<rows, acked, sess>>
  BY DEF StartJob, Polled
<1>2. TypeOK'
  BY <1>1 DEF IInv, TypeOK, Job
<1>3. AddedOnce' /\ EventsAccounted' /\ AckedStored'
  BY <1>1 DEF IInv, AddedOnce, EventsAccounted, AckedStored, Stored
<1>4. \A key \in Keys : Pending(key)' \subseteq Pending(key)
  BY <1>1 DEF Pending
<1>5. RowsAndPending'
  BY <1>1, <1>4, FewerPending
<1> QED
  BY <1>2, <1>3, <1>5 DEF IInv

LEMMA JobInv ==
    ASSUME IInv, FinishJob
    PROVE  IInv'
<1> DEFINE Marked(i) == IF "job" \in Commits /\ i \in job.events
                        THEN [rows[i] EXCEPT !.processed = TRUE] ELSE rows[i]
<1>1. rows' = [i \in DOMAIN rows |-> Marked(i)] /\ job' = Idle /\ UNCHANGED <<acked, sess>>
  BY DEF FinishJob
<1>2. rows \in Seq(SyncEvent) /\ DOMAIN rows = 1 .. Len(rows) /\ Len(rows) \in Nat
      /\ \A i \in DOMAIN rows : rows[i] \in SyncEvent
  BY DEF IInv, TypeOK
<1>3. \A i \in DOMAIN rows : Marked(i) \in SyncEvent /\ Marked(i).key = rows[i].key
  BY <1>2 DEF SyncEvent
<1> HIDE DEF Marked
<1>4. rows' \in Seq(SyncEvent) /\ DOMAIN rows' = DOMAIN rows
      /\ \A i \in DOMAIN rows : rows'[i].key = rows[i].key
  BY <1>1, <1>2, <1>3
<1>5. \A key : RowsOf(rows', key) = RowsOf(rows, key)
  BY <1>4 DEF RowsOf
<1>6. \A key : (Stored(key)' <=> Stored(key)) /\ Copies(key)' = Copies(key)
  BY <1>5 DEF Stored, Copies, RowsOf
<1>7. TypeOK'
  BY <1>1, <1>4 DEF IInv, TypeOK
<1>8. AddedOnce' /\ EventsAccounted' /\ AckedStored'
  BY <1>1, <1>6 DEF IInv, AddedOnce, EventsAccounted, AckedStored
<1>9. RowsAndPending'
  <2>1. \A key : Pending(key)' = Pending(key)
    BY <1>1 DEF Pending
  <2> QED
    BY <1>6, <2>1 DEF IInv, RowsAndPending
<1> QED
  BY <1>7, <1>8, <1>9 DEF IInv

LEMMA NextInv == IInv /\ [Next]_vars => IInv'
<1> SUFFICES ASSUME IInv, [Next]_vars PROVE IInv'
  OBVIOUS
<1>1. ASSUME NEW s \in Sessions, NEW tenant \in Tenants, NEW events \in BoundedSeq(Keys, MaxBatch),
             SyncEvents(s, tenant, events)
      PROVE  IInv'
  BY <1>1, OpenInv
<1>2. ASSUME NEW s \in Sessions, CheckEvent(s)
      PROVE  IInv'
  BY <1>2, CheckInv
<1>3. ASSUME NEW s \in Sessions, FinishBatch(s)
      PROVE  IInv'
  BY <1>3, FinishInv
<1>4. ASSUME NEW s \in Sessions, Abort(s)
      PROVE  IInv'
  BY <1>4, CloseInv DEF Abort
<1>5. ASSUME NEW tenant \in Tenants, StartJob(tenant)
      PROVE  IInv'
  BY <1>5, StartInv
<1>6. CASE FinishJob
  BY <1>6, JobInv
<1>7. CASE UNCHANGED vars
  <2>1. TypeOK' /\ AddedOnce' /\ EventsAccounted' /\ AckedStored'
    BY <1>7 DEF vars, IInv, TypeOK, AddedOnce, EventsAccounted, AckedStored, Stored
  <2>2. RowsAndPending'
    BY <1>7 DEF vars, IInv, RowsAndPending, Copies, Pending
  <2> QED
    BY <2>1, <2>2 DEF IInv
<1> QED
  BY <1>1, <1>2, <1>3, <1>4, <1>5, <1>6, <1>7 DEF Next

-----------------------------------------------------------------------------
(***************************************************************************)
(* Every reachable state satisfies the inductive invariant.                *)
(***************************************************************************)
THEOREM Invariance == Spec => []IInv
BY InitInv, NextInv, PTL DEF Spec

(***************************************************************************)
(* Rows, acknowledgements, open batches and the job keep their types,      *)
(* however long a batch is and however many rows there are.                *)
(***************************************************************************)
THEOREM TypeCorrect == Spec => []TypeOK
<1>1. IInv => TypeOK
  BY DEF IInv
<1> QED
  BY <1>1, Invariance, PTL

(***************************************************************************)
(* If the route commits, an acknowledged event has a row, whatever batches *)
(* overlap, fail or are sent again.  In the repository the route does not  *)
(* commit, and no batch is ever stored (services/sync.py:17-49,            *)
(* api/v1/sync.py:20-36).                                                  *)
(***************************************************************************)
THEOREM AcknowledgedEventsAreStored ==
    ASSUME "batch" \in Commits
    PROVE  Spec => []AcknowledgedIsStored
<1>1. IInv => AcknowledgedIsStored
  <2> SUFFICES ASSUME IInv, NEW a \in acked
               PROVE  Copies(a[2]) > 0
    BY DEF AcknowledgedIsStored
  <2> QED
    BY CopiesFacts DEF IInv, AckedStored
<1> QED
  BY <1>1, Invariance, PTL

(***************************************************************************)
(* An event has at most as many rows as there can be open batches: only    *)
(* those that looked for its row before the first of them committed add    *)
(* one (services/sync.py:21-32).                                           *)
(***************************************************************************)
THEOREM CopiesAreBounded == Spec => []CopiesBounded
<1>1. IInv => CopiesBounded
  <2> SUFFICES ASSUME IInv, NEW key \in Keys
               PROVE  Copies(key) <= Cardinality(Sessions)
    BY DEF CopiesBounded
  <2>1. Copies(key) + Cardinality(Pending(key)) <= Cardinality(Sessions)
    BY DEF IInv, RowsAndPending
  <2> QED
    BY <2>1, CopiesFacts, PendingFacts DEF IInv
<1> QED
  BY <1>1, Invariance, PTL
=============================================================================
