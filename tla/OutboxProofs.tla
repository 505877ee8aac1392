---------------------------- MODULE OutboxProofs ----------------------------
(***************************************************************************)
(* The safety of Outbox, for every phone: any number of workers and taps,  *)
(* any list length, any number of kills, losses and sign-outs.  The proof  *)
(* follows the blobs: what memory holds, or will hold once the launch read *)
(* lands, and what is stored or on its way there account for every item.   *)
(***************************************************************************)
EXTENDS Outbox, TLAPS, FiniteSetTheorems, WellFoundedInduction

\* What memory holds, or will once the launch read has landed.
Memory ==
  IF reading = Hydrated THEN Blob(items, attention)
  ELSE Blob(Merged(reading[1].items, items), Merged(reading[1].attention, attention))
Waiting == ToSet(Memory.items)

\* The stored blobs, oldest first, and the one that will be on disk in the end.
Chain == {disk} \cup ToSet(writes)
Final == IF writes = << >> THEN disk ELSE writes[Len(writes)]

Increasing(seq) == \A j, k \in DOMAIN seq : j < k => seq[j] < seq[k]
OneToOne(seq)   == \A j, k \in DOMAIN seq : j # k => seq[j] # seq[k]
------------------------------------------------------------------------------
(* The shape of the state. *)

\* A launch read is under way alone: nothing is sent, no record is made.
Launch ==
  /\ Len(reading) <= 1
  /\ reading # Hydrated => attention = << >> /\ sending = 0

\* Every copy is in order and says of an item that it waits, or was refused, not
\* both; what memory has waiting or in flight no copy has a record of.
GoodBlob(b) ==
  /\ Increasing(b.items) /\ OneToOne(b.attention) /\ Len(b.attention) <= MaxAttention
  /\ ToSet(b.items) \cap ToSet(b.attention) = {}
  /\ ToSet(b.attention) \subseteq refused
  /\ ToSet(b.attention) \cap (Waiting \cup {sending}) = {}
Copied ==
  /\ \A b \in Copies : GoodBlob(b)
  /\ \A m \in UNION {ToSet(b.items) : b \in ToSet(reading)}, n \in ToSet(items) : m < n

\* The live tap is the newest and nowhere yet; what is settled includes what was
\* refused or read, what is stored has been stored; the item in flight waits, or
\* was wiped.
Placed ==
  /\ tap # 0 => tap = Len(owner) /\ tap \notin OnPhone \cup settled \cup kept \cup {sending}
  /\ refused \cup read \subseteq settled
  /\ ToSet(disk.items) \subseteq kept
  /\ sending # 0 => sending \in wiped \cup ToSet(items) /\ sendAs # None

Shape == TypeOK /\ Launch /\ Copied /\ Placed
------------------------------------------------------------------------------
(* Every item is accounted for. *)

\* More items have been refused for good than the list has room for.
Overflown(b) == Cardinality(refused \ (ToSet(b.items) \cup {sending})) > MaxAttention

\* What became of item n, as blob b has it.
Accounted(n, b) ==
  \/ n \in wiped \cup read \cup (settled \ refused)
  \/ n \in ToSet(b.items) \cup ToSet(b.attention)
  \/ n \in refused /\ Overflown(b)

\* Memory accounts for all that is stored or about to be.
MemoryHolds == \A n \in kept \cup OnPhone : Accounted(n, Memory)

\* The last write has what memory has.
AtRest == reading = Hydrated => Final = Memory

\* A kill may come at any moment: every stored blob accounts for what was stored
\* with it or before, and still has what was settled since it was written and is
\* waiting again.
ChainHolds ==
  /\ \A n \in kept : Accounted(n, disk)
  /\ \A i \in DOMAIN writes : \A n \in kept : Accounted(n, writes[i])
  /\ \A i, j \in DOMAIN writes : j <= i => \A n \in ToSet(writes[j].items) : Accounted(n, writes[i])
  /\ \A b \in Chain : settled \cap Waiting \subseteq ToSet(b.items)
  /\ \A b \in Chain : sending \in settled => sending \in wiped \cup ToSet(b.items)

Safe == MemoryHolds /\ AtRest /\ (Allowed("killInFlight") => ChainHolds)
Kept == StorageHolds => Safe
------------------------------------------------------------------------------
(* Whose items they are. *)

OwnersHold ==
  /\ tap # 0 => owner[tap] = session
  /\ sending # 0 => owner[sending] = sendAs
  /\ \A n \in Waiting \cup ToSet(Final.items) : owner[n] = session
  /\ faults.signOuts = 0 => \A n \in DOMAIN owner : owner[n] = session
  /\ \A p \in recorded : owner[p[1]] = p[2]
Owned == HandoverHolds => OwnersHold

IndInv == Shape /\ Kept /\ Owned
------------------------------------------------------------------------------
(* The filter, by the least counterexample. *)

LEMMA LeastOf ==
  ASSUME NEW D \in SUBSET Nat, D # {}
  PROVE  \E m \in D : \A k \in D : m <= k
<1>1. PICK m \in D : \A k \in D : <<k, m>> \notin OpToRel(<, Nat)
  BY WFMin, NatLessThanWellFounded, Zenon
<1>2. \A k \in D : ~(k < m)
  BY <1>1, Zenon DEF OpToRel
<1>3. QED
  BY <1>2

\* g is the filter of the first n places of seq, place by place.
IsFilter(g, n, seq, T) ==
  g = [k \in 0 .. n |->
         IF k = 0 THEN << >>
         ELSE IF seq[k] \in T THEN Append(g[k - 1], seq[k]) ELSE g[k - 1]]

LEMMA FilterExists ==
  ASSUME NEW seq, NEW T, NEW n \in Nat
  PROVE  \E g : IsFilter(g, n, seq, T)
<1> DEFINE D == {k \in Nat : ~ \E g : IsFilter(g, k, seq, T)}
<1>1. SUFFICES ASSUME D # {} PROVE FALSE
  OBVIOUS
<1>2. PICK m \in D : \A k \in D : m <= k
  BY <1>1, LeastOf
<1>3. m # 0
  <2>1. IsFilter([k \in 0 .. 0 |-> << >>], 0, seq, T)
    BY DEF IsFilter
  <2>2. QED
    BY <2>1
<1>4. m \in Nat /\ m - 1 \in Nat /\ m - 1 \notin D
  BY <1>2, <1>3
<1>5. PICK g : IsFilter(g, m - 1, seq, T)
  BY <1>4
<1> DEFINE last == IF seq[m] \in T THEN Append(g[m - 1], seq[m]) ELSE g[m - 1]
           h == [k \in 0 .. m |-> IF k = m THEN last ELSE g[k]]
<1>6. \A k \in 0 .. m - 1 :
        g[k] = IF k = 0 THEN << >>
               ELSE IF seq[k] \in T THEN Append(g[k - 1], seq[k]) ELSE g[k - 1]
  BY <1>4, <1>5 DEF IsFilter
<1>7. IsFilter(h, m, seq, T)
  <2> DEFINE r == [k \in 0 .. m |->
                     IF k = 0 THEN << >>
                     ELSE IF seq[k] \in T THEN Append(h[k - 1], seq[k]) ELSE h[k - 1]]
  <2>1. ASSUME NEW k \in 0 .. m PROVE h[k] = r[k]
    <3>1. CASE k = m
      <4>1. h[m - 1] = g[m - 1] /\ h[m] = last
        BY <1>4
      <4>2. r[m] = IF seq[m] \in T THEN Append(h[m - 1], seq[m]) ELSE h[m - 1]
        BY <1>3, <1>4
      <4>3. QED
        BY <3>1, <4>1, <4>2
    <3>2. CASE k = 0
      <4>1. h[0] = g[0] /\ g[0] = << >> /\ r[0] = << >>
        BY <1>3, <1>4, <1>6
      <4>2. QED
        BY <3>2, <4>1
    <3>3. CASE k # m /\ k # 0
      <4>1. k \in 0 .. m - 1 /\ k - 1 \in 0 .. m - 1 /\ k - 1 # m /\ k - 1 \in 0 .. m
        BY <3>3, <1>4
      <4>2. h[k] = g[k] /\ h[k - 1] = g[k - 1]
        BY <3>3, <4>1
      <4>3. r[k] = IF seq[k] \in T THEN Append(h[k - 1], seq[k]) ELSE h[k - 1]
        BY <3>3
      <4>4. g[k] = IF seq[k] \in T THEN Append(g[k - 1], seq[k]) ELSE g[k - 1]
        BY <1>6, <3>3, <4>1
      <4>5. QED
        BY <4>2, <4>3, <4>4
    <3>4. QED
      BY <3>1, <3>2, <3>3
  <2>2. h = r
    <3>1. h = [k \in 0 .. m |-> h[k]] /\ r = [k \in 0 .. m |-> r[k]]
      OBVIOUS
    <3>2. QED
      BY <2>1, <3>1, Zenon
  <2>3. QED
    BY <2>2 DEF IsFilter
<1>8. QED
  BY <1>4, <1>7

\* What the filter of the first n places holds of them.
Filtered(t, n, seq, T, S) ==
  /\ t \in Seq(S) /\ Len(t) <= n
  /\ \A i \in 1 .. Len(t) : \E j \in 1 .. n : t[i] = seq[j] /\ seq[j] \in T
  /\ \A j \in 1 .. n : seq[j] \in T => \E i \in 1 .. Len(t) : t[i] = seq[j]
  /\ (\A i, j \in 1 .. n : i < j => seq[i] < seq[j]) =>
       \A i, j \in 1 .. Len(t) : i < j => t[i] < t[j]

LEMMA FilterHolds ==
  ASSUME NEW S, NEW seq \in Seq(S), NEW T, NEW g, IsFilter(g, Len(seq), seq, T)
  PROVE  \A n \in 0 .. Len(seq) : Filtered(g[n], n, seq, T, S)
<1> DEFINE N == Len(seq)
           D == {k \in 0 .. N : ~Filtered(g[k], k, seq, T, S)}
<1>0. N \in Nat
  OBVIOUS
<1>1. SUFFICES ASSUME D # {} PROVE FALSE
  OBVIOUS
<1>2. PICK m \in D : \A k \in D : m <= k
  <2>1. D \in SUBSET Nat
    BY <1>0
  <2>2. QED
    BY <1>1, <2>1, LeastOf
<1>3. \A k \in 0 .. N :
        g[k] = IF k = 0 THEN << >>
               ELSE IF seq[k] \in T THEN Append(g[k - 1], seq[k]) ELSE g[k - 1]
  BY DEF IsFilter
<1>4. m # 0
  <2>1. g[0] = << >>
    BY <1>0, <1>3
  <2>2. Filtered(<< >>, 0, seq, T, S)
    BY DEF Filtered
  <2>3. QED
    BY <2>1, <2>2
<1>5. m \in 1 .. N /\ m - 1 \in 0 .. N /\ m - 1 \notin D
  BY <1>0, <1>2, <1>4
<1> DEFINE t == g[m - 1]
<1>6. Filtered(t, m - 1, seq, T, S)
  BY <1>5
<1>7. g[m] = IF seq[m] \in T THEN Append(t, seq[m]) ELSE t
  BY <1>3, <1>4, <1>5
<1>8. seq[m] \in S
  BY <1>5
<1> HIDE DEF t
<1>9. Filtered(g[m], m, seq, T, S)
  <2>1. CASE seq[m] \notin T
    <3>1. g[m] = t
      BY <1>7, <2>1
    <3>2. \A j \in 1 .. m : j \in 1 .. m - 1 \/ j = m
      BY <1>5
    <3>3. \A j \in 1 .. m - 1 : j \in 1 .. m
      BY <1>5
    <3>4. t \in Seq(S) /\ Len(t) <= m
      BY <1>5, <1>6 DEF Filtered
    <3>5. \A i \in 1 .. Len(t) : \E j \in 1 .. m : t[i] = seq[j] /\ seq[j] \in T
      BY <1>6, <3>3 DEF Filtered
    <3>6. \A j \in 1 .. m : seq[j] \in T => \E i \in 1 .. Len(t) : t[i] = seq[j]
      BY <1>6, <2>1, <3>2 DEF Filtered
    <3>7. (\A i, j \in 1 .. m : i < j => seq[i] < seq[j]) =>
             \A i, j \in 1 .. Len(t) : i < j => t[i] < t[j]
      BY <1>6, <3>3 DEF Filtered
    <3>8. QED
      BY <3>1, <3>4, <3>5, <3>6, <3>7 DEF Filtered
  <2>2. CASE seq[m] \in T
    <3> DEFINE u == Append(t, seq[m])
    <3>1. g[m] = u
      BY <1>7, <2>2
    <3>2. t \in Seq(S) /\ Len(t) \in Nat
      BY <1>6 DEF Filtered
    <3>3. /\ u \in Seq(S) /\ Len(u) = Len(t) + 1
          /\ \A i \in 1 .. Len(t) : u[i] = t[i]
          /\ u[Len(t) + 1] = seq[m]
      BY <1>8, <3>2
    <3> HIDE DEF u
    <3>4. Len(u) <= m
      BY <1>5, <1>6, <3>2, <3>3 DEF Filtered
    <3>5. \A i \in 1 .. Len(u) : \E j \in 1 .. m : u[i] = seq[j] /\ seq[j] \in T
      <4> TAKE i \in 1 .. Len(u)
      <4>1. CASE i = Len(t) + 1
        BY <1>5, <2>2, <3>3, <4>1
      <4>2. CASE i \in 1 .. Len(t)
        <5>1. PICK j \in 1 .. m - 1 : t[i] = seq[j] /\ seq[j] \in T
          BY <1>6, <4>2 DEF Filtered
        <5>2. j \in 1 .. m
          BY <1>5
        <5>3. QED
          BY <3>3, <4>2, <5>1, <5>2
      <4>3. QED
        BY <3>2, <3>3, <4>1, <4>2
    <3>6. \A j \in 1 .. m : seq[j] \in T => \E i \in 1 .. Len(u) : u[i] = seq[j]
      <4> SUFFICES ASSUME NEW j \in 1 .. m, seq[j] \in T
                   PROVE  \E i \in 1 .. Len(u) : u[i] = seq[j]
        OBVIOUS
      <4>1. CASE j = m
        BY <3>2, <3>3, <4>1
      <4>2. CASE j # m
        <5>1. j \in 1 .. m - 1
          BY <1>5, <4>2
        <5>2. PICK i \in 1 .. Len(t) : t[i] = seq[j]
          BY <1>6, <5>1 DEF Filtered
        <5>3. i \in 1 .. Len(u)
          BY <3>2, <3>3
        <5>4. QED
          BY <3>3, <5>2, <5>3
      <4>3. QED
        BY <4>1, <4>2
    <3>7. ASSUME \A i, j \in 1 .. m : i < j => seq[i] < seq[j],
                 NEW i \in 1 .. Len(u), NEW j \in 1 .. Len(u), i < j
          PROVE  u[i] < u[j]
      <4>1. i \in 1 .. Len(t)
        BY <3>2, <3>3, <3>7
      <4>2. CASE j \in 1 .. Len(t)
        <5>1. \A a, b \in 1 .. m - 1 : a < b => seq[a] < seq[b]
          BY <1>5, <3>7
        <5>2. t[i] < t[j]
          BY <1>6, <3>7, <4>1, <4>2, <5>1 DEF Filtered
        <5>3. QED
          BY <3>3, <4>1, <4>2, <5>2
      <4>3. CASE j = Len(t) + 1
        <5>1. PICK a \in 1 .. m - 1 : t[i] = seq[a]
          BY <1>6, <4>1 DEF Filtered
        <5>2. a \in 1 .. m /\ m \in 1 .. m /\ a < m
          BY <1>5
        <5>3. seq[a] < seq[m]
          BY <3>7, <5>2
        <5>4. QED
          BY <3>3, <4>1, <4>3, <5>1, <5>3
      <4>4. QED
        BY <3>2, <3>3, <4>2, <4>3
    <3>8. Filtered(u, m, seq, T, S)
      BY <3>3, <3>4, <3>5, <3>6, <3>7 DEF Filtered
    <3>9. QED
      BY <3>1, <3>8
  <2>3. QED
    BY <2>1, <2>2
<1>10. QED
  BY <1>9

LEMMA Selected ==
  ASSUME NEW S, NEW seq \in Seq(S), NEW T
  PROVE  /\ Select(seq, T) \in Seq(S) /\ Len(Select(seq, T)) <= Len(seq)
         /\ ToSet(Select(seq, T)) = ToSet(seq) \cap T
         /\ Increasing(seq) => Increasing(Select(seq, T))
<1> DEFINE f == CHOOSE g : IsFilter(g, Len(seq), seq, T)
           t == f[Len(seq)]
<1>1. IsFilter(f, Len(seq), seq, T)
  <2>1. Len(seq) \in Nat
    OBVIOUS
  <2>2. QED
    BY <2>1, FilterExists
<1>2. Select(seq, T) = t
  BY DEF Select, IsFilter
<1> HIDE DEF f
<1>3. Filtered(t, Len(seq), seq, T, S)
  BY <1>1, FilterHolds
<1> HIDE DEF t
<1>4. t \in Seq(S) /\ DOMAIN t = 1 .. Len(t) /\ DOMAIN seq = 1 .. Len(seq)
  BY <1>3 DEF Filtered
<1>5. ToSet(t) = ToSet(seq) \cap T
  <2>1. ASSUME NEW n \in ToSet(t) PROVE n \in ToSet(seq) \cap T
    <3>1. PICK i \in 1 .. Len(t) : n = t[i]
      BY <1>4 DEF ToSet
    <3>2. PICK j \in 1 .. Len(seq) : t[i] = seq[j] /\ seq[j] \in T
      BY <1>3 DEF Filtered
    <3>3. QED
      BY <1>4, <3>1, <3>2 DEF ToSet
  <2>2. ASSUME NEW n \in ToSet(seq) \cap T PROVE n \in ToSet(t)
    <3>1. PICK j \in 1 .. Len(seq) : n = seq[j]
      BY <1>4 DEF ToSet
    <3>2. PICK i \in 1 .. Len(t) : t[i] = seq[j]
      BY <1>3, <3>1 DEF Filtered
    <3>3. QED
      BY <1>4, <3>1, <3>2 DEF ToSet
  <2>3. QED
    BY <2>1, <2>2
<1>6. Increasing(seq) => Increasing(t)
  BY <1>3, <1>4 DEF Filtered, Increasing
<1>7. QED
  BY <1>2, <1>3, <1>5, <1>6 DEF Filtered
------------------------------------------------------------------------------
(* Sequences: what the queue's operations do to their elements and order. *)

LEMMA ToSetOf ==
  ASSUME NEW S, NEW seq \in Seq(S)
  PROVE  /\ ToSet(seq) \subseteq S
         /\ \A n : n \in ToSet(seq) <=> \E k \in 1 .. Len(seq) : seq[k] = n
BY DEF ToSet

LEMMA WithoutEffect ==
  ASSUME NEW S, NEW seq \in Seq(S), NEW n
  PROVE  /\ Without(seq, n) \in Seq(S)
         /\ ToSet(Without(seq, n)) = ToSet(seq) \ {n}
         /\ Increasing(seq) => Increasing(Without(seq, n))
<1>1. ToSet(seq) \cap (ToSet(seq) \ {n}) = ToSet(seq) \ {n}
  OBVIOUS
<1>2. QED
  BY <1>1, Selected DEF Without

LEMMA AppendEffect ==
  ASSUME NEW S, NEW seq \in Seq(S), NEW n \in S
  PROVE  /\ Append(seq, n) \in Seq(S) /\ Len(Append(seq, n)) = Len(seq) + 1
         /\ ToSet(Append(seq, n)) = ToSet(seq) \cup {n}
         /\ Increasing(seq) /\ (\A m \in ToSet(seq) : m < n) => Increasing(Append(seq, n))
         /\ OneToOne(seq) /\ n \notin ToSet(seq) => OneToOne(Append(seq, n))
<1> DEFINE t == Append(seq, n)
<1>1. /\ t \in Seq(S) /\ Len(t) = Len(seq) + 1 /\ Len(seq) \in Nat
      /\ t[Len(seq) + 1] = n
      /\ \A k \in 1 .. Len(seq) : t[k] = seq[k]
      /\ DOMAIN t = 1 .. Len(seq) + 1 /\ DOMAIN seq = 1 .. Len(seq)
  OBVIOUS
<1> HIDE DEF t
<1>2. \A k \in DOMAIN t : k \in DOMAIN seq \/ k = Len(seq) + 1
  BY <1>1
<1>3. \A k \in DOMAIN seq : k \in DOMAIN t /\ t[k] = seq[k]
  BY <1>1
<1>4. ToSet(t) = ToSet(seq) \cup {n}
  <2>1. ToSet(t) \subseteq ToSet(seq) \cup {n}
    BY <1>1, <1>2, <1>3 DEF ToSet
  <2>2. ToSet(seq) \subseteq ToSet(t) /\ n \in ToSet(t)
    BY <1>1, <1>3 DEF ToSet
  <2>3. QED
    BY <2>1, <2>2
<1>5. ASSUME Increasing(seq), \A m \in ToSet(seq) : m < n PROVE Increasing(t)
  <2> SUFFICES ASSUME NEW j \in DOMAIN t, NEW k \in DOMAIN t, j < k PROVE t[j] < t[k]
    BY DEF Increasing
  <2>1. j \in DOMAIN seq
    BY <1>1
  <2>2. CASE k \in DOMAIN seq
    BY <1>3, <1>5, <2>1, <2>2 DEF Increasing
  <2>3. CASE k = Len(seq) + 1
    BY <1>1, <1>3, <1>5, <2>1, <2>3 DEF ToSet
  <2>4. QED
    BY <1>2, <2>2, <2>3
<1>6. ASSUME OneToOne(seq), n \notin ToSet(seq) PROVE OneToOne(t)
  <2> SUFFICES ASSUME NEW j \in DOMAIN t, NEW k \in DOMAIN t, j # k PROVE t[j] # t[k]
    BY DEF OneToOne
  <2>1. \A i \in DOMAIN seq : t[i] # n
    BY <1>3, <1>6 DEF ToSet
  <2>2. CASE j \in DOMAIN seq /\ k \in DOMAIN seq
    BY <1>3, <1>6, <2>2 DEF OneToOne
  <2>3. QED
    BY <1>1, <1>2, <2>1, <2>2
<1>7. QED
  BY <1>1, <1>4, <1>5, <1>6 DEF t

LEMMA ConcatEffect ==
  ASSUME NEW S, NEW s \in Seq(S), NEW t \in Seq(S)
  PROVE  /\ s \o t \in Seq(S) /\ ToSet(s \o t) = ToSet(s) \cup ToSet(t)
         /\ Increasing(s) /\ Increasing(t) /\ (\A m \in ToSet(s), n \in ToSet(t) : m < n)
              => Increasing(s \o t)
<1> DEFINE u == s \o t
<1>1. /\ u \in Seq(S) /\ Len(u) = Len(s) + Len(t)
      /\ Len(s) \in Nat /\ Len(t) \in Nat
      /\ DOMAIN u = 1 .. Len(s) + Len(t) /\ DOMAIN s = 1 .. Len(s) /\ DOMAIN t = 1 .. Len(t)
  OBVIOUS
<1>2. \A k \in 1 .. Len(s) : u[k] = s[k]
  OBVIOUS
<1>3. \A k \in 1 .. Len(t) : u[Len(s) + k] = t[k]
  OBVIOUS
<1> HIDE DEF u
<1>4. \A k \in DOMAIN u :
        \/ k \in DOMAIN s /\ u[k] = s[k]
        \/ k - Len(s) \in DOMAIN t /\ u[k] = t[k - Len(s)]
  <2> TAKE k \in DOMAIN u
  <2>1. CASE k <= Len(s)
    BY <1>1, <1>2, <2>1
  <2>2. CASE k > Len(s)
    <3>1. k - Len(s) \in 1 .. Len(t) /\ Len(s) + (k - Len(s)) = k
      BY <1>1, <2>2
    <3>2. QED
      BY <1>1, <1>3, <3>1
  <2>3. QED
    BY <1>1, <2>1, <2>2
<1>5. ToSet(u) = ToSet(s) \cup ToSet(t)
  <2>1. ToSet(u) \subseteq ToSet(s) \cup ToSet(t)
    BY <1>4 DEF ToSet
  <2>2. ToSet(s) \subseteq ToSet(u)
    <3>1. \A k \in DOMAIN s : k \in DOMAIN u
      BY <1>1
    <3>2. QED
      BY <1>1, <1>2, <3>1 DEF ToSet
  <2>3. ToSet(t) \subseteq ToSet(u)
    <3>1. \A k \in DOMAIN t : Len(s) + k \in DOMAIN u
      BY <1>1
    <3>2. QED
      BY <1>1, <1>3, <3>1 DEF ToSet
  <2>4. QED
    BY <2>1, <2>2, <2>3
<1>6. ASSUME Increasing(s), Increasing(t), \A m \in ToSet(s), n \in ToSet(t) : m < n
      PROVE  Increasing(u)
  <2> SUFFICES ASSUME NEW j \in DOMAIN u, NEW k \in DOMAIN u, j < k PROVE u[j] < u[k]
    BY DEF Increasing
  <2>1. CASE k \in DOMAIN s
    <3>1. j \in DOMAIN s
      BY <1>1, <2>1
    <3>2. QED
      BY <1>1, <1>2, <1>6, <2>1, <3>1 DEF Increasing
  <2>2. CASE k \notin DOMAIN s /\ j \in DOMAIN s
    <3>1. u[j] \in ToSet(s) /\ u[k] \in ToSet(t)
      BY <1>1, <1>2, <1>4, <2>2 DEF ToSet
    <3>2. QED
      BY <1>6, <3>1
  <2>3. CASE k \notin DOMAIN s /\ j \notin DOMAIN s
    <3>1. /\ k - Len(s) \in DOMAIN t /\ u[k] = t[k - Len(s)]
          /\ j - Len(s) \in DOMAIN t /\ u[j] = t[j - Len(s)]
      BY <1>4, <2>3
    <3>2. j - Len(s) < k - Len(s)
      BY <1>1
    <3>3. QED
      BY <1>6, <3>1, <3>2 DEF Increasing
  <2>4. QED
    BY <2>1, <2>2, <2>3
<1>7. QED
  BY <1>1, <1>5, <1>6 DEF u

LEMMA MergedEffect ==
  ASSUME NEW S, NEW s \in Seq(S), NEW t \in Seq(S)
  PROVE  /\ Merged(s, t) \in Seq(S) /\ ToSet(Merged(s, t)) = ToSet(s) \cup ToSet(t)
         /\ Increasing(s) /\ Increasing(t) /\ (\A m \in ToSet(s), n \in ToSet(t) : m < n)
              => Increasing(Merged(s, t))
         /\ t = << >> => Merged(s, t) = s
<1> DEFINE u == Select(t, ToSet(t) \ ToSet(s))
<1>1. /\ u \in Seq(S) /\ Len(u) <= Len(t)
      /\ ToSet(u) = ToSet(t) \cap (ToSet(t) \ ToSet(s))
      /\ Increasing(t) => Increasing(u)
  BY Selected
<1>2. Merged(s, t) = s \o u
  BY DEF Merged
<1> HIDE DEF u
<1>3. /\ s \o u \in Seq(S) /\ ToSet(s \o u) = ToSet(s) \cup ToSet(u)
      /\ Increasing(s) /\ Increasing(u) /\ (\A m \in ToSet(s), n \in ToSet(u) : m < n)
           => Increasing(s \o u)
  BY <1>1, ConcatEffect
<1>4. ToSet(s) \cup ToSet(u) = ToSet(s) \cup ToSet(t)
  BY <1>1
<1>5. t = << >> => s \o u = s
  <2>1. t = << >> => Len(u) = 0
    BY <1>1
  <2>2. Len(u) = 0 => u = << >>
    BY <1>1
  <2>3. s \o << >> = s
    OBVIOUS
  <2>4. QED
    BY <2>1, <2>2, <2>3
<1>6. QED
  BY <1>1, <1>2, <1>3, <1>4, <1>5

LEMMA EmptyEffect ==
  /\ ToSet(<< >>) = {} /\ Increasing(<< >>) /\ OneToOne(<< >>)
  /\ \A S : << >> \in Seq(S)
<1>1. DOMAIN << >> = {}
  OBVIOUS
<1>2. QED
  BY <1>1 DEF ToSet, Increasing, OneToOne

LEMMA HeadTailEffect ==
  ASSUME NEW S, NEW seq \in Seq(S), seq # << >>
  PROVE  /\ Head(seq) \in ToSet(seq) /\ Tail(seq) \in Seq(S)
         /\ ToSet(seq) = {Head(seq)} \cup ToSet(Tail(seq))
         /\ DOMAIN seq = 1 .. Len(seq) /\ DOMAIN Tail(seq) = 1 .. Len(seq) - 1
         /\ seq[1] = Head(seq) /\ \A k \in DOMAIN Tail(seq) : Tail(seq)[k] = seq[k + 1]
         /\ Len(seq) \in Nat \ {0} /\ Len(Tail(seq)) = Len(seq) - 1
<1>1. /\ Len(seq) \in Nat \ {0} /\ DOMAIN seq = 1 .. Len(seq)
      /\ Head(seq) = seq[1] /\ Tail(seq) \in Seq(S)
      /\ Len(Tail(seq)) = Len(seq) - 1 /\ DOMAIN Tail(seq) = 1 .. Len(seq) - 1
  OBVIOUS
<1>2. \A k \in DOMAIN Tail(seq) : Tail(seq)[k] = seq[k + 1]
  OBVIOUS
<1>3. ToSet(seq) = {Head(seq)} \cup ToSet(Tail(seq))
  <2>1. ASSUME NEW k \in DOMAIN seq PROVE seq[k] \in {Head(seq)} \cup ToSet(Tail(seq))
    <3>1. CASE k = 1
      BY <1>1, <3>1
    <3>2. CASE k # 1
      <4>1. k - 1 \in DOMAIN Tail(seq) /\ (k - 1) + 1 = k
        BY <1>1, <3>2
      <4>2. QED
        BY <1>2, <4>1 DEF ToSet
    <3>3. QED
      BY <3>1, <3>2
  <2>2. \A k \in DOMAIN Tail(seq) : k + 1 \in DOMAIN seq
    BY <1>1
  <2>3. 1 \in DOMAIN seq
    BY <1>1
  <2>4. QED
    BY <1>1, <1>2, <2>1, <2>2, <2>3 DEF ToSet
<1>4. QED
  BY <1>1, <1>2, <1>3

\* A list without repetitions is as long as the set of its elements is large.
LEMMA CountedOnce ==
  ASSUME NEW S, NEW seq \in Seq(S), OneToOne(seq)
  PROVE  IsFiniteSet(ToSet(seq)) /\ Cardinality(ToSet(seq)) = Len(seq)
<1>1. Len(seq) \in Nat /\ DOMAIN seq = 1 .. Len(seq) /\ seq \in [1 .. Len(seq) -> S]
  OBVIOUS
<1>2. seq \in [1 .. Len(seq) -> ToSet(seq)]
  BY <1>1 DEF ToSet
<1>3. seq \in Bijection(1 .. Len(seq), ToSet(seq))
  <2>1. \A j, k \in 1 .. Len(seq) : seq[j] = seq[k] => j = k
    BY <1>1 DEF OneToOne
  <2>2. \A n \in ToSet(seq) : \E k \in 1 .. Len(seq) : seq[k] = n
    BY <1>1 DEF ToSet
  <2>3. seq \in Injection(1 .. Len(seq), ToSet(seq))
    BY <1>2, <2>1 DEF Injection, IsInjective
  <2>4. seq \in Surjection(1 .. Len(seq), ToSet(seq))
    BY <1>2, <2>2 DEF Surjection
  <2>5. QED
    BY <2>3, <2>4 DEF Bijection
<1>4. IsFiniteSet(1 .. Len(seq)) /\ Cardinality(1 .. Len(seq)) = Len(seq)
  BY <1>1, FS_Interval
<1>5. QED
  BY <1>3, <1>4, FS_Bijection DEF ExistsBijection
------------------------------------------------------------------------------
(* The copies of the queue, and how a step changes them. *)

LEMMA FaultEffect ==
  ASSUME faults \in [FaultKinds -> Nat], NEW k \in FaultKinds, Fault(k)
  PROVE  /\ faults' \in [FaultKinds -> Nat]
         /\ \A j \in FaultKinds : faults'[j] >= faults[j]
         /\ faults'[k] > 0
<1>1. faults' = [faults EXCEPT ![k] = faults[k] + 1]
  BY Zenon DEF Fault
<1>2. QED
  BY <1>1

LEMMA Widen ==
  ASSUME NEW A, NEW B, A \subseteq B
  PROVE  /\ Seq(A) \subseteq Seq(B)
         /\ [items: Seq(A), attention: Seq(A)] \subseteq [items: Seq(B), attention: Seq(B)]
         /\ Seq([items: Seq(A), attention: Seq(A)])
              \subseteq Seq([items: Seq(B), attention: Seq(B)])
<1>1. \A S, T : S \subseteq T => Seq(S) \subseteq Seq(T)
  <2> TAKE S, T
  <2> SUFFICES ASSUME S \subseteq T, NEW seq \in Seq(S) PROVE seq \in Seq(T)
    OBVIOUS
  <2>1. \A k \in 1 .. Len(seq) : seq[k] \in T
    OBVIOUS
  <2>2. Len(seq) \in Nat /\ seq = [k \in 1 .. Len(seq) |-> seq[k]]
    OBVIOUS
  <2>3. QED
    BY <2>1, <2>2
<1>2. Seq(A) \subseteq Seq(B)
  BY <1>1
<1>3. [items: Seq(A), attention: Seq(A)] \subseteq [items: Seq(B), attention: Seq(B)]
  BY <1>2
<1>4. Seq([items: Seq(A), attention: Seq(A)]) \subseteq Seq([items: Seq(B), attention: Seq(B)])
  BY <1>1, <1>3, Zenon
<1>5. QED
  BY <1>2, <1>3, <1>4

LEMMA CopyFacts ==
  ASSUME TypeOK, Launch
  PROVE  /\ Copies \subseteq Blobs
         /\ Blob(items, attention) \in Copies /\ disk \in Copies
         /\ \A k \in DOMAIN writes : writes[k] \in Copies
         /\ reading # Hydrated => reading[1] \in Copies /\ ToSet(reading) = {reading[1]}
         /\ \A b \in Copies : b = Blob(items, attention) \/ b = disk
              \/ (\E k \in DOMAIN writes : b = writes[k])
              \/ (reading # Hydrated /\ b = reading[1])
<1>1. Blob(items, attention) \in Blobs /\ disk \in Blobs
  BY DEF TypeOK, Blobs, Blob
<1>2. ToSet(writes) \subseteq Blobs /\ ToSet(reading) \subseteq Blobs
  BY ToSetOf DEF TypeOK
<1>3. reading # Hydrated => ToSet(reading) = {reading[1]}
  <2> SUFFICES ASSUME reading # Hydrated PROVE ToSet(reading) = {reading[1]}
    OBVIOUS
  <2>1. reading \in Seq(Blobs) /\ Len(reading) \in Nat /\ Len(reading) # 0
    BY DEF TypeOK, Hydrated
  <2>2. DOMAIN reading = {1}
    BY <2>1 DEF Launch
  <2>3. QED
    BY <2>2 DEF ToSet
<1>4. reading = Hydrated => ToSet(reading) = {}
  BY EmptyEffect DEF Hydrated
<1>5. QED
  BY <1>1, <1>2, <1>3, <1>4 DEF Copies, ToSet

LEMMA MemoryFacts ==
  ASSUME TypeOK, Launch
  PROVE  /\ Memory \in Blobs
         /\ reading = Hydrated => Memory = Blob(items, attention) /\ Waiting = ToSet(items)
         /\ reading # Hydrated => /\ Waiting = ToSet(reading[1].items) \cup ToSet(items)
                                  /\ Memory.items = Merged(reading[1].items, items)
                                  /\ Memory.attention = reading[1].attention
         /\ ToSet(items) \subseteq Waiting /\ Waiting \subseteq OnPhone
         /\ ToSet(Memory.attention) \subseteq Records
<1>1. items \in Seq(Items) /\ attention \in Seq(Items)
  BY DEF TypeOK
<1>2. CASE reading = Hydrated
  <2>1. Memory = Blob(items, attention)
    BY <1>2 DEF Memory
  <2>2. Memory.items = items /\ Memory.attention = attention /\ Memory \in Blobs
    BY <1>1, <2>1 DEF Blob, Blobs
  <2>3. ToSet(items) \subseteq OnPhone /\ ToSet(attention) \subseteq Records
    BY CopyFacts DEF OnPhone, Records, Blob
  <2>4. QED
    BY <1>2, <2>1, <2>2, <2>3 DEF Waiting
<1>3. CASE reading # Hydrated
  <2>1. reading[1] \in Copies /\ reading[1] \in Blobs
    BY <1>3, CopyFacts
  <2>2. reading[1].items \in Seq(Items) /\ reading[1].attention \in Seq(Items)
    BY <2>1 DEF Blobs
  <2>3. Memory = Blob(Merged(reading[1].items, items), Merged(reading[1].attention, attention))
    BY <1>3 DEF Memory
  <2>4. /\ Memory.items = Merged(reading[1].items, items)
        /\ Memory.attention = Merged(reading[1].attention, attention)
    BY <2>3 DEF Blob
  <2>5. attention = << >>
    BY <1>3 DEF Launch
  <2>6. Memory.attention = reading[1].attention
    BY <1>1, <2>2, <2>4, <2>5, MergedEffect
  <2>7. /\ Memory.items \in Seq(Items)
        /\ ToSet(Memory.items) = ToSet(reading[1].items) \cup ToSet(items)
    BY <1>1, <2>2, <2>4, MergedEffect
  <2>8. Memory \in Blobs
    BY <2>2, <2>3, <2>4, <2>6, <2>7 DEF Blob, Blobs
  <2>9. /\ ToSet(items) \subseteq OnPhone /\ ToSet(reading[1].items) \subseteq OnPhone
        /\ ToSet(reading[1].attention) \subseteq Records
    BY <2>1, CopyFacts DEF OnPhone, Records, Blob
  <2>10. QED
    BY <1>3, <2>4, <2>6, <2>7, <2>8, <2>9 DEF Waiting
<1>4. QED
  BY <1>2, <1>3

LEMMA StoreSame ==
  ASSUME UNCHANGED <<store, disk, reading>>
  PROVE  /\ Memory' = Memory /\ Waiting' = Waiting /\ Final' = Final /\ Chain' = Chain
         /\ Copies' = Copies /\ OnPhone' = OnPhone /\ Records' = Records
<1>1. UNCHANGED <<items, attention, writes, disk, reading>>
  BY DEF store
<1>2. Memory' = Memory /\ Final' = Final /\ Chain' = Chain /\ Copies' = Copies
  BY <1>1 DEF Memory, Final, Chain, Copies
<1>3. QED
  BY <1>2 DEF Waiting, OnPhone, Records

LEMMA SetEffect ==
  ASSUME TypeOK, Launch, NEW i \in Seq(Items), NEW a \in Seq(Items), Set(i, a),
         disk' = disk, reading' \in {reading, Hydrated}
  PROVE  /\ items' = i /\ attention' = a /\ Blob(i, a) \in Blobs
         /\ writes' \in Seq(Blobs) /\ Len(writes') = Len(writes) + 1
         /\ DOMAIN writes' = 1 .. Len(writes) + 1 /\ DOMAIN writes = 1 .. Len(writes)
         /\ Len(writes) \in Nat
         /\ writes'[Len(writes) + 1] = Blob(i, a)
         /\ \A k \in DOMAIN writes : writes'[k] = writes[k]
         /\ Copies' \subseteq Copies \cup {Blob(i, a)}
         /\ Chain' = Chain \cup {Blob(i, a)} /\ Final' = Blob(i, a)
         /\ OnPhone' \subseteq OnPhone \cup ToSet(i) /\ Records' \subseteq Records \cup ToSet(a)
<1>1. items' = i /\ attention' = a /\ writes' = Append(writes, Blob(i, a))
  BY DEF Set
<1>2. Blob(i, a) \in Blobs /\ writes \in Seq(Blobs)
  BY DEF Blob, Blobs, TypeOK
<1>3. /\ writes' \in Seq(Blobs) /\ Len(writes') = Len(writes) + 1 /\ Len(writes) \in Nat
      /\ DOMAIN writes' = 1 .. Len(writes) + 1 /\ DOMAIN writes = 1 .. Len(writes)
      /\ writes'[Len(writes) + 1] = Blob(i, a)
      /\ \A k \in DOMAIN writes : writes'[k] = writes[k]
      /\ ToSet(writes') = ToSet(writes) \cup {Blob(i, a)}
  BY <1>1, <1>2, AppendEffect
<1>4. ToSet(reading') \subseteq ToSet(reading)
  BY EmptyEffect DEF Hydrated
<1>5. Copies' \subseteq Copies \cup {Blob(i, a)}
  BY <1>1, <1>3, <1>4 DEF Copies
<1>6. Chain' = Chain \cup {Blob(i, a)}
  BY <1>3 DEF Chain
<1>7. Final' = Blob(i, a)
  <2>1. writes' # << >>
    BY <1>3
  <2>2. QED
    BY <1>3, <2>1 DEF Final
<1>8. OnPhone' \subseteq OnPhone \cup ToSet(i)
  <2>1. Blob(i, a).items = i
    BY DEF Blob
  <2>2. QED
    BY <1>5, <2>1 DEF OnPhone
<1>9. Records' \subseteq Records \cup ToSet(a)
  <2>1. Blob(i, a).attention = a
    BY DEF Blob
  <2>2. QED
    BY <1>5, <2>1 DEF Records
<1>10. QED
  BY <1>1, <1>2, <1>3, <1>5, <1>6, <1>7, <1>8, <1>9

\* A copy stays good as long as no item it has a record of is accepted, or comes
\* back to wait or fly.
LEMMA GoodStays ==
  ASSUME Shape, Records \subseteq refused', Records \cap (Waiting' \cup {sending'}) = {}
  PROVE  \A b \in Copies : GoodBlob(b)'
<1> TAKE b \in Copies
<1>1. GoodBlob(b)
  BY DEF Shape, Copied
<1>2. ToSet(b.attention) \subseteq Records
  BY DEF Records
<1>3. QED
  BY <1>1, <1>2 DEF GoodBlob

LEMMA RecordFacts ==
  ASSUME Shape
  PROVE  /\ Records \subseteq refused /\ Records \subseteq settled
         /\ Records \cap (Waiting \cup {sending}) = {}
         /\ OnPhone \subseteq Items /\ Records \subseteq Items
<1>1. Records \subseteq refused /\ Records \cap (Waiting \cup {sending}) = {}
  BY DEF Shape, Copied, GoodBlob, Records
<1>2. \A b \in Copies : ToSet(b.items) \subseteq Items /\ ToSet(b.attention) \subseteq Items
  <2> TAKE b \in Copies
  <2>1. b.items \in Seq(Items) /\ b.attention \in Seq(Items)
    BY CopyFacts DEF Shape, Blobs
  <2>2. QED
    BY <2>1, ToSetOf
<1>3. QED
  BY <1>1, <1>2 DEF Shape, Placed, OnPhone, Records
------------------------------------------------------------------------------
(* Each action keeps the shape. *)

ServerSame == UNCHANGED <<owner, recorded, settled, refused, wiped, read, kept>>

LEMMA ShapeTap ==
  ASSUME Shape, Tap
  PROVE  Shape'
<1>1. /\ owner' = Append(owner, session) /\ session \in Users /\ tap' = Len(owner) + 1
      /\ UNCHANGED <<given, session, store, disk, reading, draining, sending, sendAs,
                     recorded, settled, refused, wiped, read, kept, faults>>
  BY DEF Tap, Shape, TypeOK
<1>2. UNCHANGED <<items, attention, writes>>
  BY <1>1 DEF store
<1>3. Copies' = Copies /\ OnPhone' = OnPhone /\ Waiting' = Waiting
  BY <1>1, StoreSame
<1>4. owner' \in Seq(Users) /\ Len(owner') = Len(owner) + 1 /\ Len(owner) \in Nat
  BY <1>1 DEF Shape, TypeOK
<1>5. Items \subseteq Items' /\ tap' \in Items' /\ tap' \notin Items /\ tap' # 0 /\ 0 \notin Items
  BY <1>1, <1>4 DEF Items
<1>6. Seq(Items) \subseteq Seq(Items') /\ Blobs \subseteq Blobs' /\ Seq(Blobs) \subseteq Seq(Blobs')
  BY <1>5, Widen DEF Blobs
<1>7. TypeOK'
  <2>1. /\ items' \in Seq(Items') /\ attention' \in Seq(Items') /\ writes' \in Seq(Blobs')
        /\ disk' \in Blobs' /\ reading' \in Seq(Blobs')
    BY <1>1, <1>2, <1>6 DEF Shape, TypeOK
  <2>2. recorded' \subseteq Items' \X Users
    BY <1>1, <1>5 DEF Shape, TypeOK
  <2>3. QED
    BY <1>1, <1>2, <1>4, <1>5, <2>1, <2>2 DEF Shape, TypeOK
<1>8. Launch'
  BY <1>1, <1>2 DEF Shape, Launch
<1>9. Copied'
  BY <1>1, <1>2, <1>3 DEF Shape, Copied, GoodBlob
<1>10. Placed'
  <2>1. tap' \notin OnPhone' \cup settled' \cup kept' \cup {sending'}
    BY <1>1, <1>3, <1>5, RecordFacts DEF Shape, TypeOK
  <2>2. QED
    BY <1>1, <1>2, <1>4, <2>1 DEF Shape, Placed
<1>11. QED
  BY <1>7, <1>8, <1>9, <1>10 DEF Shape

LEMMA ShapeTapAnswered ==
  ASSUME Shape, TapAnswered
  PROVE  Shape'
<1>1. /\ tap # 0 /\ tap' = 0 /\ settled' = settled \cup {tap}
      /\ recorded' \subseteq recorded \cup {<<tap, owner[tap]>>}
      /\ UNCHANGED <<given, session, store, disk, reading, draining, sending, sendAs,
                     owner, refused, wiped, read, kept, faults>>
  BY DEF TapAnswered
<1>2. UNCHANGED <<items, attention, writes>>
  BY <1>1 DEF store
<1>3. Copies' = Copies /\ OnPhone' = OnPhone /\ Waiting' = Waiting
  BY <1>1, StoreSame
<1>4. Items' = Items /\ Blobs' = Blobs
  BY <1>1 DEF Items, Blobs
<1>5. tap \in Items /\ owner[tap] \in Users
  BY <1>1 DEF Shape, TypeOK, Items
<1>6. TypeOK'
  <2>1. recorded' \subseteq Items \X Users
    BY <1>1, <1>5 DEF Shape, TypeOK
  <2>2. QED
    BY <1>1, <1>2, <1>4, <1>5, <2>1 DEF Shape, TypeOK
<1>7. Launch' /\ Copied'
  BY <1>1, <1>2, <1>3 DEF Shape, Launch, Copied, GoodBlob
<1>8. Placed'
  BY <1>1, <1>2, <1>3 DEF Shape, Placed
<1>9. QED
  BY <1>6, <1>7, <1>8 DEF Shape

\* Steps of a session, and the start of a flush.
LEMMA ShapeSession ==
  ASSUME Shape, UNCHANGED <<given, tap, store, disk, reading, sending, sendAs, history>>,
         session' \in Users \cup {None}, draining' \in BOOLEAN, draining => draining',
         faults' \in [FaultKinds -> Nat]
  PROVE  Shape'
<1>1. /\ UNCHANGED <<items, attention, writes, disk, reading, sending, sendAs, tap, given>>
      /\ ServerSame
  BY DEF store, history, ServerSame
<1>2. Copies' = Copies /\ OnPhone' = OnPhone /\ Waiting' = Waiting
  BY StoreSame
<1>3. Items' = Items /\ Blobs' = Blobs
  BY <1>1 DEF Items, Blobs, ServerSame
<1>4. TypeOK'
  BY <1>1, <1>3 DEF Shape, TypeOK, ServerSame
<1>5. Launch' /\ Copied'
  BY <1>1, <1>2 DEF Shape, Launch, Copied, GoodBlob, ServerSame
<1>6. Placed'
  BY <1>1, <1>2 DEF Shape, Placed, ServerSame
<1>7. QED
  BY <1>4, <1>5, <1>6 DEF Shape

LEMMA ShapeSend ==
  ASSUME Shape, Send
  PROVE  Shape'
<1>1. /\ draining /\ reading = Hydrated /\ sending = 0
      /\ UNCHANGED <<given, session, tap, store, disk, reading, history, faults>>
      /\ \/ draining' = FALSE /\ UNCHANGED <<sending, sendAs>>
         \/ /\ items # << >> /\ session # None
            /\ sending' = Head(items) /\ sendAs' = session /\ draining' = draining
  BY DEF Send
<1>2. /\ UNCHANGED <<items, attention, writes, disk, reading, tap, given, session, faults>>
      /\ ServerSame
  BY <1>1 DEF store, history, ServerSame
<1>3. Copies' = Copies /\ OnPhone' = OnPhone /\ Waiting' = Waiting /\ Records' = Records
  BY <1>1, StoreSame
<1>4. Items' = Items /\ Blobs' = Blobs
  BY <1>2 DEF Items, Blobs, ServerSame
<1>5. items \in Seq(Items) /\ Waiting = ToSet(items)
  BY <1>1, MemoryFacts DEF Shape, TypeOK
<1>6. sending' = 0 \/ sending' \in ToSet(items)
  BY <1>1, <1>5, HeadTailEffect
<1>7. ToSet(items) \subseteq Items /\ ToSet(items) \subseteq OnPhone
  BY <1>5, ToSetOf, MemoryFacts DEF Shape
<1>8. TypeOK'
  <2>1. sending' \in Items \cup {0} /\ sendAs' \in Users \cup {None}
    BY <1>1, <1>6, <1>7 DEF Shape, TypeOK
  <2>2. draining' \in BOOLEAN /\ (sending' # 0 => draining')
    BY <1>1
  <2>3. QED
    BY <1>2, <1>4, <2>1, <2>2 DEF Shape, TypeOK, ServerSame
<1>9. Launch'
  BY <1>1, <1>2 DEF Shape, Launch
<1>10. Copied'
  <2>1. Records \subseteq refused'
    BY <1>2, RecordFacts DEF ServerSame
  <2>2. 0 \notin Records
    BY RecordFacts DEF Items
  <2>3. Records \cap (Waiting' \cup {sending'}) = {}
    BY <1>3, <1>5, <1>6, <2>2, RecordFacts
  <2>4. \A b \in Copies : GoodBlob(b)'
    BY <2>1, <2>3, GoodStays
  <2>5. QED
    BY <1>2, <1>3, <2>4 DEF Shape, Copied
<1>11. Placed'
  <2>1. tap # 0 => tap # sending'
    BY <1>1, <1>6, <1>7 DEF Shape, Placed
  <2>2. sending' # 0 => sending' \in ToSet(items) /\ sendAs' # None
    BY <1>1, <1>6
  <2>3. UNCHANGED <<tap, owner, wiped, items, refused, settled, read, kept, disk, OnPhone>>
    BY <1>2, <1>3 DEF ServerSame
  <2>4. Placed
    BY DEF Shape
  <2>5. tap' # 0 => /\ tap' = Len(owner')
                    /\ tap' \notin OnPhone' \cup settled' \cup kept' \cup {sending'}
    BY <2>1, <2>3, <2>4 DEF Placed
  <2>6. QED
    BY <2>2, <2>3, <2>4, <2>5 DEF Placed
<1>12. QED
  BY <1>8, <1>9, <1>10, <1>11 DEF Shape

LEMMA ShapeSendLost ==
  ASSUME Shape, SendLost
  PROVE  Shape'
<1>1. /\ sending # 0 /\ recorded' \subseteq recorded \cup {<<sending, sendAs>>}
      /\ sending' = 0 /\ sendAs' = None /\ draining' = FALSE /\ Fault("losses")
      /\ UNCHANGED <<given, session, tap, store, disk, reading, owner, settled, refused, wiped,
                     read, kept>>
  BY DEF SendLost
<1>2. UNCHANGED <<items, attention, writes>> /\ faults' \in [FaultKinds -> Nat]
  BY <1>1, FaultEffect DEF store, Shape, TypeOK, FaultKinds
<1>3. Copies' = Copies /\ OnPhone' = OnPhone /\ Waiting' = Waiting
  BY <1>1, StoreSame
<1>4. Items' = Items /\ Blobs' = Blobs
  BY <1>1 DEF Items, Blobs
<1>5. TypeOK'
  <2>1. sending \in Items /\ sendAs \in Users
    BY <1>1 DEF Shape, TypeOK, Placed
  <2>2. recorded' \subseteq Items \X Users
    BY <1>1, <2>1 DEF Shape, TypeOK
  <2>3. QED
    BY <1>1, <1>2, <1>4, <2>2 DEF Shape, TypeOK
<1>6. Launch'
  BY <1>1, <1>2 DEF Shape, Launch
<1>7. Copied'
  <2>1. 0 \notin Records
    BY RecordFacts DEF Items
  <2>2. Records \subseteq refused' /\ Records \cap (Waiting' \cup {sending'}) = {}
    BY <1>1, <1>3, <2>1, RecordFacts
  <2>3. QED
    BY <1>1, <1>2, <1>3, <2>2, GoodStays DEF Shape, Copied
<1>8. Placed'
  <2>1. tap # 0 => tap # sending'
    BY <1>1
  <2>2. QED
    BY <1>1, <1>2, <1>3, <2>1 DEF Shape, Placed
<1>9. QED
  BY <1>5, <1>6, <1>7, <1>8 DEF Shape

LEMMA ShapeWriteLands ==
  ASSUME Shape, WriteLands
  PROVE  Shape'
<1>1. /\ writes # << >> /\ disk' = Head(writes) /\ writes' = Tail(writes)
      /\ kept' = kept \cup ToSet(disk'.items)
      /\ UNCHANGED <<given, session, tap, items, attention, reading, draining, sending, sendAs,
                     owner, recorded, settled, refused, wiped, read, faults>>
  BY DEF WriteLands
<1>2. writes \in Seq(Blobs)
  BY DEF Shape, TypeOK
<1>3. /\ Head(writes) \in ToSet(writes) /\ Tail(writes) \in Seq(Blobs)
      /\ ToSet(Tail(writes)) \subseteq ToSet(writes)
  BY <1>1, <1>2, HeadTailEffect
<1>4. Copies' \subseteq Copies /\ Head(writes) \in Copies
  BY <1>1, <1>3 DEF Copies
<1>5. Items' = Items /\ Blobs' = Blobs
  BY <1>1 DEF Items, Blobs
<1>6. Waiting' = Waiting
  BY <1>1 DEF Waiting, Memory
<1>7. disk' \in Blobs /\ ToSet(disk'.items) \subseteq OnPhone
  BY <1>1, <1>4, CopyFacts DEF Shape, OnPhone
<1>8. OnPhone' \subseteq OnPhone
  BY <1>4 DEF OnPhone
<1>9. TypeOK'
  <2>1. kept' \subseteq Items
    BY <1>1, <1>7, RecordFacts DEF Shape, TypeOK
  <2>2. QED
    BY <1>1, <1>3, <1>5, <1>7, <2>1 DEF Shape, TypeOK
<1>10. Launch'
  BY <1>1 DEF Shape, Launch
<1>11. Copied'
  BY <1>1, <1>4, <1>6 DEF Shape, Copied, GoodBlob
<1>12. Placed'
  BY <1>1, <1>7, <1>8 DEF Shape, Placed
<1>13. QED
  BY <1>9, <1>10, <1>11, <1>12 DEF Shape

LEMMA ShapeReadFails ==
  ASSUME Shape, ReadFails
  PROVE  Shape'
<1>1. /\ reading' = Hydrated /\ Fault("readErrors")
      /\ UNCHANGED <<given, session, tap, store, disk, draining, sending, sendAs, history>>
  BY DEF ReadFails
<1>2. /\ UNCHANGED <<items, attention, writes, disk, given, session, tap, draining, sending,
                     sendAs>>
      /\ ServerSame
      /\ faults' \in [FaultKinds -> Nat]
  BY <1>1, FaultEffect DEF store, history, ServerSame, Shape, TypeOK, FaultKinds
<1>3. ToSet(reading') = {}
  BY <1>1, EmptyEffect DEF Hydrated
<1>4. Copies' \subseteq Copies
  BY <1>2, <1>3 DEF Copies
<1>5. Items' = Items /\ Blobs' = Blobs
  BY <1>2 DEF Items, Blobs, ServerSame
<1>6. Waiting' \subseteq Waiting
  <2>1. Memory' = Blob(items, attention)
    BY <1>1, <1>2 DEF Memory
  <2>2. Waiting' = ToSet(items)
    BY <2>1 DEF Waiting, Blob
  <2>3. QED
    BY <2>2, MemoryFacts DEF Shape
<1>7. OnPhone' \subseteq OnPhone
  BY <1>4 DEF OnPhone
<1>8. TypeOK'
  <2>1. reading' \in Seq(Blobs)
    BY <1>1 DEF Hydrated
  <2>2. QED
    BY <1>2, <1>5, <2>1 DEF Shape, TypeOK, ServerSame
<1>9. Launch'
  BY <1>1 DEF Launch, Hydrated
<1>10. Copied'
  BY <1>2, <1>3, <1>4, <1>6 DEF Shape, Copied, GoodBlob, ServerSame
<1>11. Placed'
  BY <1>2, <1>7 DEF Shape, Placed, ServerSame
<1>12. QED
  BY <1>8, <1>9, <1>10, <1>11 DEF Shape

LEMMA ShapeKill ==
  ASSUME Shape, Kill
  PROVE  Shape'
<1>1. /\ items' = << >> /\ attention' = << >> /\ writes' = << >> /\ reading' = <<disk>>
      /\ tap' = 0 /\ draining' = FALSE /\ sending' = 0 /\ sendAs' = None
      /\ UNCHANGED <<given, session, disk, history>> /\ Fault("kills")
  BY DEF Kill
<1>2. ServerSame /\ faults' \in [FaultKinds -> Nat]
  BY <1>1, FaultEffect DEF history, ServerSame, Shape, TypeOK, FaultKinds
<1>3. disk \in Blobs /\ disk \in Copies
  BY CopyFacts DEF Shape
<1>4. Items' = Items /\ Blobs' = Blobs
  BY <1>2 DEF Items, Blobs, ServerSame
<1>5. TypeOK'
  <2>1. /\ items' \in Seq(Items) /\ attention' \in Seq(Items) /\ writes' \in Seq(Blobs)
        /\ reading' \in Seq(Blobs) /\ Len(attention') <= MaxAttention
    BY <1>1, <1>3, BoundAssumption
  <2>2. QED
    BY <1>1, <1>2, <1>3, <1>4, <2>1 DEF Shape, TypeOK, ServerSame
<1>6. Launch'
  BY <1>1 DEF Launch
<1>7. reading' # Hydrated /\ reading'[1] = disk /\ ToSet(reading') = {disk}
  BY <1>1 DEF Hydrated, ToSet
<1>8. Copies' = {EmptyBlob, disk}
  BY <1>1, <1>7, EmptyEffect DEF Copies, EmptyBlob
<1>9. Waiting' = ToSet(disk.items)
  <2>1. disk.items \in Seq(Items)
    BY <1>3 DEF Blobs
  <2>2. Merged(disk.items, << >>) = disk.items
    BY <2>1, EmptyEffect, MergedEffect
  <2>3. Memory' = Blob(disk.items, Merged(disk.attention, << >>))
    BY <1>1, <1>7, <2>2 DEF Memory
  <2>4. QED
    BY <2>3 DEF Waiting, Blob
<1>10. GoodBlob(disk)
  BY <1>3 DEF Shape, Copied
<1>11. Copied'
  <2>1. 0 \notin ToSet(disk.attention)
    <3>1. ToSet(disk.attention) \subseteq Records
      BY <1>3 DEF Records
    <3>2. QED
      BY <3>1, RecordFacts DEF Items
  <2>2. GoodBlob(disk)'
    <3>1. /\ ToSet(disk.attention) \cap (Waiting' \cup {sending'}) = {}
          /\ ToSet(disk.attention) \subseteq refused'
      BY <1>1, <1>2, <1>9, <1>10, <2>1 DEF GoodBlob, ServerSame
    <3>2. disk' = disk
      BY <1>1
    <3>3. QED
      BY <1>10, <3>1, <3>2 DEF GoodBlob
  <2>3. GoodBlob(EmptyBlob)'
    <3>1. EmptyBlob.items = << >> /\ EmptyBlob.attention = << >> /\ Len(<< >>) = 0
      BY DEF EmptyBlob, Blob
    <3>2. QED
      BY <3>1, EmptyEffect, BoundAssumption DEF GoodBlob
  <2>4. \A b \in Copies' : GoodBlob(b)'
    BY <1>1, <1>8, <2>2, <2>3
  <2>5. QED
    BY <1>1, <2>4, EmptyEffect DEF Copied
<1>12. Placed'
  BY <1>1, <1>2 DEF Shape, Placed, ServerSame
<1>13. QED
  BY <1>5, <1>6, <1>11, <1>12 DEF Shape

\* A step that writes: the new copy is good if it has the shape of one, and the
\* others stay so.
LEMMA CopiedAfterSet ==
  ASSUME Shape, NEW i \in Seq(Items), NEW a \in Seq(Items), Set(i, a),
         disk' = disk, reading' \in {reading, Hydrated},
         Records \subseteq refused', Records \cap (Waiting' \cup {sending'}) = {},
         Increasing(i), OneToOne(a), Len(a) <= MaxAttention,
         ToSet(i) \subseteq Waiting', ToSet(a) \subseteq refused',
         ToSet(a) \cap (Waiting' \cup {sending'}) = {},
         \A b \in ToSet(reading') : \A m \in ToSet(b.items), n \in ToSet(i) : m < n
  PROVE  Copied'
<1>1. Copies' \subseteq Copies \cup {Blob(i, a)} /\ items' = i
  BY SetEffect DEF Shape
<1>2. Blob(i, a).items = i /\ Blob(i, a).attention = a
  BY DEF Blob
<1>3. GoodBlob(Blob(i, a))'
  <2> DEFINE b == Blob(i, a)
  <2>1. b.items = i /\ b.attention = a
    BY <1>2
  <2> HIDE DEF b
  <2>2. ToSet(i) \cap ToSet(a) = {}
    OBVIOUS
  <2>3. GoodBlob(b)'
    BY <2>1, <2>2 DEF GoodBlob
  <2>4. QED
    BY <2>3 DEF b
<1>4. \A b \in Copies : GoodBlob(b)'
  BY GoodStays
<1>5. \A b \in Copies' : GoodBlob(b)'
  BY <1>1, <1>3, <1>4
<1>6. \A m \in UNION {ToSet(b.items) : b \in ToSet(reading')}, n \in ToSet(items') : m < n
  BY <1>1
<1>7. QED
  BY <1>5, <1>6 DEF Copied

LEMMA WaitingAfter ==
  ASSUME reading' = Hydrated
  PROVE  Memory' = Blob(items', attention') /\ Waiting' = ToSet(items')
<1>1. Memory' = Blob(items', attention')
  BY DEF Memory
<1>2. QED
  BY <1>1 DEF Waiting, Blob

LEMMA TapLostEffect ==
  ASSUME Shape, TapLost
  PROVE  /\ tap \in Items /\ Set(Append(items, tap), attention) /\ Append(items, tap) \in Seq(Items)
         /\ tap' = 0 /\ faults' \in [FaultKinds -> Nat] /\ Fault("losses")
         /\ Allowed("earlyTap") \/ reading = Hydrated
         /\ recorded' \subseteq recorded \cup {<<tap, owner[tap]>>}
         /\ ToSet(Append(items, tap)) = ToSet(items) \cup {tap}
         /\ Waiting' = Waiting \cup {tap}
         /\ UNCHANGED <<given, session, disk, reading, draining, sending, sendAs,
                        owner, settled, refused, wiped, read, kept>>
<1>1. /\ tap # 0 /\ Fault("losses") /\ Set(Append(items, tap), attention) /\ tap' = 0
      /\ Allowed("earlyTap") \/ reading = Hydrated
      /\ recorded' \subseteq recorded \cup {<<tap, owner[tap]>>}
      /\ UNCHANGED <<given, session, disk, reading, draining, sending, sendAs,
                     owner, settled, refused, wiped, read, kept>>
  BY DEF TapLost
<1>2. tap \in Items /\ items \in Seq(Items) /\ attention \in Seq(Items)
  BY <1>1 DEF Shape, TypeOK
<1>3. Append(items, tap) \in Seq(Items) /\ ToSet(Append(items, tap)) = ToSet(items) \cup {tap}
  BY <1>2, AppendEffect
<1>4. items' = Append(items, tap) /\ attention' = attention
  BY <1>1 DEF Set
<1>5. Waiting' = Waiting \cup {tap}
  <2>1. CASE reading = Hydrated
    <3>1. reading' = Hydrated
      BY <1>1, <2>1
    <3>2. Waiting' = ToSet(items')
      BY <3>1, WaitingAfter
    <3>3. QED
      BY <1>3, <1>4, <2>1, <3>2, MemoryFacts DEF Shape
  <2>2. CASE reading # Hydrated
    <3>1. reading[1] \in Blobs /\ reading[1].items \in Seq(Items)
      BY <2>2, CopyFacts DEF Shape, Blobs
    <3>2. Memory' = Blob(Merged(reading[1].items, items'), Merged(reading[1].attention, attention'))
      BY <1>1, <2>2 DEF Memory
    <3>3. Waiting' = ToSet(Merged(reading[1].items, items'))
      BY <3>2 DEF Waiting, Blob
    <3>4. items' \in Seq(Items)
      BY <1>3, <1>4
    <3>5. ToSet(Merged(reading[1].items, items')) = ToSet(reading[1].items) \cup ToSet(items')
      BY <3>1, <3>4, MergedEffect
    <3>6. ToSet(items') = ToSet(items) \cup {tap}
      BY <1>3, <1>4
    <3>7. Waiting = ToSet(reading[1].items) \cup ToSet(items)
      BY <2>2, MemoryFacts DEF Shape
    <3>8. QED
      BY <3>3, <3>5, <3>6, <3>7
  <2>3. QED
    BY <2>1, <2>2
<1>6. faults' \in [FaultKinds -> Nat]
  BY <1>1, FaultEffect DEF Shape, TypeOK, FaultKinds
<1>7. QED
  BY <1>1, <1>2, <1>3, <1>5, <1>6

LEMMA ShapeTapLost ==
  ASSUME Shape, TapLost
  PROVE  Shape'
<1> DEFINE i == Append(items, tap)
<1>1. /\ tap \in Items /\ Set(i, attention) /\ i \in Seq(Items)
      /\ tap' = 0 /\ faults' \in [FaultKinds -> Nat]
      /\ recorded' \subseteq recorded \cup {<<tap, owner[tap]>>}
      /\ ToSet(i) = ToSet(items) \cup {tap}
      /\ Waiting' = Waiting \cup {tap}
      /\ UNCHANGED <<given, session, disk, reading, draining, sending, sendAs,
                     owner, settled, refused, wiped, read, kept>>
  BY TapLostEffect
<1>2. tap # 0 /\ tap = Len(owner) /\ tap \notin OnPhone \cup settled \cup kept \cup {sending}
  BY <1>1 DEF Shape, Placed, Items
<1>3. attention \in Seq(Items) /\ items \in Seq(Items) /\ Len(attention) <= MaxAttention
  BY DEF Shape, TypeOK
<1>4. Blob(items, attention) \in Copies /\ GoodBlob(Blob(items, attention))
  BY CopyFacts DEF Shape, Copied
<1>5. Increasing(items) /\ OneToOne(attention)
  BY <1>4 DEF GoodBlob, Blob
<1>6. ToSet(attention) \subseteq Records
  BY <1>4 DEF Records, Blob
<1>7. \A n \in OnPhone : n < tap
  BY <1>2, RecordFacts DEF Items
<1>8. ToSet(items) \subseteq OnPhone /\ ToSet(items) \subseteq Waiting
  BY MemoryFacts DEF Shape
<1>9. Increasing(i)
  BY <1>1, <1>3, <1>5, <1>7, <1>8, AppendEffect
<1>10. Items' = Items /\ Blobs' = Blobs
  BY <1>1 DEF Items, Blobs
<1>11. /\ items' = i /\ attention' = attention /\ writes' \in Seq(Blobs)
       /\ OnPhone' \subseteq OnPhone \cup ToSet(i)
  BY <1>1, <1>3, SetEffect DEF Shape
<1> HIDE DEF i
<1>12. TypeOK'
  <2>1. recorded' \subseteq Items \X Users
    <3>1. owner[tap] \in Users
      BY <1>1 DEF Shape, TypeOK, Items
    <3>2. QED
      BY <1>1, <3>1 DEF Shape, TypeOK
  <2>2. QED
    BY <1>1, <1>3, <1>10, <1>11, <2>1 DEF Shape, TypeOK
<1>13. Launch'
  BY <1>1, <1>11 DEF Shape, Launch
<1>14. Copied'
  <2>1. Records \subseteq refused' /\ tap \notin Records
    BY <1>1, <1>2, RecordFacts
  <2>2. Records \cap (Waiting' \cup {sending'}) = {}
    BY <1>1, <2>1, RecordFacts
  <2>3. ToSet(i) \subseteq Waiting'
    BY <1>1, <1>8
  <2>4. ToSet(attention) \subseteq refused' /\ ToSet(attention) \cap (Waiting' \cup {sending'}) = {}
    BY <1>6, <2>1, <2>2
  <2>5. ASSUME NEW b \in ToSet(reading'), NEW m \in ToSet(b.items), NEW n \in ToSet(i)
        PROVE  m < n
    <3>1. b \in ToSet(reading) /\ m \in OnPhone
      BY <1>1, <2>5 DEF Copies, OnPhone
    <3>2. CASE n = tap
      BY <1>7, <3>1, <3>2
    <3>3. CASE n \in ToSet(items)
      BY <2>5, <3>1, <3>3 DEF Shape, Copied
    <3>4. QED
      BY <1>1, <3>2, <3>3
  <2>6. QED
    BY <1>1, <1>3, <1>5, <1>9, <2>1, <2>2, <2>3, <2>4, <2>5, CopiedAfterSet
<1>15. Placed'
  BY <1>1, <1>11 DEF Shape, Placed
<1>16. QED
  BY <1>12, <1>13, <1>14, <1>15 DEF Shape

LEMMA RehydrateEffect ==
  ASSUME Shape, Rehydrate
  PROVE  /\ reading # Hydrated /\ reading' = Hydrated /\ sending = 0
         /\ Set(Memory.items, Memory.attention)
         /\ Memory.items \in Seq(Items) /\ Memory.attention \in Seq(Items)
         /\ Memory' = Memory /\ Waiting' = Waiting
         /\ Increasing(Memory.items) /\ OneToOne(Memory.attention)
         /\ Len(Memory.attention) <= MaxAttention
         /\ UNCHANGED <<given, session, tap, disk, draining, sending, sendAs, history, faults>>
<1>1. /\ Len(reading) = 1 /\ reading' = Hydrated
      /\ Set(Merged(reading[1].items, items), Merged(reading[1].attention, attention))
      /\ UNCHANGED <<given, session, tap, disk, draining, sending, sendAs, history, faults>>
  BY DEF Rehydrate
<1>2. reading # Hydrated
  BY <1>1 DEF Hydrated
<1>3. Memory = Blob(Merged(reading[1].items, items), Merged(reading[1].attention, attention))
  BY <1>2 DEF Memory
<1>4. /\ Memory.items = Merged(reading[1].items, items)
      /\ Memory.attention = Merged(reading[1].attention, attention)
      /\ Memory = Blob(Memory.items, Memory.attention)
  BY <1>3 DEF Blob
<1>5. Memory.items \in Seq(Items) /\ Memory.attention \in Seq(Items)
  BY MemoryFacts DEF Shape, Blobs
<1>6. Set(Memory.items, Memory.attention)
  BY <1>1, <1>4
<1>7. Memory' = Memory
  <2>1. items' = Memory.items /\ attention' = Memory.attention
    BY <1>6 DEF Set
  <2>2. QED
    BY <1>1, <1>4, <2>1, WaitingAfter
<1>8. GoodBlob(reading[1]) /\ reading[1] \in Blobs /\ ToSet(reading) = {reading[1]}
  BY <1>2, CopyFacts DEF Shape, Copied
<1>9. Increasing(Memory.items)
  <2>1. reading[1].items \in Seq(Items) /\ items \in Seq(Items)
    BY <1>8 DEF Blobs, Shape, TypeOK
  <2>2. Increasing(reading[1].items)
    BY <1>8 DEF GoodBlob
  <2>3. Increasing(items)
    <3>1. GoodBlob(Blob(items, attention))
      BY CopyFacts DEF Shape, Copied
    <3>2. QED
      BY <3>1 DEF GoodBlob, Blob
  <2>4. \A m \in ToSet(reading[1].items), n \in ToSet(items) : m < n
    BY <1>8 DEF Shape, Copied
  <2>5. QED
    BY <1>4, <2>1, <2>2, <2>3, <2>4, MergedEffect
<1>10. OneToOne(Memory.attention) /\ Len(Memory.attention) <= MaxAttention
  BY <1>2, <1>8, MemoryFacts DEF Shape, GoodBlob
<1>11. sending = 0
  BY <1>2 DEF Shape, Launch
<1>12. Waiting' = Waiting
  BY <1>7 DEF Waiting
<1>13. QED
  BY <1>1, <1>2, <1>5, <1>6, <1>7, <1>9, <1>10, <1>11, <1>12

LEMMA ShapeRehydrate ==
  ASSUME Shape, Rehydrate
  PROVE  Shape'
<1> DEFINE i == Memory.items
           a == Memory.attention
<1>1. /\ reading' = Hydrated /\ Set(i, a) /\ i \in Seq(Items) /\ a \in Seq(Items)
      /\ Waiting' = Waiting /\ Increasing(i) /\ OneToOne(a) /\ Len(a) <= MaxAttention
      /\ UNCHANGED <<given, session, tap, disk, draining, sending, sendAs, history, faults>>
  BY RehydrateEffect
<1>2. UNCHANGED <<given, session, tap, disk, draining, sending, sendAs, faults>> /\ ServerSame
  BY <1>1 DEF history, ServerSame
<1>3. Items' = Items /\ Blobs' = Blobs
  BY <1>2 DEF Items, Blobs, ServerSame
<1>4. Waiting = ToSet(i) /\ ToSet(i) \subseteq OnPhone /\ ToSet(a) \subseteq Records
      /\ ToSet(items) \subseteq Waiting
  BY MemoryFacts DEF Shape, Waiting
<1> HIDE DEF i, a
<1>5. /\ items' = i /\ attention' = a /\ writes' \in Seq(Blobs)
      /\ OnPhone' \subseteq OnPhone \cup ToSet(i)
  BY <1>1, SetEffect DEF Shape
<1>6. ToSet(reading') = {} /\ reading' \in Seq(Blobs)
  BY <1>1, EmptyEffect DEF Hydrated
<1>7. TypeOK'
  BY <1>1, <1>2, <1>3, <1>5, <1>6 DEF Shape, TypeOK, ServerSame
<1>8. Launch'
  BY <1>1 DEF Launch, Hydrated
<1>9. Copied'
  <2>1. Records \subseteq refused' /\ Records \cap (Waiting' \cup {sending'}) = {}
    BY <1>1, <1>2, RecordFacts DEF ServerSame
  <2>2. ToSet(a) \subseteq refused' /\ ToSet(a) \cap (Waiting' \cup {sending'}) = {}
    BY <1>4, <2>1
  <2>3. QED
    BY <1>1, <1>2, <1>4, <1>6, <2>1, <2>2, CopiedAfterSet
<1>10. Placed'
  <2>1. sending' # 0 => sending' \in wiped' \cup ToSet(items') /\ sendAs' # None
    BY <1>2, <1>4, <1>5 DEF Shape, Placed, ServerSame
  <2>2. QED
    BY <1>2, <1>4, <1>5, <2>1 DEF Shape, Placed, ServerSame
<1>11. QED
  BY <1>7, <1>8, <1>9, <1>10 DEF Shape

\* An answer, or a dismissal: the queue without the item in flight, or as it was.
LEMMA AnswerEffect ==
  ASSUME Shape, sending # 0, NEW a \in Seq(Items), Set(Without(items, sending), a),
         disk' = disk, reading' = reading
  PROVE  /\ reading = Hydrated /\ sending \in Items /\ sendAs \in Users
         /\ Without(items, sending) \in Seq(Items)
         /\ items' = Without(items, sending) /\ attention' = a
         /\ ToSet(items') = ToSet(items) \ {sending} /\ Increasing(items')
         /\ Waiting = ToSet(items) /\ Waiting' = Waiting \ {sending}
         /\ Memory' = Blob(items', a)
<1>1. reading = Hydrated /\ reading' = Hydrated
  BY DEF Shape, Launch
<1>2. items \in Seq(Items) /\ sending \in Items /\ sendAs \in Users
  BY DEF Shape, TypeOK, Placed
<1>3. Increasing(items)
  <2>1. GoodBlob(Blob(items, attention))
    BY CopyFacts DEF Shape, Copied
  <2>2. QED
    BY <2>1 DEF GoodBlob, Blob
<1>4. items' = Without(items, sending) /\ attention' = a
  BY DEF Set
<1>5. /\ Without(items, sending) \in Seq(Items)
      /\ ToSet(items') = ToSet(items) \ {sending} /\ Increasing(items')
  BY <1>2, <1>3, <1>4, WithoutEffect
<1>6. Waiting = ToSet(items)
  BY <1>1, MemoryFacts DEF Shape
<1>7. Memory' = Blob(items', a) /\ Waiting' = ToSet(items')
  BY <1>1, <1>4, WaitingAfter
<1>8. QED
  BY <1>1, <1>2, <1>4, <1>5, <1>6, <1>7

LEMMA MemoryList ==
  ASSUME Shape
  PROVE  /\ items \in Seq(Items) /\ attention \in Seq(Items)
         /\ Increasing(items) /\ OneToOne(attention) /\ Len(attention) <= MaxAttention
         /\ ToSet(items) \subseteq OnPhone /\ ToSet(attention) \subseteq Records
<1>1. Blob(items, attention) \in Copies
  BY CopyFacts DEF Shape
<1>2. GoodBlob(Blob(items, attention))
  BY <1>1 DEF Shape, Copied
<1>3. QED
  BY <1>1, <1>2 DEF Shape, TypeOK, GoodBlob, Blob, OnPhone, Records

LEMMA ShapeAccepted ==
  ASSUME Shape, Accepted
  PROVE  Shape'
<1> DEFINE i == Without(items, sending)
<1>1. /\ sending # 0 /\ recorded' = recorded \cup {<<sending, sendAs>>}
      /\ settled' = settled \cup {sending} /\ refused' = refused \ {sending}
      /\ Set(i, attention) /\ sending' = 0 /\ sendAs' = None
      /\ UNCHANGED <<given, session, tap, disk, reading, draining, owner, wiped, read, kept,
                     faults>>
  BY DEF Accepted
<1>2. /\ items \in Seq(Items) /\ attention \in Seq(Items) /\ OneToOne(attention)
      /\ Len(attention) <= MaxAttention
      /\ ToSet(items) \subseteq OnPhone /\ ToSet(attention) \subseteq Records
  BY MemoryList
<1>3. /\ reading = Hydrated /\ sending \in Items /\ sendAs \in Users /\ i \in Seq(Items)
      /\ items' = i /\ attention' = attention
      /\ ToSet(i) = ToSet(items) \ {sending} /\ Increasing(i)
      /\ Waiting = ToSet(items) /\ Waiting' = Waiting \ {sending}
  BY <1>1, <1>2, AnswerEffect
<1> HIDE DEF i
<1>4. Items' = Items /\ Blobs' = Blobs
  BY <1>1 DEF Items, Blobs
<1>5. writes' \in Seq(Blobs) /\ OnPhone' \subseteq OnPhone \cup ToSet(i)
  BY <1>1, <1>2, <1>3, SetEffect DEF Shape
<1>6. TypeOK'
  <2>1. recorded' \subseteq Items \X Users
    BY <1>1, <1>3 DEF Shape, TypeOK
  <2>2. QED
    BY <1>1, <1>2, <1>3, <1>4, <1>5, <2>1 DEF Shape, TypeOK
<1>7. Launch'
  BY <1>1, <1>3 DEF Launch, Hydrated
<1>8. Copied'
  <2>1. 0 \notin Records /\ Records \subseteq refused'
    BY <1>1, RecordFacts DEF Items
  <2>2. Records \cap (Waiting' \cup {sending'}) = {}
    BY <1>1, <1>3, <2>1, RecordFacts
  <2>3. ToSet(i) \subseteq Waiting' /\ ToSet(reading') = {}
    BY <1>1, <1>3, EmptyEffect DEF Hydrated
  <2>4. ToSet(attention) \subseteq refused' /\ ToSet(attention) \cap (Waiting' \cup {sending'}) = {}
    BY <1>2, <2>1, <2>2
  <2>5. QED
    BY <1>1, <1>2, <1>3, <2>1, <2>2, <2>3, <2>4, CopiedAfterSet
<1>9. Placed'
  <2>1. refused' \cup read' \subseteq settled' /\ ToSet(disk'.items) \subseteq kept'
    BY <1>1 DEF Shape, Placed
  <2>2. tap' # 0 => /\ tap' = Len(owner')
                    /\ tap' \notin OnPhone' \cup settled' \cup kept' \cup {sending'}
    BY <1>1, <1>2, <1>3, <1>5 DEF Shape, Placed
  <2>3. QED
    BY <1>1, <2>1, <2>2 DEF Placed
<1>10. QED
  BY <1>6, <1>7, <1>8, <1>9 DEF Shape

\* The record of a refused item, where the list has room for it.
LEMMA RecordEffect ==
  ASSUME Shape, sending # 0
  PROVE  /\ Record(sending) \in Seq(Items) /\ OneToOne(Record(sending))
         /\ Len(Record(sending)) <= MaxAttention
         /\ ToSet(attention) \subseteq ToSet(Record(sending))
         /\ ToSet(Record(sending)) \subseteq ToSet(attention) \cup {sending}
         /\ sending \notin ToSet(Record(sending)) => Len(attention) = MaxAttention
<1>1. /\ attention \in Seq(Items) /\ OneToOne(attention) /\ Len(attention) <= MaxAttention
      /\ ToSet(attention) \subseteq Records
  BY MemoryList
<1>2. sending \in Items /\ sending \notin ToSet(attention)
  BY <1>1, RecordFacts DEF Shape, TypeOK
<1>3. MaxAttention \in Nat /\ Len(attention) \in Nat
  BY <1>1, BoundAssumption
<1>4. CASE Len(attention) < MaxAttention
  <2>1. Record(sending) = Append(attention, sending)
    BY <1>4 DEF Record
  <2>2. QED
    BY <1>1, <1>2, <1>3, <1>4, <2>1, AppendEffect
<1>5. CASE ~(Len(attention) < MaxAttention)
  <2>1. Record(sending) = attention
    BY <1>5 DEF Record
  <2>2. QED
    BY <1>1, <1>3, <1>5, <2>1
<1>6. QED
  BY <1>4, <1>5

LEMMA ShapeRefused ==
  ASSUME Shape, Refused
  PROVE  Shape'
<1> DEFINE i == Without(items, sending)
           a == Record(sending)
<1>1. /\ sending # 0 /\ settled' = settled \cup {sending} /\ refused' = refused \cup {sending}
      /\ Set(i, a) /\ sending' = 0 /\ sendAs' = None
      /\ UNCHANGED <<given, session, tap, disk, reading, draining, owner, recorded, wiped, read,
                     kept, faults>>
  BY DEF Refused
<1>2. /\ items \in Seq(Items) /\ ToSet(items) \subseteq OnPhone
      /\ ToSet(attention) \subseteq Records
  BY MemoryList
<1>3. /\ a \in Seq(Items) /\ OneToOne(a) /\ Len(a) <= MaxAttention
      /\ ToSet(a) \subseteq ToSet(attention) \cup {sending}
  BY <1>1, RecordEffect
<1>4. /\ reading = Hydrated /\ sending \in Items /\ i \in Seq(Items)
      /\ items' = i /\ attention' = a
      /\ ToSet(i) = ToSet(items) \ {sending} /\ Increasing(i)
      /\ Waiting = ToSet(items) /\ Waiting' = Waiting \ {sending}
  BY <1>1, <1>3, AnswerEffect
<1> HIDE DEF i, a
<1>5. Items' = Items /\ Blobs' = Blobs
  BY <1>1 DEF Items, Blobs
<1>6. writes' \in Seq(Blobs) /\ OnPhone' \subseteq OnPhone \cup ToSet(i)
  BY <1>1, <1>3, <1>4, SetEffect DEF Shape
<1>7. TypeOK'
  BY <1>1, <1>3, <1>4, <1>5, <1>6 DEF Shape, TypeOK
<1>8. Launch'
  BY <1>1, <1>4 DEF Launch, Hydrated
<1>9. Copied'
  <2>1. 0 \notin Records /\ Records \subseteq refused' /\ sending # 0
    BY <1>1, RecordFacts DEF Items
  <2>2. Records \cap (Waiting' \cup {sending'}) = {}
    BY <1>1, <1>4, <2>1, RecordFacts
  <2>3. ToSet(i) \subseteq Waiting' /\ ToSet(reading') = {}
    BY <1>1, <1>4, EmptyEffect DEF Hydrated
  <2>4. ToSet(a) \subseteq refused' /\ ToSet(a) \cap (Waiting' \cup {sending'}) = {}
    BY <1>1, <1>2, <1>3, <1>4, <2>1, <2>2
  <2>5. QED
    BY <1>1, <1>3, <1>4, <2>1, <2>2, <2>3, <2>4, CopiedAfterSet
<1>10. Placed'
  <2>1. refused' \cup read' \subseteq settled' /\ ToSet(disk'.items) \subseteq kept'
    BY <1>1 DEF Shape, Placed
  <2>2. tap' # 0 => /\ tap' = Len(owner')
                    /\ tap' \notin OnPhone' \cup settled' \cup kept' \cup {sending'}
    BY <1>1, <1>2, <1>4, <1>6 DEF Shape, Placed
  <2>3. QED
    BY <1>1, <2>1, <2>2 DEF Placed
<1>11. QED
  BY <1>7, <1>8, <1>9, <1>10 DEF Shape

LEMMA ShapeDismiss ==
  ASSUME Shape, Dismiss
  PROVE  Shape'
<1>1. /\ attention # << >> /\ read' = read \cup ToSet(attention) /\ Set(items, << >>)
      /\ UNCHANGED <<given, session, tap, disk, reading, draining, sending, sendAs,
                     owner, recorded, settled, refused, wiped, kept, faults>>
  BY DEF Dismiss
<1>2. /\ items \in Seq(Items) /\ Increasing(items)
      /\ ToSet(items) \subseteq OnPhone /\ ToSet(attention) \subseteq Records
  BY MemoryList
<1>3. << >> \in Seq(Items) /\ Len(<< >>) <= MaxAttention
  BY BoundAssumption
<1>4. reading = Hydrated
  BY <1>1 DEF Shape, Launch
<1>5. /\ items' = items /\ attention' = << >> /\ writes' \in Seq(Blobs)
      /\ OnPhone' \subseteq OnPhone \cup ToSet(items)
  BY <1>1, <1>2, <1>3, SetEffect DEF Shape
<1>6. Waiting' = Waiting
  BY <1>1, <1>4, <1>5, WaitingAfter, MemoryFacts DEF Shape
<1>7. Items' = Items /\ Blobs' = Blobs
  BY <1>1 DEF Items, Blobs
<1>8. TypeOK'
  BY <1>1, <1>2, <1>3, <1>5, <1>7, RecordFacts DEF Shape, TypeOK
<1>9. Launch'
  BY <1>1, <1>4 DEF Launch, Hydrated
<1>10. Copied'
  <2>1. Records \subseteq refused' /\ Records \cap (Waiting' \cup {sending'}) = {}
    BY <1>1, <1>6, RecordFacts
  <2>2. ToSet(items) \subseteq Waiting' /\ ToSet(reading') = {}
    BY <1>1, <1>4, <1>6, EmptyEffect, MemoryFacts DEF Shape, Hydrated
  <2>3. QED
    BY <1>1, <1>2, <1>3, <2>1, <2>2, EmptyEffect, CopiedAfterSet
<1>11. Placed'
  BY <1>1, <1>2, <1>5, RecordFacts DEF Shape, Placed
<1>12. QED
  BY <1>8, <1>9, <1>10, <1>11 DEF Shape

LEMMA ShapeSignOut ==
  ASSUME Shape, SignOut
  PROVE  Shape'
<1>1. /\ session # None /\ session' = None /\ Fault("signOuts")
      /\ wiped' = wiped \cup OnPhone /\ read' = read \cup Records
      /\ Set(<< >>, << >>) /\ reading' = Hydrated
      /\ UNCHANGED <<given, tap, disk, draining, sending, sendAs,
                     owner, recorded, settled, refused, kept>>
  BY DEF SignOut, ClearForSignOut
<1>2. << >> \in Seq(Items) /\ Len(<< >>) <= MaxAttention
  BY BoundAssumption
<1>3. /\ items' = << >> /\ attention' = << >> /\ writes' \in Seq(Blobs)
      /\ OnPhone' \subseteq OnPhone \cup ToSet(<< >>)
  BY <1>1, <1>2, SetEffect DEF Shape
<1>4. faults' \in [FaultKinds -> Nat]
  BY <1>1, FaultEffect DEF Shape, TypeOK, FaultKinds
<1>5. Waiting' = {} /\ OnPhone' \subseteq OnPhone
  BY <1>1, <1>3, EmptyEffect, WaitingAfter
<1>6. Items' = Items /\ Blobs' = Blobs
  BY <1>1 DEF Items, Blobs
<1>7. ToSet(items) \subseteq OnPhone
  BY MemoryList
<1>8. TypeOK'
  <2>1. reading' \in Seq(Blobs)
    BY <1>1 DEF Hydrated
  <2>2. QED
    BY <1>1, <1>2, <1>3, <1>4, <1>6, <2>1, RecordFacts DEF Shape, TypeOK
<1>9. Launch'
  BY <1>1 DEF Launch, Hydrated
<1>10. Copied'
  <2>1. Records \subseteq refused' /\ Records \cap (Waiting' \cup {sending'}) = {}
    BY <1>1, <1>5, RecordFacts
  <2>2. ToSet(reading') = {}
    BY <1>1, EmptyEffect DEF Hydrated
  <2>3. QED
    BY <1>1, <1>2, <2>1, <2>2, EmptyEffect, CopiedAfterSet
<1>11. Placed'
  BY <1>1, <1>3, <1>5, <1>7, RecordFacts DEF Shape, Placed
<1>12. QED
  BY <1>8, <1>9, <1>10, <1>11 DEF Shape

LEMMA InitShape ==
  ASSUME Init
  PROVE  Shape
<1>1. /\ given \in Conditions /\ session = None /\ tap = 0
      /\ items = << >> /\ attention = << >> /\ writes = << >>
      /\ disk = EmptyBlob /\ reading = <<EmptyBlob>>
      /\ draining = FALSE /\ sending = 0 /\ sendAs = None
      /\ owner = << >> /\ recorded = {} /\ settled = {} /\ refused = {}
      /\ wiped = {} /\ read = {} /\ kept = {}
  BY DEF Init
<1>2. faults \in [FaultKinds -> Nat]
  BY DEF Init, FaultKinds
<1>3. EmptyBlob.items = << >> /\ EmptyBlob.attention = << >> /\ EmptyBlob \in Blobs
  BY DEF EmptyBlob, Blob, Blobs
<1>4. Len(<< >>) = 0 /\ 0 <= MaxAttention /\ Len(reading) = 1
  BY <1>1, BoundAssumption
<1>5. TypeOK
  <2>1. /\ items \in Seq(Items) /\ attention \in Seq(Items) /\ Len(attention) <= MaxAttention
        /\ writes \in Seq(Blobs) /\ disk \in Blobs /\ reading \in Seq(Blobs)
        /\ owner \in Seq(Users)
    BY <1>1, <1>3, <1>4
  <2>2. recorded \subseteq Items \X Users /\ draining \in BOOLEAN
    BY <1>1
  <2>3. QED
    BY <1>1, <1>2, <2>1, <2>2 DEF TypeOK
<1>6. Launch
  BY <1>1, <1>4 DEF Launch
<1>7. reading # Hydrated /\ reading[1] = EmptyBlob /\ ToSet(reading) = {EmptyBlob}
  BY <1>1 DEF Hydrated, ToSet
<1>8. Copies = {EmptyBlob} /\ OnPhone = {} /\ Records = {}
  <2>1. Copies = {EmptyBlob}
    BY <1>1, <1>7, EmptyEffect DEF Copies, EmptyBlob
  <2>2. QED
    BY <1>3, <2>1, EmptyEffect DEF OnPhone, Records
<1>9. Waiting = {}
  BY <1>5, <1>6, <1>8, MemoryFacts
<1>10. Copied
  BY <1>1, <1>3, <1>4, <1>8, <1>9, EmptyEffect DEF Copied, GoodBlob
<1>11. Placed
  BY <1>1, <1>3, EmptyEffect DEF Placed
<1>12. QED
  BY <1>5, <1>6, <1>10, <1>11 DEF Shape

LEMMA NextShape ==
  ASSUME Shape, [Next]_vars
  PROVE  Shape'
<1>1. faults \in [FaultKinds -> Nat] /\ session \in Users \cup {None} /\ draining \in BOOLEAN
  BY DEF Shape, TypeOK
<1>2. ASSUME Flush PROVE Shape'
  BY <1>1, <1>2, ShapeSession DEF Flush
<1>3. ASSUME Expire PROVE Shape'
  <2>1. faults' \in [FaultKinds -> Nat]
    BY <1>1, <1>3, FaultEffect DEF Expire, FaultKinds
  <2>2. QED
    BY <1>1, <1>3, <2>1, ShapeSession DEF Expire
<1>4. ASSUME NEW u \in Users, SignIn(u) PROVE Shape'
  BY <1>1, <1>4, ShapeSession DEF SignIn
<1>5. ASSUME UNCHANGED vars PROVE Shape'
  BY <1>1, <1>5, ShapeSession DEF vars
<1>6. ASSUME Answers PROVE Shape'
  BY <1>6, ShapeTapAnswered, ShapeAccepted, ShapeRefused DEF Answers
<1>7. ASSUME Next PROVE Shape'
  BY <1>2, <1>3, <1>4, <1>6, <1>7, ShapeTap, ShapeTapLost, ShapeWriteLands, ShapeRehydrate,
     ShapeReadFails, ShapeKill, ShapeSend, ShapeSendLost, ShapeDismiss, ShapeSignOut DEF Next
<1>8. QED
  BY <1>5, <1>7
------------------------------------------------------------------------------
(* Every item stays accounted for. *)

LEMMA FewerRefused ==
  ASSUME NEW N \in Nat, NEW R, R \subseteq 1 .. N, NEW P, P \subseteq R
  PROVE  /\ IsFiniteSet(R) /\ Cardinality(P) \in Nat /\ Cardinality(R) \in Nat
         /\ Cardinality(P) <= Cardinality(R)
<1>1. IsFiniteSet(1 .. N)
  BY FS_Interval
<1>2. IsFiniteSet(R)
  BY <1>1, FS_Subset
<1>3. IsFiniteSet(P) /\ Cardinality(P) <= Cardinality(R)
  BY <1>2, FS_Subset
<1>4. QED
  BY <1>2, <1>3, FS_CardinalityType

\* Item n goes from blob b to blob c: it stays accounted for if it is not newly
\* refused, is not lost on the way, and nothing refused for good comes back.
LEMMA AccountedMoves ==
  ASSUME Shape, Shape', NEW n, NEW b, NEW c, Accounted(n, b),
         wiped \subseteq wiped', read \subseteq read', settled \subseteq settled',
         n \in refused' => n \in refused,
         n \in ToSet(b.items) \cup ToSet(b.attention) =>
           n \in ToSet(c.items) \cup ToSet(c.attention) \cup wiped' \cup read'
                   \cup (settled' \ refused'),
         refused \ (ToSet(b.items) \cup {sending}) \subseteq
           refused' \ (ToSet(c.items) \cup {sending'})
  PROVE  Accounted(n, c)'
<1>1. CASE n \in wiped \cup read \cup (settled \ refused)
  BY <1>1 DEF Accounted
<1>2. CASE n \in ToSet(b.items) \cup ToSet(b.attention)
  BY <1>2 DEF Accounted
<1>3. CASE n \in refused /\ Overflown(b)
  <2> DEFINE P == refused \ (ToSet(b.items) \cup {sending})
             R == refused' \ (ToSet(c.items) \cup {sending'})
  <2>1. refused' \subseteq 1 .. Len(owner') /\ Len(owner') \in Nat
    BY DEF Shape, TypeOK, Items
  <2>2. P \subseteq R /\ R \subseteq 1 .. Len(owner')
    BY <2>1
  <2>3. Cardinality(P) \in Nat /\ Cardinality(R) \in Nat /\ Cardinality(P) <= Cardinality(R)
    BY <2>1, <2>2, FewerRefused
  <2>4. Cardinality(P) > MaxAttention
    BY <1>3 DEF Overflown
  <2> HIDE DEF P, R
  <2>5. Cardinality(R) > MaxAttention
    BY <2>3, <2>4, BoundAssumption
  <2>6. Overflown(c)'
    BY <2>5 DEF R, Overflown
  <2>7. n \in settled
    BY <1>3 DEF Shape, Placed
  <2>8. QED
    BY <2>6, <2>7 DEF Accounted
<1>4. QED
  BY <1>1, <1>2, <1>3 DEF Accounted

\* What the step has to show of memory, and of each stored blob.
MemoryStep ==
  \A m : m = Memory' => \A n \in kept' \cup OnPhone' : Accounted(n, m)'
ChainStep == \A b \in Chain : \A n : Accounted(n, b) => Accounted(n, b)'

LEMMA MemoryAfter ==
  ASSUME MemoryStep
  PROVE  MemoryHolds'
<1>1. PICK m : m = Memory'
  OBVIOUS
<1>2. \A n \in kept' \cup OnPhone' : Accounted(n, m)'
  BY <1>1 DEF MemoryStep
<1>3. QED
  BY <1>1, <1>2 DEF MemoryHolds, Accounted, Overflown

\* A step that does not write, nor lose a stored blob.
LEMMA ChainAfter ==
  ASSUME ChainHolds, ChainStep, disk' = disk, writes' = writes, kept' = kept,
         \A b \in Chain : settled' \cap Waiting' \subseteq ToSet(b.items),
         \A b \in Chain : sending' \in settled' => sending' \in wiped' \cup ToSet(b.items)
  PROVE  ChainHolds'
<1>1. disk \in Chain /\ (\A i \in DOMAIN writes : writes[i] \in Chain) /\ Chain' = Chain
  BY DEF Chain, ToSet
<1>2. PICK d : d = disk
  OBVIOUS
<1>3. \A n \in kept' : Accounted(n, disk)'
  <2>1. \A n \in kept : Accounted(n, d)'
    BY <1>1, <1>2 DEF ChainHolds, ChainStep
  <2>2. d = disk'
    BY <1>2
  <2>3. QED
    BY <2>1, <2>2 DEF Accounted, Overflown
<1>4. ASSUME NEW i \in DOMAIN writes, NEW n, Accounted(n, writes[i])
      PROVE  Accounted(n, writes[i])'
  <2>1. PICK w : w = writes[i]
    OBVIOUS
  <2>2. Accounted(n, w)'
    BY <1>1, <1>4, <2>1 DEF ChainStep
  <2>3. w = writes'[i]
    BY <2>1
  <2>4. QED
    BY <2>2, <2>3 DEF Accounted, Overflown
<1>5. \A i \in DOMAIN writes' : \A n \in kept' : Accounted(n, writes[i])'
  BY <1>4 DEF ChainHolds
<1>6. \A i, j \in DOMAIN writes' : j <= i =>
        \A n \in ToSet(writes'[j].items) : Accounted(n, writes[i])'
  BY <1>4 DEF ChainHolds
<1>7. QED
  BY <1>1, <1>3, <1>5, <1>6 DEF ChainHolds

\* A step that writes what memory has then.
LEMMA ChainAfterSet ==
  ASSUME Shape, ChainHolds, ChainStep, MemoryStep,
         NEW i \in Seq(Items), NEW a \in Seq(Items), Set(i, a),
         disk' = disk, reading' = Hydrated, kept' = kept,
         \A b \in Chain : settled' \cap Waiting' \subseteq ToSet(b.items),
         \A b \in Chain : sending' \in settled' => sending' \in wiped' \cup ToSet(b.items),
         sending' \in settled' => sending' \in wiped' \cup ToSet(i)
  PROVE  ChainHolds'
<1>0. PICK N \in Nat : N = Len(writes)
  BY DEF Shape, TypeOK
<1>1. /\ items' = i /\ attention' = a
      /\ DOMAIN writes' = 1 .. N + 1 /\ DOMAIN writes = 1 .. N
      /\ \A k \in DOMAIN writes : writes'[k] = writes[k]
      /\ writes'[N + 1] = Blob(i, a) /\ Chain' = Chain \cup {Blob(i, a)}
  BY <1>0, SetEffect, MemoryFacts DEF Shape, Hydrated
<1>2. Memory' = Blob(i, a) /\ Waiting' = ToSet(i)
  BY <1>1, WaitingAfter
<1>3. disk \in Chain /\ (\A k \in DOMAIN writes : writes[k] \in Chain)
  BY DEF Chain, ToSet
<1>4. PICK d : d = disk
  OBVIOUS
<1>5. \A n \in kept' : Accounted(n, disk)'
  <2>1. \A n \in kept : Accounted(n, d)'
    BY <1>3, <1>4 DEF ChainHolds, ChainStep
  <2>2. d = disk'
    BY <1>4
  <2>3. QED
    BY <2>1, <2>2 DEF Accounted, Overflown
<1>6. ASSUME NEW k \in DOMAIN writes, NEW n, Accounted(n, writes[k])
      PROVE  Accounted(n, writes[k])'
  <2>1. PICK w : w = writes[k]
    OBVIOUS
  <2>2. Accounted(n, w)'
    BY <1>3, <1>6, <2>1 DEF ChainStep
  <2>3. w = writes'[k]
    BY <1>1, <2>1
  <2>4. QED
    BY <2>2, <2>3 DEF Accounted, Overflown
<1>7. ASSUME NEW n \in kept' \cup OnPhone' PROVE Accounted(n, writes[N + 1])'
  <2>1. PICK m : m = Memory'
    OBVIOUS
  <2>2. Accounted(n, m)'
    BY <1>7, <2>1 DEF MemoryStep
  <2>3. m = (writes[N + 1])'
    BY <1>1, <1>2, <2>1
  <2>4. QED
    BY <2>2, <2>3 DEF Accounted, Overflown
<1>8. ASSUME NEW k \in DOMAIN writes' PROVE k \in DOMAIN writes \/ k = N + 1
  BY <1>1
<1>9. \A k \in DOMAIN writes' : ToSet(writes'[k].items) \subseteq OnPhone'
  BY DEF OnPhone, Copies, ToSet
<1>10. ASSUME NEW k \in DOMAIN writes', NEW n \in kept' PROVE Accounted(n, writes[k])'
  <2>1. CASE k \in DOMAIN writes
    BY <1>6, <1>10, <2>1 DEF ChainHolds
  <2>2. CASE k = N + 1
    BY <1>7, <2>2
  <2>3. QED
    BY <1>8, <2>1, <2>2
<1>11. ASSUME NEW k \in DOMAIN writes', NEW j \in DOMAIN writes', j <= k,
              NEW n \in ToSet(writes'[j].items)
       PROVE  Accounted(n, writes[k])'
  <2>1. CASE k \in DOMAIN writes
    <3>1. j \in DOMAIN writes
      BY <1>1, <1>11, <2>1
    <3>2. QED
      BY <1>1, <1>6, <1>11, <2>1, <3>1 DEF ChainHolds
  <2>2. CASE k = N + 1
    BY <1>7, <1>9, <2>2
  <2>3. QED
    BY <1>8, <2>1, <2>2
<1>12. \A b \in Chain' : settled' \cap Waiting' \subseteq ToSet(b.items)
  <2>1. Blob(i, a).items = i
    BY DEF Blob
  <2>2. QED
    BY <1>1, <1>2, <2>1
<1>13. \A b \in Chain' : sending' \in settled' => sending' \in wiped' \cup ToSet(b.items)
  <2>1. Blob(i, a).items = i
    BY DEF Blob
  <2>2. QED
    BY <1>1, <2>1
<1>14. QED
  BY <1>5, <1>10, <1>11, <1>12, <1>13 DEF ChainHolds

\* A write puts what memory has at the end of the chain.
LEMMA AtRestAfterSet ==
  ASSUME Shape, NEW i \in Seq(Items), NEW a \in Seq(Items), Set(i, a),
         disk' = disk, reading' \in {reading, Hydrated}
  PROVE  AtRest'
<1>1. Final' = Blob(i, a) /\ items' = i /\ attention' = a
  BY SetEffect DEF Shape
<1>2. QED
  BY <1>1, WaitingAfter DEF AtRest

LEMMA SafeSame ==
  ASSUME Safe, UNCHANGED <<given, store, disk, reading, sending, kept, wiped, read,
                         settled, refused>>
  PROVE  Safe'
<1>1. UNCHANGED <<items, attention, writes>>
  BY DEF store
<1>2. UNCHANGED <<Memory, Waiting, Final, Chain, OnPhone>>
  BY StoreSame
<1>3. MemoryHolds'
  BY <1>2 DEF Safe, MemoryHolds, Accounted, Overflown
<1>4. AtRest'
  BY <1>1, <1>2 DEF Safe, AtRest
<1>5. Allowed("killInFlight")' => ChainHolds'
  BY <1>1, <1>2 DEF Safe, Allowed, ChainHolds, Accounted, Overflown
<1>6. QED
  BY <1>3, <1>4, <1>5 DEF Safe

LEMMA SafeTapAnswered ==
  ASSUME Shape, Shape', Safe, TapAnswered
  PROVE  Safe'
<1>1. /\ tap # 0 /\ settled' = settled \cup {tap}
      /\ UNCHANGED <<given, store, disk, reading, sending, refused, wiped, read, kept>>
  BY DEF TapAnswered
<1>2. UNCHANGED <<items, attention, writes>>
  BY <1>1 DEF store
<1>3. UNCHANGED <<Memory, Waiting, Final, Chain, OnPhone>>
  BY <1>1, StoreSame
<1>4. \A n, b : Accounted(n, b) => Accounted(n, b)'
  BY <1>1, AccountedMoves
<1>5. MemoryHolds'
  <2>1. MemoryStep
    BY <1>1, <1>3, <1>4 DEF Safe, MemoryHolds, MemoryStep
  <2>2. QED
    BY <2>1, MemoryAfter
<1>6. AtRest'
  BY <1>1, <1>2, <1>3 DEF Safe, AtRest
<1>7. Allowed("killInFlight")' => ChainHolds'
  <2> SUFFICES ASSUME ChainHolds PROVE ChainHolds'
    BY <1>1 DEF Safe, Allowed
  <2>1. tap \notin Waiting \cup {sending}
    BY <1>1, MemoryFacts DEF Shape, Placed
  <2>2. \A b \in Chain : settled' \cap Waiting' \subseteq ToSet(b.items)
    BY <1>1, <1>3, <2>1 DEF ChainHolds
  <2>3. \A b \in Chain : sending' \in settled' => sending' \in wiped' \cup ToSet(b.items)
    BY <1>1, <2>1 DEF ChainHolds
  <2>4. QED
    BY <1>1, <1>2, <1>4, <2>2, <2>3, ChainAfter DEF ChainStep
<1>8. QED
  BY <1>5, <1>6, <1>7 DEF Safe

LEMMA SafeSend ==
  ASSUME Shape, Shape', Safe, Send
  PROVE  Safe'
<1>1. /\ draining /\ reading = Hydrated /\ sending = 0
      /\ UNCHANGED <<given, store, disk, reading, history>>
      /\ sending' = 0 \/ (items # << >> /\ sending' = Head(items))
  BY DEF Send
<1>2. /\ UNCHANGED <<items, attention, writes, disk, reading, given>>
      /\ UNCHANGED <<settled, refused, wiped, read, kept>>
  BY <1>1 DEF store, history
<1>3. UNCHANGED <<Memory, Waiting, Final, Chain, OnPhone>>
  BY <1>1, StoreSame
<1>4. items \in Seq(Items) /\ Waiting = ToSet(items) /\ Waiting = ToSet(Memory.items)
  BY <1>1, MemoryFacts DEF Shape, TypeOK, Waiting
<1>5. sending' \in {0} \cup Waiting
  BY <1>1, <1>4, HeadTailEffect
<1>6. 0 \notin refused /\ 0 \notin settled /\ refused \subseteq settled
  BY DEF Shape, TypeOK, Placed, Items
<1>7. ASSUME NEW b, settled \cap Waiting \subseteq ToSet(b.items), NEW n, Accounted(n, b)
      PROVE  Accounted(n, b)'
  <2>1. refused \ (ToSet(b.items) \cup {sending}) \subseteq
          refused' \ (ToSet(b.items) \cup {sending'})
    BY <1>2, <1>5, <1>6, <1>7
  <2>2. QED
    BY <1>2, <1>7, <2>1, AccountedMoves
<1>8. MemoryHolds'
  <2>1. PICK m : m = Memory
    OBVIOUS
  <2>2. settled \cap Waiting \subseteq ToSet(m.items)
    BY <1>4, <2>1
  <2>3. \A n \in kept \cup OnPhone : Accounted(n, m)'
    BY <1>7, <2>1, <2>2 DEF Safe, MemoryHolds
  <2>4. MemoryStep
    BY <1>2, <1>3, <2>1, <2>3 DEF MemoryStep
  <2>5. QED
    BY <2>4, MemoryAfter
<1>9. AtRest'
  BY <1>2, <1>3 DEF Safe, AtRest
<1>10. Allowed("killInFlight")' => ChainHolds'
  <2> SUFFICES ASSUME ChainHolds PROVE ChainHolds'
    BY <1>2 DEF Safe, Allowed
  <2>1. \A b \in Chain : settled \cap Waiting \subseteq ToSet(b.items)
    BY DEF ChainHolds
  <2>2. ChainStep
    BY <1>7, <2>1 DEF ChainStep
  <2>3. \A b \in Chain : settled' \cap Waiting' \subseteq ToSet(b.items)
    BY <1>2, <1>3, <2>1
  <2>4. \A b \in Chain : sending' \in settled' => sending' \in wiped' \cup ToSet(b.items)
    BY <1>2, <1>5, <1>6, <2>1
  <2>5. QED
    BY <1>2, <2>2, <2>3, <2>4, ChainAfter
<1>11. QED
  BY <1>8, <1>9, <1>10 DEF Safe

LEMMA SafeSendLost ==
  ASSUME Shape, Shape', Safe, SendLost
  PROVE  Safe'
<1>1. /\ sending' = 0
      /\ UNCHANGED <<given, store, disk, reading, settled, refused, wiped, read, kept>>
  BY DEF SendLost
<1>2. UNCHANGED <<items, attention, writes>>
  BY <1>1 DEF store
<1>3. UNCHANGED <<Memory, Waiting, Final, Chain, OnPhone>>
  BY <1>1, StoreSame
<1>4. 0 \notin refused /\ 0 \notin settled
  BY DEF Shape, TypeOK, Items
<1>5. \A n, b : Accounted(n, b) => Accounted(n, b)'
  <2> TAKE n, b
  <2>1. refused \ (ToSet(b.items) \cup {sending}) \subseteq
          refused' \ (ToSet(b.items) \cup {sending'})
    BY <1>1, <1>4
  <2>2. QED
    BY <1>1, <2>1, AccountedMoves
<1>6. MemoryHolds'
  <2>1. MemoryStep
    BY <1>1, <1>3, <1>5 DEF Safe, MemoryHolds, MemoryStep
  <2>2. QED
    BY <2>1, MemoryAfter
<1>7. AtRest'
  BY <1>1, <1>2, <1>3 DEF Safe, AtRest
<1>8. Allowed("killInFlight")' => ChainHolds'
  <2> SUFFICES ASSUME ChainHolds PROVE ChainHolds'
    BY <1>1 DEF Safe, Allowed
  <2>1. \A b \in Chain : settled' \cap Waiting' \subseteq ToSet(b.items)
    BY <1>1, <1>3 DEF ChainHolds
  <2>2. sending' \notin settled'
    BY <1>1, <1>4
  <2>3. QED
    BY <1>1, <1>2, <1>5, <2>1, <2>2, ChainAfter DEF ChainStep
<1>9. QED
  BY <1>6, <1>7, <1>8 DEF Safe

\* A write that lands is not the last word, or is what will be on disk in the end.
LEMMA LandingEffect ==
  ASSUME TypeOK, WriteLands
  PROVE  Memory' = Memory /\ Waiting' = Waiting /\ Final' = Final
<1>1. /\ writes # << >> /\ disk' = Head(writes) /\ writes' = Tail(writes)
      /\ UNCHANGED <<items, attention, reading>>
  BY DEF WriteLands
<1>2. writes \in Seq(Blobs)
  BY DEF TypeOK
<1>3. PICK N \in Nat \ {0} : N = Len(writes)
  BY <1>1, <1>2, HeadTailEffect
<1>4. /\ DOMAIN writes' = 1 .. N - 1 /\ writes' \in Seq(Blobs) /\ Len(writes') = N - 1
      /\ disk' = writes[1] /\ \A k \in DOMAIN writes' : writes'[k] = writes[k + 1]
  BY <1>1, <1>2, <1>3, HeadTailEffect
<1>5. Final = writes[N]
  BY <1>1, <1>3 DEF Final
<1>6. CASE N = 1
  <2>1. Len(writes') = 0
    BY <1>4, <1>6
  <2>2. writes' = << >>
    BY <1>4, <2>1
  <2>3. QED
    BY <1>1, <1>4, <1>5, <1>6, <2>2 DEF Final, Memory, Waiting
<1>7. CASE N # 1
  <2>1. Len(writes') # 0
    BY <1>3, <1>4, <1>7
  <2>2. writes' # << >>
    BY <1>4, <2>1
  <2>3. N - 1 \in DOMAIN writes' /\ (N - 1) + 1 = N
    BY <1>3, <1>4, <1>7
  <2>4. Final' = writes'[N - 1]
    BY <1>4, <2>2 DEF Final
  <2>5. QED
    BY <1>1, <1>4, <1>5, <2>3, <2>4 DEF Memory, Waiting
<1>8. QED
  BY <1>6, <1>7

LEMMA SafeWriteLands ==
  ASSUME Shape, Shape', Safe, WriteLands
  PROVE  Safe'
<1>1. /\ writes # << >> /\ disk' = Head(writes) /\ writes' = Tail(writes)
      /\ kept' = kept \cup ToSet(disk'.items)
      /\ UNCHANGED <<given, items, attention, reading, sending, settled, refused, wiped, read>>
  BY DEF WriteLands
<1>2. writes \in Seq(Blobs)
  BY DEF Shape, TypeOK
<1>3. PICK N \in Nat \ {0} : N = Len(writes)
  BY <1>1, <1>2, HeadTailEffect
<1>4. /\ DOMAIN writes = 1 .. N /\ DOMAIN writes' = 1 .. N - 1
      /\ disk' = writes[1] /\ \A k \in DOMAIN writes' : writes'[k] = writes[k + 1]
      /\ ToSet(writes) = {disk'} \cup ToSet(writes')
  BY <1>1, <1>2, <1>3, HeadTailEffect
<1>5. UNCHANGED <<Memory, Waiting>>
  BY <1>1 DEF Waiting, Memory
<1>6. Copies' \subseteq Copies /\ Chain' \subseteq Chain /\ disk' \in Copies
  BY <1>1, <1>4 DEF Copies, Chain
<1>7. OnPhone' \subseteq OnPhone /\ kept' \subseteq kept \cup OnPhone
  BY <1>1, <1>6 DEF OnPhone
<1>8. MemoryHolds'
  BY <1>1, <1>5, <1>7 DEF Safe, MemoryHolds, Accounted, Overflown
<1>9. Final' = Final
  BY LandingEffect DEF Shape
<1>10. AtRest'
  BY <1>1, <1>5, <1>9 DEF Safe, AtRest
<1>11. Allowed("killInFlight")' => ChainHolds'
  <2> SUFFICES ASSUME ChainHolds PROVE ChainHolds'
    BY <1>1 DEF Safe, Allowed
  <2>1. 1 \in DOMAIN writes /\ \A k \in DOMAIN writes' : k + 1 \in DOMAIN writes /\ 1 <= k + 1
    BY <1>3, <1>4
  <2>2. \A n \in kept' : Accounted(n, disk')
    BY <1>1, <1>4, <2>1 DEF ChainHolds
  <2>3. \A k \in DOMAIN writes' : \A n \in kept' : Accounted(n, writes'[k])
    BY <1>1, <1>4, <2>1 DEF ChainHolds
  <2>4. ASSUME NEW k \in DOMAIN writes', NEW j \in DOMAIN writes', j <= k,
               NEW n \in ToSet(writes'[j].items)
        PROVE  Accounted(n, writes'[k])
    <3>1. j + 1 <= k + 1
      BY <1>4, <2>4
    <3>2. QED
      BY <1>4, <2>1, <2>4, <3>1 DEF ChainHolds
  <2>5. \A b \in Chain' : settled' \cap Waiting' \subseteq ToSet(b.items)
    BY <1>1, <1>5, <1>6 DEF ChainHolds
  <2>6. \A b \in Chain' : sending' \in settled' => sending' \in wiped' \cup ToSet(b.items)
    BY <1>1, <1>6 DEF ChainHolds
  <2>7. QED
    BY <1>1, <2>2, <2>3, <2>4, <2>5, <2>6 DEF ChainHolds, Accounted, Overflown
<1>12. QED
  BY <1>8, <1>10, <1>11 DEF Safe

LEMMA KillEffect ==
  ASSUME Shape, Kill
  PROVE  /\ reading' # Hydrated /\ sending' = 0 /\ writes' = << >> /\ disk' = disk
         /\ Memory' = disk /\ Chain' = {disk}
         /\ Waiting' = ToSet(disk.items) /\ OnPhone' = ToSet(disk.items)
         /\ UNCHANGED <<given, session, owner, recorded, settled, refused, wiped, read, kept>>
<1>1. /\ items' = << >> /\ attention' = << >> /\ writes' = << >> /\ reading' = <<disk>>
      /\ sending' = 0 /\ UNCHANGED <<given, session, disk, history>>
  BY DEF Kill
<1>2. disk \in Blobs
  BY DEF Shape, TypeOK
<1>3. reading' # Hydrated /\ reading'[1] = disk /\ ToSet(reading') = {disk}
  BY <1>1 DEF Hydrated, ToSet
<1>4. Merged(disk.items, << >>) = disk.items /\ Merged(disk.attention, << >>) = disk.attention
  <2>1. disk.items \in Seq(Items) /\ disk.attention \in Seq(Items)
    BY <1>2 DEF Blobs
  <2>2. QED
    BY <2>1, EmptyEffect, MergedEffect
<1>5. Memory' = Blob(disk.items, disk.attention)
  BY <1>1, <1>3, <1>4 DEF Memory
<1>6. Blob(disk.items, disk.attention) = disk
  BY <1>2 DEF Blob, Blobs
<1>7. Copies' = {EmptyBlob, disk}
  BY <1>1, <1>3, EmptyEffect DEF Copies, EmptyBlob
<1>8. OnPhone' = ToSet(disk.items)
  BY <1>7, EmptyEffect DEF OnPhone, EmptyBlob, Blob
<1>9. Chain' = {disk}
  BY <1>1, EmptyEffect DEF Chain
<1>10. Waiting' = ToSet(disk.items)
  BY <1>5, <1>6 DEF Waiting
<1>11. QED
  BY <1>1, <1>3, <1>5, <1>6, <1>8, <1>9, <1>10 DEF history

\* A kill leaves what is on disk, which accounts for all that ever was there.
LEMMA SafeKill ==
  ASSUME Shape, Shape', Safe, Kill
  PROVE  Safe'
<1>1. /\ reading' # Hydrated /\ sending' = 0 /\ writes' = << >> /\ disk' = disk
      /\ Memory' = disk /\ Chain' = {disk}
      /\ Waiting' = ToSet(disk.items) /\ OnPhone' = ToSet(disk.items)
      /\ UNCHANGED <<given, settled, refused, wiped, read, kept>>
  BY KillEffect
<1>2. Allowed("killInFlight") \/ (reading = Hydrated /\ writes = << >>)
  BY DEF Kill
<1>3. PICK d : d = disk
  OBVIOUS
<1>4. \A n \in kept : Accounted(n, d)
  <2>1. CASE Allowed("killInFlight")
    BY <1>3, <2>1 DEF Safe, ChainHolds
  <2>2. CASE reading = Hydrated /\ writes = << >>
    BY <1>3, <2>2 DEF Safe, MemoryHolds, AtRest, Final
  <2>3. QED
    BY <1>2, <2>1, <2>2
<1>5. 0 \notin refused /\ 0 \notin settled /\ ToSet(disk.items) \subseteq kept
  BY DEF Shape, TypeOK, Items, Placed
<1>6. ASSUME NEW n \in kept PROVE Accounted(n, d)'
  <2>1. refused \ (ToSet(d.items) \cup {sending}) \subseteq
          refused' \ (ToSet(d.items) \cup {sending'})
    BY <1>1, <1>5
  <2>2. QED
    BY <1>1, <1>4, <1>6, <2>1, AccountedMoves
<1>7. MemoryHolds'
  <2>1. MemoryStep
    BY <1>1, <1>3, <1>5, <1>6 DEF MemoryStep
  <2>2. QED
    BY <2>1, MemoryAfter
<1>8. AtRest'
  BY <1>1 DEF AtRest, Hydrated
<1>9. ChainHolds'
  <2>1. d = disk' /\ DOMAIN writes' = {}
    BY <1>1, <1>3
  <2>2. \A n \in kept' : Accounted(n, disk)'
    BY <1>1, <1>6, <2>1 DEF Accounted, Overflown
  <2>3. QED
    BY <1>1, <1>5, <2>1, <2>2 DEF ChainHolds
<1>10. QED
  BY <1>7, <1>8, <1>9 DEF Safe

LEMMA SafeTapLost ==
  ASSUME Shape, Shape', StorageHolds, Safe, TapLost
  PROVE  Safe'
<1> DEFINE i == Append(items, tap)
<1>1. /\ tap \in Items /\ Set(i, attention) /\ i \in Seq(Items)
      /\ Allowed("earlyTap") \/ reading = Hydrated
      /\ ToSet(i) = ToSet(items) \cup {tap}
      /\ Waiting' = Waiting \cup {tap}
      /\ UNCHANGED <<given, disk, reading, sending, settled, refused, wiped, read, kept>>
  BY TapLostEffect
<1>2. tap # 0 /\ tap \notin OnPhone \cup settled \cup refused
  BY <1>1 DEF Shape, Placed, Items
<1>3. /\ attention \in Seq(Items) /\ ToSet(items) \subseteq OnPhone
  BY MemoryList
<1>4. /\ items' = i /\ attention' = attention /\ OnPhone' \subseteq OnPhone \cup ToSet(i)
  BY <1>1, <1>3, SetEffect DEF Shape
<1> HIDE DEF i
<1>5. Memory'.attention = Memory.attention
  <2>1. CASE reading = Hydrated
    BY <1>1, <1>4, <2>1 DEF Memory, Blob
  <2>2. CASE reading # Hydrated
    <3>1. reading' # Hydrated /\ Hydrated' = Hydrated
      BY <1>1, <2>2 DEF Hydrated
    <3>2. Memory = Blob(Merged(reading[1].items, items), Merged(reading[1].attention, attention))
      BY <2>2 DEF Memory
    <3>3. Memory' = Blob(Merged(reading[1].items, i), Merged(reading[1].attention, attention))
      BY <1>1, <1>4, <3>1 DEF Memory
    <3>4. QED
      BY <3>2, <3>3 DEF Blob
  <2>3. QED
    BY <2>1, <2>2
<1>6. MemoryStep
  <2>1. PICK o : o = Memory
    OBVIOUS
  <2>2. SUFFICES ASSUME NEW m, m = Memory', NEW n \in kept' \cup OnPhone' PROVE Accounted(n, m)'
    BY DEF MemoryStep
  <2>3. /\ ToSet(m.items) = ToSet(o.items) \cup {tap} /\ m.attention = o.attention
    BY <1>1, <1>5, <2>1, <2>2 DEF Waiting
  <2>4. CASE n = tap
    BY <2>3, <2>4 DEF Accounted
  <2>5. CASE n # tap
    <3>1. n \in kept \cup OnPhone
      BY <1>1, <1>3, <1>4, <2>2, <2>5
    <3>2. Accounted(n, o)
      BY <2>1, <3>1 DEF Safe, MemoryHolds
    <3>3. refused \ (ToSet(o.items) \cup {sending}) \subseteq
            refused' \ (ToSet(m.items) \cup {sending'})
      BY <1>1, <1>2, <2>3
    <3>4. QED
      BY <1>1, <2>3, <3>2, <3>3, AccountedMoves
  <2>6. QED
    BY <2>4, <2>5
<1>7. MemoryHolds'
  BY <1>6, MemoryAfter
<1>8. AtRest'
  BY <1>1, <1>3, AtRestAfterSet
<1>9. Allowed("killInFlight")' => ChainHolds'
  <2> SUFFICES ASSUME Allowed("killInFlight") PROVE ChainHolds'
    BY <1>1 DEF Allowed
  <2>1. ChainHolds /\ reading' = Hydrated
    BY <1>1 DEF Safe, StorageHolds
  <2>2. ChainStep
    BY <1>1, AccountedMoves DEF ChainStep
  <2>3. \A b \in Chain : settled' \cap Waiting' \subseteq ToSet(b.items)
    BY <1>1, <1>2, <2>1 DEF ChainHolds
  <2>4. \A b \in Chain : sending' \in settled' => sending' \in wiped' \cup ToSet(b.items)
    BY <1>1, <2>1 DEF ChainHolds
  <2>5. sending' \in settled' => sending' \in wiped' \cup ToSet(i)
    BY <1>1 DEF Shape, TypeOK, Placed, Items
  <2>6. QED
    BY <1>1, <1>3, <1>6, <2>1, <2>2, <2>3, <2>4, <2>5, ChainAfterSet
<1>10. QED
  BY <1>7, <1>8, <1>9 DEF Safe

LEMMA SafeRehydrate ==
  ASSUME Shape, Shape', Safe, Rehydrate
  PROVE  Safe'
<1>1. /\ reading' = Hydrated /\ sending = 0 /\ Set(Memory.items, Memory.attention)
      /\ Memory.items \in Seq(Items) /\ Memory.attention \in Seq(Items)
      /\ Memory' = Memory /\ Waiting' = Waiting
      /\ UNCHANGED <<given, disk, sending, settled, refused, wiped, read, kept>>
  BY RehydrateEffect DEF history
<1>2. OnPhone' \subseteq OnPhone
  <2>1. OnPhone' \subseteq OnPhone \cup ToSet(Memory.items)
    BY <1>1, SetEffect DEF Shape
  <2>2. ToSet(Memory.items) \subseteq OnPhone
    BY MemoryFacts DEF Shape, Waiting
  <2>3. QED
    BY <2>1, <2>2
<1>3. \A n, b : Accounted(n, b) => Accounted(n, b)'
  BY <1>1, AccountedMoves
<1>4. MemoryStep
  BY <1>1, <1>2, <1>3 DEF Safe, MemoryHolds, MemoryStep
<1>5. MemoryHolds'
  BY <1>4, MemoryAfter
<1>6. AtRest'
  BY <1>1, AtRestAfterSet
<1>7. Allowed("killInFlight")' => ChainHolds'
  <2> SUFFICES ASSUME ChainHolds PROVE ChainHolds'
    BY <1>1 DEF Safe, Allowed
  <2>1. ChainStep
    BY <1>3 DEF ChainStep
  <2>2. \A b \in Chain : settled' \cap Waiting' \subseteq ToSet(b.items)
    BY <1>1 DEF ChainHolds
  <2>3. sending' \notin settled'
    BY <1>1 DEF Shape, TypeOK, Items
  <2>4. QED
    BY <1>1, <1>4, <2>1, <2>2, <2>3, ChainAfterSet
<1>8. QED
  BY <1>5, <1>6, <1>7 DEF Safe

LEMMA SafeAccepted ==
  ASSUME Shape, Shape', Safe, Accepted
  PROVE  Safe'
<1> DEFINE i == Without(items, sending)
<1>1. /\ sending # 0 /\ settled' = settled \cup {sending} /\ refused' = refused \ {sending}
      /\ Set(i, attention) /\ sending' = 0
      /\ UNCHANGED <<given, disk, reading, wiped, read, kept>>
  BY DEF Accepted
<1>2. /\ attention \in Seq(Items) /\ ToSet(items) \subseteq OnPhone
  BY MemoryList
<1>3. /\ reading = Hydrated /\ i \in Seq(Items) /\ items' = i
      /\ ToSet(items') = ToSet(items) \ {sending}
      /\ Waiting = ToSet(items) /\ Waiting' = Waiting \ {sending}
      /\ Memory' = Blob(items', attention)
  BY <1>1, <1>2, AnswerEffect
<1> HIDE DEF i
<1>4. OnPhone' \subseteq OnPhone
  BY <1>1, <1>2, <1>3, SetEffect DEF Shape
<1>5. 0 \notin refused /\ 0 \notin settled /\ 0 \notin settled'
  BY <1>1 DEF Shape, TypeOK, Items
<1>6. MemoryStep
  <2>1. PICK o : o = Memory
    OBVIOUS
  <2>2. SUFFICES ASSUME NEW m, m = Memory', NEW n \in kept' \cup OnPhone' PROVE Accounted(n, m)'
    BY DEF MemoryStep
  <2>3. /\ ToSet(o.items) = ToSet(items) /\ ToSet(m.items) = ToSet(items) \ {sending}
        /\ m.attention = o.attention
    BY <1>3, <2>1, <2>2, MemoryFacts DEF Shape, Blob
  <2>4. Accounted(n, o)
    BY <1>1, <1>4, <2>1, <2>2 DEF Safe, MemoryHolds
  <2>5. refused \ (ToSet(o.items) \cup {sending}) \subseteq
          refused' \ (ToSet(m.items) \cup {sending'})
    BY <1>1, <1>5, <2>3
  <2>6. QED
    BY <1>1, <2>3, <2>4, <2>5, AccountedMoves
<1>7. MemoryHolds'
  BY <1>6, MemoryAfter
<1>8. AtRest'
  BY <1>1, <1>2, <1>3, AtRestAfterSet
<1>9. Allowed("killInFlight")' => ChainHolds'
  <2> SUFFICES ASSUME ChainHolds PROVE ChainHolds'
    BY <1>1 DEF Safe, Allowed
  <2>1. ASSUME NEW b, NEW n, Accounted(n, b) PROVE Accounted(n, b)'
    <3>1. refused \ (ToSet(b.items) \cup {sending}) \subseteq
            refused' \ (ToSet(b.items) \cup {sending'})
      BY <1>1, <1>5
    <3>2. QED
      BY <1>1, <2>1, <3>1, AccountedMoves
  <2>2. ChainStep
    BY <2>1 DEF ChainStep
  <2>3. \A b \in Chain : settled' \cap Waiting' \subseteq ToSet(b.items)
    BY <1>1, <1>3 DEF ChainHolds
  <2>4. QED
    BY <1>1, <1>2, <1>3, <1>5, <1>6, <2>2, <2>3, ChainAfterSet
<1>10. QED
  BY <1>7, <1>8, <1>9 DEF Safe

\* A refusal: recorded, or the list is full, and more have been refused than it
\* has room for.
LEMMA SafeRefused ==
  ASSUME Shape, Shape', Safe, Refused
  PROVE  Safe'
<1> DEFINE i == Without(items, sending)
           a == Record(sending)
<1>1. /\ sending # 0 /\ settled' = settled \cup {sending} /\ refused' = refused \cup {sending}
      /\ Set(i, a) /\ sending' = 0
      /\ UNCHANGED <<given, disk, reading, wiped, read, kept>>
  BY DEF Refused
<1>2. /\ attention \in Seq(Items) /\ OneToOne(attention) /\ ToSet(items) \subseteq OnPhone
      /\ ToSet(attention) \subseteq Records
  BY MemoryList
<1>3. /\ a \in Seq(Items) /\ ToSet(attention) \subseteq ToSet(a)
      /\ sending \notin ToSet(a) => Len(attention) = MaxAttention
  BY <1>1, RecordEffect
<1>4. /\ reading = Hydrated /\ i \in Seq(Items) /\ items' = i /\ attention' = a
      /\ ToSet(items') = ToSet(items) \ {sending}
      /\ Waiting = ToSet(items) /\ Waiting' = Waiting \ {sending}
      /\ Memory' = Blob(items', a)
  BY <1>1, <1>3, AnswerEffect
<1> HIDE DEF i, a
<1>5. OnPhone' \subseteq OnPhone
  BY <1>1, <1>2, <1>3, <1>4, SetEffect DEF Shape
<1>6. 0 \notin refused' /\ 0 \notin settled'
  BY DEF Shape, TypeOK, Items
<1>7. sending \notin ToSet(a) => Cardinality(refused' \ (ToSet(items') \cup {0})) > MaxAttention
  <2> SUFFICES ASSUME sending \notin ToSet(a)
               PROVE  Cardinality(refused' \ (ToSet(items') \cup {0})) > MaxAttention
    OBVIOUS
  <2> DEFINE P == ToSet(attention) \cup {sending}
             R == refused' \ (ToSet(items') \cup {0})
  <2>1. IsFiniteSet(ToSet(attention)) /\ Cardinality(ToSet(attention)) = MaxAttention
    BY <1>2, <1>3, CountedOnce
  <2>2. sending \notin ToSet(attention)
    BY <1>3
  <2>3. Cardinality(P) = MaxAttention + 1
    BY <2>1, <2>2, FS_AddElement
  <2>4. ToSet(attention) \subseteq refused /\ ToSet(attention) \cap ToSet(items) = {}
    BY <1>2, <1>4, RecordFacts
  <2>5. P \subseteq R
    BY <1>1, <1>4, <1>6, <2>4
  <2>6. R \subseteq 1 .. Len(owner') /\ Len(owner') \in Nat
    BY DEF Shape, TypeOK, Items
  <2> HIDE DEF P, R
  <2>7. Cardinality(P) \in Nat /\ Cardinality(R) \in Nat /\ Cardinality(P) <= Cardinality(R)
    BY <2>5, <2>6, FewerRefused
  <2>8. Cardinality(R) > MaxAttention
    BY <2>3, <2>7, BoundAssumption
  <2>9. QED
    BY <2>8 DEF R
<1>8. MemoryStep
  <2>1. PICK o : o = Memory
    OBVIOUS
  <2>2. SUFFICES ASSUME NEW m, m = Memory', NEW n \in kept' \cup OnPhone' PROVE Accounted(n, m)'
    BY DEF MemoryStep
  <2>3. /\ ToSet(o.items) = ToSet(items) /\ ToSet(m.items) = ToSet(items')
        /\ o.attention = attention /\ m.attention = a
    BY <1>4, <2>1, <2>2, MemoryFacts DEF Shape, Blob
  <2>4. Accounted(n, o)
    BY <1>1, <1>5, <2>1, <2>2 DEF Safe, MemoryHolds
  <2>5. CASE n = sending
    <3>1. CASE n \in ToSet(a)
      BY <2>3, <3>1 DEF Accounted
    <3>2. CASE n \notin ToSet(a)
      <4>1. Overflown(m)'
        BY <1>1, <1>7, <2>3, <2>5, <3>2 DEF Overflown
      <4>2. n \in refused'
        BY <1>1, <2>5
      <4>3. QED
        BY <4>1, <4>2 DEF Accounted
    <3>3. QED
      BY <3>1, <3>2
  <2>6. CASE n # sending
    <3>1. refused \ (ToSet(o.items) \cup {sending}) \subseteq
            refused' \ (ToSet(m.items) \cup {sending'})
      BY <1>1, <1>4, <1>6, <2>3
    <3>2. n \in ToSet(o.items) \cup ToSet(o.attention) =>
            n \in ToSet(m.items) \cup ToSet(m.attention)
      BY <1>3, <1>4, <2>3, <2>6
    <3>3. QED
      BY <1>1, <2>4, <2>6, <3>1, <3>2, AccountedMoves
  <2>7. QED
    BY <2>5, <2>6
<1>9. MemoryHolds'
  BY <1>8, MemoryAfter
<1>10. AtRest'
  BY <1>1, <1>3, <1>4, AtRestAfterSet
<1>11. Allowed("killInFlight")' => ChainHolds'
  <2> SUFFICES ASSUME ChainHolds PROVE ChainHolds'
    BY <1>1 DEF Safe, Allowed
  <2>1. ASSUME NEW b \in Chain, NEW n, Accounted(n, b) PROVE Accounted(n, b)'
    <3>1. CASE n \in refused' => n \in refused
      <4>1. refused \ (ToSet(b.items) \cup {sending}) \subseteq
              refused' \ (ToSet(b.items) \cup {sending'})
        BY <1>1, <1>6
      <4>2. QED
        BY <1>1, <2>1, <3>1, <4>1, AccountedMoves
    <3>2. CASE n \in refused' /\ n \notin refused
      <4>1. n = sending
        BY <1>1, <3>2
      <4>2. n \in wiped \cup read \cup ToSet(b.items) \cup ToSet(b.attention)
        BY <2>1, <3>2, <4>1 DEF Accounted, ChainHolds
      <4>3. QED
        BY <1>1, <4>2 DEF Accounted
    <3>3. QED
      BY <3>1, <3>2
  <2>2. ChainStep
    BY <2>1 DEF ChainStep
  <2>3. \A b \in Chain : settled' \cap Waiting' \subseteq ToSet(b.items)
    BY <1>1, <1>4 DEF ChainHolds
  <2>4. QED
    BY <1>1, <1>3, <1>4, <1>6, <1>8, <2>2, <2>3, ChainAfterSet
<1>12. QED
  BY <1>9, <1>10, <1>11 DEF Safe

LEMMA SafeDismiss ==
  ASSUME Shape, Shape', Safe, Dismiss
  PROVE  Safe'
<1>1. /\ attention # << >> /\ read' = read \cup ToSet(attention) /\ Set(items, << >>)
      /\ UNCHANGED <<given, disk, reading, sending, settled, refused, wiped, kept>>
  BY DEF Dismiss
<1>2. /\ items \in Seq(Items) /\ ToSet(items) \subseteq OnPhone /\ << >> \in Seq(Items)
  BY MemoryList
<1>3. reading = Hydrated
  BY <1>1 DEF Shape, Launch
<1>4. Memory = Blob(items, attention) /\ Waiting = ToSet(items)
  BY <1>3, MemoryFacts DEF Shape
<1>5. items' = items /\ attention' = << >> /\ OnPhone' \subseteq OnPhone
  BY <1>1, <1>2, SetEffect DEF Shape
<1>6. Memory' = Blob(items, << >>) /\ Waiting' = Waiting /\ reading' = Hydrated
  BY <1>1, <1>3, <1>4, <1>5, WaitingAfter
<1>7. MemoryStep
  <2>1. PICK o : o = Memory
    OBVIOUS
  <2>2. SUFFICES ASSUME NEW m, m = Memory', NEW n \in kept' \cup OnPhone' PROVE Accounted(n, m)'
    BY DEF MemoryStep
  <2>3. m.items = o.items /\ o.attention = attention
    BY <1>4, <1>6, <2>1, <2>2 DEF Blob
  <2>4. Accounted(n, o)
    BY <1>1, <1>5, <2>1, <2>2 DEF Safe, MemoryHolds
  <2>5. QED
    BY <1>1, <2>3, <2>4, AccountedMoves
<1>8. MemoryHolds'
  BY <1>7, MemoryAfter
<1>9. AtRest'
  BY <1>1, <1>2, AtRestAfterSet
<1>10. Allowed("killInFlight")' => ChainHolds'
  <2> SUFFICES ASSUME ChainHolds PROVE ChainHolds'
    BY <1>1 DEF Safe, Allowed
  <2>1. ChainStep
    BY <1>1, AccountedMoves DEF ChainStep
  <2>2. \A b \in Chain : settled' \cap Waiting' \subseteq ToSet(b.items)
    BY <1>1, <1>6 DEF ChainHolds
  <2>3. \A b \in Chain : sending' \in settled' => sending' \in wiped' \cup ToSet(b.items)
    BY <1>1 DEF ChainHolds
  <2>4. sending' \in settled' => sending' \in wiped' \cup ToSet(items)
    BY <1>1 DEF Shape, TypeOK, Placed, Items
  <2>5. QED
    BY <1>1, <1>2, <1>6, <1>7, <2>1, <2>2, <2>3, <2>4, ChainAfterSet
<1>11. QED
  BY <1>8, <1>9, <1>10 DEF Safe

LEMMA SafeSignOut ==
  ASSUME Shape, Shape', Safe, SignOut
  PROVE  Safe'
<1>1. /\ wiped' = wiped \cup OnPhone /\ read' = read \cup Records
      /\ Set(<< >>, << >>) /\ reading' = Hydrated
      /\ UNCHANGED <<given, disk, sending, settled, refused, kept>>
  BY DEF SignOut, ClearForSignOut
<1>2. << >> \in Seq(Items) /\ ToSet(<< >>) = {}
  BY EmptyEffect
<1>3. items' = << >> /\ attention' = << >> /\ OnPhone' \subseteq OnPhone
  BY <1>1, <1>2, SetEffect DEF Shape
<1>4. Memory' = Blob(<< >>, << >>) /\ Waiting' = {}
  BY <1>1, <1>2, <1>3, WaitingAfter
<1>5. MemoryStep
  <2>1. PICK o : o = Memory
    OBVIOUS
  <2>2. SUFFICES ASSUME NEW m, m = Memory', NEW n \in kept' \cup OnPhone' PROVE Accounted(n, m)'
    BY DEF MemoryStep
  <2>3. ToSet(m.items) = {}
    BY <1>2, <1>4, <2>2 DEF Blob
  <2>4. ToSet(o.items) \subseteq OnPhone /\ ToSet(o.attention) \subseteq Records
    BY <2>1, MemoryFacts DEF Shape, Waiting
  <2>5. Accounted(n, o)
    BY <1>1, <1>3, <2>1, <2>2 DEF Safe, MemoryHolds
  <2>6. QED
    BY <1>1, <2>3, <2>4, <2>5, AccountedMoves
<1>6. MemoryHolds'
  BY <1>5, MemoryAfter
<1>7. AtRest'
  BY <1>1, <1>2, AtRestAfterSet
<1>8. Allowed("killInFlight")' => ChainHolds'
  <2> SUFFICES ASSUME ChainHolds PROVE ChainHolds'
    BY <1>1 DEF Safe, Allowed
  <2>1. ChainStep
    BY <1>1, AccountedMoves DEF ChainStep
  <2>2. sending' \in settled' => sending' \in wiped'
    <3>1. ToSet(items) \subseteq OnPhone
      BY MemoryList
    <3>2. QED
      BY <1>1, <3>1 DEF Shape, TypeOK, Placed, Items
  <2>3. QED
    BY <1>1, <1>2, <1>4, <1>5, <2>1, <2>2, ChainAfterSet
<1>9. QED
  BY <1>6, <1>7, <1>8 DEF Safe

\* What the hypotheses speak of only grows.
LEMMA FaultsGrow ==
  ASSUME Shape, [Next]_vars
  PROVE  /\ given' = given /\ \A k \in FaultKinds : faults'[k] >= faults[k]
         /\ ReadFails => faults'["readErrors"] > 0
         /\ Expire => faults'["expiries"] > 0
         /\ SignOut => faults'["signOuts"] > 0
<1>1. faults \in [FaultKinds -> Nat]
  BY DEF Shape, TypeOK
<1>2. /\ "losses" \in FaultKinds /\ "kills" \in FaultKinds /\ "readErrors" \in FaultKinds
      /\ "expiries" \in FaultKinds /\ "signOuts" \in FaultKinds
  BY DEF FaultKinds
<1>3. given' = given
  BY Zenon DEF Next, Answers, Tap, TapLost, TapAnswered, Accepted, Refused, WriteLands, Rehydrate,
     ReadFails, Kill, Flush, Send, SendLost, Dismiss, Expire, SignOut, SignIn, vars
<1>4. \/ faults' = faults \/ Fault("losses") \/ Fault("kills") \/ Fault("readErrors")
      \/ Fault("expiries") \/ Fault("signOuts")
  BY Zenon DEF Next, Answers, Tap, TapLost, TapAnswered, Accepted, Refused, WriteLands, Rehydrate,
     ReadFails, Kill, Flush, Send, SendLost, Dismiss, Expire, SignOut, SignIn, vars
<1>5. \A k \in FaultKinds : faults'[k] >= faults[k]
  BY <1>1, <1>2, <1>4, FaultEffect
<1>6. /\ ReadFails => Fault("readErrors")
      /\ Expire => Fault("expiries")
      /\ SignOut => Fault("signOuts")
  BY Zenon DEF ReadFails, Expire, SignOut
<1>7. \A k \in FaultKinds : Fault(k) => faults'[k] > 0
  BY <1>1, FaultEffect
<1>8. /\ ReadFails => faults'["readErrors"] > 0
      /\ Expire => faults'["expiries"] > 0
      /\ SignOut => faults'["signOuts"] > 0
  <2>1. /\ Fault("readErrors") => faults'["readErrors"] > 0
        /\ Fault("expiries") => faults'["expiries"] > 0
        /\ Fault("signOuts") => faults'["signOuts"] > 0
    BY <1>2, <1>7, Zenon
  <2>2. QED
    BY <1>6, <2>1, Zenon
<1>9. QED
  BY <1>3, <1>5, <1>8, Zenon

LEMMA StorageHeld ==
  ASSUME Shape, Shape', [Next]_vars, StorageHolds'
  PROVE  StorageHolds /\ ~ReadFails
<1>1. /\ faults \in [FaultKinds -> Nat] /\ faults' \in [FaultKinds -> Nat]
  BY DEF Shape, TypeOK
<1>2. "readErrors" \in FaultKinds
  BY DEF FaultKinds
<1>3. faults["readErrors"] \in Nat /\ faults'["readErrors"] \in Nat
  BY <1>1, <1>2
<1>4. faults'["readErrors"] = 0 /\ faults'["readErrors"] >= faults["readErrors"]
  BY <1>2, FaultsGrow DEF StorageHolds
<1>5. faults["readErrors"] = 0
  BY <1>3, <1>4
<1>6. ~ReadFails
  BY <1>4, FaultsGrow
<1>7. StorageHolds
  BY <1>5, FaultsGrow DEF StorageHolds, Allowed
<1>8. QED
  BY <1>6, <1>7

LEMMA NextSafe ==
  ASSUME Shape, Shape', StorageHolds, Safe, [Next]_vars, ~ReadFails
  PROVE  Safe'
<1>1. ASSUME Tap PROVE Safe'
  BY <1>1, SafeSame DEF Tap
<1>2. ASSUME Flush PROVE Safe'
  BY <1>2, SafeSame DEF Flush, history
<1>3. ASSUME Expire PROVE Safe'
  BY <1>3, SafeSame DEF Expire, history
<1>4. ASSUME NEW u \in Users, SignIn(u) PROVE Safe'
  BY <1>4, SafeSame DEF SignIn, history
<1>5. ASSUME UNCHANGED vars PROVE Safe'
  BY <1>5, SafeSame DEF vars, history
<1>6. ASSUME Answers PROVE Safe'
  BY <1>6, SafeTapAnswered, SafeAccepted, SafeRefused DEF Answers
<1>7. ASSUME Next PROVE Safe'
  BY <1>1, <1>2, <1>3, <1>4, <1>6, <1>7, SafeTapLost, SafeWriteLands, SafeRehydrate,
     SafeKill, SafeSend, SafeSendLost, SafeDismiss, SafeSignOut DEF Next
<1>8. QED
  BY <1>5, <1>7

LEMMA NextKept ==
  ASSUME Shape, Shape', Kept, [Next]_vars
  PROVE  Kept'
BY StorageHeld, NextSafe DEF Kept

LEMMA InitKept ==
  ASSUME Init
  PROVE  Kept
<1>1. /\ items = << >> /\ attention = << >> /\ writes = << >>
      /\ disk = EmptyBlob /\ reading = <<EmptyBlob>> /\ sending = 0
      /\ kept = {} /\ settled = {}
  BY DEF Init
<1>2. EmptyBlob.items = << >> /\ EmptyBlob.attention = << >>
  BY DEF EmptyBlob, Blob
<1>3. reading # Hydrated /\ ToSet(reading) = {EmptyBlob}
  BY <1>1 DEF Hydrated, ToSet
<1>4. OnPhone = {}
  BY <1>1, <1>2, <1>3, EmptyEffect DEF OnPhone, Copies, Blob
<1>5. MemoryHolds /\ AtRest
  BY <1>1, <1>3, <1>4 DEF MemoryHolds, AtRest
<1>6. ChainHolds
  <2>1. DOMAIN writes = {}
    BY <1>1
  <2>2. QED
    BY <1>1, <2>1 DEF ChainHolds
<1>7. QED
  BY <1>5, <1>6 DEF Kept, Safe
------------------------------------------------------------------------------
(* Whose hours they are. *)

LEMMA HandoverHeld ==
  ASSUME Shape, Shape', [Next]_vars, HandoverHolds'
  PROVE  /\ HandoverHolds /\ ~Expire
         /\ faults'["signOuts"] = 0 => faults["signOuts"] = 0
<1>1. /\ faults \in [FaultKinds -> Nat] /\ faults' \in [FaultKinds -> Nat]
  BY DEF Shape, TypeOK
<1>2. "expiries" \in FaultKinds /\ "signOuts" \in FaultKinds
  BY DEF FaultKinds
<1>3. /\ faults["expiries"] \in Nat /\ faults'["expiries"] \in Nat
      /\ faults["signOuts"] \in Nat /\ faults'["signOuts"] \in Nat
  BY <1>1, <1>2
<1>4. /\ faults'["expiries"] >= faults["expiries"] /\ faults'["signOuts"] >= faults["signOuts"]
      /\ given' = given
  BY <1>2, FaultsGrow
<1>5. faults'["expiries"] = 0
  BY DEF HandoverHolds
<1>6. faults["expiries"] = 0 /\ (faults'["signOuts"] = 0 => faults["signOuts"] = 0)
  BY <1>3, <1>4, <1>5
<1>7. ~Expire
  BY <1>5, FaultsGrow
<1>8. HandoverHolds
  BY <1>4, <1>6 DEF HandoverHolds, Allowed
<1>9. QED
  BY <1>6, <1>7, <1>8

\* A step of the worker who is signed in: nothing on the phone changes hands.
OwnersStep ==
  /\ owner' = owner /\ session' = session /\ tap' \in {0, tap}
  /\ sending' # 0 => owner[sending'] = sendAs'
  /\ \A n \in Waiting' \cup ToSet(Final'.items) : owner[n] = session
  /\ \A p \in recorded' : p \in recorded \/ owner[p[1]] = p[2]

LEMMA OwnersStay ==
  ASSUME OwnersHold, OwnersStep, faults'["signOuts"] = 0 => faults["signOuts"] = 0
  PROVE  OwnersHold'
BY DEF OwnersHold, OwnersStep

\* A write: it has what memory had, or what the worker has added.
LEMMA WrittenOwners ==
  ASSUME Shape, NEW i \in Seq(Items), NEW a \in Seq(Items), Set(i, a),
         disk' = disk, reading' \in {reading, Hydrated}
  PROVE  ToSet(Final'.items) = ToSet(i)
<1>1. Final' = Blob(i, a)
  BY SetEffect DEF Shape
<1>2. QED
  BY <1>1 DEF Blob

LEMMA OwnersTap ==
  ASSUME Shape, OwnersHold, Tap
  PROVE  OwnersHold'
<1>1. /\ session # None /\ owner' = Append(owner, session) /\ tap' = Len(owner) + 1
      /\ UNCHANGED <<session, store, disk, reading, sending, sendAs, recorded, faults>>
  BY DEF Tap
<1>2. owner \in Seq(Users) /\ session \in Users /\ Len(owner) \in Nat
  BY <1>1 DEF Shape, TypeOK
<1>3. /\ DOMAIN owner' = 1 .. Len(owner) + 1 /\ DOMAIN owner = Items
      /\ \A n \in Items : owner'[n] = owner[n]
      /\ owner'[Len(owner) + 1] = session
  BY <1>1, <1>2 DEF Items
<1>4. UNCHANGED <<Waiting, Final>>
  BY <1>1, StoreSame
<1>5. Waiting \subseteq Items /\ ToSet(Final.items) \subseteq Items
  <2>1. Waiting \subseteq Items
    BY MemoryFacts, RecordFacts DEF Shape
  <2>2. Final \in Blobs
    BY DEF Shape, TypeOK, Final
  <2>3. QED
    BY <2>1, <2>2, ToSetOf DEF Blobs
<1>6. tap' # 0 => owner'[tap'] = session'
  BY <1>1, <1>3
<1>7. sending' # 0 => owner'[sending'] = sendAs'
  BY <1>1, <1>3 DEF OwnersHold, Shape, TypeOK
<1>8. \A n \in Waiting' \cup ToSet(Final'.items) : owner'[n] = session'
  BY <1>1, <1>3, <1>4, <1>5 DEF OwnersHold
<1>9. faults'.signOuts = 0 => \A n \in DOMAIN owner' : owner'[n] = session'
  <2>1. \A n \in DOMAIN owner' : n \in Items \/ n = Len(owner) + 1
    BY <1>2, <1>3 DEF Items
  <2>2. QED
    BY <1>1, <1>3, <2>1 DEF OwnersHold
<1>10. \A p \in recorded' : owner'[p[1]] = p[2]
  <2>1. \A p \in recorded : p[1] \in Items
    BY DEF Shape, TypeOK
  <2>2. QED
    BY <1>1, <1>3, <2>1 DEF OwnersHold
<1>11. QED
  BY <1>6, <1>7, <1>8, <1>9, <1>10 DEF OwnersHold

LEMMA OwnersAnswered ==
  ASSUME Shape, OwnersHold, Answers
  PROVE  OwnersStep
<1>1. ASSUME TapAnswered PROVE OwnersStep
  <2>1. /\ tap' = 0 /\ recorded' \subseteq recorded \cup {<<tap, owner[tap]>>}
        /\ UNCHANGED <<session, store, disk, reading, sending, sendAs, owner>>
    BY <1>1 DEF TapAnswered
  <2>2. UNCHANGED <<Waiting, Final>>
    BY <2>1, StoreSame
  <2>3. QED
    BY <2>1, <2>2 DEF OwnersHold, OwnersStep
<1>2. ASSUME sending # 0, NEW a \in Seq(Items), Set(Without(items, sending), a),
             sending' = 0, recorded' \subseteq recorded \cup {<<sending, sendAs>>},
             UNCHANGED <<session, tap, disk, reading, owner>>
      PROVE  OwnersStep
  <2>1. /\ Without(items, sending) \in Seq(Items) /\ items' = Without(items, sending)
        /\ ToSet(items') = ToSet(items) \ {sending}
        /\ Waiting = ToSet(items) /\ Waiting' = Waiting \ {sending}
    BY <1>2, AnswerEffect
  <2>2. ToSet(Final'.items) \subseteq Waiting
    BY <1>2, <2>1, WrittenOwners
  <2>3. QED
    BY <1>2, <2>1, <2>2 DEF OwnersHold, OwnersStep
<1>3. attention \in Seq(Items)
  BY MemoryList
<1>4. ASSUME Accepted PROVE OwnersStep
  BY <1>2, <1>3, <1>4 DEF Accepted
<1>5. ASSUME Refused PROVE OwnersStep
  BY <1>2, <1>5, RecordEffect DEF Refused
<1>6. QED
  BY <1>1, <1>4, <1>5 DEF Answers

LEMMA OwnersTapLost ==
  ASSUME Shape, OwnersHold, TapLost
  PROVE  OwnersStep
<1>1. /\ tap \in Items /\ Set(Append(items, tap), attention) /\ Append(items, tap) \in Seq(Items)
      /\ tap' = 0 /\ recorded' \subseteq recorded \cup {<<tap, owner[tap]>>}
      /\ ToSet(Append(items, tap)) = ToSet(items) \cup {tap} /\ Waiting' = Waiting \cup {tap}
      /\ UNCHANGED <<session, disk, reading, sending, sendAs, owner>>
  BY TapLostEffect
<1>2. tap # 0 /\ ToSet(items) \subseteq Waiting /\ attention \in Seq(Items)
  BY <1>1, MemoryFacts, MemoryList DEF Shape, Items
<1>3. ToSet(Final'.items) = ToSet(items) \cup {tap}
  BY <1>1, <1>2, WrittenOwners
<1>4. QED
  BY <1>1, <1>2, <1>3 DEF OwnersHold, OwnersStep

LEMMA OwnersStorage ==
  ASSUME Shape, OwnersHold, WriteLands \/ Rehydrate \/ ReadFails
  PROVE  OwnersStep
<1>1. ASSUME WriteLands PROVE OwnersStep
  BY <1>1, LandingEffect DEF WriteLands, Shape, OwnersHold, OwnersStep
<1>2. ASSUME Rehydrate PROVE OwnersStep
  <2>1. /\ reading' = Hydrated /\ sending = 0 /\ Set(Memory.items, Memory.attention)
        /\ Memory.items \in Seq(Items) /\ Memory.attention \in Seq(Items)
        /\ Waiting' = Waiting
        /\ UNCHANGED <<session, tap, disk, sending, owner, recorded>>
    BY <1>2, RehydrateEffect DEF history
  <2>2. ToSet(Final'.items) = Waiting
    BY <2>1, WrittenOwners DEF Waiting
  <2>3. QED
    BY <2>1, <2>2 DEF OwnersHold, OwnersStep
<1>3. ASSUME ReadFails PROVE OwnersStep
  <2>1. /\ reading' = Hydrated
        /\ UNCHANGED <<session, tap, store, disk, sending, sendAs, owner, recorded>>
    BY <1>3 DEF ReadFails, history
  <2>2. UNCHANGED <<items, attention, writes>>
    BY <2>1 DEF store
  <2>3. Waiting' = ToSet(items) /\ Final' = Final
    BY <2>1, <2>2, WaitingAfter DEF Final, Blob
  <2>4. ToSet(items) \subseteq Waiting
    BY MemoryFacts DEF Shape
  <2>5. QED
    BY <2>1, <2>3, <2>4 DEF OwnersHold, OwnersStep
<1>4. QED
  BY <1>1, <1>2, <1>3

\* What a kill leaves is what was last written, or the phone has not changed hands.
LEMMA OwnersKill ==
  ASSUME Shape, HandoverHolds, OwnersHold, Kill
  PROVE  OwnersStep
<1>1. /\ sending' = 0 /\ writes' = << >> /\ disk' = disk
      /\ Waiting' = ToSet(disk.items)
      /\ UNCHANGED <<session, owner, recorded>> /\ tap' = 0
  BY KillEffect DEF Kill
<1>2. Final' = disk
  BY <1>1 DEF Final
<1>3. Allowed("killInFlight") \/ writes = << >>
  BY DEF Kill
<1>4. CASE writes = << >>
  <2>1. Final = disk
    BY <1>4 DEF Final
  <2>2. QED
    BY <1>1, <1>2, <2>1 DEF OwnersHold, OwnersStep
<1>5. CASE Allowed("killInFlight")
  <2>1. \A n \in DOMAIN owner : owner[n] = session
    BY <1>5 DEF HandoverHolds, OwnersHold
  <2>2. disk.items \in Seq(Items) /\ DOMAIN owner = Items
    BY DEF Shape, TypeOK, Blobs, Items
  <2>3. ToSet(disk.items) \subseteq DOMAIN owner
    BY <2>2, ToSetOf
  <2>4. QED
    BY <1>1, <1>2, <2>1, <2>3 DEF OwnersHold, OwnersStep
<1>6. QED
  BY <1>3, <1>4, <1>5

LEMMA OwnersSend ==
  ASSUME Shape, OwnersHold, Send
  PROVE  OwnersStep
<1>1. /\ reading = Hydrated /\ sending = 0
      /\ UNCHANGED <<session, tap, store, disk, reading, owner, recorded>>
      /\ sending' = 0 \/ (items # << >> /\ sending' = Head(items) /\ sendAs' = session)
  BY DEF Send, history
<1>2. UNCHANGED <<Waiting, Final>>
  BY <1>1, StoreSame
<1>3. items \in Seq(Items) /\ Waiting = ToSet(items)
  BY <1>1, MemoryFacts DEF Shape, TypeOK
<1>4. sending' # 0 => sending' \in Waiting /\ sendAs' = session
  BY <1>1, <1>3, HeadTailEffect
<1>5. QED
  BY <1>1, <1>2, <1>4 DEF OwnersHold, OwnersStep

LEMMA OwnersDismiss ==
  ASSUME Shape, OwnersHold, Dismiss
  PROVE  OwnersStep
<1>1. /\ attention # << >> /\ Set(items, << >>)
      /\ UNCHANGED <<session, tap, disk, reading, sending, sendAs, owner, recorded>>
  BY DEF Dismiss
<1>2. items \in Seq(Items) /\ << >> \in Seq(Items)
  BY MemoryList
<1>3. reading' = Hydrated /\ Waiting = ToSet(items)
  BY <1>1, MemoryFacts DEF Shape, Launch
<1>4. items' = items /\ ToSet(Final'.items) = ToSet(items)
  BY <1>1, <1>2, SetEffect, WrittenOwners DEF Shape
<1>5. Waiting' = Waiting
  BY <1>3, <1>4, WaitingAfter
<1>6. QED
  BY <1>1, <1>3, <1>4, <1>5 DEF OwnersHold, OwnersStep

\* A sign-out leaves nothing behind, a sign-in finds nothing.
LEMMA OwnersSignOut ==
  ASSUME Shape, OwnersHold, HandoverHolds, SignOut, faults'["signOuts"] > 0
  PROVE  OwnersHold'
<1>1. /\ tap = 0 /\ Set(<< >>, << >>) /\ reading' = Hydrated
      /\ UNCHANGED <<tap, disk, sending, sendAs, owner, recorded>>
  BY DEF SignOut, ClearForSignOut, HandoverHolds
<1>2. << >> \in Seq(Items) /\ ToSet(<< >>) = {}
  BY EmptyEffect
<1>3. items' = << >> /\ ToSet(Final'.items) = {}
  BY <1>1, <1>2, SetEffect, WrittenOwners DEF Shape
<1>4. Waiting' = {}
  BY <1>1, <1>2, <1>3, WaitingAfter
<1>5. QED
  BY <1>1, <1>3, <1>4 DEF OwnersHold

LEMMA OwnersSignIn ==
  ASSUME Shape, OwnersHold, NEW u \in Users, SignIn(u)
  PROVE  OwnersHold'
<1>1. /\ session = None
      /\ UNCHANGED <<tap, store, disk, reading, sending, sendAs, owner, recorded, faults>>
  BY DEF SignIn, history
<1>2. UNCHANGED <<Waiting, Final>>
  BY <1>1, StoreSame
<1>3. owner \in Seq(Users) /\ DOMAIN owner = Items /\ tap \in Items \cup {0}
  BY DEF Shape, TypeOK, Items
<1>4. \A n \in Items : owner[n] # session
  BY <1>1, <1>3, BoundAssumption
<1>5. Waiting \subseteq Items /\ ToSet(Final.items) \subseteq Items
  <2>1. Waiting \subseteq Items
    BY MemoryFacts, RecordFacts DEF Shape
  <2>2. Final \in Blobs
    BY DEF Shape, TypeOK, Final
  <2>3. QED
    BY <2>1, <2>2, ToSetOf DEF Blobs
<1>6. tap = 0 /\ Waiting \cup ToSet(Final.items) = {}
  BY <1>3, <1>4, <1>5 DEF OwnersHold
<1>7. faults.signOuts = 0 => DOMAIN owner = {}
  BY <1>3, <1>4 DEF OwnersHold
<1>8. QED
  BY <1>1, <1>2, <1>6, <1>7 DEF OwnersHold

LEMMA NextOwned ==
  ASSUME Shape, Shape', Owned, [Next]_vars
  PROVE  Owned'
<1> SUFFICES ASSUME HandoverHolds' PROVE OwnersHold'
  BY DEF Owned
<1>1. /\ HandoverHolds /\ OwnersHold /\ ~Expire
      /\ faults'["signOuts"] = 0 => faults["signOuts"] = 0
  BY HandoverHeld DEF Owned
<1>2. ASSUME OwnersStep PROVE OwnersHold'
  BY <1>1, <1>2, OwnersStay
<1>3. ASSUME UNCHANGED <<session, tap, store, disk, reading, sending, sendAs, owner, recorded>>
      PROVE  OwnersStep
  <2>1. UNCHANGED <<Waiting, Final>>
    BY <1>3, StoreSame
  <2>2. QED
    BY <1>1, <1>3, <2>1 DEF OwnersHold, OwnersStep
<1>4. ASSUME Flush \/ UNCHANGED vars PROVE OwnersStep
  BY <1>3, <1>4 DEF Flush, history, vars
<1>5. ASSUME SendLost PROVE OwnersStep
  <2>1. /\ sending # 0 /\ sending' = 0 /\ recorded' \subseteq recorded \cup {<<sending, sendAs>>}
        /\ UNCHANGED <<session, tap, store, disk, reading, owner>>
    BY <1>5 DEF SendLost
  <2>2. UNCHANGED <<Waiting, Final>>
    BY <2>1, StoreSame
  <2>3. QED
    BY <1>1, <2>1, <2>2 DEF OwnersHold, OwnersStep
<1>6. ASSUME SignOut PROVE OwnersHold'
  BY <1>1, <1>6, FaultsGrow, OwnersSignOut
<1>7. ASSUME NEW u \in Users, SignIn(u) PROVE OwnersHold'
  BY <1>1, <1>7, OwnersSignIn
<1>8. ASSUME Next PROVE OwnersHold'
  BY <1>1, <1>2, <1>4, <1>5, <1>6, <1>7, <1>8, OwnersTap, OwnersAnswered, OwnersTapLost,
     OwnersStorage, OwnersKill, OwnersSend, OwnersDismiss DEF Next
<1>9. QED
  BY <1>2, <1>4, <1>8
LEMMA InitOwned ==
  ASSUME Init
  PROVE  Owned
<1>1. /\ tap = 0 /\ sending = 0 /\ owner = << >> /\ recorded = {}
      /\ items = << >> /\ attention = << >> /\ writes = << >>
      /\ disk = EmptyBlob /\ reading = <<EmptyBlob>>
  BY DEF Init
<1>2. EmptyBlob.items = << >>
  BY DEF EmptyBlob, Blob
<1>3. Waiting = {}
  <2>1. reading # Hydrated /\ ToSet(reading) = {EmptyBlob}
    BY <1>1 DEF Hydrated, ToSet
  <2>2. OnPhone = {}
    BY <1>1, <1>2, <2>1, EmptyEffect DEF OnPhone, Copies, Blob
  <2>3. QED
    BY <2>2, InitShape, MemoryFacts DEF Shape
<1>4. ToSet(Final.items) = {} /\ DOMAIN owner = {}
  BY <1>1, <1>2, EmptyEffect DEF Final
<1>5. QED
  BY <1>1, <1>3, <1>4 DEF Owned, OwnersHold
------------------------------------------------------------------------------
(* The theorems. *)

\* The phone's state keeps its shape, every item it has stored stays accounted for
\* as long as storage holds, and its items stay their maker's as long as it changes
\* hands by a sign-out only: the inductive invariant of the queue.
THEOREM QueueAccountsForAll == Spec => []IndInv
<1>1. Init => IndInv
  BY InitShape, InitKept, InitOwned DEF IndInv
<1>2. IndInv /\ [Next]_vars => IndInv'
  BY NextShape, NextKept, NextOwned DEF IndInv
<1>3. QED
  BY <1>1, <1>2, PTL DEF Spec

\* Every variable keeps its type, on any phone.
THEOREM TypeCorrect == Spec => []TypeOK
<1>1. IndInv => TypeOK
  BY DEF IndInv, Shape
<1>2. QED
  BY <1>1, QueueAccountsForAll, PTL

\* The only ways out of the queue are a server's answer and a sign-out: an item
\* that has reached the disk is on the phone until then (outbox.ts drain, merge).
THEOREM StoredTapsAreKept == Spec => []KeptIfRead
<1>1. IndInv => KeptIfRead
  <2> SUFFICES ASSUME IndInv, StorageHolds, NEW n \in kept, n \notin settled \cup wiped
               PROVE  n \in OnPhone
    BY DEF KeptIfRead, KeptUntilAnswered
  <2>1. Shape /\ Accounted(n, Memory)
    BY DEF IndInv, Kept, Safe, MemoryHolds
  <2>2. refused \cup read \subseteq settled
    BY <2>1 DEF Shape, Placed
  <2>3. ToSet(Memory.attention) \subseteq settled
    BY <2>1, RecordFacts, MemoryFacts DEF Shape
  <2>4. ToSet(Memory.items) \subseteq OnPhone
    BY <2>1, MemoryFacts DEF Shape, Waiting
  <2>5. QED
    BY <2>1, <2>2, <2>3, <2>4 DEF Accounted
<1>2. QED
  BY <1>1, QueueAccountsForAll, PTL

\* The queue holds each tap once, in the order they were made, whatever is killed,
\* merged or tapped before the launch read lands (outbox.ts enqueue, merge, drain).
THEOREM TapsStayInOrder == Spec => []QueueInTapOrder
<1>1. IndInv => QueueInTapOrder
  BY MemoryList DEF IndInv, QueueInTapOrder, Increasing
<1>2. QED
  BY <1>1, QueueAccountsForAll, PTL

\* A stored tap that is dropped leaves a record, as long as the list has room for
\* all of them: removal and record are one write (outbox.ts drain).
THEOREM DropsAreRecorded == Spec => []DropsLeaveARecord
<1>1. IndInv => DropsLeaveARecord
  <2> SUFFICES ASSUME IndInv, StorageHolds, Cardinality(refused) <= MaxAttention,
                      NEW n \in kept \cap refused, n \notin read \cup wiped
               PROVE  n \in OnPhone \cup Records
    BY DEF DropsLeaveARecord
  <2>1. Shape /\ Accounted(n, Memory)
    BY DEF IndInv, Kept, Safe, MemoryHolds
  <2>2. ToSet(Memory.items) \subseteq OnPhone /\ ToSet(Memory.attention) \subseteq Records
    BY <2>1, MemoryFacts DEF Shape, Waiting
  <2>3. ~Overflown(Memory)
    <3> DEFINE P == refused \ (ToSet(Memory.items) \cup {sending})
    <3>1. refused \subseteq 1 .. Len(owner) /\ Len(owner) \in Nat /\ P \subseteq refused
      BY <2>1 DEF Shape, TypeOK, Items
    <3> HIDE DEF P
    <3>2. /\ Cardinality(P) \in Nat /\ Cardinality(refused) \in Nat
          /\ Cardinality(P) <= Cardinality(refused)
      BY <3>1, FewerRefused
    <3>3. ~(Cardinality(P) > MaxAttention)
      BY <3>2, BoundAssumption
    <3>4. QED
      BY <3>3 DEF P, Overflown
  <2>4. QED
    BY <2>1, <2>2, <2>3 DEF Accounted
<1>2. QED
  BY <1>1, QueueAccountsForAll, PTL

\* Hours are recorded under the account of the worker who made the tap: a sign-out
\* leaves nothing of the queue to the next worker (outbox.ts clearForSignOut).
THEOREM HoursAreTheirOwners == Spec => []HoursStayWithTheirOwner
<1>1. IndInv => HoursStayWithTheirOwner
  BY DEF IndInv, Owned, OwnersHold, HoursStayWithTheirOwner
<1>2. QED
  BY <1>1, QueueAccountsForAll, PTL
=============================================================================
