----------------------------- MODULE LibraryProofs -----------------------------
(***************************************************************************)
(* What the components promise that keep what was said: CaptionEdits,      *)
(* whose ring with its index implements the documented history and shows   *)
(* what the store has, for any size of the ring and any number of          *)
(* captions, edits and restarts; Recording, for any number of runs,        *)
(* frames, recordings, deletions, failures and crashes, any pauses and     *)
(* any settings.                                                           *)
(***************************************************************************)
EXTENDS CaptionEdits, Recording, SequenceTheorems, WellFoundedInduction, TLAPS

-----------------------------------------------------------------------------
(* CaptionEdits.  Remainders *)

\* A multiple is a length at least.
LEMMA Multiples == ASSUME NEW n \in Nat \ {0}, NEW d \in Int, d >= 1 PROVE n * d >= n
OBVIOUS

\* Division with remainder.
LEMMA Quotient == ASSUME NEW n \in Nat \ {0}, NEW k \in Int
  PROVE k \div n \in Int /\ k % n \in 0 .. n - 1 /\ k = n * (k \div n) + (k % n)
OBVIOUS

\* The remainder is the only one.
LEMMA Remainder ==
  ASSUME NEW n \in Nat \ {0}, NEW k \in Int, NEW q \in Int, NEW r \in 0 .. n - 1, k = (n * q) + r
  PROVE  k % n = r
<1>1. PICK p \in Int, s \in 0 .. n - 1 : p = k \div n /\ s = k % n /\ k = (n * p) + s BY Quotient
<1>2. CASE q >= p + 1
  <2>1. n * (q - p) >= n BY <1>2, Multiples
  <2>2. n * (q - p) = (n * q) - (n * p) OBVIOUS
  <2>3. n * (q - p) = s - r BY <1>1, <2>2
  <2>4. QED BY ONLY <2>1, <2>3
<1>3. CASE p >= q + 1
  <2>1. n * (p - q) >= n BY <1>3, Multiples
  <2>2. n * (p - q) = (n * p) - (n * q) OBVIOUS
  <2>3. QED BY <1>1, <2>1, <2>2
<1>4. CASE p = q BY <1>1, <1>4
<1>5. QED BY <1>2, <1>3, <1>4

\* A remainder may be taken early.
LEMMA Wraps == ASSUME NEW n \in Nat \ {0}, NEW k \in Int, NEW d \in Int
  PROVE ((k % n) + d) % n = (k + d) % n
<1>1. PICK p \in Int, s \in 0 .. n - 1 : s = k % n /\ k = (n * p) + s BY Quotient
<1>2. PICK q \in Int, r \in 0 .. n - 1 : r = (s + d) % n /\ s + d = (n * q) + r
  <2>1. s + d \in Int OBVIOUS
  <2>2. QED BY <2>1, Quotient
<1>3. k + d = (n * (p + q)) + r
  <2>1. n * (p + q) = (n * p) + (n * q) OBVIOUS
  <2>2. PICK x \in Int, y \in Int : x = n * p /\ y = n * q OBVIOUS
  <2>3. k = x + s /\ s + d = y + r /\ n * (p + q) = x + y BY ONLY <1>1, <1>2, <2>1, <2>2
  <2>4. s \in Int /\ r \in Int OBVIOUS
  <2>5. QED BY ONLY <2>2, <2>3, <2>4
<1>4. (k + d) % n = r
  <2>1. k + d \in Int /\ p + q \in Int OBVIOUS
  <2>2. QED BY ONLY <1>3, <2>1, Remainder, n \in Nat \ {0}, r \in 0 .. n - 1
<1>5. QED BY <1>1, <1>2, <1>4

\* Within a length remainders differ.
LEMMA Apart == ASSUME NEW n \in Nat \ {0}, NEW k \in Int, NEW m \in Int, k < m, m < k + n
  PROVE k % n # m % n
<1>1. PICK p \in Int, s \in 0 .. n - 1 : s = k % n /\ k = (n * p) + s BY Quotient
<1>2. PICK q \in Int, r \in 0 .. n - 1 : r = m % n /\ m = (n * q) + r BY Quotient
<1>3. SUFFICES ASSUME r = s PROVE FALSE BY <1>1, <1>2
<1>4. n * (q - p) = (n * q) - (n * p) OBVIOUS
<1>5. n * (q - p) > 0 /\ n * (q - p) < n BY <1>1, <1>2, <1>3, <1>4
<1>6. q - p >= 1 \/ p - q >= 0 OBVIOUS
<1>7. CASE q - p >= 1 BY <1>5, <1>7, Multiples
<1>8. CASE p - q >= 0
  <2>1. n * (p - q) >= 0 BY <1>8
  <2>2. n * (p - q) = (n * p) - (n * q) OBVIOUS
  <2>3. QED BY <1>4, <1>5, <2>1, <2>2
<1>9. QED BY <1>6, <1>7, <1>8

\* Less than a length is its own remainder.
LEMMA Small == ASSUME NEW n \in Nat \ {0}, NEW k \in Nat, k < n PROVE k % n = k
<1>1. k = (n * 0) + k /\ k \in 0 .. n - 1 OBVIOUS
<1>2. QED BY <1>1, Remainder

\* A whole length leaves the remainder.
LEMMA Round == ASSUME NEW n \in Nat \ {0}, NEW k \in Int PROVE (k + n) % n = k % n
<1>1. PICK p \in Int, s \in 0 .. n - 1 : s = k % n /\ k = (n * p) + s BY Quotient
<1>2. k + n = (n * (p + 1)) + s
  <2>1. n * (p + 1) = (n * p) + n OBVIOUS
  <2>2. PICK x \in Int : x = n * p OBVIOUS
  <2>3. k = x + s /\ n * (p + 1) = x + n /\ s \in Int BY <1>1, <2>1, <2>2
  <2>4. QED BY ONLY <2>2, <2>3, n \in Nat
<1>3. (k + n) % n = s
  <2>1. k + n \in Int /\ p + 1 \in Int OBVIOUS
  <2>2. QED BY ONLY <1>2, <2>1, Remainder, n \in Nat \ {0}, s \in 0 .. n - 1
<1>4. QED BY <1>1, <1>3

-----------------------------------------------------------------------------
(* The ring and its index *)

\* The slot of the caption numbered n, and the oldest number.
At(t, n) == t.ring[(n % HistorySize) + 1]
Oldest(t) == t.seq - Len(t.ring)

IsTrack(t) ==
  /\ t = [ring |-> t.ring, next |-> t.next, seq |-> t.seq, final |-> t.final, interim |-> t.interim]
  /\ t.ring \in Seq(Captions) /\ Len(t.ring) <= HistorySize
  /\ t.seq \in Nat /\ t.interim \in Captions \cup {NoCaption}
  /\ IF Len(t.ring) < HistorySize
     THEN t.seq = Len(t.ring) /\ t.next = 0
     ELSE t.seq >= HistorySize /\ t.next = t.seq % HistorySize

\* The index has the numbers of the segments that are in the ring, and no others.
Numbered(t) ==
  /\ \A n \in Oldest(t) .. t.seq - 1 : At(t, n).final /\ Known(t, At(t, n).seg) /\ t.final[At(t, n).seg] = n
  /\ \A s \in DOMAIN t.final : t.final[s] \in Oldest(t) .. t.seq - 1 /\ At(t, t.final[s]).seg = s

TrackOK(t) == IsTrack(t) /\ Numbered(t)

\* Numbers in the ring have slots, and different ones.
LEMMA Slots ==
  ASSUME NEW t, IsTrack(t)
  PROVE  /\ Len(t.ring) \in 0 .. HistorySize /\ t.seq \in Nat /\ Oldest(t) \in Nat
         /\ Oldest(t) = t.seq - Len(t.ring)
         /\ \A n \in Oldest(t) .. t.seq - 1 :
              /\ n \in Nat /\ (n % HistorySize) + 1 \in 1 .. Len(t.ring)
              /\ At(t, n) \in Captions
              /\ \A m \in Oldest(t) .. t.seq - 1 : n # m => n % HistorySize # m % HistorySize
<1>1. HistorySize \in Nat \ {0} BY TrackAssumption
<1>2. /\ t.ring \in Seq(Captions) /\ Len(t.ring) \in Nat /\ Len(t.ring) <= HistorySize /\ t.seq \in Nat
      /\ (Len(t.ring) < HistorySize => t.seq = Len(t.ring)) /\ (Len(t.ring) = HistorySize => t.seq >= HistorySize)
  BY <1>1 DEF IsTrack
<1>3. Oldest(t) \in Nat /\ Oldest(t) = t.seq - Len(t.ring) BY <1>1, <1>2 DEF Oldest
<1>4. ASSUME NEW n \in Oldest(t) .. t.seq - 1
      PROVE  /\ n \in Nat /\ (n % HistorySize) + 1 \in 1 .. Len(t.ring)
             /\ At(t, n) \in Captions
             /\ \A m \in Oldest(t) .. t.seq - 1 : n # m => n % HistorySize # m % HistorySize
  <2>1. n \in Nat /\ n < t.seq /\ n >= t.seq - Len(t.ring) BY ONLY <1>2, <1>3, <1>4
  <2>2. n % HistorySize \in 0 .. HistorySize - 1 BY <1>1, <2>1, Quotient
  <2>3. (n % HistorySize) + 1 \in 1 .. Len(t.ring)
    <3>1. CASE Len(t.ring) = HistorySize BY ONLY <1>1, <2>2, <3>1
    <3>2. CASE Len(t.ring) < HistorySize
      <4>1. n < HistorySize BY ONLY <1>1, <1>2, <2>1, <3>2
      <4>2. n = (HistorySize * 0) + n /\ n \in 0 .. HistorySize - 1 BY ONLY <1>1, <2>1, <4>1
      <4>3. n % HistorySize = n BY ONLY <1>1, <2>1, <4>2, Remainder
      <4>4. QED BY ONLY <1>2, <2>1, <3>2, <4>3
    <3>3. QED BY ONLY <1>1, <1>2, <3>1, <3>2
  <2>4. At(t, n) \in Captions BY ONLY <1>2, <2>3 DEF At
  <2>5. ASSUME NEW m \in Oldest(t) .. t.seq - 1, n # m PROVE n % HistorySize # m % HistorySize
    <3>1. m \in Nat /\ m < t.seq /\ m >= t.seq - Len(t.ring) BY ONLY <1>2, <1>3, <2>5
    <3>2. (n < m /\ m < n + HistorySize) \/ (m < n /\ n < m + HistorySize)
      BY ONLY <1>1, <1>2, <2>1, <2>5, <3>1
    <3>6. n \in Int /\ m \in Int BY ONLY <2>1, <3>1
    <3>3. CASE n < m /\ m < n + HistorySize BY ONLY <1>1, <3>3, <3>6, Apart
    <3>4. CASE m < n /\ n < m + HistorySize BY ONLY <1>1, <3>4, <3>6, Apart
    <3>5. QED BY <3>2, <3>3, <3>4
  <2>6. QED BY <2>1, <2>3, <2>4, <2>5
<1>5. Len(t.ring) \in 0 .. HistorySize BY ONLY <1>1, <1>2
<1>6. QED BY <1>2, <1>3, <1>4, <1>5

\* What is shown is the ring from its oldest entry.
LEMMA RecentIs ==
  ASSUME NEW t, IsTrack(t)
  PROVE  /\ Recent(t, HistorySize) \in Seq(Captions)
         /\ Len(Recent(t, HistorySize)) = Len(t.ring)
         /\ DOMAIN Recent(t, HistorySize) = 1 .. Len(t.ring)
         /\ \A i \in 1 .. Len(t.ring) : Recent(t, HistorySize)[i] = At(t, (Oldest(t) + i) - 1)
<1> DEFINE m == Len(t.ring)
           shown == Recent(t, HistorySize)
<1>1. /\ HistorySize \in Nat \ {0} /\ m \in 0 .. HistorySize /\ t.seq \in Nat /\ Oldest(t) = t.seq - m
      /\ Oldest(t) \in Nat
  BY TrackAssumption, Slots
<1>2. Least(HistorySize, m) = m BY <1>1 DEF Least
<1>3. shown = [i \in 1 .. m |-> t.ring[(((t.next + m - m) + i - 1) % m) + 1]]
  BY <1>2 DEF Recent
<1>0. (m < HistorySize => t.next = 0 /\ t.seq = m) /\ (m = HistorySize => t.next = t.seq % HistorySize)
  BY <1>1 DEF IsTrack
<1> HIDE DEF m, shown
<1>4. ASSUME NEW i \in 1 .. m
      PROVE  t.ring[(((t.next + m - m) + i - 1) % m) + 1] = At(t, (Oldest(t) + i) - 1)
  <2>1. i \in Nat /\ i >= 1 /\ i <= m /\ m \in Nat /\ m > 0 BY ONLY <1>1, <1>4
  <2>2. CASE m < HistorySize
    <3>1. t.next = 0 /\ t.seq = m BY <1>0, <2>2
    <3>2. ((t.next + m - m) + i - 1) = i - 1 /\ (Oldest(t) + i) - 1 = i - 1 BY <1>1, <2>1, <3>1
    <3>3. i - 1 \in Nat /\ i - 1 < m /\ i - 1 < HistorySize /\ m \in Nat \ {0} BY ONLY <1>1, <2>1, <2>2
    <3>4. (i - 1) % m = i - 1 /\ (i - 1) % HistorySize = i - 1 BY <1>1, <3>3, Small
    <3>5. QED BY <3>2, <3>4 DEF At
  <2>3. CASE m = HistorySize
    <3>1. t.next = t.seq % HistorySize BY <1>0, <2>3
    <3>2. t.next \in Int BY <1>1, <3>1, Quotient
    <3>3. (t.next + m - m) + i - 1 = t.next + (i - 1) BY ONLY <2>1, <3>2
    <3>4. (t.next + (i - 1)) % m = (t.seq + (i - 1)) % m
      <4>1. m \in Nat \ {0} /\ t.seq \in Int /\ i - 1 \in Int BY ONLY <1>1, <2>1
      <4>2. t.next = t.seq % m BY ONLY <2>3, <3>1
      <4>3. QED BY ONLY <4>1, <4>2, Wraps
    <3>5. ((Oldest(t) + i) - 1) + m = t.seq + (i - 1) BY ONLY <1>1, <2>1
    <3>6. (((Oldest(t) + i) - 1) + m) % m = ((Oldest(t) + i) - 1) % m
      <4>1. (Oldest(t) + i) - 1 \in Int /\ m \in Nat \ {0} BY ONLY <1>1, <2>1
      <4>2. QED BY ONLY <4>1, Round
    <3>7. QED BY <2>3, <3>3, <3>4, <3>5, <3>6 DEF At
  <2>4. QED BY <1>1, <2>2, <2>3
<1>5. \A i \in 1 .. m : At(t, (Oldest(t) + i) - 1) \in Captions
  <2>1. \A i \in 1 .. m : (Oldest(t) + i) - 1 \in Oldest(t) .. t.seq - 1 BY ONLY <1>1
  <2>2. QED BY <2>1, Slots
<1>6. DOMAIN shown = 1 .. m /\ \A i \in 1 .. m : shown[i] = At(t, (Oldest(t) + i) - 1) /\ shown[i] \in Captions
  BY ONLY <1>3, <1>4, <1>5
<1>7. shown \in Seq(Captions) /\ Len(shown) = m
  <2>1. m \in Nat BY <1>1
  <2>2. shown \in [1 .. m -> Captions] BY <1>3, <1>6
  <2>3. QED BY ONLY <2>1, <2>2
<1>8. QED BY <1>6, <1>7 DEF m, shown

\* The last final of a segment in the ring.
Entry(t, s) == At(t, t.final[s])

\* An entry of the ring has a number, and is its segment's.
LEMMA EntryOf ==
  ASSUME NEW t, TrackOK(t), NEW i \in 1 .. Len(t.ring)
  PROVE  /\ t.ring[i] \in Captions /\ t.ring[i].final
         /\ Known(t, t.ring[i].seg) /\ Entry(t, t.ring[i].seg) = t.ring[i]
<1> DEFINE m == Len(t.ring)
<1>1. /\ IsTrack(t) /\ Numbered(t) /\ HistorySize \in Nat \ {0} /\ m \in 0 .. HistorySize
      /\ t.seq \in Nat /\ Oldest(t) = t.seq - m /\ Oldest(t) \in Nat
  BY TrackAssumption, Slots DEF TrackOK
<1>2. m < HistorySize => t.seq = m BY <1>1 DEF IsTrack
<1>3. i \in Nat /\ i >= 1 /\ i <= m BY <1>1
<1>4. PICK n \in Oldest(t) .. t.seq - 1 : n % HistorySize = i - 1
  <2> HIDE DEF m
  <2>1. CASE m < HistorySize
    <3>1. i - 1 \in Oldest(t) .. t.seq - 1 BY ONLY <1>1, <1>2, <1>3, <2>1
    <3>2. i - 1 \in Nat /\ i - 1 < HistorySize BY ONLY <1>1, <1>3, <2>1
    <3>3. (i - 1) % HistorySize = i - 1 BY ONLY <1>1, <3>2, Small
    <3>4. QED BY <3>1, <3>3
  <2>2. CASE m = HistorySize
    <3>1. PICK e \in Int : e = (i - 1) - t.seq BY ONLY <1>1, <1>3
    <3>2. PICK d \in 0 .. HistorySize - 1 : d = e % HistorySize BY ONLY <1>1, Quotient
    <3>3. ((e % HistorySize) + t.seq) % HistorySize = (e + t.seq) % HistorySize
      <4>1. t.seq \in Int BY ONLY <1>1
      <4>2. QED BY ONLY <1>1, <4>1, e \in Int, Wraps
    <3>4. e + t.seq = i - 1 /\ i - 1 \in Nat /\ i - 1 < HistorySize BY ONLY <1>1, <1>3, <2>2, <3>1
    <3>5. (d + t.seq) % HistorySize = i - 1
      <4>1. (i - 1) % HistorySize = i - 1 BY ONLY <1>1, <3>4, Small
      <4>2. QED BY ONLY <3>2, <3>3, <3>4, <4>1
    <3>6. PICK n \in Int : n = (t.seq - HistorySize) + d BY ONLY <1>1
    <3>7. n % HistorySize = i - 1
      <4>1. n + HistorySize = d + t.seq BY ONLY <1>1, <3>6
      <4>2. (n + HistorySize) % HistorySize = n % HistorySize BY ONLY <1>1, n \in Int, Round
      <4>3. QED BY ONLY <3>5, <4>1, <4>2
    <3>8. n \in Oldest(t) .. t.seq - 1 BY ONLY <1>1, <2>2, <3>2, <3>6
    <3>9. QED BY <3>7, <3>8
  <2>3. QED BY ONLY <1>1, <2>1, <2>2
<1>5. At(t, n) = t.ring[i] BY <1>3, <1>4 DEF At
<1>6. At(t, n) \in Captions /\ At(t, n).final /\ Known(t, At(t, n).seg) /\ t.final[At(t, n).seg] = n
  BY <1>1, <1>4, Slots DEF Numbered
<1>7. QED BY <1>5, <1>6 DEF Entry

\* A segment that is known has its entry in the ring.
LEMMA KnownEntry ==
  ASSUME NEW t, TrackOK(t), NEW s, Known(t, s)
  PROVE  /\ t.final[s] \in Oldest(t) .. t.seq - 1 /\ t.final[s] \in Nat
         /\ Entry(t, s) \in Captions /\ Entry(t, s).seg = s /\ Entry(t, s).final
         /\ Slot(t, s) \in 1 .. Len(t.ring) /\ Entry(t, s) = t.ring[Slot(t, s)]
<1>1. t.final[s] \in Oldest(t) .. t.seq - 1 /\ At(t, t.final[s]).seg = s
  BY DEF TrackOK, Numbered, Known
<1>2. QED BY <1>1, Slots DEF TrackOK, Numbered, Entry, At, Slot

\* A track whose ring is the same.
LEMMA SameRing ==
  ASSUME NEW t, TrackOK(t), NEW u,
         u = [ring |-> t.ring, next |-> t.next, seq |-> t.seq, final |-> t.final, interim |-> u.interim],
         u.interim \in Captions \cup {NoCaption}
  PROVE  /\ TrackOK(u) /\ Recent(u, HistorySize) = Recent(t, HistorySize)
         /\ u.final = t.final /\ u.seq = t.seq /\ Oldest(u) = Oldest(t) /\ u.ring = t.ring
         /\ \A s : Entry(u, s) = Entry(t, s)
<1>1. u.ring = t.ring /\ u.next = t.next /\ u.seq = t.seq /\ u.final = t.final BY ONLY u = [ring |-> t.ring, next |-> t.next, seq |-> t.seq, final |-> t.final, interim |-> u.interim]
<1>2. Oldest(u) = Oldest(t) /\ (\A n : At(u, n) = At(t, n)) BY <1>1 DEF Oldest, At
<1>3. IsTrack(u) BY <1>1 DEF TrackOK, IsTrack
<1>4. Numbered(u) BY <1>1, <1>2 DEF TrackOK, Numbered, Known
<1>5. Recent(u, HistorySize) = Recent(t, HistorySize) BY <1>1 DEF Recent
<1>6. QED BY <1>1, <1>2, <1>3, <1>4, <1>5 DEF TrackOK, Entry

\* A final of a known segment replaces the segment's entry.
Substituted(t, c) == [t EXCEPT !.ring[Slot(t, c.seg)] = c]

LEMMA Replaced ==
  ASSUME NEW t, TrackOK(t), NEW c \in Captions, c.final, Known(t, c.seg),
         NEW u, u = Substituted(t, c)
  PROVE  /\ TrackOK(u)
         /\ u.final = t.final /\ u.seq = t.seq /\ Oldest(u) = Oldest(t) /\ u.interim = t.interim
         /\ \A s \in DOMAIN t.final : Entry(u, s) = IF s = c.seg THEN c ELSE Entry(t, s)
         /\ \E i \in 1 .. Len(Recent(t, HistorySize)) :
              /\ Recent(t, HistorySize)[i] = Entry(t, c.seg)
              /\ Recent(u, HistorySize) = [Recent(t, HistorySize) EXCEPT ![i] = c]
<1> DEFINE k == t.final[c.seg]
           slot == Slot(t, c.seg)
<1>1. /\ IsTrack(t) /\ Numbered(t) /\ k \in Oldest(t) .. t.seq - 1 /\ k \in Nat /\ slot \in 1 .. Len(t.ring)
      /\ slot = (k % HistorySize) + 1
  BY KnownEntry DEF TrackOK, Slot
<1>2. u = [ring |-> [t.ring EXCEPT ![slot] = c], next |-> t.next, seq |-> t.seq, final |-> t.final,
           interim |-> t.interim]
  BY <1>1 DEF IsTrack, Substituted
<1>3. /\ u.ring = [t.ring EXCEPT ![slot] = c] /\ u.next = t.next /\ u.seq = t.seq /\ u.final = t.final
      /\ u.interim = t.interim
      /\ u = [ring |-> u.ring, next |-> u.next, seq |-> u.seq, final |-> u.final, interim |-> u.interim]
  BY ONLY <1>2
<1> HIDE DEF slot
<1>4. /\ u.ring \in Seq(Captions) /\ Len(u.ring) = Len(t.ring)
      /\ \A i \in 1 .. Len(t.ring) : u.ring[i] = IF i = slot THEN c ELSE t.ring[i]
  <2>1. t.ring \in Seq(Captions) BY <1>1 DEF IsTrack
  <2>2. QED BY ONLY <1>1, <1>3, <2>1, c \in Captions, ExceptSeq
<1>5. IsTrack(u) BY <1>1, <1>3, <1>4 DEF IsTrack
<1>6. Oldest(u) = Oldest(t) BY <1>3, <1>4 DEF Oldest
<1>7. \A n \in Oldest(t) .. t.seq - 1 : At(u, n) = IF n = k THEN c ELSE At(t, n)
  <2> SUFFICES ASSUME NEW n \in Oldest(t) .. t.seq - 1 PROVE At(u, n) = IF n = k THEN c ELSE At(t, n)
    OBVIOUS
  <2>1. (n % HistorySize) + 1 \in 1 .. Len(t.ring) /\ n \in Nat /\ (n # k => n % HistorySize # k % HistorySize)
    BY <1>1, Slots
  <2>2. n % HistorySize \in Int /\ k % HistorySize \in Int
    <3>1. n \in Int /\ k \in Int /\ HistorySize \in Nat \ {0} BY <1>1, <2>1, TrackAssumption
    <3>2. QED BY ONLY <3>1, Quotient
  <2>3. n # k => (n % HistorySize) + 1 # slot BY ONLY <1>1, <2>1, <2>2
  <2>4. QED BY <1>1, <1>4, <2>1, <2>3 DEF At
<1>8. At(t, k).seg = c.seg /\ \A n \in Oldest(t) .. t.seq - 1 : n # k => At(t, n).seg # c.seg
  BY <1>1 DEF Numbered, Known
<1>9. Numbered(u)
  <2>1. \A n \in Oldest(t) .. t.seq - 1 :
          At(u, n).seg = At(t, n).seg /\ At(u, n).final
    BY <1>1, <1>7, <1>8 DEF Numbered
  <2>2. ASSUME NEW n \in Oldest(u) .. u.seq - 1
        PROVE  At(u, n).final /\ Known(u, At(u, n).seg) /\ u.final[At(u, n).seg] = n
    <3>1. n \in Oldest(t) .. t.seq - 1 BY <1>3, <1>6
    <3>2. Known(t, At(t, n).seg) /\ t.final[At(t, n).seg] = n BY <1>1, <3>1 DEF Numbered
    <3>3. QED BY <1>3, <2>1, <3>1, <3>2 DEF Known
  <2>3. ASSUME NEW s \in DOMAIN u.final
        PROVE  u.final[s] \in Oldest(u) .. u.seq - 1 /\ At(u, u.final[s]).seg = s
    <3>1. t.final[s] \in Oldest(t) .. t.seq - 1 /\ At(t, t.final[s]).seg = s BY <1>1, <1>3 DEF Numbered
    <3>2. QED BY <1>3, <1>6, <2>1, <3>1
  <2>4. QED BY <2>2, <2>3 DEF Numbered
<1>10. ASSUME NEW s \in DOMAIN t.final PROVE Entry(u, s) = IF s = c.seg THEN c ELSE Entry(t, s)
  <2>1. t.final[s] \in Oldest(t) .. t.seq - 1 /\ At(t, t.final[s]).seg = s BY <1>1 DEF Numbered
  <2>2. CASE s = c.seg BY <1>3, <1>7, <2>1, <2>2 DEF Entry
  <2>3. CASE s # c.seg
    <3>1. t.final[s] # k BY <1>8, <2>1, <2>3
    <3>2. QED BY <1>3, <1>7, <2>1, <2>3, <3>1 DEF Entry
  <2>4. QED BY <2>2, <2>3
<1>11. PICK i \in 1 .. Len(t.ring) : i = (k - Oldest(t)) + 1
  <2>1. Oldest(t) = t.seq - Len(t.ring) /\ Oldest(t) \in Nat /\ t.seq \in Nat /\ Len(t.ring) \in Nat BY <1>1, Slots
  <2>2. QED BY ONLY <1>1, <2>1
<1>12. /\ Recent(t, HistorySize)[i] = Entry(t, c.seg)
       /\ Recent(u, HistorySize) = [Recent(t, HistorySize) EXCEPT ![i] = c]
  <2>1. /\ Recent(t, HistorySize) \in Seq(Captions) /\ DOMAIN Recent(t, HistorySize) = 1 .. Len(t.ring)
        /\ Len(Recent(t, HistorySize)) = Len(t.ring)
        /\ \A j \in 1 .. Len(t.ring) : Recent(t, HistorySize)[j] = At(t, (Oldest(t) + j) - 1)
    BY <1>1, RecentIs
  <2>2. /\ Recent(u, HistorySize) \in Seq(Captions) /\ DOMAIN Recent(u, HistorySize) = 1 .. Len(t.ring)
        /\ Len(Recent(u, HistorySize)) = Len(t.ring)
        /\ \A j \in 1 .. Len(t.ring) : Recent(u, HistorySize)[j] = At(u, (Oldest(t) + j) - 1)
    BY <1>4, <1>5, <1>6, RecentIs
  <2>3. /\ (Oldest(t) + i) - 1 = k
        /\ \A j \in 1 .. Len(t.ring) : (Oldest(t) + j) - 1 \in Oldest(t) .. t.seq - 1
                                       /\ (j # i => (Oldest(t) + j) - 1 # k)
    <3>1. Oldest(t) = t.seq - Len(t.ring) /\ Oldest(t) \in Nat /\ t.seq \in Nat /\ Len(t.ring) \in Nat BY <1>1, Slots
    <3>2. k \in Nat /\ i \in Nat BY <1>1
    <3>3. PICK o \in Nat, l \in Nat : o = Oldest(t) /\ l = Len(t.ring) BY ONLY <3>1
    <3>4. i = (k - o) + 1 /\ o = t.seq - l BY ONLY <1>11, <3>1, <3>3
    <3>5. (o + i) - 1 = k BY ONLY SMTT(30), <3>2, <3>3, <3>4
    <3>6. ASSUME NEW j \in 1 .. l PROVE (o + j) - 1 \in o .. t.seq - 1 /\ (j # i => (o + j) - 1 # k)
      <4>1. t.seq = o + l /\ t.seq \in Nat /\ j \in Nat /\ 1 <= j /\ j <= l BY ONLY <3>1, <3>3, <3>4, j \in 1 .. l
      <4>2. (o + j) - 1 \in o .. t.seq - 1 BY ONLY SMTT(30), <3>3, <4>1
      <4>3. j # i => (o + j) - 1 # (o + i) - 1 BY ONLY <3>2, <3>3, <4>1
      <4>4. QED BY ONLY <3>5, <4>2, <4>3
    <3>7. QED BY ONLY <3>3, <3>5, <3>6, <3>2
  <2>4. Recent(t, HistorySize)[i] = Entry(t, c.seg) BY <2>1, <2>3 DEF Entry
  <2> DEFINE old == Recent(t, HistorySize)
             new == Recent(u, HistorySize)
  <2>5. ASSUME NEW j \in 1 .. Len(t.ring) PROVE new[j] = IF j = i THEN c ELSE old[j]
    <3>1. new[j] = At(u, (Oldest(t) + j) - 1) /\ old[j] = At(t, (Oldest(t) + j) - 1) BY <2>1, <2>2
    <3>2. At(u, (Oldest(t) + j) - 1) = IF (Oldest(t) + j) - 1 = k THEN c ELSE At(t, (Oldest(t) + j) - 1)
      BY <1>7, <2>3
    <3>3. QED BY <2>3, <3>1, <3>2
  <2> HIDE DEF old, new
  <2>6. new = [old EXCEPT ![i] = c]
    <3>1. /\ old \in Seq(Captions) /\ Len(old) = Len(t.ring) /\ new \in Seq(Captions) /\ Len(new) = Len(t.ring)
      BY ONLY <2>1, <2>2 DEF old, new
    <3>2. /\ [old EXCEPT ![i] = c] \in Seq(Captions) /\ Len([old EXCEPT ![i] = c]) = Len(old)
          /\ \A j \in 1 .. Len(old) : [old EXCEPT ![i] = c][j] = IF j = i THEN c ELSE old[j]
      BY ONLY <1>11, <3>1, c \in Captions, ExceptSeq
    <3>3. QED BY ONLY <2>5, <3>1, <3>2, SeqEqual
  <2>7. QED BY <2>4, <2>6 DEF old, new
<1>13. Len(Recent(t, HistorySize)) = Len(t.ring) BY <1>1, RecentIs
<1>14. QED BY <1>3, <1>5, <1>6, <1>9, <1>10, <1>11, <1>12, <1>13 DEF TrackOK

\* The segments whose numbers are not evicted.
Lasting(t, old) == {s \in DOMAIN t.final : t.final[s] >= Oldest(t) + old}

\* u is t with one more caption, without its old first ones (one or none).
Pushes(t, c, u, old) ==
  /\ old = IF Len(t.ring) = HistorySize THEN 1 ELSE 0
  /\ IsTrack(u) /\ u.seq = t.seq + 1 /\ u.interim = t.interim
  /\ Len(u.ring) = (Len(t.ring) + 1) - old /\ Oldest(u) = Oldest(t) + old
  /\ At(u, t.seq) = c /\ \A n \in Oldest(u) .. t.seq - 1 : At(u, n) = At(t, n)
  /\ DOMAIN u.final = Lasting(t, old) \cup {c.seg}
  /\ \A s \in DOMAIN u.final : u.final[s] = IF s = c.seg THEN t.seq ELSE t.final[s]

\* While the ring grows.
LEMMA Grown ==
  ASSUME NEW t, TrackOK(t), NEW c \in Captions, Grows(t)
  PROVE  Pushes(t, c, Push(t, c), 0)
<1> DEFINE m == Len(t.ring)
           u == Push(t, c)
<1>1. /\ IsTrack(t) /\ Numbered(t) /\ HistorySize \in Nat \ {0} /\ m \in 0 .. HistorySize
      /\ t.seq \in Nat /\ Oldest(t) = t.seq - m /\ m < HistorySize /\ t.ring \in Seq(Captions)
  BY TrackAssumption, Slots DEF TrackOK, Grows, IsTrack
<1>2. t.seq = m /\ t.next = 0 BY <1>1 DEF IsTrack
<1>3. u = [ring |-> Append(t.ring, c), next |-> t.next, seq |-> t.seq + 1,
           final |-> Indexed(t.final, c.seg, t.seq), interim |-> t.interim]
  <2>1. u = [t EXCEPT !.ring = Append(@, c), !.seq = @ + 1, !.final = Indexed(@, c.seg, t.seq)]
    BY <1>1 DEF Push, Grows
  <2>2. t = [ring |-> t.ring, next |-> t.next, seq |-> t.seq, final |-> t.final, interim |-> t.interim]
    BY <1>1 DEF IsTrack
  <2>3. QED BY ONLY <2>1, <2>2
<1> HIDE DEF u
<1>4. /\ u.ring = Append(t.ring, c) /\ u.next = t.next /\ u.seq = t.seq + 1
      /\ u.final = Indexed(t.final, c.seg, t.seq) /\ u.interim = t.interim
      /\ u = [ring |-> u.ring, next |-> u.next, seq |-> u.seq, final |-> u.final, interim |-> u.interim]
  BY ONLY <1>3
<1>5. /\ u.ring \in Seq(Captions) /\ Len(u.ring) = m + 1
      /\ (\A i \in 1 .. m : u.ring[i] = t.ring[i]) /\ u.ring[m + 1] = c
  BY ONLY <1>1, <1>4, c \in Captions, AppendProperties
<1>6. HistorySize % HistorySize = 0
  <2>1. (0 + HistorySize) % HistorySize = 0 % HistorySize BY ONLY <1>1, Round
  <2>2. 0 % HistorySize = 0 BY ONLY <1>1, Small
  <2>3. QED BY <1>1, <2>1, <2>2
<1>7. IsTrack(u)
  <2>1. u.seq = m + 1 /\ u.next = 0 /\ Len(u.ring) = m + 1 /\ m + 1 <= HistorySize /\ u.seq \in Nat
    BY ONLY <1>1, <1>2, <1>4, <1>5
  <2>2. t.interim \in Captions \cup {NoCaption} BY <1>1 DEF IsTrack
  <2>3. CASE m + 1 < HistorySize BY ONLY <1>4, <1>5, <2>1, <2>2, <2>3 DEF IsTrack
  <2>4. CASE m + 1 = HistorySize
    <3>1. Len(u.ring) = HistorySize /\ u.seq = HistorySize /\ u.next = HistorySize % HistorySize
      BY ONLY <2>1, <2>4, <1>6
    <3>2. HistorySize >= HistorySize /\ ~(HistorySize < HistorySize) BY <1>1
    <3>3. u.next = u.seq % HistorySize BY ONLY <3>1
    <3>4. QED BY ONLY <1>4, <1>5, <2>1, <2>2, <3>1, <3>2, <3>3 DEF IsTrack
  <2>5. QED BY ONLY <1>1, <2>3, <2>4
<1>8. Oldest(u) = Oldest(t) /\ Oldest(t) = 0 BY ONLY <1>1, <1>2, <1>4, <1>5 DEF Oldest
<1>9. At(u, t.seq) = c
  <2>1. m \in Nat /\ m < HistorySize BY ONLY <1>1
  <2>2. m % HistorySize = m BY ONLY <1>1, <2>1, Small
  <2>3. (t.seq % HistorySize) + 1 = m + 1 BY ONLY <1>2, <2>1, <2>2
  <2>4. QED BY ONLY <1>5, <2>3 DEF At
<1>10. ASSUME NEW n \in Oldest(u) .. t.seq - 1 PROVE At(u, n) = At(t, n)
  <2>1. n \in Nat /\ n < m /\ n < HistorySize /\ n + 1 \in 1 .. m BY ONLY <1>1, <1>2, <1>8, <1>10
  <2>2. n % HistorySize = n BY ONLY <1>1, <2>1, Small
  <2>3. QED BY ONLY <1>5, <2>1, <2>2 DEF At
<1>11. Lasting(t, 0) = DOMAIN t.final
  <2>1. \A s \in DOMAIN t.final : t.final[s] \in Oldest(t) .. t.seq - 1 BY <1>1 DEF Numbered
  <2>2. ASSUME NEW s \in DOMAIN t.final PROVE t.final[s] >= Oldest(t) + 0
    <3>1. PICK k \in Oldest(t) .. t.seq - 1 : k = t.final[s] BY <2>1
    <3>2. QED BY ONLY <1>1, <1>8, <3>1
  <2>3. QED BY <2>2 DEF Lasting
<1>12. /\ DOMAIN u.final = Lasting(t, 0) \cup {c.seg}
       /\ \A s \in DOMAIN u.final : u.final[s] = IF s = c.seg THEN t.seq ELSE t.final[s]
  BY ONLY <1>4, <1>11 DEF Indexed
<1>13. Len(u.ring) = (m + 1) - 0 /\ Oldest(u) = Oldest(t) + 0 /\ ~(m = HistorySize)
  BY ONLY <1>1, <1>5, <1>8
<1>14. Pushes(t, c, u, 0) BY <1>4, <1>7, <1>9, <1>10, <1>12, <1>13 DEF Pushes
<1>15. QED BY <1>14 DEF u

\* Once it wraps: the oldest is overwritten and its segment forgotten.
LEMMA Wrapped ==
  ASSUME NEW t, TrackOK(t), NEW c \in Captions, ~Grows(t)
  PROVE  Pushes(t, c, Push(t, c), 1)
<1> DEFINE m == Len(t.ring)
           u == Push(t, c)
           slot == t.next + 1
<1>1. /\ IsTrack(t) /\ Numbered(t) /\ HistorySize \in Nat \ {0} /\ m \in 0 .. HistorySize
      /\ t.seq \in Nat /\ Oldest(t) = t.seq - m /\ Oldest(t) \in Nat
      /\ ~(m < HistorySize) /\ t.ring \in Seq(Captions)
  BY TrackAssumption, Slots DEF TrackOK, Grows, IsTrack
<1>2. m = HistorySize BY ONLY <1>1
<1>3. t.next = t.seq % HistorySize /\ t.seq >= HistorySize BY <1>1 DEF IsTrack
<1>4. t.next \in 0 .. HistorySize - 1 /\ slot \in 1 .. m
  <2>1. t.seq \in Int BY <1>1
  <2>2. t.seq % HistorySize \in 0 .. HistorySize - 1 BY ONLY <1>1, <2>1, Quotient
  <2>3. QED BY ONLY <1>1, <1>2, <1>3, <2>2
<1>5. u = [ring |-> [t.ring EXCEPT ![slot] = c], next |-> (t.next + 1) % HistorySize, seq |-> t.seq + 1,
           final |-> Indexed(ForgetEvicted(t), c.seg, t.seq), interim |-> t.interim]
  <2>1. u = [t EXCEPT !.ring[t.next + 1] = c, !.next = (@ + 1) % HistorySize,
                 !.seq = @ + 1, !.final = Indexed(ForgetEvicted(t), c.seg, t.seq)]
    BY <1>1 DEF Push, Grows
  <2>2. t = [ring |-> t.ring, next |-> t.next, seq |-> t.seq, final |-> t.final, interim |-> t.interim]
    BY <1>1 DEF IsTrack
  <2>3. QED BY ONLY <2>1, <2>2
<1> HIDE DEF u, slot
<1>6. /\ u.ring = [t.ring EXCEPT ![slot] = c] /\ u.next = (t.next + 1) % HistorySize /\ u.seq = t.seq + 1
      /\ u.final = Indexed(ForgetEvicted(t), c.seg, t.seq) /\ u.interim = t.interim
      /\ u = [ring |-> u.ring, next |-> u.next, seq |-> u.seq, final |-> u.final, interim |-> u.interim]
  BY ONLY <1>5
<1>7. /\ u.ring \in Seq(Captions) /\ Len(u.ring) = m
      /\ \A i \in 1 .. m : u.ring[i] = IF i = slot THEN c ELSE t.ring[i]
  BY ONLY SMTT(30), <1>1, <1>4, <1>6, c \in Captions, ExceptSeq
<1>8. IsTrack(u)
  <2>1. u.next = u.seq % HistorySize
    <3>1. t.seq \in Int /\ 1 \in Int BY <1>1
    <3>2. ((t.seq % HistorySize) + 1) % HistorySize = (t.seq + 1) % HistorySize BY ONLY <1>1, <3>1, Wraps
    <3>3. QED BY ONLY <1>3, <1>6, <3>2
  <2>2. u.seq \in Nat /\ u.seq >= HistorySize /\ Len(u.ring) <= HistorySize /\ ~(Len(u.ring) < HistorySize)
    BY ONLY <1>1, <1>2, <1>3, <1>6, <1>7
  <2>3. t.interim \in Captions \cup {NoCaption} BY <1>1 DEF IsTrack
  <2>4. QED BY ONLY <1>6, <1>7, <2>1, <2>2, <2>3 DEF IsTrack
<1>9. Oldest(u) = Oldest(t) + 1 BY ONLY <1>1, <1>6, <1>7 DEF Oldest
<1>10. At(u, t.seq) = c BY <1>3, <1>4, <1>7 DEF At, slot
<1>11. ASSUME NEW n \in Oldest(u) .. t.seq - 1 PROVE At(u, n) = At(t, n)
  <2>1. n \in Int /\ t.seq \in Int /\ n < t.seq /\ t.seq < n + HistorySize /\ n \in Oldest(t) .. t.seq - 1
    BY ONLY <1>1, <1>2, <1>9, <1>11
  <2>2. n % HistorySize # t.seq % HistorySize BY ONLY <1>1, <2>1, Apart
  <2>3. (n % HistorySize) + 1 \in 1 .. m BY <1>1, <2>1, Slots
  <2>4. n % HistorySize \in Int /\ t.seq % HistorySize \in Int
    <3>1. n % HistorySize \in 0 .. HistorySize - 1 BY ONLY <1>1, <2>1, Quotient
    <3>2. t.seq % HistorySize \in 0 .. HistorySize - 1 BY ONLY <1>1, <2>1, Quotient
    <3>3. QED BY ONLY <3>1, <3>2
  <2>5. (n % HistorySize) + 1 # (t.seq % HistorySize) + 1 BY ONLY <2>2, <2>4
  <2>6. QED BY <1>3, <1>7, <2>3, <2>5 DEF At, slot
<1>12. t.ring[t.next + 1] = At(t, Oldest(t))
  <2>1. Oldest(t) + HistorySize = t.seq /\ Oldest(t) \in Int BY ONLY <1>1, <1>2
  <2>2. (Oldest(t) + HistorySize) % HistorySize = Oldest(t) % HistorySize BY ONLY <1>1, <2>1, Round
  <2>3. QED BY ONLY <1>3, <2>1, <2>2 DEF At
<1>13. DOMAIN ForgetEvicted(t) = Lasting(t, 1)
  <2>1. \A s \in DOMAIN t.final : t.final[s] \in Oldest(t) .. t.seq - 1 /\ At(t, t.final[s]).seg = s
    BY <1>1 DEF Numbered
  <2>2. DOMAIN ForgetEvicted(t)
          = {s \in DOMAIN t.final : s = At(t, Oldest(t)).seg => t.final[s] # t.seq - HistorySize}
    BY <1>12 DEF ForgetEvicted
  <2>3. t.seq - HistorySize = Oldest(t) BY ONLY <1>1, <1>2
  <2>4. ASSUME NEW s \in DOMAIN t.final
        PROVE  (s = At(t, Oldest(t)).seg => t.final[s] # Oldest(t)) <=> t.final[s] >= Oldest(t) + 1
    <3>1. t.final[s] >= Oldest(t) + 1 <=> t.final[s] # Oldest(t) BY ONLY <1>1, <2>1, s \in DOMAIN t.final
    <3>2. t.final[s] = Oldest(t) => s = At(t, Oldest(t)).seg BY <2>1
    <3>3. QED BY ONLY <3>1, <3>2
  <2>5. QED BY ONLY <2>2, <2>3, <2>4 DEF Lasting
<1>14. /\ DOMAIN u.final = Lasting(t, 1) \cup {c.seg}
       /\ \A s \in DOMAIN u.final : u.final[s] = IF s = c.seg THEN t.seq ELSE t.final[s]
  <2>1. \A s \in DOMAIN ForgetEvicted(t) : ForgetEvicted(t)[s] = t.final[s] BY DEF ForgetEvicted
  <2>2. /\ DOMAIN u.final = DOMAIN ForgetEvicted(t) \cup {c.seg}
        /\ \A s \in DOMAIN u.final : u.final[s] = IF s = c.seg THEN t.seq ELSE ForgetEvicted(t)[s]
    BY ONLY <1>6 DEF Indexed
  <2>3. QED BY ONLY <1>13, <2>1, <2>2
<1>15. Len(u.ring) = (m + 1) - 1 BY ONLY <1>1, <1>7
<1>16. Pushes(t, c, u, 1) BY <1>2, <1>6, <1>8, <1>9, <1>10, <1>11, <1>14, <1>15 DEF Pushes
<1>17. QED BY <1>16 DEF u

Later(shown, c, old) == SubSeq(Append(shown, c), 1 + old, Len(Append(shown, c)))

\* A final of a new segment goes to the end; if the ring is full, its oldest
\* entry goes, and only that one's segment is forgotten.
LEMMA Pushed ==
  ASSUME NEW t, TrackOK(t), NEW c \in Captions, c.final, ~Known(t, c.seg),
         NEW u, NEW old, Pushes(t, c, u, old)
  PROVE  /\ TrackOK(u)
         /\ Known(u, c.seg) /\ Entry(u, c.seg) = c /\ u.final[c.seg] = t.seq
         /\ \A s : s # c.seg => (Known(u, s) <=> Known(t, s) /\ t.final[s] >= Oldest(u))
         /\ \A s : s # c.seg /\ Known(u, s) => u.final[s] = t.final[s] /\ Entry(u, s) = Entry(t, s)
         /\ Recent(u, HistorySize) = Later(Recent(t, HistorySize), c, old)
<1> DEFINE m == Len(t.ring)
           shown == Recent(t, HistorySize)
           all == Append(shown, c)
           now == Recent(u, HistorySize)
<1>1. /\ IsTrack(t) /\ Numbered(t) /\ HistorySize \in Nat \ {0} /\ m \in 0 .. HistorySize
      /\ t.seq \in Nat /\ Oldest(t) = t.seq - m /\ Oldest(t) \in Nat
  BY TrackAssumption, Slots DEF TrackOK
<1>2. /\ old = (IF m = HistorySize THEN 1 ELSE 0) /\ old \in 0 .. 1 /\ IsTrack(u) /\ u.seq = t.seq + 1
      /\ Len(u.ring) = (m + 1) - old /\ Oldest(u) = Oldest(t) + old
      /\ At(u, t.seq) = c /\ \A n \in Oldest(u) .. t.seq - 1 : At(u, n) = At(t, n)
      /\ DOMAIN u.final = Lasting(t, old) \cup {c.seg}
      /\ \A s \in DOMAIN u.final : u.final[s] = IF s = c.seg THEN t.seq ELSE t.final[s]
  BY <1>1 DEF Pushes
<1>3. \A s \in DOMAIN t.final : t.final[s] \in Oldest(t) .. t.seq - 1 /\ At(t, t.final[s]).seg = s
  BY <1>1 DEF Numbered
<1>4. Oldest(u) \in Nat /\ Oldest(u) <= t.seq
  <2>1. old <= m
    <3>1. CASE m = HistorySize BY ONLY <1>1, <1>2, <3>1
    <3>2. CASE m # HistorySize BY ONLY <1>1, <1>2, <3>2
    <3>3. QED BY ONLY <3>1, <3>2
  <2>2. QED BY ONLY <1>1, <1>2, <2>1
<1>5. \A s : s # c.seg => (Known(u, s) <=> Known(t, s) /\ t.final[s] >= Oldest(u))
  BY ONLY <1>2 DEF Known, Lasting
<1>6. ASSUME NEW s, s # c.seg, Known(u, s)
      PROVE  /\ u.final[s] = t.final[s] /\ Entry(u, s) = Entry(t, s)
             /\ u.final[s] \in Oldest(u) .. t.seq - 1 /\ s \in DOMAIN t.final
  <2>1. s \in DOMAIN u.final /\ s \in DOMAIN t.final /\ t.final[s] >= Oldest(u) BY <1>5, <1>6 DEF Known
  <2>2. u.final[s] = t.final[s] BY <1>2, <1>6, <2>1
  <2>3. PICK k \in Oldest(t) .. t.seq - 1 : k = t.final[s] BY <1>3, <2>1
  <2>4. k \in Oldest(u) .. t.seq - 1 BY ONLY <1>1, <1>4, <2>1, <2>3
  <2>5. At(u, k) = At(t, k) BY ONLY <1>2, <2>4
  <2>6. QED BY <2>1, <2>2, <2>3, <2>4, <2>5 DEF Entry
<1>7. Known(u, c.seg) /\ u.final[c.seg] = t.seq /\ Entry(u, c.seg) = c
  BY ONLY <1>2 DEF Known, Entry
<1>8. Numbered(u)
  <2>1. ASSUME NEW n \in Oldest(u) .. u.seq - 1
        PROVE  At(u, n).final /\ Known(u, At(u, n).seg) /\ u.final[At(u, n).seg] = n
    <3>1. CASE n = t.seq BY <1>2, <1>7, <3>1
    <3>2. CASE n # t.seq
      <4>1. n \in Oldest(u) .. t.seq - 1 /\ n \in Oldest(t) .. t.seq - 1 /\ n >= Oldest(u)
        BY ONLY <1>1, <1>2, <1>4, <2>1, <3>2
      <4>2. PICK s : s = At(t, n).seg OBVIOUS
      <4>3. At(u, n) = At(t, n) /\ At(t, n).final /\ Known(t, s) /\ t.final[s] = n
        BY <1>1, <1>2, <4>1, <4>2 DEF Numbered
      <4>4. s # c.seg BY <4>3
      <4>5. Known(u, s) /\ u.final[s] = n BY <1>5, <1>6, <4>1, <4>3, <4>4
      <4>6. QED BY <4>2, <4>3, <4>5
    <3>3. QED BY <3>1, <3>2
  <2>2. ASSUME NEW s \in DOMAIN u.final
        PROVE  u.final[s] \in Oldest(u) .. u.seq - 1 /\ At(u, u.final[s]).seg = s
    <3>1. CASE s = c.seg
      <4>1. t.seq \in Oldest(u) .. u.seq - 1 BY ONLY <1>1, <1>2, <1>4
      <4>2. QED BY <1>2, <1>7, <3>1, <4>1
    <3>2. CASE s # c.seg
      <4>1. Known(u, s) BY DEF Known
      <4>2. u.final[s] = t.final[s] /\ Entry(u, s) = Entry(t, s) /\ u.final[s] \in Oldest(u) .. t.seq - 1
            /\ s \in DOMAIN t.final
        BY <1>6, <3>2, <4>1
      <4>3. At(u, u.final[s]).seg = s BY <1>3, <4>2 DEF Entry
      <4>4. u.final[s] \in Oldest(u) .. u.seq - 1
        <5>1. Oldest(u) .. t.seq - 1 \subseteq Oldest(u) .. u.seq - 1 BY ONLY <1>1, <1>2, <1>4
        <5>2. QED BY <4>2, <5>1
      <4>5. QED BY <4>3, <4>4
    <3>3. QED BY <3>1, <3>2
  <2>3. QED BY <2>1, <2>2 DEF Numbered
<1>9. now = SubSeq(all, 1 + old, Len(all))
  <2>1. /\ shown \in Seq(Captions) /\ Len(shown) = m /\ \A i \in 1 .. m : shown[i] = At(t, (Oldest(t) + i) - 1)
    BY <1>1, RecentIs
  <2>2. /\ now \in Seq(Captions) /\ Len(now) = (m + 1) - old
        /\ \A i \in 1 .. (m + 1) - old : now[i] = At(u, (Oldest(u) + i) - 1)
    BY ZenonT(40), <1>2, RecentIs
  <2> HIDE DEF shown, now, m
  <2>3. /\ all \in Seq(Captions) /\ Len(all) = m + 1
        /\ (\A i \in 1 .. m : all[i] = shown[i]) /\ all[m + 1] = c
    BY ONLY <2>1, <1>1, c \in Captions, AppendProperties
  <2> HIDE DEF all
  <2>4. /\ SubSeq(all, 1 + old, m + 1) \in Seq(Captions)
        /\ Len(SubSeq(all, 1 + old, m + 1)) = (m + 1) - old
        /\ \A i \in 1 .. (m + 1) - old : SubSeq(all, 1 + old, m + 1)[i] = all[old + i]
    <3>1. /\ 1 + old \in 1 .. (m + 1) + 1 /\ m + 1 \in (1 + old) - 1 .. Len(all)
          /\ m \in Nat /\ old \in Nat
      BY ONLY <1>1, <1>2, <2>3
    <3>2. QED BY ONLY SMTT(30), <1>1, <1>2, <2>3, <3>1
  <2>5. ASSUME NEW i \in 1 .. (m + 1) - old PROVE now[i] = all[old + i]
    <3>1. i \in Nat /\ old \in Nat /\ m \in Nat /\ i >= 1 /\ i + old <= m + 1 BY ONLY <1>1, <1>2, <2>5
    <3>2. now[i] = At(u, (Oldest(u) + i) - 1) BY ONLY <2>2, <2>5
    <3>3. CASE i + old = m + 1
      <4>1. (Oldest(u) + i) - 1 = t.seq /\ old + i = m + 1 BY ONLY SMTT(30), <1>1, <1>2, <3>1, <3>3
      <4>2. QED BY ONLY <1>2, <2>3, <3>2, <4>1
    <3>4. CASE i + old # m + 1
      <4>1. /\ (Oldest(u) + i) - 1 \in Oldest(u) .. t.seq - 1 /\ old + i \in 1 .. m
            /\ (Oldest(u) + i) - 1 = (Oldest(t) + (old + i)) - 1
        <5>1. PICK o \in Nat, p \in Nat : o = Oldest(t) /\ p = Oldest(u) BY ONLY <1>1, <1>4
        <5>2. o = t.seq - m /\ p = o + old /\ t.seq \in Nat BY ONLY <1>1, <1>2, <5>1
        <5>3. old + i \in 1 .. m BY ONLY <3>1, <3>4
        <5>4. (p + i) - 1 = (o + (old + i)) - 1 BY ONLY <3>1, <5>1, <5>2
        <5>5. (p + i) - 1 \in p .. t.seq - 1 BY ONLY <3>1, <3>4, <5>1, <5>2
        <5>6. QED BY ONLY <5>1, <5>3, <5>4, <5>5
      <4>2. At(u, (Oldest(u) + i) - 1) = At(t, (Oldest(t) + (old + i)) - 1) BY ONLY <1>2, <4>1
      <4>3. shown[old + i] = At(t, (Oldest(t) + (old + i)) - 1) BY ONLY <2>1, <4>1
      <4>4. QED BY ONLY <2>3, <3>2, <4>1, <4>2, <4>3
    <3>5. QED BY ONLY <3>3, <3>4
  <2>6. now = SubSeq(all, 1 + old, m + 1)
    <3>1. DOMAIN now = 1 .. (m + 1) - old /\ DOMAIN SubSeq(all, 1 + old, m + 1) = 1 .. (m + 1) - old
      BY ONLY <2>2, <2>4
    <3>2. QED BY ONLY <2>2, <2>4, <2>5, SeqEqual
  <2>7. QED BY ONLY <2>3, <2>6
<1>10. now = Later(shown, c, old) BY <1>9 DEF Later
<1>11. QED BY <1>2, <1>5, <1>6, <1>7, <1>8, <1>10 DEF TrackOK

-----------------------------------------------------------------------------
(* track.add *)

\* What is shown has an entry for a segment exactly if the index knows it.
LEMMA Shown ==
  ASSUME NEW t, TrackOK(t)
  PROVE  /\ \A s : Known(t, s) => \E i \in 1 .. Len(Recent(t, HistorySize)) : Recent(t, HistorySize)[i] = Entry(t, s)
         /\ \A i \in 1 .. Len(Recent(t, HistorySize)) : Known(t, Recent(t, HistorySize)[i].seg)
<1> DEFINE shown == Recent(t, HistorySize)
           m == Len(t.ring)
<1>1. /\ IsTrack(t) /\ Numbered(t) /\ Len(shown) = m /\ \A i \in 1 .. m : shown[i] = At(t, (Oldest(t) + i) - 1)
  BY RecentIs DEF TrackOK
<1>2. PICK o \in Nat, l \in Nat : o = Oldest(t) /\ l = m /\ t.seq = o + l /\ t.seq \in Nat
  <2>1. Oldest(t) \in Nat /\ m \in Nat /\ Oldest(t) = t.seq - m /\ t.seq \in Nat BY <1>1, Slots
  <2>2. t.seq = Oldest(t) + m BY ONLY <2>1
  <2>3. QED BY <2>1, <2>2
<1> HIDE DEF shown, m
<1>3. ASSUME NEW s, Known(t, s) PROVE \E i \in 1 .. Len(shown) : shown[i] = Entry(t, s)
  <2>1. PICK k \in o .. (o + l) - 1 : k = t.final[s] BY <1>2, <1>3, KnownEntry
  <2>2. PICK i \in 1 .. l : i = (k - o) + 1 BY ONLY <1>2, <2>1
  <2>3. (o + i) - 1 = k BY ONLY <1>2, <2>1, <2>2
  <2>4. shown[i] = Entry(t, s) BY <1>1, <1>2, <2>1, <2>3 DEF Entry
  <2>5. QED BY <1>1, <1>2, <2>4
<1>4. ASSUME NEW i \in 1 .. Len(shown) PROVE Known(t, shown[i].seg)
  <2>1. i \in 1 .. l BY <1>1, <1>2
  <2>2. (o + i) - 1 \in o .. t.seq - 1 BY ONLY <1>2, <2>1
  <2>3. QED BY <1>1, <1>2, <2>1, <2>2 DEF Numbered
<1>5. QED BY <1>3, <1>4 DEF shown

\* The interim after a final.
Settled(t, c) == IF t.interim.seg = c.seg THEN NoCaption ELSE t.interim

LEMMA SettleIs ==
  ASSUME NEW t, TrackOK(t), NEW c
  PROVE  /\ TrackOK(Settle(t, c)) /\ Recent(Settle(t, c), HistorySize) = Recent(t, HistorySize)
         /\ Settle(t, c).final = t.final /\ Settle(t, c).seq = t.seq /\ Oldest(Settle(t, c)) = Oldest(t)
         /\ Settle(t, c).ring = t.ring /\ Settle(t, c).interim = Settled(t, c)
         /\ \A s : Entry(Settle(t, c), s) = Entry(t, s)
<1>1. t = [ring |-> t.ring, next |-> t.next, seq |-> t.seq, final |-> t.final, interim |-> t.interim]
      /\ t.interim \in Captions \cup {NoCaption}
  BY DEF TrackOK, IsTrack
<1>2. PICK u : u = Settle(t, c) OBVIOUS
<1>3. u = [ring |-> t.ring, next |-> t.next, seq |-> t.seq, final |-> t.final, interim |-> Settled(t, c)]
  <2>1. CASE t.interim.seg = c.seg BY ONLY <1>1, <1>2, <2>1 DEF Settle, Settled
  <2>2. CASE t.interim.seg # c.seg BY ONLY <1>1, <1>2, <2>2 DEF Settle, Settled
  <2>3. QED BY <2>1, <2>2
<1>4. u.interim = Settled(t, c) BY ONLY <1>3
<1>5. u = [ring |-> t.ring, next |-> t.next, seq |-> t.seq, final |-> t.final, interim |-> u.interim]
  BY ONLY <1>3, <1>4
<1>6. u.interim \in Captions \cup {NoCaption} BY ONLY <1>1, <1>4 DEF Settled
<1>7. QED BY <1>2, <1>4, <1>5, <1>6, SameRing

\* What a final of a known segment does to the last finals.
Replaces(t, u, c) ==
  /\ Known(t, c.seg) /\ (UndoesEdit(t, c) => FALSE)
  /\ u.final = t.final /\ u.seq = t.seq /\ Oldest(u) = Oldest(t) /\ u.interim = Settled(t, c)
  /\ \A s \in DOMAIN t.final : Entry(u, s) = IF s = c.seg THEN c ELSE Entry(t, s)
  /\ \E i \in 1 .. Len(Recent(t, HistorySize)) :
       /\ Recent(t, HistorySize)[i] = Entry(t, c.seg)
       /\ Recent(u, HistorySize) = [Recent(t, HistorySize) EXCEPT ![i] = c]

\* One with the ring, its index and what is shown of another.
SameTrack(t, u) ==
  /\ u.final = t.final /\ u.seq = t.seq /\ Oldest(u) = Oldest(t)
  /\ Recent(u, HistorySize) = Recent(t, HistorySize) /\ \A s : Entry(u, s) = Entry(t, s)

\* The five ways of track.add.
LEMMA Adds ==
  ASSUME NEW t, TrackOK(t), NEW c \in Captions, NEW u, u = Add(t, c)
  PROVE  /\ TrackOK(u)
         /\ \/ ~c.final /\ Known(t, c.seg) /\ u = t
            \/ ~c.final /\ ~Known(t, c.seg) /\ SameTrack(t, u) /\ u.interim = c
            \/ c.final /\ Known(t, c.seg) /\ UndoesEdit(t, c) /\ SameTrack(t, u) /\ u.interim = Settled(t, c)
            \/ c.final /\ Replaces(t, u, c)
            \/ /\ c.final /\ ~Known(t, c.seg)
               /\ \E v, old : /\ TrackOK(v) /\ SameTrack(t, v) /\ v.interim = Settled(t, c)
                              /\ Len(v.ring) = Len(t.ring) /\ Pushes(v, c, u, old)
<1>1. CASE ~c.final /\ Dropped(t, c) BY <1>1 DEF Add, Dropped
<1>2. CASE ~c.final /\ ~Dropped(t, c)
  <2>1. u = [t EXCEPT !.interim = c] /\ ~Known(t, c.seg) BY <1>2 DEF Add, Dropped
  <2>2. t = [ring |-> t.ring, next |-> t.next, seq |-> t.seq, final |-> t.final, interim |-> t.interim]
    BY DEF TrackOK, IsTrack
  <2>3. u = [ring |-> t.ring, next |-> t.next, seq |-> t.seq, final |-> t.final, interim |-> c]
    BY ONLY <2>1, <2>2
  <2>4. u.interim = c BY ONLY <2>3
  <2>5. u = [ring |-> t.ring, next |-> t.next, seq |-> t.seq, final |-> t.final, interim |-> u.interim]
    BY ONLY <2>3, <2>4
  <2>6. TrackOK(u) /\ SameTrack(t, u) BY <2>4, <2>5, SameRing DEF SameTrack
  <2>7. QED BY <1>2, <2>1, <2>4, <2>6
<1>3. CASE c.final
  <2>1. PICK v : v = Settle(t, c) OBVIOUS
  <2>2. /\ TrackOK(v) /\ SameTrack(t, v) /\ v.interim = Settled(t, c) /\ v.ring = t.ring
        /\ (Known(v, c.seg) <=> Known(t, c.seg)) /\ (UndoesEdit(v, c) <=> UndoesEdit(t, c))
        /\ Slot(v, c.seg) = Slot(t, c.seg)
    BY <2>1, SettleIs DEF SameTrack, Known, UndoesEdit, Slot
  <2>3. CASE Dropped(t, c) BY <1>3, <2>1, <2>2, <2>3 DEF Add, Dropped
  <2>4. CASE ~Dropped(t, c) /\ Known(t, c.seg)
    <3>1. u = Substituted(v, c) /\ ~UndoesEdit(t, c)
      BY <1>3, <2>1, <2>2, <2>4 DEF Add, Dropped, Substituted
    <3>2. /\ TrackOK(u) /\ u.final = v.final /\ u.seq = v.seq /\ Oldest(u) = Oldest(v) /\ u.interim = v.interim
          /\ \A s \in DOMAIN v.final : Entry(u, s) = IF s = c.seg THEN c ELSE Entry(v, s)
          /\ \E i \in 1 .. Len(Recent(v, HistorySize)) :
               /\ Recent(v, HistorySize)[i] = Entry(v, c.seg)
               /\ Recent(u, HistorySize) = [Recent(v, HistorySize) EXCEPT ![i] = c]
      <4>1. Known(v, c.seg) BY <2>2, <2>4
      <4>2. TrackOK(v) /\ c.final BY <1>3, <2>2
      <4>3. QED BY ONLY <3>1, <4>1, <4>2, c \in Captions, Replaced
    <3>3. Replaces(t, u, c)
      <4>1. /\ v.final = t.final /\ v.seq = t.seq /\ Oldest(v) = Oldest(t) /\ v.interim = Settled(t, c)
            /\ Recent(v, HistorySize) = Recent(t, HistorySize) /\ \A s : Entry(v, s) = Entry(t, s)
        BY <2>2 DEF SameTrack
      <4>2. QED BY <2>4, <3>1, <3>2, <4>1 DEF Replaces
    <3>4. QED BY <1>3, <3>2, <3>3
  <2>5. CASE ~Known(t, c.seg)
    <3>1. u = Push(v, c) BY <1>3, <2>1, <2>5 DEF Add, Dropped
    <3>2. PICK old : Pushes(v, c, u, old)
      <4>1. CASE Grows(v) BY <2>2, <3>1, <4>1, Grown
      <4>2. CASE ~Grows(v) BY <2>2, <3>1, <4>2, Wrapped
      <4>3. QED BY <4>1, <4>2
    <3>3. TrackOK(u) BY <1>3, <2>2, <2>5, <3>2, Pushed
    <3>4. QED BY <1>3, <2>2, <2>5, <3>2, <3>3
  <2>6. QED BY <2>3, <2>4, <2>5
<1>4. QED BY <1>1, <1>2, <1>3

-----------------------------------------------------------------------------
(* The history the bus documents *)

\* A call of track.add is a step of the history, or leaves it as it is.
LEMMA AddsToHistory ==
  ASSUME TrackOK(track), NEW c \in Captions, track' = Add(track, c)
  PROVE  [History!Next]_(History!historyVars)
<1> DEFINE shown == Recent(track, HistorySize)
           now == Recent(track', HistorySize)
<1>1. PICK u : u = track' OBVIOUS
<1>2. Recent(u, HistorySize) = now /\ u.interim = track'.interim BY <1>1
<1>3. (\E i \in 1 .. Len(shown) : shown[i].seg = c.seg) <=> Known(track, c.seg)
  BY SMTT(30), Shown, KnownEntry
<1>4. History!Holds(c.seg) <=> Known(track, c.seg) BY <1>3 DEF History!Holds
<1>5. History!Settle(c) <=> track'.interim = Settled(track, c) BY DEF History!Settle, Settled
<1>6. CASE u = track BY <1>1, <1>6 DEF History!historyVars
<1>7. CASE ~c.final /\ ~Known(track, c.seg) /\ SameTrack(track, u) /\ u.interim = c
  <2>1. History!Speak(c) BY <1>2, <1>4, <1>7 DEF History!Speak, SameTrack
  <2>2. QED BY <2>1 DEF History!Next
<1>8. CASE c.final /\ Known(track, c.seg) /\ UndoesEdit(track, c) /\ SameTrack(track, u) /\ u.interim = Settled(track, c)
  <2>1. PICK i \in 1 .. Len(shown) : shown[i] = Entry(track, c.seg) BY <1>8, Shown
  <2>2. PICK e \in Captions : e = shown[i] /\ e.seg = c.seg /\ e.final BY <1>8, <2>1, KnownEntry
  <2>3. now = shown BY <1>2, <1>8 DEF SameTrack
  <2>4. shown \in Seq(Captions) BY RecentIs DEF TrackOK
  <2>5. now = [shown EXCEPT ![i] = e] BY ONLY <2>2, <2>3, <2>4
  <2>6. track'.interim = IF track.interim.seg = e.seg THEN NoCaption ELSE track.interim
    BY <1>2, <1>8, <2>2 DEF Settled
  <2>7. History!Correct(e, i) BY <2>2, <2>5, <2>6 DEF History!Correct, History!Settle
  <2>8. QED BY <2>7 DEF History!Next
<1>9. CASE c.final /\ Replaces(track, u, c)
  <2>1. PICK i \in 1 .. Len(shown) : shown[i] = Entry(track, c.seg) /\ now = [shown EXCEPT ![i] = c]
    BY <1>2, <1>9 DEF Replaces
  <2>2. /\ Known(track, c.seg) /\ ~UndoesEdit(track, c) /\ shown[i].seg = c.seg
        /\ shown[i] = track.ring[Slot(track, c.seg)]
    BY <1>9, <2>1, KnownEntry DEF Replaces
  <2>3. shown[i].edited => c.edited BY <2>2 DEF UndoesEdit
  <2>4. History!Settle(c) BY <1>2, <1>5, <1>9 DEF Replaces
  <2>5. History!Correct(c, i) BY <1>9, <2>1, <2>2, <2>3, <2>4 DEF History!Correct
  <2>6. QED BY <2>5 DEF History!Next
<1>10. ASSUME c.final, ~Known(track, c.seg),
              NEW v, NEW old, TrackOK(v), SameTrack(track, v), v.interim = Settled(track, c),
              Len(v.ring) = Len(track.ring), Pushes(v, c, u, old)
       PROVE  History!Next
  <2>1. Recent(v, HistorySize) = shown /\ u.interim = Settled(track, c) /\ ~Known(v, c.seg)
    BY <1>10 DEF SameTrack, Pushes, Known
  <2>2. Len(shown) = Len(track.ring) BY RecentIs DEF TrackOK
  <2>3. old = IF Len(shown) = HistorySize THEN 1 ELSE 0 BY <1>10, <2>2 DEF Pushes
  <2>4. now = SubSeq(Append(shown, c), 1 + old, Len(Append(shown, c)))
    <3>1. Recent(u, HistorySize) = Later(Recent(v, HistorySize), c, old)
      BY ONLY <1>10, <2>1, c \in Captions, Pushed
    <3>2. QED BY <1>2, <2>1, <3>1 DEF Later
  <2>5. History!Settle(c) BY <1>2, <1>5, <2>1
  <2>6. History!Finish(c) BY <1>4, <1>10, <2>3, <2>4, <2>5 DEF History!Finish
  <2>7. QED BY <2>6 DEF History!Next
<1>11. \/ ~c.final /\ Known(track, c.seg) /\ u = track
       \/ ~c.final /\ ~Known(track, c.seg) /\ SameTrack(track, u) /\ u.interim = c
       \/ c.final /\ Known(track, c.seg) /\ UndoesEdit(track, c) /\ SameTrack(track, u) /\ u.interim = Settled(track, c)
       \/ c.final /\ Replaces(track, u, c)
       \/ /\ c.final /\ ~Known(track, c.seg)
          /\ \E v, old : /\ TrackOK(v) /\ SameTrack(track, v) /\ v.interim = Settled(track, c)
                         /\ Len(v.ring) = Len(track.ring) /\ Pushes(v, c, u, old)
  BY <1>1, Adds
<1>12. QED BY <1>6, <1>7, <1>8, <1>9, <1>10, <1>11

-----------------------------------------------------------------------------
(* The captions on their way *)

IsFinal(c) == c \in Captions /\ c.final

EditsOK ==
  /\ TrackOK(track)
  /\ \A s \in DOMAIN rows : IsFinal(rows[s]) /\ rows[s].seg = s
  /\ saving # NoCaption => IsFinal(saving) /\ ~saving.edited
  /\ editing \in [Editors -> Captions \cup {NoCaption}]
  /\ \A a \in Editors : editing[a] # NoCaption
       => IsFinal(editing[a]) /\ editing[a].edited /\ editing[a].seg \in DOMAIN rows

\* What the provider says.
LEMMA Spoken ==
  ASSUME NEW seg \in Segments, NEW text \in Texts
  PROVE  /\ Interim(seg, text) \in Captions /\ ~Interim(seg, text).final
         /\ IsFinal(Final(seg, text)) /\ ~Final(seg, text).edited /\ Final(seg, text).seg = seg
         /\ Final(seg, text).text = text /\ ~Final(seg, text).hidden /\ Interim(seg, text).seg = seg
<1>1. PICK yes \in BOOLEAN : yes = TRUE BY Zenon
<1>2. PICK no \in BOOLEAN : no = FALSE BY Zenon
<1>3. Interim(seg, text) = [seg |-> seg, final |-> no, text |-> text, edited |-> no, hidden |-> no]
  BY ONLY <1>2, Zenon DEF Interim
<1>4. Final(seg, text) = [Interim(seg, text) EXCEPT !.final = yes]
  BY ONLY <1>1, Zenon DEF Final
<1>5. Final(seg, text) = [seg |-> seg, final |-> yes, text |-> text, edited |-> no, hidden |-> no]
  BY ONLY <1>3, <1>4
<1>6. Interim(seg, text) \in Captions /\ Interim(seg, text).final = no /\ Interim(seg, text).seg = seg
  BY ONLY <1>3, seg \in Segments, text \in Texts, no \in BOOLEAN DEF Captions
<1>7. /\ Final(seg, text) \in Captions /\ Final(seg, text).final = yes /\ Final(seg, text).edited = no
      /\ Final(seg, text).seg = seg /\ Final(seg, text).text = text /\ Final(seg, text).hidden = no
  BY ONLY <1>5, seg \in Segments, text \in Texts, no \in BOOLEAN, yes \in BOOLEAN DEF Captions
<1>8. QED BY ONLY <1>1, <1>2, <1>6, <1>7, Zenon DEF IsFinal

\* An edited row.
Edited(kept, text, hidden) == [kept EXCEPT !.text = text, !.hidden = hidden, !.edited = TRUE]

LEMMA EditedRow ==
  ASSUME NEW kept, IsFinal(kept), NEW text \in Texts, NEW hidden \in BOOLEAN
  PROVE  /\ IsFinal(Edited(kept, text, hidden)) /\ Edited(kept, text, hidden).seg = kept.seg
         /\ Edited(kept, text, hidden).text = text /\ Edited(kept, text, hidden).hidden = hidden
         /\ Edited(kept, text, hidden).edited
<1>1. PICK yes \in BOOLEAN : yes = TRUE BY Zenon
<1>2. kept \in Captions BY DEF IsFinal
<1>3. kept.final BY DEF IsFinal
<1>4. kept.final = yes BY ONLY <1>1, <1>2, <1>3 DEF Captions
<1>5. Edited(kept, text, hidden) = [kept EXCEPT !.text = text, !.hidden = hidden, !.edited = yes]
  BY ONLY <1>1, Zenon DEF Edited
<1>6. Edited(kept, text, hidden) = [seg |-> kept.seg, final |-> kept.final, text |-> text, edited |-> yes, hidden |-> hidden]
  BY ONLY <1>2, <1>5 DEF Captions
<1>7. /\ Edited(kept, text, hidden) \in Captions /\ Edited(kept, text, hidden).final = kept.final
      /\ Edited(kept, text, hidden).seg = kept.seg /\ Edited(kept, text, hidden).text = text
      /\ Edited(kept, text, hidden).hidden = hidden /\ Edited(kept, text, hidden).edited = yes
  BY ONLY <1>2, <1>6, text \in Texts, hidden \in BOOLEAN, yes \in BOOLEAN DEF Captions
<1>8. QED BY ONLY <1>1, <1>3, <1>7, Zenon DEF IsFinal

\* What SaveCaption stores.
LEMMA Upserted ==
  ASSUME EditsOK, NEW c, IsFinal(c)
  PROVE  /\ IsFinal(Upsert(c)) /\ Upsert(c).seg = c.seg
         /\ IF c.seg \in DOMAIN rows /\ rows[c.seg].edited
            THEN Upsert(c).text = rows[c.seg].text /\ Upsert(c).hidden = rows[c.seg].hidden /\ Upsert(c).edited
            ELSE Upsert(c) = c
<1>1. CASE c.seg \in DOMAIN rows /\ rows[c.seg].edited
  <2>1. rows[c.seg] \in Captions BY <1>1 DEF EditsOK, IsFinal
  <2>2. rows[c.seg].text \in Texts /\ rows[c.seg].hidden \in BOOLEAN BY <2>1 DEF Captions
  <2>3. Upsert(c) = Edited(c, rows[c.seg].text, rows[c.seg].hidden) BY ONLY <1>1, Zenon DEF Upsert, Edited
  <2>4. QED BY <1>1, <2>2, <2>3, EditedRow
<1>2. CASE ~(c.seg \in DOMAIN rows /\ rows[c.seg].edited)
  <2>1. Upsert(c) = c BY ONLY <1>2, Zenon DEF Upsert
  <2>2. QED BY <1>2, <2>1
<1>3. QED BY <1>1, <1>2

\* Everything but what Publish does to the track.
EditsStep ==
  \/ /\ saving = NoCaption
     /\ \E c \in Captions : /\ track' = Add(track, c) /\ (c.final => ~c.edited)
                            /\ saving' = IF c.final THEN c ELSE NoCaption
     /\ UNCHANGED <<rows, unstored, editing>>
  \/ Save \/ SaveRejected
  \/ \E a \in Editors : \/ \E seg \in Segments, text \in Texts, hidden \in BOOLEAN : Edit(a, seg, text, hidden)
                        \/ EditPublish(a)
  \/ Restart
  \/ UNCHANGED editsVars

\* A step of the specification is one of them.
LEMMA StepOf == [EditsNext]_editsVars => EditsStep
<1> SUFFICES ASSUME [EditsNext]_editsVars PROVE EditsStep
  OBVIOUS
<1>1. ASSUME NEW c, Emit(c), c \in Captions, c.final => ~c.edited PROVE EditsStep
  BY <1>1 DEF Emit, Publish, EditsStep
<1>2. ASSUME NEW seg \in Segments, NEW text \in Texts, Emit(Interim(seg, text)) \/ Emit(Final(seg, text))
      PROVE  EditsStep
  <2>1. Interim(seg, text) \in Captions /\ ~Interim(seg, text).final
        /\ Final(seg, text) \in Captions /\ ~Final(seg, text).edited
    BY Spoken DEF IsFinal
  <2>2. CASE Emit(Interim(seg, text)) BY <1>1, <2>1, <2>2
  <2>3. CASE Emit(Final(seg, text)) BY <1>1, <2>1, <2>3
  <2>4. QED BY <1>2, <2>2, <2>3
<1>3. QED BY <1>2 DEF EditsNext, EditsStep

\* No caption is one.
LEMMA NoneIs == NoCaption \notin Captions
<1>1. NoCaption.seg = -1 /\ \A c \in Captions : c.seg \in Nat BY TrackAssumption DEF NoCaption, Captions
<1>2. QED BY <1>1

\* An empty track is one.
LEMMA EmptyOK == TrackOK(EmptyTrack)
<1>1. /\ EmptyTrack.ring = <<>> /\ EmptyTrack.next = 0 /\ EmptyTrack.seq = 0 /\ EmptyTrack.final = <<>>
      /\ EmptyTrack.interim = NoCaption
      /\ EmptyTrack = [ring |-> EmptyTrack.ring, next |-> EmptyTrack.next, seq |-> EmptyTrack.seq,
                       final |-> EmptyTrack.final, interim |-> EmptyTrack.interim]
  BY DEF EmptyTrack
<1>2. <<>> \in Seq(Captions) /\ Len(<<>>) = 0 /\ DOMAIN <<>> = {} OBVIOUS
<1>3. HistorySize \in Nat /\ HistorySize > 0 BY TrackAssumption
<1>4. IsTrack(EmptyTrack)
  <2>1. /\ Len(EmptyTrack.ring) = 0 /\ EmptyTrack.ring \in Seq(Captions) /\ 0 <= HistorySize /\ 0 < HistorySize
        /\ EmptyTrack.seq \in Nat
    BY ONLY <1>1, <1>2, <1>3
  <2>2. QED BY ONLY <1>1, <2>1 DEF IsTrack
<1>5. Oldest(EmptyTrack) = 0
  <2>1. Oldest(EmptyTrack) = EmptyTrack.seq - Len(EmptyTrack.ring) BY ONLY DEF Oldest
  <2>2. EmptyTrack.seq = 0 /\ Len(EmptyTrack.ring) = 0 BY ONLY <1>1, <1>2
  <2>3. QED BY ONLY <2>1, <2>2
<1>6. Numbered(EmptyTrack) BY <1>1, <1>2, <1>5 DEF Numbered
<1>7. QED BY <1>4, <1>6 DEF TrackOK

\* What holds of the captions holds at first, and every step keeps it.
LEMMA EditsStarts == EditsInit => EditsOK
<1> SUFFICES ASSUME EditsInit PROVE EditsOK
  OBVIOUS
<1>1. TrackOK(EmptyTrack) BY EmptyOK
<1>2. QED BY <1>1 DEF EditsInit, EditsOK

LEMMA EditsKeep == EditsOK /\ EditsStep => EditsOK'
<1> SUFFICES ASSUME EditsOK, EditsStep PROVE EditsOK'
  OBVIOUS
<1>1. TrackOK(EmptyTrack) BY EmptyOK
<1>2. ASSUME saving = NoCaption, NEW c \in Captions, track' = Add(track, c), c.final => ~c.edited,
             saving' = (IF c.final THEN c ELSE NoCaption), UNCHANGED <<rows, editing>>
      PROVE  EditsOK'
  <2>1. TrackOK(track') BY <1>2, Adds DEF EditsOK
  <2>2. QED BY <1>2, <2>1 DEF EditsOK, IsFinal
<1>3. CASE Save
  <2>1. /\ IsFinal(Upsert(saving)) /\ Upsert(saving).seg = saving.seg
    BY <1>3, Upserted DEF Save, EditsOK
  <2>2. /\ DOMAIN rows' = DOMAIN rows \cup {saving.seg}
        /\ \A s \in DOMAIN rows' : rows'[s] = IF s = saving.seg THEN Upsert(saving) ELSE rows[s]
    BY <1>3 DEF Save, Indexed
  <2>3. saving' = NoCaption /\ track' = track /\ editing' = editing BY <1>3 DEF Save
  <2>4. QED BY <2>1, <2>2, <2>3 DEF EditsOK
<1>4. ASSUME NEW a \in Editors, NEW seg \in Segments, NEW text \in Texts, NEW hidden \in BOOLEAN,
             Edit(a, seg, text, hidden)
      PROVE  EditsOK'
  <2>1. PICK kept : kept = Edited(rows[seg], text, hidden) OBVIOUS
  <2>2. /\ rows' = [rows EXCEPT ![seg] = kept] /\ editing' = [editing EXCEPT ![a] = kept] /\ seg \in DOMAIN rows
        /\ saving' = saving /\ track' = track
    BY <1>4, <2>1 DEF Edit, Edited
  <2>3. IsFinal(kept) /\ kept.seg = rows[seg].seg /\ kept.edited BY <2>1, <2>2, EditedRow DEF EditsOK
  <2>4. kept.seg = seg BY <2>2, <2>3 DEF EditsOK
  <2>5. /\ DOMAIN rows' = DOMAIN rows /\ \A s \in DOMAIN rows : rows'[s] = IF s = seg THEN kept ELSE rows[s]
    BY ONLY <2>2
  <2>6. editing \in [Editors -> Captions \cup {NoCaption}] BY DEF EditsOK
  <2>7. /\ editing' \in [Editors -> Captions \cup {NoCaption}]
        /\ \A b \in Editors : editing'[b] = IF b = a THEN kept ELSE editing[b]
    BY ONLY <2>2, <2>3, <2>6 DEF IsFinal
  <2>8. QED BY <2>2, <2>3, <2>4, <2>5, <2>7 DEF EditsOK
<1>5. ASSUME NEW a \in Editors, EditPublish(a) PROVE EditsOK'
  <2>1. editing[a] \in Captions /\ track' = Add(track, editing[a])
    BY <1>5 DEF EditPublish, Publish, EditsOK, IsFinal
  <2>2. TrackOK(track') BY <2>1, Adds DEF EditsOK
  <2>3. editing \in [Editors -> Captions \cup {NoCaption}] BY DEF EditsOK
  <2>4. editing' = [editing EXCEPT ![a] = NoCaption] /\ rows' = rows /\ saving' = saving BY <1>5 DEF EditPublish
  <2>5. /\ editing' \in [Editors -> Captions \cup {NoCaption}]
        /\ \A b \in Editors : editing'[b] = IF b = a THEN NoCaption ELSE editing[b]
    BY ONLY <2>3, <2>4
  <2>6. QED BY <2>2, <2>4, <2>5 DEF EditsOK
<1>6. CASE Restart
  <2>1. /\ track' = EmptyTrack /\ saving' = NoCaption /\ rows' = rows
        /\ editing' = [a \in Editors |-> NoCaption]
    BY <1>6 DEF Restart
  <2>2. QED BY <1>1, <2>1 DEF EditsOK
<1>7. CASE UNCHANGED editsVars \/ SaveRejected BY <1>7 DEF editsVars, SaveRejected, EditsOK
<1>8. QED BY <1>2, <1>3, <1>4, <1>5, <1>6, <1>7 DEF EditsStep

\* The ring with its index, as corrections, late interims and restarts reach
\* it, implements the history of type Bus, whatever its size: the last finals
\* in the order their segments became final, a correction in place of what it
\* corrects, never an unedited caption over an edit.
THEOREM RingIsHistory == EditsSpec => HistorySpec
<1>1. EditsInit => History!Init
  <2> SUFFICES ASSUME EditsInit PROVE History!Init
    OBVIOUS
  <2>1. track = EmptyTrack /\ EmptyTrack.ring = <<>> /\ EmptyTrack.interim = NoCaption
    BY DEF EditsInit, EmptyTrack
  <2>2. Len(Recent(track, HistorySize)) = Len(track.ring) /\ Recent(track, HistorySize) \in Seq(Captions)
    BY EditsStarts, RecentIs DEF EditsOK, TrackOK
  <2>3. Recent(track, HistorySize) = <<>> BY ONLY <2>1, <2>2
  <2>4. QED BY <2>1, <2>3 DEF History!Init
<1>2. EditsOK /\ EditsStep => (track' # track => [History!Next]_(History!historyVars))
  <2> SUFFICES ASSUME EditsOK, EditsStep, track' # track PROVE [History!Next]_(History!historyVars)
    OBVIOUS
  <2>1. TrackOK(track) BY DEF EditsOK
  <2>2. ASSUME NEW c \in Captions, track' = Add(track, c) PROVE [History!Next]_(History!historyVars)
    BY <2>1, <2>2, AddsToHistory
  <2>3. ASSUME NEW a \in Editors, EditPublish(a) PROVE [History!Next]_(History!historyVars)
    <3>1. editing[a] \in Captions /\ track' = Add(track, editing[a])
      BY <2>3 DEF EditPublish, Publish, EditsOK, IsFinal
    <3>2. QED BY <2>2, <3>1
  <2>4. CASE Restart
    <3>1. track' = EmptyTrack /\ EmptyTrack.ring = <<>> /\ EmptyTrack.interim = NoCaption
      BY <2>4 DEF Restart, EmptyTrack
    <3>2. TrackOK(track') BY EditsKeep DEF EditsOK
    <3>3. /\ Len(Recent(track', HistorySize)) = Len(track'.ring)
          /\ Recent(track', HistorySize) \in Seq(Captions)
      BY <3>2, RecentIs DEF TrackOK
    <3>4. Recent(track', HistorySize) = <<>> BY ONLY <3>1, <3>3
    <3>5. History!Forget BY <3>1, <3>4 DEF History!Forget
    <3>6. QED BY <3>5 DEF History!Next
  <2>5. QED BY <2>2, <2>3, <2>4 DEF EditsStep, Save, SaveRejected, Edit, editsVars
<1>3. QED BY <1>1, <1>2, EditsStarts, EditsKeep, StepOf, PTL DEF EditsSpec, HistorySpec

-----------------------------------------------------------------------------
(* What viewers see and what the store has, with one editor at a time *)

\* Requests that have stored an edit and have yet to publish it.
Pending == IF \E a \in Editors : editing[a] # NoCaption THEN 1 ELSE 0

\* Segments and edits are counted.
Counted ==
  /\ newest \in Nat /\ past \in Nat /\ edits \in 0 .. MaxEdits /\ Pending <= edits
  /\ \A s \in DOMAIN rows : s <= newest
  /\ \A s \in DOMAIN track.final : s <= newest
  /\ saving # NoCaption => saving.seg <= newest

\* What the provider still corrects is in the ring.
InReach ==
  \A s \in past + 1 .. newest :
    newest - s <= Lag
      => /\ Known(track, s)
         /\ track.seq - track.final[s] <= (((newest - s) + 1) + edits) - Pending

\* An entry is edited only after its row, and a request has what it stored.
EditedFirst ==
  /\ \A s \in DOMAIN track.final :
       Entry(track, s).edited => s \in DOMAIN rows /\ rows[s].edited
  /\ \A a \in Editors : editing[a] # NoCaption
       => LET kept == rows[editing[a].seg] IN
          kept.edited /\ kept.text = editing[a].text /\ kept.hidden = editing[a].hidden

\* What is being stored is shown, unless its row is edited.
SavingShown ==
  saving # NoCaption /\ Known(track, saving.seg)
    => \/ saving.seg \in DOMAIN rows /\ rows[saving.seg].edited
       \/ Entry(track, saving.seg) = saving

\* An entry has its row's text and flag, or a request or run.publish is about
\* to make it so, or the store refused it and it was not edited.
Agrees(s) ==
  \/ /\ Entry(track, s).text = rows[s].text /\ Entry(track, s).hidden = rows[s].hidden
     /\ rows[s].edited => Entry(track, s).edited
  \/ \E a \in Editors : editing[a] # NoCaption /\ editing[a].seg = s
  \/ saving # NoCaption /\ saving.seg = s /\ ~rows[s].edited
  \/ s \in unstored /\ ~rows[s].edited
AllAgree == \A s \in DOMAIN track.final \cap DOMAIN rows : Agrees(s)

\* An entry has a row, or is being stored, or the store refused it.
AllStored ==
  \A s \in DOMAIN track.final :
    s \in DOMAIN rows \/ s \in unstored \/ (saving # NoCaption /\ saving.seg = s)

EditsIInv ==
  EditsOK /\ Counted /\ InReach /\ EditedFirst /\ SavingShown /\ AllAgree /\ AllStored

\* The captions are there once more: what one of a new segment does.
Joins(t, u, c) ==
  /\ u.seq = t.seq + 1 /\ Known(u, c.seg) /\ u.final[c.seg] = t.seq /\ Entry(u, c.seg) = c
  /\ \A s : s # c.seg /\ Known(u, s) => Known(t, s) /\ u.final[s] = t.final[s] /\ Entry(u, s) = Entry(t, s)
  /\ \A s : s # c.seg /\ Known(t, s) /\ t.seq - t.final[s] < HistorySize => Known(u, s)

\* What track.add does to the entries.
LEMMA Published ==
  ASSUME NEW t, TrackOK(t), NEW c \in Captions, NEW u, u = Add(t, c)
  PROVE  \/ SameTrack(t, u) /\ (c.final => Known(t, c.seg) /\ Entry(t, c.seg).edited /\ ~c.edited)
         \/ /\ c.final /\ Known(t, c.seg) /\ (Entry(t, c.seg).edited => c.edited)
            /\ u.final = t.final /\ u.seq = t.seq
            /\ \A s \in DOMAIN t.final : Entry(u, s) = IF s = c.seg THEN c ELSE Entry(t, s)
         \/ c.final /\ ~Known(t, c.seg) /\ Joins(t, u, c)
<1>1. Known(t, c.seg) => (UndoesEdit(t, c) <=> Entry(t, c.seg).edited /\ ~c.edited)
  BY KnownEntry DEF UndoesEdit
<1>2. CASE u = t /\ ~c.final BY <1>2 DEF SameTrack
<1>3. CASE ~c.final /\ SameTrack(t, u) BY <1>3
<1>4. CASE c.final /\ Known(t, c.seg) /\ UndoesEdit(t, c) /\ SameTrack(t, u) BY <1>1, <1>4
<1>5. CASE c.final /\ Replaces(t, u, c) BY <1>1, <1>5 DEF Replaces
<1>6. ASSUME c.final, ~Known(t, c.seg), NEW v, NEW old, TrackOK(v), SameTrack(t, v), Pushes(v, c, u, old)
      PROVE  Joins(t, u, c)
  <2>1. /\ v.final = t.final /\ v.seq = t.seq /\ Oldest(v) = Oldest(t) /\ \A s : Entry(v, s) = Entry(t, s)
    BY <1>6 DEF SameTrack
  <2>2. \A s : Known(v, s) <=> Known(t, s) BY <2>1 DEF Known
  <2>3. /\ Known(u, c.seg) /\ Entry(u, c.seg) = c /\ u.final[c.seg] = v.seq
        /\ \A s : s # c.seg => (Known(u, s) <=> Known(v, s) /\ v.final[s] >= Oldest(u))
        /\ \A s : s # c.seg /\ Known(u, s) => u.final[s] = v.final[s] /\ Entry(u, s) = Entry(v, s)
    BY ONLY <1>6, <2>2, c \in Captions, Pushed
  <2>4. u.seq = v.seq + 1 BY <1>6 DEF Pushes
  <2>5. ASSUME NEW s, s # c.seg, Known(v, s), v.seq - v.final[s] < HistorySize PROVE Known(u, s)
    <3>1. PICK k \in Nat : k = v.final[s] /\ k >= Oldest(v) BY <1>6, <2>5, KnownEntry
    <3>2. /\ v.seq \in Nat /\ Len(v.ring) \in Nat /\ Oldest(v) = v.seq - Len(v.ring) /\ HistorySize \in Nat
      BY <1>6, Slots, TrackAssumption DEF TrackOK
    <3>3. Oldest(u) = Oldest(v) + old /\ old = IF Len(v.ring) = HistorySize THEN 1 ELSE 0
      BY <1>6 DEF Pushes
    <3>4. v.seq - k < HistorySize BY <2>5, <3>1
    <3>5. k >= Oldest(u)
      <4>1. CASE Len(v.ring) = HistorySize BY ONLY <3>1, <3>2, <3>3, <3>4, <4>1
      <4>2. CASE Len(v.ring) # HistorySize BY ONLY <3>1, <3>2, <3>3, <4>2
      <4>3. QED BY <4>1, <4>2
    <3>6. QED BY <2>3, <2>5, <3>1, <3>5
  <2>6. QED BY <2>1, <2>2, <2>3, <2>4, <2>5 DEF Joins
<1>7. QED BY <1>2, <1>3, <1>4, <1>5, <1>6, Adds

\* Ranges.
LEMMA Ranges ==
  ASSUME EditsOK, Counted
  PROVE  /\ Pending \in 0 .. 1 /\ edits \in Nat /\ newest \in Nat /\ past \in Nat /\ track.seq \in Nat
         /\ MaxEdits \in Nat /\ Lag \in Nat /\ HistorySize \in Nat /\ Lag + MaxEdits < HistorySize
         /\ edits <= MaxEdits /\ Pending <= edits
         /\ \A s : Known(track, s) => s \in Nat /\ track.final[s] \in Nat /\ track.final[s] < track.seq
         /\ \A c \in Captions : c.seg \in Nat
<1>1. Pending \in 0 .. 1 BY DEF Pending
<1>2. /\ MaxEdits \in Nat /\ Lag \in Nat /\ HistorySize \in Nat /\ Lag + MaxEdits < HistorySize
  BY EditsAssumption, TrackAssumption
<1>3. edits \in Nat /\ edits <= MaxEdits /\ newest \in Nat /\ past \in Nat /\ Pending <= edits BY <1>2 DEF Counted
<1>4. TrackOK(track) /\ track.seq \in Nat BY DEF EditsOK, TrackOK, IsTrack
<1>5. \A c \in Captions : c.seg \in Nat BY TrackAssumption DEF Captions
<1>6. ASSUME NEW s, Known(track, s) PROVE s \in Nat /\ track.final[s] \in Nat /\ track.final[s] < track.seq
  <2>1. Entry(track, s) \in Captions /\ Entry(track, s).seg = s /\ track.final[s] \in Nat
        /\ track.final[s] \in Oldest(track) .. track.seq - 1
    BY <1>4, <1>6, KnownEntry
  <2>2. Oldest(track) \in Nat BY <1>4, Slots DEF TrackOK
  <2>3. QED BY <1>4, <1>5, <2>1, <2>2
<1>7. QED BY <1>1, <1>2, <1>3, <1>4, <1>5, <1>6

\* A caption of the provider.
LEMMA EmitKeeps ==
  ASSUME EditsIInv, NEW c \in Captions, Emit(c), c.final => ~c.edited
  PROVE  Counted' /\ InReach' /\ EditedFirst' /\ SavingShown' /\ AllAgree'
<1> DEFINE t == track
           u == track'
<1>1. /\ saving = NoCaption /\ u = Add(t, c) /\ rows' = rows /\ editing' = editing /\ past' = past /\ edits' = edits
      /\ unstored' = unstored
      /\ c.seg \in newest - Lag .. newest + 1 /\ c.seg > past
      /\ newest' = (IF c.final /\ c.seg > newest THEN c.seg ELSE newest)
      /\ saving' = IF c.final THEN c ELSE NoCaption
  BY DEF Emit, Publish
<1>2. /\ EditsOK /\ Counted /\ InReach /\ EditedFirst /\ SavingShown /\ AllAgree /\ TrackOK(t)
  BY DEF EditsIInv, EditsOK
<1>3. /\ Pending \in 0 .. 1 /\ edits \in Nat /\ newest \in Nat /\ past \in Nat /\ t.seq \in Nat
      /\ MaxEdits \in Nat /\ Lag \in Nat /\ HistorySize \in Nat /\ Lag + MaxEdits < HistorySize
      /\ edits <= MaxEdits /\ Pending <= edits /\ c.seg \in Nat
      /\ \A s : Known(t, s) => s \in Nat /\ t.final[s] \in Nat /\ t.final[s] < t.seq
  BY <1>2, Ranges
<1>4. Pending' = Pending BY <1>1 DEF Pending
<1>5. NoCaption \notin Captions BY NoneIs
<1>6. CASE SameTrack(t, u) /\ (c.final => Known(t, c.seg) /\ Entry(t, c.seg).edited /\ ~c.edited)
  <2>1. u.final = t.final /\ u.seq = t.seq /\ \A s : Entry(u, s) = Entry(t, s) BY <1>6 DEF SameTrack
  <2>2. c.final => c.seg <= newest BY <1>2, <1>6 DEF Counted, Known
  <2>3. newest' = newest BY ONLY <1>1, <1>3, <2>2
  <2>4. saving' # NoCaption => saving' = c /\ c.final BY <1>1
  <2>5. Counted' BY <1>1, <1>2, <1>4, <2>1, <2>2, <2>3, <2>4 DEF Counted
  <2>6. InReach' BY <1>1, <1>2, <1>4, <2>1, <2>3 DEF InReach, Known
  <2>7. EditedFirst' BY <1>1, <1>2, <2>1 DEF EditedFirst
  <2>8. SavingShown'
    <3>1. c.final => c.seg \in DOMAIN rows /\ rows[c.seg].edited BY <1>2, <1>6 DEF EditedFirst, Known
    <3>2. QED BY <1>1, <2>4, <3>1 DEF SavingShown
  <2>9. AllAgree'
    <3>1. ASSUME NEW s \in DOMAIN t.final \cap DOMAIN rows PROVE Agrees(s)'
      <4>1. Agrees(s) BY <1>2 DEF AllAgree
      <4>2. QED BY <1>1, <2>1, <4>1 DEF Agrees
    <3>2. QED BY <1>1, <2>1, <3>1 DEF AllAgree
  <2>10. QED BY <2>5, <2>6, <2>7, <2>8, <2>9
<1>7. CASE /\ c.final /\ Known(t, c.seg) /\ (Entry(t, c.seg).edited => c.edited)
           /\ u.final = t.final /\ u.seq = t.seq
           /\ \A s \in DOMAIN t.final : Entry(u, s) = IF s = c.seg THEN c ELSE Entry(t, s)
  <2>1. c.seg <= newest BY <1>2, <1>7 DEF Counted, Known
  <2>2. newest' = newest BY ONLY <1>1, <1>3, <2>1
  <2>3. saving' = c /\ ~c.edited /\ ~Entry(t, c.seg).edited BY <1>1, <1>7
  <2>4. Counted' BY <1>1, <1>2, <1>4, <1>7, <2>1, <2>2, <2>3 DEF Counted
  <2>5. InReach' BY <1>1, <1>2, <1>4, <1>7, <2>2 DEF InReach, Known
  <2>6. EditedFirst' BY <1>1, <1>2, <1>7, <2>3 DEF EditedFirst
  <2>7. SavingShown' BY <1>1, <1>7, <2>3 DEF SavingShown, Known
  <2>8. AllAgree'
    <3>1. ASSUME NEW s \in DOMAIN t.final \cap DOMAIN rows PROVE Agrees(s)'
      <4>1. Agrees(s) BY <1>2 DEF AllAgree
      <4>2. CASE s # c.seg BY <1>1, <1>7, <4>1, <4>2 DEF Agrees
      <4>3. CASE s = c.seg /\ ~rows[s].edited BY <1>1, <1>5, <2>3, <4>3 DEF Agrees
      <4>4. CASE s = c.seg /\ rows[s].edited
        <5>1. \E a \in Editors : editing[a] # NoCaption /\ editing[a].seg = s
          BY <1>1, <2>3, <4>1, <4>4 DEF Agrees
        <5>2. QED BY <1>1, <5>1 DEF Agrees
      <4>5. QED BY <4>2, <4>3, <4>4
    <3>2. QED BY <1>1, <1>7, <3>1 DEF AllAgree
  <2>9. QED BY <2>4, <2>5, <2>6, <2>7, <2>8
<1>8. CASE c.final /\ ~Known(t, c.seg) /\ Joins(t, u, c)
  <2>1. /\ u.seq = t.seq + 1 /\ Known(u, c.seg) /\ u.final[c.seg] = t.seq /\ Entry(u, c.seg) = c
        /\ \A s : s # c.seg /\ Known(u, s) => Known(t, s) /\ u.final[s] = t.final[s] /\ Entry(u, s) = Entry(t, s)
        /\ \A s : s # c.seg /\ Known(t, s) /\ t.seq - t.final[s] < HistorySize => Known(u, s)
    BY <1>8 DEF Joins
  <2>2. c.seg = newest + 1
    <3>1. SUFFICES ASSUME c.seg <= newest PROVE FALSE BY ONLY <1>1, <1>3, <3>1
    <3>2. c.seg \in past + 1 .. newest /\ newest - c.seg <= Lag BY ONLY <1>1, <1>3, <3>1
    <3>3. Known(t, c.seg) BY <1>2, <3>2 DEF InReach
    <3>4. QED BY <1>8, <3>3
  <2>3. newest' = newest + 1 BY ONLY <1>1, <1>3, <1>8, <2>2
  <2>4. saving' = c /\ ~c.edited BY <1>1, <1>8
  <2>5. c.seg \notin DOMAIN rows BY <1>2, <1>3, <2>2 DEF Counted
  <2>6. Counted'
    <3>1. \A s \in DOMAIN rows : s <= newest + 1
      <4>1. \A s \in DOMAIN rows : rows[s] \in Captions /\ rows[s].seg = s BY <1>2 DEF EditsOK, IsFinal
      <4>2. \A s \in DOMAIN rows : s \in Nat /\ s <= newest BY <1>2, <4>1, Ranges DEF Counted
      <4>3. QED BY ONLY <1>3, <4>2
    <3>2. \A s \in DOMAIN u.final : s <= newest + 1
      <4>1. ASSUME NEW s \in DOMAIN u.final, s # c.seg PROVE s <= newest + 1
        <5>1. Known(t, s) BY <2>1, <4>1 DEF Known
        <5>2. s \in Nat /\ s <= newest BY <1>2, <1>3, <5>1 DEF Counted, Known
        <5>3. QED BY ONLY <1>3, <5>2
      <4>2. newest + 1 <= newest + 1 BY <1>3
      <4>3. QED BY <2>2, <4>1, <4>2
    <3>3. newest + 1 \in Nat /\ c.seg <= newest + 1 BY <1>3, <2>2
    <3>4. QED BY <1>1, <1>2, <1>4, <2>3, <2>4, <3>1, <3>2, <3>3 DEF Counted
  <2>7. InReach'
    <3>1. ASSUME NEW s \in past + 1 .. newest + 1, (newest + 1) - s <= Lag
          PROVE  /\ Known(u, s)
                 /\ u.seq - u.final[s] <= ((((newest + 1) - s) + 1) + edits) - Pending
      <4>1. CASE s = c.seg
        <5>1. u.seq - u.final[s] = 1 BY <1>3, <2>1, <4>1
        <5>2. 1 <= ((((newest + 1) - s) + 1) + edits) - Pending BY ONLY <1>3, <2>2, <4>1
        <5>3. QED BY <2>1, <4>1, <5>1, <5>2
      <4>2. CASE s # c.seg
        <5>1. s \in past + 1 .. newest /\ newest - s <= Lag /\ s \in Int /\ newest - s < Lag
          BY ONLY <1>3, <2>2, <3>1, <4>2
        <5>2. Known(t, s) /\ t.seq - t.final[s] <= (((newest - s) + 1) + edits) - Pending
          BY <1>2, <5>1 DEF InReach
        <5>3. PICK k \in Nat : k = t.final[s] BY <1>3, <5>2
        <5>4. t.seq - k < HistorySize BY ONLY <1>3, <5>1, <5>2, <5>3
        <5>5. Known(u, s) /\ u.final[s] = k BY <2>1, <4>2, <5>2, <5>3, <5>4
        <5>6. (t.seq + 1) - k <= ((((newest + 1) - s) + 1) + edits) - Pending
          BY ONLY <1>3, <5>1, <5>2, <5>3
        <5>7. QED BY <2>1, <5>5, <5>6
      <4>3. QED BY <4>1, <4>2
    <3>2. QED BY ONLY <1>1, <1>4, <2>3, <3>1 DEF InReach
  <2>8. EditedFirst'
    <3>1. \A s \in DOMAIN u.final : Entry(u, s).edited => s \in DOMAIN rows /\ rows[s].edited
      <4>1. ASSUME NEW s \in DOMAIN u.final, s # c.seg, Entry(u, s).edited
            PROVE  s \in DOMAIN rows /\ rows[s].edited
        <5>1. Known(t, s) /\ Entry(t, s).edited BY <2>1, <4>1 DEF Known
        <5>2. QED BY <1>2, <5>1 DEF EditedFirst, Known
      <4>2. QED BY <2>1, <2>4, <4>1
    <3>2. QED BY <1>1, <1>2, <3>1 DEF EditedFirst
  <2>9. SavingShown' BY <2>1, <2>4 DEF SavingShown
  <2>10. AllAgree'
    <3>1. ASSUME NEW s \in DOMAIN u.final \cap DOMAIN rows PROVE Agrees(s)'
      <4>1. s # c.seg BY <2>5
      <4>2. Known(t, s) /\ Entry(u, s) = Entry(t, s) BY <2>1, <4>1 DEF Known
      <4>3. Agrees(s) BY <1>2, <4>2 DEF AllAgree, Known
      <4>4. QED BY <1>1, <4>2, <4>3 DEF Agrees
    <3>2. QED BY <1>1, <3>1 DEF AllAgree
  <2>11. QED BY <2>6, <2>7, <2>8, <2>9, <2>10
<1>9. QED BY <1>1, <1>2, <1>6, <1>7, <1>8, Published

\* What run.publish stores.
LEMMA SaveKeeps ==
  ASSUME EditsIInv, Save
  PROVE  Counted' /\ InReach' /\ EditedFirst' /\ SavingShown' /\ AllAgree'
<1>1. /\ EditsOK /\ Counted /\ InReach /\ EditedFirst /\ SavingShown /\ AllAgree /\ TrackOK(track)
  BY DEF EditsIInv, EditsOK
<1>2. PICK c : c = saving OBVIOUS
<1>3. /\ c # NoCaption /\ IsFinal(c) /\ ~c.edited /\ saving' = NoCaption /\ track' = track /\ editing' = editing
      /\ newest' = newest /\ past' = past /\ edits' = edits
      /\ rows' = Indexed(rows, c.seg, Upsert(c)) /\ unstored' = unstored \ {c.seg}
  BY <1>1, <1>2 DEF Save, EditsOK
<1>4. /\ Upsert(c).seg = c.seg
      /\ IF c.seg \in DOMAIN rows /\ rows[c.seg].edited
         THEN Upsert(c).text = rows[c.seg].text /\ Upsert(c).hidden = rows[c.seg].hidden /\ Upsert(c).edited
         ELSE Upsert(c) = c
  BY <1>1, <1>3, Upserted
<1>5. /\ DOMAIN rows' = DOMAIN rows \cup {c.seg}
      /\ \A s \in DOMAIN rows' : rows'[s] = IF s = c.seg THEN Upsert(c) ELSE rows[s]
  BY <1>3 DEF Indexed
<1>6. Pending' = Pending BY <1>3 DEF Pending
<1>7. Counted' BY <1>1, <1>2, <1>3, <1>5, <1>6 DEF Counted
<1>8. InReach' BY <1>1, <1>3, <1>6 DEF InReach
<1>9. EditedFirst'
  <2>1. ASSUME NEW s \in DOMAIN track.final, Entry(track, s).edited PROVE s \in DOMAIN rows' /\ rows'[s].edited
    <3>1. s \in DOMAIN rows /\ rows[s].edited BY <1>1, <2>1 DEF EditedFirst
    <3>2. QED BY <1>4, <1>5, <3>1
  <2>2. ASSUME NEW a \in Editors, editing[a] # NoCaption
        PROVE  LET kept == rows'[editing[a].seg] IN
               kept.edited /\ kept.text = editing[a].text /\ kept.hidden = editing[a].hidden
    <3>1. /\ editing[a].seg \in DOMAIN rows /\ rows[editing[a].seg].edited
          /\ rows[editing[a].seg].text = editing[a].text /\ rows[editing[a].seg].hidden = editing[a].hidden
      BY <1>1, <2>2 DEF EditedFirst, EditsOK
    <3>2. QED BY <1>4, <1>5, <3>1
  <2>3. QED BY ONLY <1>3, <2>1, <2>2 DEF EditedFirst
<1>10. SavingShown' BY <1>3 DEF SavingShown
<1>11. AllAgree'
  <2>1. ASSUME NEW s \in DOMAIN track.final \cap DOMAIN rows' PROVE Agrees(s)'
    <3>1. CASE s # c.seg
      <4>1. s \in DOMAIN rows /\ Agrees(s) BY <1>1, <1>5, <3>1 DEF AllAgree
      <4>2. QED BY <1>2, <1>3, <1>5, <3>1, <4>1 DEF Agrees
    <3>2. CASE s = c.seg /\ s \in DOMAIN rows /\ rows[s].edited
      <4>1. Agrees(s) BY <1>1, <3>2 DEF AllAgree
      <4>2. /\ rows'[s].text = rows[s].text /\ rows'[s].hidden = rows[s].hidden BY <1>4, <1>5, <3>2
      <4>3. \/ /\ Entry(track, s).text = rows[s].text /\ Entry(track, s).hidden = rows[s].hidden
               /\ Entry(track, s).edited
            \/ \E a \in Editors : editing[a] # NoCaption /\ editing[a].seg = s
        BY <3>2, <4>1 DEF Agrees
      <4>4. QED BY <1>3, <4>2, <4>3 DEF Agrees
    <3>3. CASE s = c.seg /\ ~(s \in DOMAIN rows /\ rows[s].edited)
      <4>1. Entry(track, s) = c BY <1>1, <1>2, <1>3, <3>3 DEF SavingShown, Known
      <4>2. rows'[s] = c BY <1>4, <1>5, <3>3
      <4>3. QED BY <1>3, <4>1, <4>2 DEF Agrees
    <3>4. QED BY <3>1, <3>2, <3>3
  <2>2. QED BY <1>3, <2>1 DEF AllAgree
<1>12. QED BY <1>7, <1>8, <1>9, <1>10, <1>11

\* What the store refuses: viewers have it, and its row, if any, is as it was.
LEMMA SaveRejectedKeeps ==
  ASSUME EditsIInv, SaveRejected
  PROVE  Counted' /\ InReach' /\ EditedFirst' /\ SavingShown' /\ AllAgree'
<1>1. EditsOK /\ Counted /\ InReach /\ EditedFirst /\ SavingShown /\ AllAgree BY DEF EditsIInv
<1>2. PICK c : c = saving OBVIOUS
<1>3. /\ saving' = NoCaption /\ unstored' = unstored \cup {c.seg}
      /\ UNCHANGED <<track, rows, editing, newest, past, edits>>
  BY <1>2 DEF SaveRejected
<1>4. Pending' = Pending BY <1>3 DEF Pending
<1>5. Counted' /\ InReach' BY <1>1, <1>3, <1>4 DEF Counted, InReach
<1>6. EditedFirst' /\ SavingShown' BY <1>1, <1>3 DEF EditedFirst, SavingShown
<1>7. AllAgree'
  <2>1. ASSUME NEW s \in DOMAIN track.final \cap DOMAIN rows PROVE Agrees(s)'
    <3>1. Agrees(s) BY <1>1, <2>1 DEF AllAgree
    <3>2. CASE saving # NoCaption /\ saving.seg = s /\ ~rows[s].edited
      <4>1. s \in unstored' /\ ~rows'[s].edited BY <1>2, <1>3, <3>2
      <4>2. QED BY <4>1 DEF Agrees
    <3>3. CASE ~(saving # NoCaption /\ saving.seg = s /\ ~rows[s].edited)
      BY <1>3, <3>1, <3>3 DEF Agrees
    <3>4. QED BY <3>2, <3>3
  <2>2. QED BY <1>3, <2>1 DEF AllAgree
<1>8. QED BY <1>5, <1>6, <1>7

\* What PatchCaption stores.
LEMMA EditKeeps ==
  ASSUME EditsIInv, \A a, b \in Editors : a = b, NEW a \in Editors, NEW seg \in Segments, NEW text \in Texts,
         NEW hidden \in BOOLEAN, Edit(a, seg, text, hidden)
  PROVE  Counted' /\ InReach' /\ EditedFirst' /\ SavingShown' /\ AllAgree'
<1>1. /\ EditsOK /\ Counted /\ InReach /\ EditedFirst /\ SavingShown /\ AllAgree /\ TrackOK(track)
  BY DEF EditsIInv, EditsOK
<1>2. PICK kept : kept = Edited(rows[seg], text, hidden) OBVIOUS
<1>3. /\ rows' = [rows EXCEPT ![seg] = kept] /\ editing' = [editing EXCEPT ![a] = kept] /\ seg \in DOMAIN rows
      /\ saving' = saving /\ track' = track /\ newest' = newest /\ past' = past /\ edits' = edits + 1
      /\ unstored' = unstored /\ editing[a] = NoCaption /\ edits < MaxEdits
  BY <1>2 DEF Edit, Edited
<1>4. IsFinal(kept) /\ kept.seg = seg /\ kept.edited /\ kept # NoCaption
  <2>1. IsFinal(rows[seg]) /\ rows[seg].seg = seg BY <1>1, <1>3 DEF EditsOK
  <2>2. IsFinal(kept) /\ kept.seg = seg /\ kept.edited BY <1>2, <2>1, EditedRow
  <2>3. QED BY <2>2, NoneIs DEF IsFinal
<1>5. /\ DOMAIN rows' = DOMAIN rows /\ \A s \in DOMAIN rows : rows'[s] = IF s = seg THEN kept ELSE rows[s]
  BY ONLY <1>3
<1>6. DOMAIN editing = Editors BY <1>1 DEF EditsOK
<1>7. \A b \in Editors : editing[b] = NoCaption /\ editing'[b] = kept BY ONLY <1>3, <1>6, \A x, y \in Editors : x = y
<1>8. Pending = 0 /\ Pending' = 1 BY <1>4, <1>7 DEF Pending
<1>9. /\ edits \in Nat /\ MaxEdits \in Nat /\ newest \in Nat /\ past \in Nat /\ track.seq \in Nat
      /\ \A s : Known(track, s) => s \in Nat /\ track.final[s] \in Nat
  BY <1>1, Ranges
<1>10. Counted'
  <2>1. edits + 1 \in 0 .. MaxEdits /\ 1 <= edits + 1 BY ONLY <1>3, <1>9
  <2>2. QED BY <1>1, <1>3, <1>5, <1>8, <2>1 DEF Counted
<1>11. InReach'
  <2>1. ASSUME NEW s \in past + 1 .. newest, newest - s <= Lag
        PROVE  /\ Known(track, s)
               /\ track.seq - track.final[s] <= (((newest - s) + 1) + (edits + 1)) - 1
    <3>1. Known(track, s) /\ track.seq - track.final[s] <= (((newest - s) + 1) + edits) - 0
      BY <1>1, <1>8, <2>1 DEF InReach
    <3>2. (((newest - s) + 1) + edits) - 0 = (((newest - s) + 1) + (edits + 1)) - 1
      BY ONLY <1>9, s \in past + 1 .. newest
    <3>3. QED BY ONLY <3>1, <3>2
  <2>2. QED BY ONLY <1>3, <1>8, <2>1 DEF InReach
<1>12. EditedFirst'
  <2>1. ASSUME NEW s \in DOMAIN track.final, Entry(track, s).edited PROVE s \in DOMAIN rows' /\ rows'[s].edited
    BY <1>1, <1>4, <1>5, <2>1 DEF EditedFirst
  <2>2. \A b \in Editors : editing'[b].seg = seg /\ rows'[seg] = kept /\ editing'[b] = kept BY <1>3, <1>4, <1>5, <1>7
  <2>3. QED BY <1>3, <1>4, <2>1, <2>2 DEF EditedFirst
<1>13. SavingShown'
  <2>1. SUFFICES ASSUME saving # NoCaption, Known(track, saving.seg)
                 PROVE  \/ saving.seg \in DOMAIN rows' /\ rows'[saving.seg].edited
                        \/ Entry(track, saving.seg) = saving
    BY <1>3 DEF SavingShown
  <2>2. \/ saving.seg \in DOMAIN rows /\ rows[saving.seg].edited
        \/ Entry(track, saving.seg) = saving
    BY <1>1, <2>1 DEF SavingShown
  <2>3. QED BY <1>4, <1>5, <2>2
<1>14. AllAgree'
  <2>1. ASSUME NEW s \in DOMAIN track.final \cap DOMAIN rows PROVE Agrees(s)'
    <3>1. CASE s = seg
      <4>1. editing'[a] # NoCaption /\ editing'[a].seg = s BY <1>4, <1>7, <3>1
      <4>2. QED BY <4>1 DEF Agrees
    <3>2. CASE s # seg
      <4>1. Agrees(s) /\ rows'[s] = rows[s] BY <1>1, <1>5, <3>2 DEF AllAgree
      <4>2. QED BY <1>3, <1>7, <4>1 DEF Agrees
    <3>3. QED BY <3>1, <3>2
  <2>2. QED BY <1>3, <1>5, <2>1 DEF AllAgree
<1>15. QED BY <1>10, <1>11, <1>12, <1>13, <1>14

\* What it then publishes.
LEMMA EditPublishKeeps ==
  ASSUME EditsIInv, \A a, b \in Editors : a = b, NEW a \in Editors, EditPublish(a)
  PROVE  Counted' /\ InReach' /\ EditedFirst' /\ SavingShown' /\ AllAgree'
<1> DEFINE t == track
           u == track'
<1>1. /\ EditsOK /\ Counted /\ InReach /\ EditedFirst /\ SavingShown /\ AllAgree /\ TrackOK(t)
  BY DEF EditsIInv, EditsOK
<1>2. PICK c : c = editing[a] OBVIOUS
<1>3. /\ c # NoCaption /\ u = Add(t, c) /\ editing' = [editing EXCEPT ![a] = NoCaption] /\ rows' = rows
      /\ saving' = saving /\ newest' = newest /\ past' = past /\ edits' = edits /\ unstored' = unstored
  BY <1>2 DEF EditPublish, Publish
<1>4. /\ IsFinal(c) /\ c.edited /\ c.seg \in DOMAIN rows /\ c \in Captions /\ c.final
      /\ rows[c.seg].edited /\ rows[c.seg].text = c.text /\ rows[c.seg].hidden = c.hidden
  BY <1>1, <1>2, <1>3 DEF EditsOK, EditedFirst, IsFinal
<1>5. DOMAIN editing = Editors BY <1>1 DEF EditsOK
<1>6. \A b \in Editors : editing[b] = c /\ editing'[b] = NoCaption
  BY ONLY <1>2, <1>3, <1>5, \A x, y \in Editors : x = y
<1>7. Pending = 1 /\ Pending' = 0 BY <1>3, <1>6 DEF Pending
<1>8. /\ edits \in Nat /\ newest \in Nat /\ past \in Nat /\ t.seq \in Nat
      /\ MaxEdits \in Nat /\ Lag \in Nat /\ HistorySize \in Nat /\ Lag + MaxEdits < HistorySize
      /\ edits <= MaxEdits /\ c.seg \in Nat
      /\ \A s : Known(t, s) => s \in Nat /\ t.final[s] \in Nat /\ t.final[s] < t.seq
  BY <1>1, <1>4, Ranges
<1>9. \A s \in DOMAIN t.final \cap DOMAIN rows : s # c.seg
        => \/ /\ Entry(t, s).text = rows[s].text /\ Entry(t, s).hidden = rows[s].hidden
              /\ rows[s].edited => Entry(t, s).edited
           \/ saving # NoCaption /\ saving.seg = s /\ ~rows[s].edited
           \/ s \in unstored /\ ~rows[s].edited
  BY <1>1, <1>6 DEF AllAgree, Agrees
<1>10. c.seg <= newest BY <1>1, <1>4 DEF Counted
<1>11. EditedFirst' /\ SavingShown' /\ AllAgree' /\ Counted'
  <2>1. /\ Known(u, c.seg) /\ Entry(u, c.seg) = c
        /\ \A s : s # c.seg /\ Known(u, s) => Known(t, s) /\ Entry(u, s) = Entry(t, s)
    BY <1>1, <1>3, <1>4, Published DEF SameTrack, Joins, Known
  <2>2. EditedFirst'
    <3>1. ASSUME NEW s \in DOMAIN u.final, Entry(u, s).edited PROVE s \in DOMAIN rows /\ rows[s].edited
      <4>1. CASE s = c.seg BY <1>4, <4>1
      <4>2. CASE s # c.seg
        <5>1. Known(t, s) /\ Entry(t, s).edited BY <2>1, <3>1, <4>2 DEF Known
        <5>2. QED BY <1>1, <5>1 DEF EditedFirst, Known
      <4>3. QED BY <4>1, <4>2
    <3>2. QED BY <1>3, <1>6, <3>1 DEF EditedFirst
  <2>3. SavingShown'
    <3>1. SUFFICES ASSUME saving # NoCaption, Known(u, saving.seg)
                   PROVE  \/ saving.seg \in DOMAIN rows /\ rows[saving.seg].edited
                          \/ Entry(u, saving.seg) = saving
      BY <1>3 DEF SavingShown
    <3>2. CASE saving.seg = c.seg BY <1>4, <3>2
    <3>3. CASE saving.seg # c.seg
      <4>1. Known(t, saving.seg) /\ Entry(u, saving.seg) = Entry(t, saving.seg) BY <2>1, <3>1, <3>3
      <4>2. QED BY <1>1, <3>1, <4>1 DEF SavingShown
    <3>4. QED BY <3>2, <3>3
  <2>4. AllAgree'
    <3>1. ASSUME NEW s \in DOMAIN u.final \cap DOMAIN rows PROVE Agrees(s)'
      <4>1. CASE s = c.seg BY <1>3, <1>4, <2>1, <4>1 DEF Agrees
      <4>2. CASE s # c.seg
        <5>1. Known(t, s) /\ Entry(u, s) = Entry(t, s) BY <2>1, <4>2 DEF Known
        <5>2. \/ /\ Entry(t, s).text = rows[s].text /\ Entry(t, s).hidden = rows[s].hidden
                 /\ rows[s].edited => Entry(t, s).edited
              \/ saving # NoCaption /\ saving.seg = s /\ ~rows[s].edited
              \/ s \in unstored /\ ~rows[s].edited
          BY <1>9, <4>2, <5>1 DEF Known
        <5>3. QED BY <1>3, <5>1, <5>2 DEF Agrees
      <4>3. QED BY <4>1, <4>2
    <3>2. QED BY <1>3, <3>1 DEF AllAgree
  <2>5. Counted'
    <3>1. \A s \in DOMAIN u.final : s <= newest BY <1>1, <1>10, <2>1 DEF Counted, Known
    <3>2. 0 <= edits BY <1>8
    <3>3. QED BY <1>1, <1>3, <1>7, <3>1, <3>2 DEF Counted
  <2>6. QED BY <2>2, <2>3, <2>4, <2>5
<1>12. InReach'
  <2>1. ASSUME NEW s \in past + 1 .. newest, newest - s <= Lag
        PROVE  Known(u, s) /\ u.seq - u.final[s] <= (((newest - s) + 1) + edits) - 0
    <3>1. Known(t, s) /\ t.seq - t.final[s] <= (((newest - s) + 1) + edits) - 1
      BY <1>1, <1>7, <2>1 DEF InReach
    <3>2. PICK k \in Nat : k = t.final[s] BY <1>8, <3>1
    <3>3. (t.seq + 1) - k <= (((newest - s) + 1) + edits) - 0
          /\ t.seq - k <= (((newest - s) + 1) + edits) - 0 /\ t.seq - k < HistorySize
      BY ONLY <1>8, <2>1, <3>1, <3>2
    <3>4. CASE u.final = t.final /\ u.seq = t.seq BY <3>1, <3>2, <3>3, <3>4 DEF Known
    <3>5. CASE ~Known(t, c.seg) /\ Joins(t, u, c)
      <4>1. s # c.seg BY <3>1, <3>5
      <4>2. Known(u, s) /\ u.final[s] = t.final[s] /\ u.seq = t.seq + 1 BY <3>1, <3>2, <3>3, <3>5, <4>1 DEF Joins
      <4>3. QED BY <3>2, <3>3, <4>2
    <3>6. QED BY <1>1, <1>3, <1>4, <3>4, <3>5, Published DEF SameTrack
  <2>2. QED BY ONLY <1>3, <1>7, <2>1 DEF InReach
<1>13. QED BY <1>11, <1>12

\* A restart forgets the captions on their way and what the provider corrects.
LEMMA RestartKeeps ==
  ASSUME EditsIInv, Restart
  PROVE  Counted' /\ InReach' /\ EditedFirst' /\ SavingShown' /\ AllAgree'
<1>1. EditsOK /\ Counted BY DEF EditsIInv
<1>2. /\ track' = EmptyTrack /\ saving' = NoCaption /\ rows' = rows /\ newest' = newest /\ past' = newest
      /\ editing' = [a \in Editors |-> NoCaption] /\ edits' = edits
  BY DEF Restart
<1>3. DOMAIN track'.final = {} /\ \A s : ~Known(track', s) BY <1>2 DEF EmptyTrack, Known
<1>4. \A a \in Editors : editing'[a] = NoCaption BY <1>2
<1>5. Pending' = 0 BY <1>4 DEF Pending
<1>6. newest \in Nat /\ 0 <= edits BY <1>1, Ranges
<1>7. Counted' BY <1>1, <1>2, <1>3, <1>5, <1>6 DEF Counted
<1>8. InReach'
  <2>1. past' + 1 .. newest' = {} BY ONLY <1>2, <1>6
  <2>2. QED BY ONLY <2>1 DEF InReach
<1>9. EditedFirst' BY <1>3, <1>4 DEF EditedFirst
<1>10. SavingShown' BY <1>2 DEF SavingShown
<1>11. AllAgree' BY <1>3 DEF AllAgree
<1>12. QED BY <1>7, <1>8, <1>9, <1>10, <1>11

\* What viewers have, has a row, unless it is on its way or was refused.
LEMMA StoredKeeps == EditsOK /\ EditedFirst /\ AllStored /\ EditsStep => AllStored'
<1> SUFFICES ASSUME EditsOK, EditedFirst, AllStored, EditsStep PROVE AllStored'
  OBVIOUS
<1>1. TrackOK(track) BY DEF EditsOK
<1>2. ASSUME NEW c \in Captions, track' = Add(track, c)
      PROVE  \A s \in DOMAIN track'.final : s \in DOMAIN track.final \/ (c.final /\ s = c.seg)
    <2>1. \/ track'.final = track.final
          \/ c.final /\ Joins(track, track', c)
      BY <1>1, <1>2, Published DEF SameTrack
    <2>2. QED BY <2>1 DEF Joins, Known
<1>3. ASSUME saving = NoCaption, NEW c \in Captions, track' = Add(track, c),
             saving' = (IF c.final THEN c ELSE NoCaption), UNCHANGED <<rows, unstored, editing>>
      PROVE  AllStored'
  <2>1. c # NoCaption BY NoneIs
  <2>2. ASSUME NEW s \in DOMAIN track'.final
        PROVE  s \in DOMAIN rows' \/ s \in unstored' \/ (saving' # NoCaption /\ saving'.seg = s)
    <3>1. CASE s \in DOMAIN track.final
      <4>1. s \in DOMAIN rows \/ s \in unstored BY ONLY <1>3, <3>1, AllStored DEF AllStored
      <4>2. QED BY ONLY <1>3, <4>1
    <3>2. CASE c.final /\ s = c.seg BY ONLY <1>3, <2>1, <3>2
    <3>3. QED BY <1>2, <1>3, <2>2, <3>1, <3>2
  <2>3. QED BY ONLY <2>2 DEF AllStored
<1>4. CASE Save
  <2>1. /\ DOMAIN rows' = DOMAIN rows \cup {saving.seg} /\ unstored' = unstored \ {saving.seg}
        /\ track' = track /\ saving' = NoCaption
    BY <1>4 DEF Save, Indexed
  <2>2. ASSUME NEW s \in DOMAIN track.final PROVE s \in DOMAIN rows' \/ s \in unstored'
    <3>1. s \in DOMAIN rows \/ s \in unstored \/ saving.seg = s BY <2>2 DEF AllStored
    <3>2. QED BY ONLY <2>1, <3>1
  <2>3. QED BY ONLY <2>1, <2>2 DEF AllStored
<1>5. CASE SaveRejected
  <2>1. unstored' = unstored \cup {saving.seg} /\ track' = track /\ rows' = rows /\ saving' = NoCaption
    BY <1>5 DEF SaveRejected
  <2>2. ASSUME NEW s \in DOMAIN track.final PROVE s \in DOMAIN rows' \/ s \in unstored'
    <3>1. s \in DOMAIN rows \/ s \in unstored \/ saving.seg = s BY <2>2 DEF AllStored
    <3>2. QED BY ONLY <2>1, <3>1
  <2>3. QED BY ONLY <2>1, <2>2 DEF AllStored
<1>6. ASSUME NEW a \in Editors, NEW seg \in Segments, NEW text \in Texts, NEW hidden \in BOOLEAN,
             Edit(a, seg, text, hidden)
      PROVE  AllStored'
  <2>1. DOMAIN rows' = DOMAIN rows /\ UNCHANGED <<track, saving, unstored>> BY <1>6 DEF Edit
  <2>2. QED BY <2>1 DEF AllStored
<1>7. ASSUME NEW a \in Editors, EditPublish(a) PROVE AllStored'
  <2>1. editing[a] \in Captions /\ editing[a].seg \in DOMAIN rows /\ track' = Add(track, editing[a])
        /\ UNCHANGED <<rows, saving, unstored>>
    BY <1>7 DEF EditPublish, Publish, EditsOK, IsFinal
  <2>2. ASSUME NEW s \in DOMAIN track'.final PROVE s \in DOMAIN track.final \/ s \in DOMAIN rows
    BY <1>2, <2>1
  <2>3. ASSUME NEW s \in DOMAIN track'.final
        PROVE  s \in DOMAIN rows' \/ s \in unstored' \/ (saving' # NoCaption /\ saving'.seg = s)
    <3>1. s \in DOMAIN rows \/ s \in unstored \/ (saving # NoCaption /\ saving.seg = s)
      BY <2>2, <2>3 DEF AllStored
    <3>2. QED BY ONLY <2>1, <3>1
  <2>4. QED BY ONLY <2>3 DEF AllStored
<1>8. CASE Restart
  <2>1. DOMAIN track'.final = {} BY <1>8 DEF Restart, EmptyTrack
  <2>2. QED BY <2>1 DEF AllStored
<1>9. CASE UNCHANGED editsVars BY <1>9 DEF editsVars, AllStored
<1>10. QED BY <1>3, <1>4, <1>5, <1>6, <1>7, <1>8, <1>9 DEF EditsStep

\* With one editor at a time, whatever the size of the ring (as long as it has
\* what the provider still corrects), once nothing is under way viewers see
\* what exports will show, unless the store refused it.  With two at once it
\* does not hold: the store may have one's edit last and the bus the other's.
THEOREM OneEditorShows ==
  ASSUME \A a, b \in Editors : a = b
  PROVE  EditsSpec => []BusShowsStore
<1>1. EditsInit => EditsIInv
  <2> SUFFICES ASSUME EditsInit PROVE EditsIInv
    OBVIOUS
  <2>1. /\ EditsOK /\ track = EmptyTrack /\ saving = NoCaption /\ rows = <<>> /\ newest = 0 /\ past = 0 /\ edits = 0
        /\ editing = [a \in Editors |-> NoCaption]
    BY EditsStarts DEF EditsInit
  <2>2. DOMAIN track.final = {} BY <2>1 DEF EmptyTrack
  <2>3. \A a \in Editors : editing[a] = NoCaption BY <2>1
  <2>4. Pending = 0 BY <2>3 DEF Pending
  <2>5. DOMAIN rows = {} /\ past + 1 .. newest = {} BY <2>1
  <2>6. 0 \in 0 .. MaxEdits BY EditsAssumption
  <2>7. Counted BY <2>1, <2>2, <2>4, <2>5, <2>6 DEF Counted
  <2>8. InReach BY <2>5 DEF InReach
  <2>9. EditedFirst BY <2>2, <2>3 DEF EditedFirst
  <2>10. SavingShown BY <2>1 DEF SavingShown
  <2>11. AllAgree /\ AllStored BY <2>2 DEF AllAgree, AllStored
  <2>12. QED BY <2>1, <2>7, <2>8, <2>9, <2>10, <2>11 DEF EditsIInv
<1>2. EditsIInv /\ [EditsNext]_editsVars => EditsIInv'
  <2> SUFFICES ASSUME EditsIInv, [EditsNext]_editsVars PROVE EditsIInv'
    OBVIOUS
  <2>1. EditsOK' BY StepOf, EditsKeep DEF EditsIInv
  <2>9. AllStored' BY StepOf, StoredKeeps DEF EditsIInv
  <2>2. SUFFICES Counted' /\ InReach' /\ EditedFirst' /\ SavingShown' /\ AllAgree'
    BY <2>1, <2>9 DEF EditsIInv
  <2>3. ASSUME NEW seg \in Segments, NEW text \in Texts, Emit(Interim(seg, text)) \/ Emit(Final(seg, text))
        PROVE  Counted' /\ InReach' /\ EditedFirst' /\ SavingShown' /\ AllAgree'
    <3>1. Interim(seg, text) \in Captions /\ ~Interim(seg, text).final
          /\ Final(seg, text) \in Captions /\ ~Final(seg, text).edited
      BY Spoken DEF IsFinal
    <3>2. CASE Emit(Interim(seg, text)) BY <3>1, <3>2, EmitKeeps
    <3>3. CASE Emit(Final(seg, text)) BY <3>1, <3>3, EmitKeeps
    <3>4. QED BY <2>3, <3>2, <3>3
  <2>4. CASE Save BY <2>4, SaveKeeps
  <2>10. CASE SaveRejected BY <2>10, SaveRejectedKeeps
  <2>5. ASSUME NEW a \in Editors, NEW seg \in Segments, NEW text \in Texts, NEW hidden \in BOOLEAN,
               Edit(a, seg, text, hidden)
        PROVE  Counted' /\ InReach' /\ EditedFirst' /\ SavingShown' /\ AllAgree'
    BY <2>5, EditKeeps
  <2>6. ASSUME NEW a \in Editors, EditPublish(a)
        PROVE  Counted' /\ InReach' /\ EditedFirst' /\ SavingShown' /\ AllAgree'
    BY <2>6, EditPublishKeeps
  <2>7. CASE Restart BY <2>7, RestartKeeps
  <2>8. CASE UNCHANGED editsVars
    <3>1. /\ track' = track /\ rows' = rows /\ saving' = saving /\ editing' = editing /\ newest' = newest
          /\ past' = past /\ edits' = edits /\ unstored' = unstored
      BY <2>8 DEF editsVars
    <3>2. Pending' = Pending BY <3>1 DEF Pending
    <3>3. Counted /\ InReach /\ EditedFirst /\ SavingShown /\ AllAgree BY DEF EditsIInv
    <3>4. Counted' /\ InReach' BY <3>1, <3>2, <3>3 DEF Counted, InReach
    <3>5. EditedFirst' /\ SavingShown' BY <3>1, <3>3 DEF EditedFirst, SavingShown
    <3>6. AllAgree' BY <3>1, <3>3 DEF AllAgree, Agrees
    <3>7. QED BY <3>4, <3>5, <3>6
  <2>11. QED BY <2>3, <2>4, <2>5, <2>6, <2>7, <2>8, <2>10 DEF EditsNext
<1>3. EditsIInv => BusShowsStore
  <2> SUFFICES ASSUME EditsIInv, AtRest, NEW i \in 1 .. Len(track.ring),
                      ~(track.ring[i].seg \in unstored /\ ~track.ring[i].edited)
               PROVE  /\ track.ring[i].seg \in DOMAIN rows
                      /\ track.ring[i].text = rows[track.ring[i].seg].text
                      /\ track.ring[i].hidden = rows[track.ring[i].seg].hidden
    BY DEF BusShowsStore
  <2> DEFINE seg == track.ring[i].seg
  <2>1. TrackOK(track) BY DEF EditsIInv, EditsOK
  <2>2. Known(track, seg) /\ Entry(track, seg) = track.ring[i] BY <2>1, EntryOf
  <2>3. saving = NoCaption /\ \A a \in Editors : editing[a] = NoCaption BY DEF AtRest
  <2>4. track.ring[i].edited => seg \in DOMAIN rows /\ rows[seg].edited
    BY <2>2 DEF EditsIInv, EditedFirst, Known
  <2>5. seg \in DOMAIN rows BY <2>2, <2>3, <2>4 DEF EditsIInv, AllStored, Known
  <2>6. Agrees(seg) BY <2>2, <2>5 DEF EditsIInv, AllAgree, Known
  <2>7. CASE seg \in unstored /\ ~rows[seg].edited BY <2>4, <2>7
  <2>8. CASE Entry(track, seg).text = rows[seg].text /\ Entry(track, seg).hidden = rows[seg].hidden
    BY <2>2, <2>5, <2>8
  <2>9. QED BY <2>3, <2>6, <2>7, <2>8 DEF Agrees
<1>4. QED BY <1>1, <1>2, <1>3, PTL DEF EditsSpec

-----------------------------------------------------------------------------
(* Recording *)

\* What every sink, row, file and deletion is.
Errs == {"none", "failed", "deleted"}
Statuses == {"none", "recording", "complete", "failed"}
SinkRecs == [pc : Places, queue : Seq(Nat), closed : BOOLEAN, err : Errs, chunk : 0 .. MaxChunks,
             offset : Nat, n : Nat, alive : BOOLEAN, frame : Nat,
             then : {"none", "create", "done", "loop"}]
RowRecs == [status : Statuses, offset : Nat, length : Nat]
FileRecs == [there : BOOLEAN, plays : Seq(Nat)]
DelRecs == [pc : {"idle", "look", "abort", "remove", "row"}, id : 0 .. MaxChunks, sink : 0 .. MaxRuns]
Lefts == [runs : Nat, frames : Nat, deletes : Nat, boots : Nat, fails : Nat]
RecTypes ==
  /\ clock \in Nat /\ runs \in Nat /\ made \in 0 .. MaxChunks /\ dir \in BOOLEAN
  /\ sink \in [Sinks -> SinkRecs] /\ row \in [Ids -> RowRecs] /\ file \in [Ids -> FileRecs]
  /\ active \in [Ids -> 0 .. MaxRuns] /\ del \in [Deleters -> DelRecs]
  /\ left \in Lefts

\* The plan has no more runs than there are sinks; a crash kills them all, and
\* nothing is known of those to come.
Started ==
  /\ runs + left.runs <= MaxRuns
  /\ \A k \in Sinks : IF k > runs THEN sink[k] = NoSink ELSE sink[k].pc # "none"
  /\ \A k \in Sinks : sink[k].pc = "dead" => sink[k].queue = <<>>
  /\ runs > 0 /\ sink[runs].pc = "dead" => \A k \in Sinks : k <= runs => sink[k].pc = "dead"
  /\ \A k \in Sinks : Len(sink[k].queue) <= Buffer

\* The places of a sink with a chunk, and of one without.
Holds(k) == sink[k].chunk # 0
PlaceOfChunk ==
  \A k \in Sinks :
    /\ sink[k].pc \in {"spawn", "register", "write", "finish", "unregister"} => Holds(k)
    /\ sink[k].pc \in {"none", "create", "done", "dead"} => ~Holds(k)
    /\ sink[k].pc \in {"finish", "unregister"} => sink[k].then # "none"
    /\ sink[k].pc \in {"spawn", "register"} => sink[k].n = 0 /\ sink[k].offset = sink[k].frame

\* A recording is of one sink, and active names that sink.
OneSink ==
  /\ \A k \in Sinks : sink[k].chunk <= made
  /\ \A k, l \in Sinks : Holds(k) /\ sink[k].chunk = sink[l].chunk => k = l
  /\ \A i \in Ids : i > made => row[i] = NoRow /\ file[i] = NoFile /\ active[i] = 0
  /\ \A i \in Ids : active[i] # 0 => sink[active[i]].chunk = i
  /\ \A k \in Sinks : sink[k].pc \in {"spawn", "register"} => active[sink[k].chunk] = 0

\* What a sink knows of its chunk is so, and its row is open until it settles it, if
\* the store lets it.
OwnChunk ==
  \A k \in Sinks : Holds(k) =>
    LET c == sink[k].chunk IN
    /\ row[c].status # "none" => row[c].offset = sink[k].offset
    /\ Len(file[c].plays) <= sink[k].n
    /\ sink[k].pc \notin {"finish", "unregister"} => Len(file[c].plays) = sink[k].n
    /\ IF sink[k].pc = "unregister" THEN row[c].status = "recording" => c \in stuck
       ELSE row[c].status \in {"none", "recording"}

\* A frame that waits to be written: taken, with the chunk it belongs to still
\* to come or to write to, or queued.
Taken(k) ==
  \/ sink[k].pc \in {"create", "spawn", "register", "write"}
  \/ sink[k].pc \in {"finish", "unregister"} /\ sink[k].then = "create"
Waits(k, t) ==
  \/ \E j \in 1 .. Len(sink[k].queue) : sink[k].queue[j] = t
  \/ Taken(k) /\ sink[k].frame = t
\* Waiting frames are in order, and after what their sink has written.
InOrder ==
  \A k \in Sinks :
    /\ \A j, q \in 1 .. Len(sink[k].queue) : j < q => sink[k].queue[j] < sink[k].queue[q]
    /\ Taken(k) => \A j \in 1 .. Len(sink[k].queue) : sink[k].frame < sink[k].queue[j]
    /\ Holds(k) => \A t \in Nat : Waits(k, t) => sink[k].offset + sink[k].n <= t

\* Where a sink may still write: from its chunk's start to its last waiting frame.
Mark(k, t) == Waits(k, t) \/ (Holds(k) /\ sink[k].offset = t)
Plays(i, t) ==
  /\ i \notin behind /\ row[i].status # "none" /\ file[i].there
  /\ row[i].offset <= t /\ t < row[i].offset + Len(file[i].plays)
\* Later runs write later.
RunsInOrder ==
  \A k, l \in Sinks : \A t, u \in Nat : k < l /\ Mark(k, t) /\ Mark(l, u) => t < u
\* No other recording plays a time between two marks of a sink.
SpanFree ==
  \A i \in Ids : \A k \in Sinks : \A t \in Nat :
    ProbeWorks /\ Plays(i, t) /\ sink[k].chunk # i =>
      \/ \A u \in Nat : Mark(k, u) => t < u
      \/ k < runs /\ \A u \in Nat : Mark(k, u) => u < t
PlaysApart ==
  \A i, j \in Ids : \A t \in Nat : ProbeWorks /\ Plays(i, t) /\ Plays(j, t) => i = j

\* While a run is on all of this is before its clock; after a crash it is in the
\* recordings' rows, but for those the next start does not know of.
BeforeClock ==
  runs > 0 /\ sink[runs].pc # "dead" =>
    /\ \A k \in Sinks : \A t \in Nat : Mark(k, t) => t < clock
    /\ \A i \in Ids : \A t \in Nat : ProbeWorks /\ Plays(i, t) => t < clock
InRows ==
  /\ \A i \in Ids : ProbeWorks /\ row[i].status \in {"complete", "failed"} /\ file[i].there =>
       Len(file[i].plays) <= row[i].length
  /\ Fresh => \A i \in Ids : row[i].status = "recording" => i \in behind
Bounded ==
  /\ clock <= MaxTime + runs
  /\ \A i \in Ids : row[i].status # "none" =>
       /\ row[i].offset + row[i].length <= MaxTime
       /\ row[i].offset + Len(file[i].plays) <= MaxTime
  /\ \A k \in Sinks : \A t \in Nat : Waits(k, t) => t < MaxTime
  /\ \A k \in Sinks : Holds(k) =>
       sink[k].offset + sink[k].n <= MaxTime /\ sink[k].offset + sink[k].n <= clock

\* A deletion that asked a sink to stop its chunk is of nobody else's, and once
\* that sink has answered of nobody's.
Asked ==
  \A d \in Deleters :
    /\ IF del[d].pc = "idle" THEN del[d].id = 0 ELSE del[d].id # 0 /\ del[d].id <= made
    /\ del[d].pc = "abort" => del[d].sink # 0
    /\ del[d].pc \in {"abort", "remove", "row"} /\ del[d].sink # 0 =>
         \A k \in Sinks : sink[k].chunk = del[d].id => del[d].pc = "abort" /\ k = del[d].sink
    /\ del[d].pc = "row" /\ del[d].sink # 0 => ~file[del[d].id].there

RecShape == RecTypes /\ Started /\ PlaceOfChunk /\ OneSink /\ OwnChunk
RecTimes == InOrder /\ RunsInOrder /\ SpanFree /\ PlaysApart /\ BeforeClock /\ InRows /\ Bounded
RecInv == RecShape /\ RecTimes /\ OnClock /\ RowsSettle /\ Asked

\* The bounds and options, one by one.
LEMMA Bounds ==
  /\ MaxRuns \in Nat /\ MaxRuns > 0 /\ MaxChunks \in Nat /\ MaxChunks > 0
  /\ MaxSkip \in Nat /\ MaxTime \in Nat
  /\ Chunk \in Nat /\ Buffer \in Nat /\ Buffer > 0 /\ MaxGap \in Nat
BY RecordingAssumption DEF RecordingAssumption, RecorderOptions

\* The types of what sinks, rows and files are made of.
LEMMA Typed ==
  ASSUME RecTypes
  PROVE  /\ \A k \in Sinks : /\ sink[k] \in SinkRecs /\ sink[k].offset \in Nat /\ sink[k].n \in Nat
                             /\ sink[k].frame \in Nat /\ (sink[k].chunk # 0 => sink[k].chunk \in Ids)
         /\ \A i \in Ids : /\ row[i] \in RowRecs /\ row[i].offset \in Nat /\ row[i].length \in Nat
                           /\ file[i] \in FileRecs /\ Len(file[i].plays) \in Nat
<1>1. \A k \in Sinks : sink[k] \in SinkRecs BY DEF RecTypes
<1>2. \A i \in Ids : row[i] \in RowRecs /\ file[i] \in FileRecs BY DEF RecTypes
<1>3. \A k \in Sinks : /\ sink[k].offset \in Nat /\ sink[k].n \in Nat /\ sink[k].frame \in Nat
                       /\ (sink[k].chunk # 0 => sink[k].chunk \in Ids)
  BY ONLY <1>1 DEF SinkRecs, Ids
<1>4. \A i \in Ids : row[i].offset \in Nat /\ row[i].length \in Nat BY ONLY <1>2 DEF RowRecs
<1>5. \A i \in Ids : Len(file[i].plays) \in Nat
  <2> SUFFICES ASSUME NEW i \in Ids PROVE Len(file[i].plays) \in Nat
    OBVIOUS
  <2>1. PICK p \in Seq(Nat) : p = file[i].plays BY <1>2 DEF FileRecs
  <2> QED BY <2>1, LenProperties
<1> QED BY <1>1, <1>2, <1>3, <1>4, <1>5

\* And after a step.
LEMMA TypedNext ==
  ASSUME RecTypes'
  PROVE  \A i \in Ids : row'[i].offset \in Nat /\ row'[i].length \in Nat /\ Len(file'[i].plays) \in Nat
<1>1. \A i \in Ids : row'[i] \in RowRecs /\ file'[i] \in FileRecs BY DEF RecTypes
<1>2. \A i \in Ids : row'[i].offset \in Nat /\ row'[i].length \in Nat BY ONLY <1>1 DEF RowRecs
<1>3. \A i \in Ids : Len(file'[i].plays) \in Nat
  <2> SUFFICES ASSUME NEW i \in Ids PROVE Len(file'[i].plays) \in Nat
    OBVIOUS
  <2>1. PICK p \in Seq(Nat) : p = file'[i].plays BY <1>1 DEF FileRecs
  <2> QED BY <2>1, LenProperties
<1> QED BY <1>2, <1>3

\* The recorder's start.
LEMMA RecInvInit == Init => RecInv
<1> SUFFICES ASSUME Init PROVE RecInv
  OBVIOUS
<1> USE Bounds
<1>1. NoSink \in SinkRecs /\ NoRow \in RowRecs /\ NoFile \in FileRecs /\ Idle \in DelRecs
  BY DEF NoSink, SinkRecs, NoRow, RowRecs, NoFile, FileRecs, Idle, DelRecs, Errs, Statuses, Places
<1>2. left \in Lefts /\ left.runs <= MaxRuns
  <2>1. left \in [runs : 0..MaxRuns, frames : Nat, deletes : Nat, boots : Nat, fails : Nat]
    BY RecordingAssumption DEF Init, RecordingAssumption
  <2> QED BY <2>1 DEF Lefts
<1>3. RecTypes
  <2>1. sink \in [Sinks -> SinkRecs] BY <1>1 DEF Init
  <2>2. row \in [Ids -> RowRecs] /\ file \in [Ids -> FileRecs] BY <1>1 DEF Init
  <2>3. active \in [Ids -> 0 .. MaxRuns] /\ del \in [Deleters -> DelRecs] BY <1>1 DEF Init
  <2>4. clock \in Nat /\ runs \in Nat /\ made \in 0 .. MaxChunks BY DEF Init
  <2>5. dir \in BOOLEAN BY DEF Init
  <2> QED BY <1>2, <2>1, <2>2, <2>3, <2>4, <2>5 DEF RecTypes
<1>4. /\ \A k \in Sinks : sink[k] = NoSink /\ ~Holds(k) /\ sink[k].pc = "none" /\ sink[k].queue = <<>>
      /\ \A i \in Ids : row[i] = NoRow /\ file[i] = NoFile /\ active[i] = 0
      /\ \A d \in Deleters : del[d] = Idle
      /\ runs = 0 /\ made = 0 /\ clock = 0
  BY DEF Init, Holds, NoSink
<1>5. RecShape
  <2>1. Started BY <1>2, <1>4 DEF Started, Lefts, Sinks
  <2>2. PlaceOfChunk /\ OwnChunk BY <1>4 DEF PlaceOfChunk, OwnChunk
  <2>3. OneSink BY <1>4 DEF OneSink, Holds
  <2> QED BY <1>3, <2>1, <2>2, <2>3 DEF RecShape
<1>6. \A k \in Sinks : \A t \in Nat : ~Mark(k, t) /\ ~Waits(k, t) /\ ~Taken(k)
  BY <1>4 DEF Mark, Waits, Taken, NoSink
<1>7. \A i \in Ids : \A t \in Nat : ~Plays(i, t)
  BY <1>4 DEF Plays, NoRow
<1>8. RecTimes
  BY <1>4, <1>6, <1>7 DEF RecTimes, InOrder, RunsInOrder, SpanFree, PlaysApart, BeforeClock, InRows, Bounded, NoRow
<1>9. OnClock /\ RowsSettle /\ Asked
  BY <1>4 DEF OnClock, RowsSettle, Asked, Stored, NoRow, Idle
<1> QED BY <1>5, <1>8, <1>9 DEF RecInv

\* A thing of the plan that happens.
LEMMA HappensLeft ==
  ASSUME left \in Lefts, NEW kind \in {"runs", "frames", "deletes", "boots", "fails"}, Happens(kind)
  PROVE  left' \in Lefts /\ left'.runs = IF kind = "runs" THEN left.runs - 1 ELSE left.runs
BY DEF Happens, Lefts

\* Only sink k changes, to s.
Becomes(k, s) ==
  /\ s \in SinkRecs /\ sink' \in [Sinks -> SinkRecs] /\ sink'[k] = s
  /\ \A l \in Sinks : l # k => sink'[l] = sink[l]

\* The step of a loop is such a change.
LEMMA LoopBecomes ==
  ASSUME RecTypes, NEW k \in Sinks, NEW s \in SinkRecs, sink' = [sink EXCEPT ![k] = s]
  PROVE  Becomes(k, s)
BY DEF RecTypes, Becomes

\* What a step that neither starts a run nor writes does to the times.
MarksShrink == \A k \in Sinks : \A t \in Nat : Mark(k, t)' => Mark(k, t)
PlaysShrink == \A i \in Ids : \A t \in Nat : Plays(i, t)' => Plays(i, t)
DroppedBefore ==
  \A k \in Sinks : \A i \in Ids : sink[k].chunk = i /\ sink'[k].chunk # i =>
    \A t, u \in Nat : Plays(i, t)' /\ Mark(k, u)' => t < u
SameRuns == runs' = runs /\ clock' = clock /\ \A k \in Sinks : sink'[k].pc = "dead" <=> sink[k].pc = "dead"
Quiet == MarksShrink /\ PlaysShrink /\ DroppedBefore /\ SameRuns

\* The running run's sink is one.
LEMMA RunIsSink == ASSUME RecTypes, Started PROVE runs \in 0 .. MaxRuns /\ (runs > 0 => runs \in Sinks)
<1>1. left.runs \in Nat BY DEF RecTypes, Lefts
<1>2. runs \in Nat /\ runs + left.runs <= MaxRuns BY DEF RecTypes, Started
<1> QED BY <1>1, <1>2, Bounds DEF Sinks

\* Such a step keeps what is known of when what plays.
LEMMA QuietTimes ==
  ASSUME RecInv, Quiet
  PROVE  RunsInOrder' /\ SpanFree' /\ PlaysApart' /\ BeforeClock'
<1> USE DEF Quiet, RecInv, RecTimes
<1>1. RunsInOrder' BY DEF RunsInOrder, MarksShrink
<1>2. PlaysApart' BY DEF PlaysApart, PlaysShrink
<1>3. BeforeClock'
  <2> SUFFICES ASSUME runs > 0, sink'[runs].pc # "dead"
      PROVE /\ \A k \in Sinks : \A t \in Nat : Mark(k, t)' => t < clock
            /\ \A i \in Ids : \A t \in Nat : ProbeWorks /\ Plays(i, t)' => t < clock
    BY DEF BeforeClock, SameRuns
  <2>1. runs \in Sinks
    BY RunIsSink DEF RecShape
  <2> QED BY <2>1 DEF BeforeClock, SameRuns, MarksShrink, PlaysShrink
<1>4. SpanFree'
  <2> SUFFICES ASSUME NEW i \in Ids, NEW k \in Sinks, NEW t \in Nat, ProbeWorks, Plays(i, t)', sink'[k].chunk # i
      PROVE \/ \A u \in Nat : Mark(k, u)' => t < u
            \/ k < runs /\ \A u \in Nat : Mark(k, u)' => u < t
    BY DEF SpanFree, SameRuns
  <2>1. Plays(i, t) BY DEF PlaysShrink
  <2>2. CASE sink[k].chunk # i BY <2>1, <2>2 DEF SpanFree, MarksShrink
  <2>3. CASE sink[k].chunk = i BY <2>3 DEF DroppedBefore
  <2> QED BY <2>2, <2>3
<1> QED BY <1>1, <1>2, <1>3, <1>4

\* A sink that is at work still is one that was started.
LEMMA StillStarted ==
  ASSUME RecShape, RecTypes', NEW k \in Sinks, NEW s \in SinkRecs, Becomes(k, s), SameRuns,
         sink[k].pc \notin {"none", "dead"}, s.pc # "none", Len(s.queue) <= Buffer,
         left' \in Lefts, left'.runs = left.runs
  PROVE  Started'
<1>1. sink[k] # NoSink BY DEF NoSink
<1>2. runs + left'.runs <= MaxRuns BY DEF RecShape, Started, SameRuns
<1>3. \A l \in Sinks : IF l > runs THEN sink'[l] = NoSink ELSE sink'[l].pc # "none"
  BY <1>1 DEF RecShape, Started, Becomes
<1>4. s.pc # "dead" BY DEF SameRuns, Becomes
<1>5. \A l \in Sinks : sink'[l].pc = "dead" => sink'[l].queue = <<>>
  BY <1>4 DEF RecShape, Started, Becomes
<1>6. runs > 0 /\ sink'[runs].pc = "dead" => \A l \in Sinks : l <= runs => sink'[l].pc = "dead"
  <2>1. runs > 0 => runs \in Sinks BY RunIsSink DEF RecShape
  <2> QED BY <2>1 DEF RecShape, Started, SameRuns
<1>7. \A l \in Sinks : Len(sink'[l].queue) <= Buffer BY DEF RecShape, Started, Becomes
<1> QED BY <1>2, <1>3, <1>5, <1>6, <1>7 DEF Started, SameRuns

\* The marks of the others stay.
LEMMA OneShrinks ==
  ASSUME RecInv, NEW k \in Sinks, NEW s \in SinkRecs, Becomes(k, s),
         \A t \in Nat : Mark(k, t)' => Mark(k, t)
  PROVE  MarksShrink
<1>1. \A l \in Sinks : l # k => \A t \in Nat : Mark(l, t)' => Mark(l, t)
  BY DEF Becomes, Mark, Waits, Taken, Holds
<1> QED BY <1>1 DEF MarksShrink

\* Files and rows that stay play what they played.
LEMMA SamePlays == ASSUME UNCHANGED <<row, file, behind>> PROVE PlaysShrink
BY DEF PlaysShrink, Plays

\* A step of a sink that keeps its chunk and changes nothing but itself.
Itself(k) ==
  /\ UNCHANGED <<clock, runs, made, row, file, active, dir, del, deleted, stuck, behind>>
  /\ left' \in Lefts /\ left'.runs = left.runs
  /\ sink[k].pc \notin {"none", "dead", "finish", "unregister"}
  /\ sink'[k].pc \notin {"none", "dead", "spawn", "register", "unregister"}
  /\ sink'[k].chunk = sink[k].chunk /\ sink'[k].offset = sink[k].offset /\ sink'[k].n = sink[k].n
  /\ Len(sink'[k].queue) <= Buffer

\* It keeps all but the order of what waits.
LEMMA ItselfKeeps ==
  ASSUME RecInv, NEW k \in Sinks, NEW s \in SinkRecs, Becomes(k, s), Itself(k)
  PROVE  /\ RecTypes' /\ Started' /\ OneSink' /\ OwnChunk'
         /\ PlaysShrink /\ DroppedBefore /\ SameRuns
         /\ OnClock' /\ RowsSettle' /\ Asked'
<1>1. RecShape /\ RecTypes BY DEF RecInv, RecShape
<1>2. RecTypes' BY <1>1 DEF RecTypes, Itself, Becomes
<1>3. SameRuns BY <1>1 DEF SameRuns, Itself, Becomes
<1>4. Started' BY <1>1, <1>2, <1>3, StillStarted DEF Itself, Becomes
<1>5. \A l \in Sinks : sink'[l].chunk = sink[l].chunk BY DEF Itself, Becomes
<1>6. OneSink'
  <2>1. \A l \in Sinks : sink'[l].pc \in {"spawn", "register"} => sink[l].pc \in {"spawn", "register"}
    BY DEF Itself, Becomes
  <2>2. \A i \in Ids : active[i] # 0 => active[i] \in Sinks BY <1>1 DEF RecTypes, Sinks
  <2>3. OneSink /\ made' = made /\ active' = active /\ row' = row /\ file' = file
    BY <1>1 DEF Itself, RecShape
  <2>4. \A l \in Sinks : sink'[l].chunk <= made BY <1>5, <2>3 DEF OneSink
  <2>5. \A l, m \in Sinks : sink'[l].chunk # 0 /\ sink'[l].chunk = sink'[m].chunk => l = m
    BY <1>5, <2>3 DEF OneSink, Holds
  <2>6. \A i \in Ids : active[i] # 0 => sink'[active[i]].chunk = i BY <1>5, <2>2, <2>3 DEF OneSink
  <2>7. \A l \in Sinks : sink'[l].pc \in {"spawn", "register"} => active[sink'[l].chunk] = 0
    BY <1>5, <2>1, <2>3 DEF OneSink
  <2> QED BY <2>3, <2>4, <2>5, <2>6, <2>7 DEF OneSink, Holds
<1>7. OwnChunk'
  <2> SUFFICES ASSUME NEW l \in Sinks, sink'[l].chunk # 0
      PROVE LET c == sink'[l].chunk IN
            /\ row[c].status # "none" => row[c].offset = sink'[l].offset
            /\ Len(file[c].plays) <= sink'[l].n
            /\ sink'[l].pc \notin {"finish", "unregister"} => Len(file[c].plays) = sink'[l].n
            /\ IF sink'[l].pc = "unregister" THEN row[c].status = "recording" => c \in stuck
               ELSE row[c].status \in {"none", "recording"}
    BY DEF OwnChunk, Holds, Itself
  <2>1. CASE l = k BY <1>1, <2>1 DEF RecShape, OwnChunk, Holds, Itself
  <2>2. CASE l # k BY <1>1, <2>2 DEF RecShape, OwnChunk, Holds, Becomes
  <2> QED BY <2>1, <2>2
<1>8. PlaysShrink BY SamePlays DEF Itself
<1>9. DroppedBefore BY <1>5 DEF DroppedBefore
<1>10. OnClock' BY DEF RecInv, OnClock, Itself, Stored
<1>11. RowsSettle' BY <1>5 DEF RecInv, RowsSettle, Itself, Being, BeingDeleted
<1>12. Asked' BY <1>5 DEF RecInv, Asked, Itself
<1> QED BY <1>2, <1>3, <1>4, <1>6, <1>7, <1>8, <1>9, <1>10, <1>11, <1>12

\* Fewer frames wait.
WaitsShrink == \A k \in Sinks : \A t \in Nat : Waits(k, t)' => Waits(k, t)

\* It is enough to look at the sink that changes.
LEMMA OneWaits ==
  ASSUME RecInv, NEW k \in Sinks, NEW s \in SinkRecs, Becomes(k, s),
         \A t \in Nat : Waits(k, t)' => Waits(k, t)
  PROVE  WaitsShrink
<1>1. \A l \in Sinks : l # k => \A t \in Nat : Waits(l, t)' => Waits(l, t)
  BY DEF Becomes, Waits, Taken
<1> QED BY <1>1 DEF WaitsShrink

\* The order of the others stays.
OrderOf(k) ==
  /\ \A j, q \in 1 .. Len(sink[k].queue) : j < q => sink[k].queue[j] < sink[k].queue[q]
  /\ Taken(k) => \A j \in 1 .. Len(sink[k].queue) : sink[k].frame < sink[k].queue[j]
  /\ Holds(k) => \A t \in Nat : Waits(k, t) => sink[k].offset + sink[k].n <= t

\* Again one sink is enough.
LEMMA OneOrdered ==
  ASSUME RecInv, NEW k \in Sinks, NEW s \in SinkRecs, Becomes(k, s), OrderOf(k)'
  PROVE  InOrder'
<1>1. \A l \in Sinks : l # k => OrderOf(l)'
  BY DEF Becomes, RecInv, RecTimes, InOrder, OrderOf, Waits, Taken, Holds
<1> QED BY <1>1 DEF InOrder, OrderOf

\* A step of a sink by itself keeps the invariant when fewer frames wait.
LEMMA ItselfIsKept ==
  ASSUME RecInv, NEW k \in Sinks, NEW s \in SinkRecs, Becomes(k, s), Itself(k),
         \A t \in Nat : Waits(k, t)' => Waits(k, t), OrderOf(k)', PlaceOfChunk'
  PROVE  RecInv'
<1>1. /\ RecTypes' /\ Started' /\ OneSink' /\ OwnChunk'
      /\ PlaysShrink /\ DroppedBefore /\ SameRuns
      /\ OnClock' /\ RowsSettle' /\ Asked'
  BY ItselfKeeps
<1>2. \A t \in Nat : Mark(k, t)' => Mark(k, t) BY DEF Mark, Itself, Holds
<1>3. RunsInOrder' /\ SpanFree' /\ PlaysApart' /\ BeforeClock'
  BY <1>1, <1>2, OneShrinks, QuietTimes DEF Quiet
<1>4. InOrder' BY OneOrdered
<1>5. InRows'
  <2>1. Fresh' <=> Fresh
    <3>1. runs > 0 => runs \in Sinks BY RunIsSink DEF RecInv, RecShape
    <3>2. runs' = runs /\ runs \in Nat BY DEF SameRuns, RecInv, RecShape, RecTypes, Itself
    <3> QED BY <1>1, <3>1, <3>2 DEF Fresh, SameRuns
  <2> QED BY <2>1 DEF RecInv, RecTimes, InRows, Itself
<1>6. Bounded'
  <2>1. WaitsShrink BY OneWaits
  <2> QED BY <2>1 DEF RecInv, RecTimes, Bounded, Itself, Becomes, WaitsShrink, Holds
<1> QED BY <1>1, <1>3, <1>4, <1>5, <1>6 DEF RecInv, RecShape, RecTimes

\* A frame is taken from the queue, and its sink goes where it belongs.
LEMMA TakeKeeps ==
  ASSUME RecInv, NEW k \in Sinks, Take(k)
  PROVE  RecInv'
<1> DEFINE s == sink[k]
           u == sink'[k]
<1>1. /\ RecTypes /\ s \in SinkRecs /\ s.pc = "loop" /\ s.queue # <<>> /\ s.queue \in Seq(Nat)
      /\ UNCHANGED <<clock, runs, deleted, stuck, behind, row, file, made, active, dir, del, left>>
  BY DEF RecInv, RecShape, RecTypes, Take, Loop, SinkRecs
<1>2. /\ Head(s.queue) \in Nat /\ Tail(s.queue) \in Seq(Nat) /\ Len(Tail(s.queue)) = Len(s.queue) - 1
      /\ \A i \in 1 .. Len(Tail(s.queue)) : Tail(s.queue)[i] = s.queue[i + 1]
      /\ Head(s.queue) = s.queue[1] /\ Len(s.queue) \in Nat /\ Len(s.queue) > 0
  BY ONLY <1>1, HeadTailProperties
<1>3. /\ Becomes(k, u) /\ u.queue = Tail(s.queue)
      /\ u.chunk = s.chunk /\ u.offset = s.offset /\ u.n = s.n /\ u.alive = s.alive /\ u.err = s.err
      /\ u.pc \in {"loop", "create", "finish", "write"}
      /\ u.pc # "loop" => u.frame = Head(s.queue)
      /\ u.pc \in {"finish", "write"} => s.chunk # 0
      /\ u.pc = "create" => s.chunk = 0
      /\ u.pc = "finish" => u.then = "create"
  <2>1. PICK v : sink' = [sink EXCEPT ![k] = v] /\ v =
           LET f == Head(s.queue)
               t == [s EXCEPT !.queue = Tail(@), !.frame = f]
           IN IF s.err # "none" THEN [t EXCEPT !.frame = 0]
              ELSE IF s.chunk = 0 THEN [t EXCEPT !.pc = "create"]
              ELSE IF Full(s, f) THEN [t EXCEPT !.pc = "finish", !.then = "create"]
              ELSE [t EXCEPT !.pc = "write"]
    BY Zenon DEF Take, Loop
  <2>2. /\ v \in SinkRecs /\ v.queue = Tail(s.queue)
        /\ v.chunk = s.chunk /\ v.offset = s.offset /\ v.n = s.n /\ v.alive = s.alive /\ v.err = s.err
        /\ v.pc \in {"loop", "create", "finish", "write"}
        /\ v.pc # "loop" => v.frame = Head(s.queue)
        /\ v.pc \in {"finish", "write"} => s.chunk # 0
        /\ v.pc = "create" => s.chunk = 0
        /\ v.pc = "finish" => v.then = "create"
    BY <1>1, <1>2, <2>1 DEF SinkRecs, Places
  <2>3. Becomes(k, v) BY ONLY <1>1, <2>1, <2>2, LoopBecomes, k \in Sinks
  <2> QED BY <2>2, <2>3 DEF Becomes
<1>4. \A t \in Nat : Waits(k, t)' => Waits(k, t)
  BY <1>1, <1>2, <1>3 DEF Waits, Taken
<1>5. OrderOf(k)'
  <2>1. OrderOf(k) BY DEF RecInv, RecTimes, InOrder, OrderOf
  <2>2. \A j, q \in 1 .. Len(u.queue) : j < q => u.queue[j] < u.queue[q]
    <3>1. \A j, q \in 1 .. Len(s.queue) : j < q => s.queue[j] < s.queue[q] BY <2>1 DEF OrderOf
    <3>2. PICK m \in Nat : m = Len(s.queue) BY <1>2
    <3>3. /\ u.queue = Tail(s.queue) /\ Len(Tail(s.queue)) = m - 1
          /\ \A i \in 1 .. m - 1 : Tail(s.queue)[i] = s.queue[i + 1]
      BY ONLY <1>2, <1>3, <3>2
    <3> QED BY ONLY <3>1, <3>2, <3>3
  <2>3. Taken(k)' => \A j \in 1 .. Len(u.queue) : u.frame < u.queue[j]
    BY SMTT(30), <1>2, <1>3, <2>1 DEF OrderOf, Taken
  <2>4. Holds(k)' => \A t \in Nat : Waits(k, t)' => u.offset + u.n <= t
    BY <1>3, <1>4, <2>1 DEF OrderOf, Holds
  <2> QED BY <2>2, <2>3, <2>4 DEF OrderOf
<1>6. PlaceOfChunk'
  BY <1>1, <1>3 DEF PlaceOfChunk, Holds, RecInv, RecShape, Becomes
<1>7. Itself(k)
  <2>1. Len(u.queue) <= Buffer BY <1>1, <1>2, <1>3, Bounds DEF RecInv, RecShape, Started
  <2>2. left' \in Lefts /\ left'.runs = left.runs BY <1>1 DEF RecTypes
  <2> QED BY <1>1, <1>3, <2>1, <2>2 DEF Itself
<1>8. u \in SinkRecs BY <1>3 DEF Becomes
<1> QED BY <1>3, <1>4, <1>5, <1>6, <1>7, <1>8, ItselfIsKept

\* A sink that is closed and has written all is done, or finishes its chunk.
LEMMA EndedKeeps ==
  ASSUME RecInv, NEW k \in Sinks, Ended(k)
  PROVE  RecInv'
<1> DEFINE s == sink[k]
           u == sink'[k]
<1>1. /\ RecTypes /\ s \in SinkRecs /\ s.pc = "loop" /\ s.queue = <<>>
      /\ UNCHANGED <<clock, runs, deleted, stuck, behind, row, file, made, active, dir, del, left>>
  BY DEF RecInv, RecShape, RecTypes, Ended, Loop
<1>2. /\ Becomes(k, u) /\ u.queue = s.queue
      /\ u.chunk = s.chunk /\ u.offset = s.offset /\ u.n = s.n
      /\ u.pc \in {"done", "finish"}
      /\ u.pc = "done" <=> s.chunk = 0
      /\ u.pc = "finish" => u.then = "done"
  <2>1. PICK v : sink' = [sink EXCEPT ![k] = v] /\ v =
           IF s.chunk = 0 THEN [s EXCEPT !.pc = "done"] ELSE [s EXCEPT !.pc = "finish", !.then = "done"]
    BY Zenon DEF Ended, Loop
  <2>2. /\ v \in SinkRecs /\ v.queue = s.queue
        /\ v.chunk = s.chunk /\ v.offset = s.offset /\ v.n = s.n
        /\ v.pc \in {"done", "finish"}
        /\ v.pc = "done" <=> s.chunk = 0
        /\ v.pc = "finish" => v.then = "done"
    BY <1>1, <2>1 DEF SinkRecs, Places
  <2>3. Becomes(k, v) BY ONLY <1>1, <2>1, <2>2, LoopBecomes, k \in Sinks
  <2> QED BY <2>2, <2>3 DEF Becomes
<1>3. \A t \in Nat : ~Waits(k, t)' BY <1>1, <1>2 DEF Waits, Taken
<1>4. OrderOf(k)' BY <1>1, <1>2, <1>3 DEF OrderOf, Taken
<1>5. PlaceOfChunk'
  BY <1>1, <1>2 DEF PlaceOfChunk, Holds, RecInv, RecShape, Becomes
<1>6. Itself(k)
  <2>1. Len(u.queue) <= Buffer BY <1>2 DEF RecInv, RecShape, Started
  <2>2. left' \in Lefts /\ left'.runs = left.runs BY <1>1 DEF RecTypes
  <2> QED BY <1>1, <1>2, <2>1, <2>2 DEF Itself
<1>7. u \in SinkRecs BY <1>2 DEF Becomes
<1> QED BY <1>2, <1>3, <1>4, <1>5, <1>6, <1>7, ItselfIsKept

\* A chunk that has no row: its frame is given up.
LEMMA CreateFailsKeeps ==
  ASSUME RecInv, NEW k \in Sinks, CreateFails(k)
  PROVE  RecInv'
<1> DEFINE s == sink[k]
           u == sink'[k]
<1>1. /\ RecTypes /\ s \in SinkRecs /\ s.pc = "create" /\ s.chunk = 0
      /\ UNCHANGED <<clock, runs, deleted, stuck, behind, row, file, made, active, dir, del>>
  BY DEF RecInv, RecShape, RecTypes, CreateFails, Loop, PlaceOfChunk, Holds
<1>2. /\ Becomes(k, u) /\ u.queue = s.queue
      /\ u.chunk = s.chunk /\ u.offset = s.offset /\ u.n = s.n /\ u.pc = "loop"
  <2>1. PICK v : sink' = [sink EXCEPT ![k] = v] /\ v = [s EXCEPT !.pc = "loop", !.err = "failed", !.frame = 0]
    BY Zenon DEF CreateFails, Loop
  <2>2. /\ v \in SinkRecs /\ v.queue = s.queue
        /\ v.chunk = s.chunk /\ v.offset = s.offset /\ v.n = s.n /\ v.pc = "loop"
    BY <1>1, <2>1 DEF SinkRecs, Places, Errs
  <2>3. Becomes(k, v) BY ONLY <1>1, <2>1, <2>2, LoopBecomes, k \in Sinks
  <2> QED BY <2>2, <2>3 DEF Becomes
<1>3. \A t \in Nat : Waits(k, t)' => Waits(k, t) BY <1>1, <1>2 DEF Waits, Taken
<1>4. OrderOf(k)'
  BY <1>1, <1>2, <1>3 DEF OrderOf, Taken, Holds, RecInv, RecTimes, InOrder
<1>5. PlaceOfChunk'
  BY <1>1, <1>2 DEF PlaceOfChunk, Holds, RecInv, RecShape, Becomes
<1>6. Itself(k)
  <2>1. Len(u.queue) <= Buffer BY <1>2 DEF RecInv, RecShape, Started
  <2>2. left' \in Lefts /\ left'.runs = left.runs
    BY <1>1, HappensLeft DEF RecTypes, CreateFails
  <2> QED BY <1>1, <1>2, <2>1, <2>2 DEF Itself
<1>7. u \in SinkRecs BY <1>2 DEF Becomes
<1> QED BY <1>2, <1>3, <1>4, <1>5, <1>6, <1>7, ItselfIsKept

\* Rows that may change: times fit.
RowsBounded ==
  \A i \in Ids : row[i].status # "none" =>
    /\ row[i].offset + row[i].length <= MaxTime
    /\ row[i].offset + Len(file[i].plays) <= MaxTime

\* A sink that is on is of a run that is on.
LEMMA NotFresh ==
  ASSUME RecTypes, Started, NEW k \in Sinks, sink[k].pc \notin {"none", "dead"}
  PROVE  ~Fresh /\ runs > 0 /\ sink[runs].pc # "dead" /\ k <= runs
<1>1. k <= runs
  <2>1. ~(k > runs) BY DEF Started, NoSink
  <2> QED BY <2>1 DEF RecTypes, Sinks
<1> QED BY <1>1 DEF RecTypes, Started, Sinks, Fresh

\* A quiet step of one sink.
LEMMA QuietIsKept ==
  ASSUME RecInv, NEW k \in Sinks, NEW s \in SinkRecs, Becomes(k, s), SameRuns,
         PlaysShrink, DroppedBefore, sink[k].pc \notin {"none", "dead"},
         \A t \in Nat : Waits(k, t)' => Waits(k, t), \A t \in Nat : Mark(k, t)' => Mark(k, t),
         OrderOf(k)', RowsBounded', s.chunk # 0 => s.offset + s.n <= MaxTime /\ s.offset + s.n <= clock,
         \A i \in Ids : ProbeWorks /\ row'[i].status \in {"complete", "failed"} /\ file'[i].there =>
                          Len(file'[i].plays) <= row'[i].length
  PROVE  RecTimes'
<1>1. RunsInOrder' /\ SpanFree' /\ PlaysApart' /\ BeforeClock'
  BY OneShrinks, QuietTimes DEF Quiet
<1>2. InOrder' BY OneOrdered
<1>3. InRows'
  <2>1. ~Fresh /\ runs > 0 /\ sink[runs].pc # "dead" BY NotFresh DEF RecInv, RecShape
  <2>2. runs \in Sinks BY <2>1, RunIsSink DEF RecInv, RecShape
  <2>3. ~Fresh' BY <2>1, <2>2 DEF Fresh, SameRuns
  <2> QED BY <2>3 DEF InRows
<1>4. Bounded'
  <2>1. WaitsShrink BY OneWaits
  <2>2. \A l \in Sinks : Holds(l)' => /\ sink'[l].offset + sink'[l].n <= MaxTime
                                      /\ sink'[l].offset + sink'[l].n <= clock
    BY DEF RecInv, RecTimes, Bounded, Becomes, Holds
  <2> QED BY <2>1, <2>2 DEF RecInv, RecTimes, Bounded, RowsBounded, SameRuns, WaitsShrink
<1> QED BY <1>1, <1>2, <1>3, <1>4 DEF RecTimes

\* The chunks of the others stay as they are.
OwnOf(k) ==
  Holds(k) =>
    LET c == sink[k].chunk IN
    /\ row[c].status # "none" => row[c].offset = sink[k].offset
    /\ Len(file[c].plays) <= sink[k].n
    /\ sink[k].pc \notin {"finish", "unregister"} => Len(file[c].plays) = sink[k].n
    /\ IF sink[k].pc = "unregister" THEN row[c].status = "recording" => c \in stuck
       ELSE row[c].status \in {"none", "recording"}

\* One sink is enough here too.
LEMMA OwnByOne ==
  ASSUME RecInv, stuck \subseteq stuck', NEW k \in Sinks, NEW s \in SinkRecs, Becomes(k, s), OwnOf(k)',
         \A l \in Sinks : l # k /\ sink[l].chunk # 0 =>
           row'[sink[l].chunk] = row[sink[l].chunk] /\ file'[sink[l].chunk] = file[sink[l].chunk]
  PROVE  OwnChunk'
<1>1. \A l \in Sinks : l # k => OwnOf(l)'
  BY DEF Becomes, RecInv, RecShape, OwnChunk, OwnOf, Holds
<1> QED BY <1>1 DEF OwnChunk, OwnOf

\* A new chunk begins with the frame its sink has taken.
LEMMA CreateKeeps ==
  ASSUME RecInv, NEW k \in Sinks, Create(k)
  PROVE  RecInv'
<1> DEFINE s == sink[k]
           u == sink'[k]
           c == made + 1
<1>1. /\ RecTypes /\ RecShape /\ s \in SinkRecs /\ s.pc = "create" /\ s.chunk = 0 /\ c \in Ids
      /\ made \in Nat /\ made' = c /\ made < c /\ c \in 0 .. MaxChunks
      /\ UNCHANGED <<clock, runs, deleted, stuck, behind, file, active, dir, del, left>>
  BY Bounds DEF RecInv, RecShape, RecTypes, Create, Loop, PlaceOfChunk, Holds, Ids
<1> HIDE DEF c
<1>2. /\ Becomes(k, u) /\ u.queue = s.queue /\ u.frame = s.frame
      /\ u.chunk = c /\ u.offset = s.frame /\ u.n = 0 /\ u.pc = "spawn"
  <2>1. PICK v : sink' = [sink EXCEPT ![k] = v]
          /\ v = [s EXCEPT !.pc = "spawn", !.chunk = c, !.offset = s.frame, !.n = 0]
    BY <1>1, Zenon DEF Create, Loop, c
  <2>2. /\ v \in SinkRecs /\ v.queue = s.queue /\ v.frame = s.frame
        /\ v.chunk = c /\ v.offset = s.frame /\ v.n = 0 /\ v.pc = "spawn"
    BY <1>1, <2>1 DEF SinkRecs, Places
  <2>3. Becomes(k, v) BY ONLY <1>1, <2>1, <2>2, LoopBecomes, k \in Sinks
  <2> QED BY <2>2, <2>3 DEF Becomes
<1>3. u \in SinkRecs /\ s.frame \in Nat BY <1>1, <1>2 DEF Becomes, SinkRecs
<1>4. /\ row' \in [Ids -> RowRecs]
      /\ row'[c] = [status |-> "recording", offset |-> s.frame, length |-> 0]
      /\ \A i \in Ids : i # c => row'[i] = row[i]
  BY <1>1, <1>3 DEF Create, c, RecTypes, RowRecs, Statuses
<1>5. row[c] = NoRow /\ file[c] = NoFile /\ active[c] = 0 /\ \A l \in Sinks : sink[l].chunk <= made
  BY <1>1 DEF RecShape, OneSink
<1>6. \A l \in Sinks : sink[l].chunk # c BY ONLY <1>1, <1>5 DEF RecTypes, SinkRecs
<1>7. RecTypes' BY <1>1, <1>2, <1>4 DEF RecTypes, Becomes, Ids
<1>8. SameRuns BY <1>1, <1>2 DEF SameRuns, Becomes
<1>9. Started'
  <2>1. Len(u.queue) <= Buffer BY <1>1, <1>2 DEF RecShape, Started
  <2>2. left' \in Lefts /\ left'.runs = left.runs BY <1>1 DEF RecTypes
  <2> QED BY <1>1, <1>2, <1>3, <1>7, <1>8, <2>1, <2>2, StillStarted
<1>10. PlaceOfChunk' BY <1>1, <1>2 DEF PlaceOfChunk, Holds, RecShape, Becomes
<1>11. OneSink'
  <2>1. OneSink BY <1>1 DEF RecShape
  <2>2. \A l \in Sinks : sink'[l].chunk <= c 
    <3>1. \A l \in Sinks : sink[l].chunk \in Nat BY <1>1 DEF RecTypes, SinkRecs
    <3> QED BY <1>1, <1>2, <1>5, <3>1 DEF Becomes
  <2>3. \A l, m \in Sinks : sink'[l].chunk # 0 /\ sink'[l].chunk = sink'[m].chunk => l = m
    BY <1>2, <1>6, <2>1 DEF OneSink, Holds, Becomes
  <2>4. \A i \in Ids : i > c => row'[i] = NoRow /\ file'[i] = NoFile /\ active'[i] = 0
    BY <1>1, <1>4, <2>1 DEF OneSink, Ids
  <2>5. \A i \in Ids : active[i] # 0 => active[i] \in Sinks /\ active[i] # k
    BY <1>1, <2>1 DEF RecTypes, Sinks, OneSink, Ids
  <2>6. \A i \in Ids : active'[i] # 0 => sink'[active'[i]].chunk = i
    BY <1>1, <1>2, <2>1, <2>5 DEF OneSink, Becomes
  <2>7. \A l \in Sinks : sink'[l].pc \in {"spawn", "register"} => active'[sink'[l].chunk] = 0
    BY <1>1, <1>2, <1>5, <2>1 DEF OneSink, Becomes
  <2> QED BY <1>1, <2>2, <2>3, <2>4, <2>6, <2>7 DEF OneSink, Holds
<1>12. OwnChunk'
  <2>1. OwnOf(k)' BY <1>1, <1>2, <1>4, <1>5 DEF OwnOf, NoFile
  <2>2. \A l \in Sinks : l # k /\ sink[l].chunk # 0 =>
          row'[sink[l].chunk] = row[sink[l].chunk] /\ file'[sink[l].chunk] = file[sink[l].chunk]
    BY <1>1, <1>4, <1>6 DEF RecTypes, SinkRecs, Ids
  <2> QED BY <1>1, <1>2, <1>3, <2>1, <2>2, OwnByOne
<1>13. PlaysShrink BY <1>1, <1>4, <1>5 DEF PlaysShrink, Plays, NoFile
<1>14. DroppedBefore BY <1>1, <1>2 DEF DroppedBefore, Becomes, Ids
<1>15. \A t \in Nat : Waits(k, t)' => Waits(k, t) BY <1>1, <1>2 DEF Waits, Taken
<1>16. \A t \in Nat : Mark(k, t)' => Mark(k, t) BY <1>1, <1>2, <1>3, <1>15 DEF Mark, Waits, Taken
<1>17. OrderOf(k)'
  <2>1. OrderOf(k) /\ Taken(k) BY <1>1 DEF RecInv, RecTimes, InOrder, OrderOf, Taken
  <2>2. Holds(k)' => \A t \in Nat : Waits(k, t)' => u.offset + u.n <= t
    <3>1. \A t \in Nat : Waits(k, t) => s.frame <= t
      BY SMTT(30), <1>1, <1>3, <2>1 DEF OrderOf, Waits, SinkRecs
    <3> QED BY <1>2, <1>3, <1>15, <3>1
  <2> QED BY <1>2, <2>1, <2>2 DEF OrderOf, Taken
<1>18. s.frame < MaxTime /\ s.frame < clock
  <2>1. Waits(k, s.frame) /\ Mark(k, s.frame) BY <1>1, <1>3 DEF Mark, Waits, Taken
  <2>2. runs > 0 /\ sink[runs].pc # "dead" BY <1>1, NotFresh DEF RecShape
  <2> QED BY <1>3, <2>1, <2>2 DEF RecInv, RecTimes, Bounded, BeforeClock
<1>19. RowsBounded'
  BY <1>1, <1>3, <1>4, <1>5, <1>18, Bounds DEF RowsBounded, RecInv, RecTimes, Bounded, NoFile
<1>20. u.chunk # 0 => u.offset + u.n <= MaxTime /\ u.offset + u.n <= clock
  BY <1>1, <1>2, <1>3, <1>18, Bounds DEF RecTypes
<1>21. \A i \in Ids : ProbeWorks /\ row'[i].status \in {"complete", "failed"} /\ file'[i].there =>
                        Len(file'[i].plays) <= row'[i].length
  BY <1>1, <1>4 DEF RecInv, RecTimes, InRows
<1>22. RecTimes'
  BY <1>1, <1>2, <1>3, <1>8, <1>13, <1>14, <1>15, <1>16, <1>17, <1>19, <1>20, <1>21, QuietIsKept
<1>23. OnClock' BY <1>1, <1>4, <1>5 DEF RecInv, OnClock, Stored, NoFile
<1>24. RowsSettle'
  BY <1>1, <1>2, <1>4, <1>6 DEF RecInv, RowsSettle, Being, BeingDeleted, Becomes, Ids
<1>25. Asked'
  BY <1>1, <1>2 DEF RecInv, Asked, Becomes, RecTypes, DelRecs
<1> QED BY <1>7, <1>9, <1>10, <1>11, <1>12, <1>22, <1>23, <1>24, <1>25 DEF RecInv, RecShape

\* A step of a sink to do with the chunk it has, which it may let go.
PlaceOf(k) ==
  /\ sink[k].pc \in {"spawn", "register", "write", "finish", "unregister"} => Holds(k)
  /\ sink[k].pc \in {"none", "create", "done", "dead"} => ~Holds(k)
  /\ sink[k].pc \in {"finish", "unregister"} => sink[k].then # "none"
  /\ sink[k].pc \in {"spawn", "register"} => sink[k].n = 0 /\ sink[k].offset = sink[k].frame
Onward(k, s) ==
  /\ Becomes(k, s) /\ UNCHANGED <<clock, runs, made, dir, deleted, behind>> /\ stuck \subseteq stuck'
  /\ left' \in Lefts /\ left'.runs = left.runs
  /\ sink[k].pc \notin {"none", "dead"} /\ s.pc \notin {"none", "dead"} /\ PlaceOf(k)'
  /\ s.queue = sink[k].queue
  /\ Taken(k)' => Taken(k) /\ s.frame = sink[k].frame
  /\ s.chunk # 0 => s.offset = sink[k].offset /\ s.n = sink[k].n
WithChunk(k, c, s) ==
  /\ c = sink[k].chunk /\ c \in Ids /\ s.chunk \in {0, c}
  /\ row' \in [Ids -> RowRecs] /\ file' \in [Ids -> FileRecs] /\ active' \in [Ids -> 0 .. MaxRuns]
  /\ \A i \in Ids : i # c => row'[i] = row[i] /\ file'[i] = file[i] /\ active'[i] = active[i]
  /\ active'[c] \in {0, k} /\ (active'[c] = k => s.chunk = c)
  /\ s.pc \in {"spawn", "register"} => active'[c] = 0
RowGoesOn(k, c, s) ==
  /\ row'[c].offset = row[c].offset /\ (row'[c].status = "none" <=> row[c].status = "none")
  /\ ProbeWorks /\ row'[c].status \in {"complete", "failed"} /\ file'[c].there => Len(file'[c].plays) <= row'[c].length
  /\ row'[c].status # "none" => row'[c].offset + row'[c].length <= MaxTime
  /\ row'[c].status = "recording" => s.chunk = c \/ BeingDeleted(c)' \/ c \in stuck'
FileGoesOn(c) ==
  /\ Len(file'[c].plays) <= Len(file[c].plays)
  /\ \A j \in 1 .. Len(file'[c].plays) : file'[c].plays[j] = file[c].plays[j]
  /\ file'[c].there => file[c].there \/ Len(file'[c].plays) = 0

\* A step of a sink to do with its chunk keeps the invariant.
LEMMA ChunkStep ==
  ASSUME RecInv, NEW k \in Sinks, NEW s \in SinkRecs, NEW c \in Ids, Onward(k, s), WithChunk(k, c, s),
         RowGoesOn(k, c, s), FileGoesOn(c), OwnOf(k)', del' \in [Deleters -> DelRecs],
         \A i \in Ids : i # c => (BeingDeleted(i) => BeingDeleted(i)'), Asked'
  PROVE  RecInv'
<1>1. /\ RecTypes /\ RecShape /\ Started /\ Becomes(k, s) /\ sink'[k] = s /\ c # 0 /\ made \in Nat
      /\ OneSink /\ sink[k].chunk = c /\ runs \in Nat
  BY DEF RecInv, RecShape, RecTypes, Onward, WithChunk, Becomes, Ids
<1>2. RecTypes' BY <1>1 DEF RecTypes, Becomes, Onward, WithChunk
<1>3. SameRuns BY <1>1 DEF SameRuns, Becomes, Onward
<1>4. Started'
  <2>1. Len(s.queue) <= Buffer BY <1>1 DEF Onward, Started
  <2> QED BY <1>1, <1>2, <1>3, <2>1, StillStarted DEF Onward
<1>5. PlaceOfChunk'
  BY <1>1 DEF PlaceOfChunk, PlaceOf, Holds, RecShape, Becomes, Onward
<1>6. \A l \in Sinks : l # k => sink[l].chunk # c BY <1>1 DEF OneSink, Holds
<1>7. OneSink'
  <2>1. \A l \in Sinks : sink'[l].chunk <= made'
    BY <1>1 DEF OneSink, Becomes, Onward, WithChunk
  <2>2. \A l, m \in Sinks : sink'[l].chunk # 0 /\ sink'[l].chunk = sink'[m].chunk => l = m
    BY <1>1, <1>6 DEF OneSink, Holds, Becomes, WithChunk
  <2>3. c <= made BY <1>1 DEF OneSink
  <2>4. \A i \in Ids : i > made' => row'[i] = NoRow /\ file'[i] = NoFile /\ active'[i] = 0
    BY <1>1, <2>3 DEF OneSink, Ids, Onward, WithChunk
  <2>5. \A i \in Ids : active[i] # 0 => active[i] \in Sinks BY <1>1 DEF RecTypes, Sinks
  <2>6. \A i \in Ids : active'[i] # 0 => sink'[active'[i]].chunk = i
    BY SMTT(30), <1>1, <2>5 DEF OneSink, Becomes, WithChunk, Sinks
  <2>7. \A l \in Sinks : sink'[l].pc \in {"spawn", "register"} => active'[sink'[l].chunk] = 0
    <3> SUFFICES ASSUME NEW l \in Sinks, sink'[l].pc \in {"spawn", "register"}
        PROVE active'[sink'[l].chunk] = 0
      OBVIOUS
    <3>1. CASE l = k
      <4>1. s.chunk # 0 BY <1>1, <3>1 DEF Onward, PlaceOf, Holds
      <4> QED BY <1>1, <3>1, <4>1 DEF WithChunk
    <3>2. CASE l # k
      <4>1. sink'[l] = sink[l] /\ active[sink[l].chunk] = 0 BY <1>1, <3>2 DEF Becomes, OneSink
      <4>2. sink[l].chunk \in Ids
        <5>1. sink[l].chunk # 0 BY <1>1, <3>2, <4>1 DEF RecShape, PlaceOfChunk, Holds
        <5> QED BY <1>1, <5>1, Typed
      <4> QED BY <1>6, <3>2, <4>1, <4>2 DEF WithChunk
    <3> QED BY <3>1, <3>2
  <2> QED BY <2>1, <2>2, <2>4, <2>6, <2>7 DEF OneSink, Holds
<1>8. OwnChunk'
  <2>1. \A l \in Sinks : l # k /\ sink[l].chunk # 0 =>
          row'[sink[l].chunk] = row[sink[l].chunk] /\ file'[sink[l].chunk] = file[sink[l].chunk]
    <3>1. \A l \in Sinks : sink[l].chunk # 0 => sink[l].chunk \in Ids BY <1>1, Typed
    <3> QED BY <1>6, <3>1 DEF WithChunk
  <2> QED BY <1>1, <2>1, OwnByOne DEF Onward
<1>9. PlaysShrink
  <2>1. \A t \in Nat : Plays(c, t)' => Plays(c, t)
    <3>1. /\ row[c].offset \in Nat /\ Len(file[c].plays) \in Nat /\ Len(file'[c].plays) \in Nat
      BY <1>1, <1>2, Typed, TypedNext
    <3> SUFFICES ASSUME NEW t \in Nat, Plays(c, t)' PROVE Plays(c, t)
      OBVIOUS
    <3>2. /\ row'[c].status # "none" /\ file'[c].there
          /\ row'[c].offset <= t /\ t < row'[c].offset + Len(file'[c].plays)
      BY DEF Plays
    <3>3. file[c].there /\ t < row[c].offset + Len(file[c].plays)
      BY <3>1, <3>2 DEF RowGoesOn, FileGoesOn
    <3> QED BY <3>2, <3>3 DEF Plays, RowGoesOn, Onward
  <2>2. \A i \in Ids : i # c => \A t \in Nat : Plays(i, t)' => Plays(i, t) BY DEF Plays, WithChunk, Onward
  <2> QED BY <2>1, <2>2 DEF PlaysShrink
<1>10. \A t \in Nat : Waits(k, t)' => Waits(k, t) BY <1>1 DEF Waits, Onward
<1>11. \A t \in Nat : Mark(k, t)' => Mark(k, t) BY <1>1, <1>10 DEF Mark, Holds, Onward
<1>12. DroppedBefore
  <2> SUFFICES ASSUME NEW l \in Sinks, NEW i \in Ids, sink[l].chunk = i, sink'[l].chunk # i,
                      NEW t \in Nat, NEW u \in Nat, Plays(i, t)', Mark(l, u)'
      PROVE t < u
    BY DEF DroppedBefore
  <2>1. l = k /\ i = c /\ s.chunk = 0 BY <1>1 DEF Becomes, WithChunk
  <2>2. Plays(c, t) /\ Waits(k, u) BY <1>1, <1>9, <1>10, <2>1 DEF PlaysShrink, Mark, Holds
  <2>3. sink[k].offset + sink[k].n <= u BY <1>1, <2>2 DEF RecInv, RecTimes, InOrder, Holds
  <2>4. row[c].offset = sink[k].offset /\ Len(file[c].plays) <= sink[k].n
    BY <1>1, <2>2 DEF RecShape, OwnChunk, Holds, Plays
  <2>5. /\ row[c].offset \in Nat /\ Len(file[c].plays) \in Nat
    BY <1>1, Typed
  <2>6. sink[k].n \in Nat BY <1>1 DEF RecTypes, SinkRecs
  <2> QED BY <2>2, <2>3, <2>4, <2>5, <2>6 DEF Plays
<1>13. OrderOf(k)'
  <2>1. OrderOf(k) BY DEF RecInv, RecTimes, InOrder, OrderOf
  <2>2. Holds(k)' => \A t \in Nat : Waits(k, t)' => s.offset + s.n <= t
    BY <1>1, <1>10, <2>1 DEF OrderOf, Holds, Onward
  <2> QED BY <1>1, <2>1, <2>2 DEF OrderOf, Onward
<1>14. RowsBounded'
  <2>1. row'[c].status # "none" => row'[c].offset + Len(file'[c].plays) <= MaxTime
    <3>1. /\ row[c].offset \in Nat /\ Len(file[c].plays) \in Nat /\ Len(file'[c].plays) \in Nat
      BY <1>1, <1>2, Typed, TypedNext
    <3>2. row[c].status # "none" => row[c].offset + Len(file[c].plays) <= MaxTime
      BY DEF RecInv, RecTimes, Bounded
    <3> QED BY SMTT(30), <3>1, <3>2, Bounds DEF RowGoesOn, FileGoesOn
  <2>2. \A i \in Ids : i # c /\ row'[i].status # "none" =>
          row'[i].offset + row'[i].length <= MaxTime /\ row'[i].offset + Len(file'[i].plays) <= MaxTime
    BY DEF RecInv, RecTimes, Bounded, WithChunk
  <2> QED BY <2>1, <2>2 DEF RowsBounded, RowGoesOn
<1>15. s.chunk # 0 => s.offset + s.n <= MaxTime /\ s.offset + s.n <= clock
  BY <1>1 DEF RecInv, RecTimes, Bounded, Holds, Onward
<1>16. \A i \in Ids : ProbeWorks /\ row'[i].status \in {"complete", "failed"} /\ file'[i].there =>
                        Len(file'[i].plays) <= row'[i].length
  BY DEF RecInv, RecTimes, InRows, WithChunk, RowGoesOn
<1>17. RecTimes'
  BY <1>1, <1>3, <1>9, <1>10, <1>11, <1>12, <1>13, <1>14, <1>15, <1>16, QuietIsKept DEF Onward
<1>18. OnClock'
  <2> SUFFICES ASSUME NEW i \in Ids, row'[i].status # "none", NEW j \in 1 .. Len(file'[i].plays)
      PROVE file'[i].plays[j] \in {Silence, row'[i].offset + j - 1}
    BY DEF OnClock, Stored
  <2>1. CASE i # c BY <2>1 DEF RecInv, OnClock, Stored, WithChunk
  <2>2. CASE i = c
    <3>1. j \in 1 .. Len(file[c].plays)
      <4>1. Len(file[c].plays) \in Nat /\ Len(file'[c].plays) \in Nat BY <1>1, <1>2, Typed, TypedNext
      <4> QED BY <2>2, <4>1 DEF FileGoesOn
    <3> QED BY <2>2, <3>1 DEF RecInv, OnClock, Stored, RowGoesOn, FileGoesOn
  <2> QED BY <2>1, <2>2
<1>19. RowsSettle'
  <2> SUFFICES ASSUME NEW i \in Ids, row'[i].status = "recording"
      PROVE Being(i)' \/ BeingDeleted(i)' \/ i \in stuck'
    BY DEF RowsSettle
  <2>1. CASE i = c BY <1>1, <2>1 DEF RowGoesOn, Being
  <2>2. CASE i # c
    <3>1. Being(i) \/ BeingDeleted(i) \/ i \in stuck BY <2>2 DEF RecInv, RowsSettle, WithChunk
    <3>2. Being(i) => Being(i)' BY <1>1, <2>2 DEF Being, Becomes
    <3> QED BY <2>2, <3>1, <3>2 DEF Onward
  <2> QED BY <2>1, <2>2
<1> QED BY <1>2, <1>4, <1>5, <1>7, <1>8, <1>17, <1>18, <1>19 DEF RecInv, RecShape

\* Deletions go on by themselves.
LEMMA StillAsked ==
  ASSUME RecInv, NEW k \in Sinks, NEW s \in SinkRecs, NEW c \in Ids, Onward(k, s), WithChunk(k, c, s), del' = del
  PROVE  /\ Asked' /\ del' \in [Deleters -> DelRecs]
         /\ \A i \in Ids : BeingDeleted(i) => BeingDeleted(i)'
<1>1. \A l \in Sinks : sink'[l].chunk # 0 => sink'[l].chunk = sink[l].chunk
  BY DEF Onward, Becomes, WithChunk
<1>2. \A d \in Deleters : del[d].id \in 0 .. MaxChunks BY DEF RecInv, RecShape, RecTypes, DelRecs
<1>3. \A d \in Deleters : del[d].pc = "row" /\ del[d].sink # 0 => ~file'[del[d].id].there
  <2> SUFFICES ASSUME NEW d \in Deleters, del[d].pc = "row", del[d].sink # 0 PROVE ~file'[del[d].id].there
    OBVIOUS
  <2>1. del[d].id \in Ids /\ ~file[del[d].id].there /\ sink[k].chunk # del[d].id
    BY <1>2 DEF RecInv, Asked, Ids
  <2> QED BY <2>1 DEF WithChunk
<1> QED BY <1>1, <1>2, <1>3 DEF RecInv, RecShape, RecTypes, Asked, BeingDeleted, Onward

\* What is known of a sink that has a chunk.
LEMMA ChunkKnown ==
  ASSUME RecInv, NEW k \in Sinks, sink[k].chunk # 0
  PROVE  LET c == sink[k].chunk IN
         /\ c \in Ids /\ c <= made /\ OwnOf(k)
         /\ row \in [Ids -> RowRecs] /\ file \in [Ids -> FileRecs] /\ active \in [Ids -> 0 .. MaxRuns]
         /\ row[c] \in RowRecs /\ file[c] \in FileRecs /\ sink[k] \in SinkRecs
         /\ active[c] \in {0, k}
         /\ row[c].status # "none" => row[c].offset + row[c].length <= MaxTime
         /\ row[c].status # "none" => row[c].offset + sink[k].n <= MaxTime
         /\ left \in Lefts /\ del \in [Deleters -> DelRecs]
<1>1. RecTypes /\ RecShape /\ OneSink BY DEF RecInv, RecShape
<1>2. sink[k] \in SinkRecs /\ sink[k].chunk \in Ids BY <1>1 DEF RecTypes, SinkRecs, Ids
<1>3. OwnOf(k) BY <1>1 DEF RecShape, OwnChunk, OwnOf
<1>4. active[sink[k].chunk] \in {0, k}
  <2>1. active[sink[k].chunk] # 0 => active[sink[k].chunk] \in Sinks BY <1>1, <1>2 DEF RecTypes, Sinks
  <2> QED BY <1>1, <1>2, <2>1 DEF OneSink, Holds
<1>5. row[sink[k].chunk].status # "none" => row[sink[k].chunk].offset + sink[k].n <= MaxTime
  BY <1>2, <1>3 DEF RecInv, RecTimes, Bounded, OwnOf, Holds
<1> QED BY <1>1, <1>2, <1>3, <1>4, <1>5 DEF RecTypes, OneSink, RecInv, RecTimes, Bounded

\* ffmpeg starts, with its file if there is a directory for it.
LEMMA SpawnKeeps ==
  ASSUME RecInv, NEW k \in Sinks, Spawn(k)
  PROVE  RecInv'
<1> DEFINE s == sink[k]
           u == sink'[k]
           c == sink[k].chunk
<1>1. /\ RecTypes /\ s \in SinkRecs /\ s.pc = "spawn" /\ s.chunk # 0 /\ s.n = 0 /\ s.offset = s.frame
      /\ active[c] = 0 /\ dir \in BOOLEAN
      /\ UNCHANGED <<clock, runs, made, deleted, stuck, behind, row, active, dir, del, left>>
  BY DEF RecInv, RecShape, RecTypes, Spawn, Loop, PlaceOfChunk, Holds, OneSink
<1>2. /\ c \in Ids /\ c <= made /\ OwnOf(k)
      /\ row \in [Ids -> RowRecs] /\ file \in [Ids -> FileRecs] /\ active \in [Ids -> 0 .. MaxRuns]
      /\ row[c] \in RowRecs /\ file[c] \in FileRecs
      /\ row[c].status # "none" => row[c].offset + row[c].length <= MaxTime
      /\ left \in Lefts /\ del \in [Deleters -> DelRecs]
  BY <1>1, ChunkKnown
<1>3. /\ Becomes(k, u) /\ u.queue = s.queue /\ u.frame = s.frame
      /\ u.chunk = s.chunk /\ u.offset = s.offset /\ u.n = s.n /\ u.pc = "register"
  <2>1. PICK v : sink' = [sink EXCEPT ![k] = v] /\ v = [s EXCEPT !.pc = "register", !.alive = dir]
    BY Zenon DEF Spawn, Loop
  <2>2. /\ v \in SinkRecs /\ v.queue = s.queue /\ v.frame = s.frame
        /\ v.chunk = s.chunk /\ v.offset = s.offset /\ v.n = s.n /\ v.pc = "register"
    BY <1>1, <2>1 DEF SinkRecs, Places
  <2>3. Becomes(k, v) BY ONLY <1>1, <2>1, <2>2, LoopBecomes, k \in Sinks
  <2> QED BY <2>2, <2>3 DEF Becomes
<1>4. /\ file' \in [Ids -> FileRecs] /\ file'[c].plays = file[c].plays
      /\ \A i \in Ids : i # c => file'[i] = file[i]
  BY <1>1, <1>2 DEF Spawn, FileRecs
<1> HIDE DEF s, u, c
<1>5. u \in SinkRecs BY <1>3 DEF Becomes
<1>6. Onward(k, u)
  BY <1>1, <1>2, <1>3 DEF Onward, PlaceOf, Holds, Taken, s, u
<1>7. WithChunk(k, c, u) BY <1>1, <1>2, <1>3, <1>4 DEF WithChunk, s, c
<1>8. /\ row[c].status \in {"none", "recording"} /\ Len(file[c].plays) = s.n
      /\ row[c].status # "none" => row[c].offset = s.offset
  BY <1>1, <1>2 DEF OwnOf, Holds, s, c
<1>9. RowGoesOn(k, c, u) BY <1>1, <1>2, <1>3, <1>8 DEF RowGoesOn, s, c
<1>10. FileGoesOn(c) BY <1>1, <1>2, <1>4, <1>8 DEF FileGoesOn, FileRecs
<1>11. OwnOf(k)' BY <1>1, <1>3, <1>4, <1>8 DEF OwnOf, Holds, s, u, c
<1> QED BY <1>1, <1>2, <1>5, <1>6, <1>7, <1>9, <1>10, <1>11, StillAsked, ChunkStep

\* UpdateRecording, of a row that may be gone.
LEMMA UpdatedRow ==
  ASSUME row \in [Ids -> RowRecs], NEW c \in Ids, NEW v \in Statuses \ {"none"}, NEW n \in Nat,
         row' = Updated(c, v, n)
  PROVE  /\ row' \in [Ids -> RowRecs] /\ \A i \in Ids : i # c => row'[i] = row[i]
         /\ row'[c] = IF row[c].status = "none" THEN row[c]
                      ELSE [status |-> v, offset |-> row[c].offset, length |-> n]
<1>1. CASE row[c].status = "none" BY <1>1 DEF Updated
<1>2. CASE row[c].status # "none"
  <2>1. row' = [row EXCEPT ![c].status = v, ![c].length = n] BY <1>2 DEF Updated
  <2>2. /\ DOMAIN row' = Ids /\ \A i \in Ids : i # c => row'[i] = row[i]
        /\ row'[c] = [status |-> v, offset |-> row[c].offset, length |-> n]
    BY ONLY <2>1, row \in [Ids -> RowRecs], c \in Ids, v \in Statuses, n \in Nat DEF RowRecs
  <2>3. row'[c] \in RowRecs BY <2>2 DEF RowRecs
  <2>4. row' = [i \in Ids |-> row'[i]] BY ONLY <2>1, row \in [Ids -> RowRecs]
  <2>5. \A i \in Ids : row'[i] \in RowRecs BY <2>2, <2>3
  <2> QED BY ONLY <1>2, <2>2, <2>4, <2>5
<1> QED BY <1>1, <1>2

\* The file of a recording that is cut after n frames.
LEMMA CutFile ==
  ASSUME file \in [Ids -> FileRecs], NEW c \in Ids, NEW n \in 0 .. Len(file[c].plays),
         file' = [file EXCEPT ![c].plays = SubSeq(@, 1, n)]
  PROVE  /\ file' \in [Ids -> FileRecs] /\ file'[c].there = file[c].there
         /\ \A i \in Ids : i # c => file'[i] = file[i]
         /\ Len(file'[c].plays) <= Len(file[c].plays)
         /\ \A j \in 1 .. Len(file'[c].plays) : file'[c].plays[j] = file[c].plays[j]
<1>1. PICK p \in Seq(Nat) : p = file[c].plays BY DEF FileRecs
<1>2. PICK q \in Seq(Nat) : q = SubSeq(p, 1, n) /\ Len(q) = n /\ \A j \in 1 .. n : q[j] = p[j]
  <2>1. /\ 1 \in Int /\ n \in Int /\ n \in Nat /\ \A i \in 1 .. n : p[i] \in Nat BY <1>1
  <2>2. /\ SubSeq(p, 1, n) \in Seq(Nat)
        /\ Len(SubSeq(p, 1, n)) = IF 1 <= n THEN n - 1 + 1 ELSE 0
        /\ \A i \in 1 .. n - 1 + 1 : SubSeq(p, 1, n)[i] = p[1 + i - 1]
    BY ONLY <2>1, SubSeqProperties
  <2>3. n - 1 + 1 = n /\ \A i \in 1 .. n : 1 + i - 1 = i BY ONLY <2>1
  <2>4. Len(SubSeq(p, 1, n)) = n BY ONLY <2>1, <2>2, <2>3
  <2>5. \A i \in 1 .. n : SubSeq(p, 1, n)[i] = p[i] BY ONLY <2>2, <2>3
  <2> QED BY ONLY <2>2, <2>4, <2>5
<1>3. /\ file'[c].plays = q /\ file'[c].there = file[c].there /\ DOMAIN file' = Ids
      /\ \A i \in Ids : i # c => file'[i] = file[i]
      /\ file'[c] = [there |-> file[c].there, plays |-> q]
  BY <1>1, <1>2 DEF FileRecs
<1>4. file'[c] \in FileRecs BY <1>2, <1>3 DEF FileRecs
<1>5. file' = [i \in Ids |-> file'[i]] BY ONLY file \in [Ids -> FileRecs],
      file' = [file EXCEPT ![c].plays = SubSeq(@, 1, n)]
<1>6. file' \in [Ids -> FileRecs] BY <1>3, <1>4, <1>5
<1>7. n <= Len(p) BY <1>1
<1> QED BY <1>1, <1>2, <1>3, <1>6, <1>7

\* ffmpeg does not start: the chunk is let go and its row settled, if
\* the store takes it.
LEMMA SpawnFailsKeeps ==
  ASSUME RecInv, NEW k \in Sinks, SpawnFails(k)
  PROVE  RecInv'
<1> DEFINE s == sink[k]
           u == sink'[k]
           c == sink[k].chunk
<1>1. /\ RecTypes /\ s \in SinkRecs /\ s.pc = "spawn" /\ s.chunk # 0 /\ k # 0 /\ s.n = 0 /\ active[s.chunk] = 0
      /\ UNCHANGED <<clock, runs, deleted, behind, file, made, active, dir, del>>
      /\ \/ row' = Updated(s.chunk, "failed", 0) /\ stuck' = stuck
         \/ row' = row /\ stuck' = stuck \cup {s.chunk}
  BY DEF RecInv, RecShape, RecTypes, SpawnFails, Loop, LoopStuck, PlaceOfChunk, Holds, OneSink, Sinks
<1>2. /\ c \in Ids /\ c <= made /\ OwnOf(k)
      /\ row \in [Ids -> RowRecs] /\ file \in [Ids -> FileRecs] /\ active \in [Ids -> 0 .. MaxRuns]
      /\ row[c] \in RowRecs /\ file[c] \in FileRecs /\ active[c] \in {0, k}
      /\ row[c].status # "none" => row[c].offset + row[c].length <= MaxTime
      /\ row[c].status # "none" => row[c].offset + s.n <= MaxTime
      /\ left \in Lefts /\ del \in [Deleters -> DelRecs]
  BY <1>1, ChunkKnown
<1>3. /\ Becomes(k, u) /\ u.queue = s.queue
      /\ u.chunk = 0 /\ u.pc = "loop"
  <2>0. 0 \in 0 .. MaxChunks BY Bounds
  <2>1. PICK v : sink' = [sink EXCEPT ![k] = v] /\ v = [s EXCEPT !.pc = "loop", !.chunk = 0, !.err = "failed", !.frame = 0]
    BY Zenon DEF SpawnFails, Loop, LoopStuck
  <2>2. /\ v \in SinkRecs /\ v.queue = s.queue
        /\ v.chunk = 0 /\ v.pc = "loop"
    BY ONLY <1>1, <2>0, <2>1 DEF SinkRecs, Places, Errs
  <2>3. Becomes(k, v) BY ONLY <1>1, <2>1, <2>2, LoopBecomes, k \in Sinks
  <2> QED BY <2>2, <2>3 DEF Becomes
<1>4. /\ row' \in [Ids -> RowRecs] /\ \A i \in Ids : i # c => row'[i] = row[i]
      /\ stuck \subseteq stuck'
      /\ \/ row'[c] = row[c] /\ c \in stuck'
         \/ row'[c] = IF row[c].status = "none" THEN row[c]
                      ELSE [status |-> "failed", offset |-> row[c].offset, length |-> 0]
  <2>1. CASE row' = row /\ stuck' = stuck \cup {s.chunk} BY <1>2, <2>1
  <2>2. CASE row' = Updated(s.chunk, "failed", 0) /\ stuck' = stuck
    <3>1. PICK v \in Statuses \ {"none"}, n \in Nat : row' = Updated(c, v, n) /\ v = "failed" /\ n = 0
      BY <2>2 DEF Statuses
    <3> QED BY <1>2, <2>2, <3>1, UpdatedRow
  <2> QED BY <1>1, <2>1, <2>2
<1> HIDE DEF s, u, c
<1>5. u \in SinkRecs BY <1>3 DEF Becomes
<1>6. Onward(k, u)
  <2>1. left' \in Lefts /\ left'.runs = left.runs BY <1>1, <1>2, HappensLeft DEF SpawnFails
  <2> QED BY <1>1, <1>2, <1>3, <1>4, <2>1 DEF Onward, PlaceOf, Holds, Taken, s, u
<1>7. WithChunk(k, c, u) BY <1>1, <1>2, <1>3, <1>4 DEF WithChunk, s, c
<1>8. /\ row[c].status \in {"none", "recording"} /\ Len(file[c].plays) = s.n
      /\ row[c].status # "none" => row[c].offset = s.offset
  BY <1>1, <1>2 DEF OwnOf, Holds, s, c
<1>9. RowGoesOn(k, c, u) BY <1>1, <1>2, <1>3, <1>4, <1>8 DEF RowGoesOn, s, c
<1>10. FileGoesOn(c) BY <1>1, <1>2, <1>4, <1>8 DEF FileGoesOn, FileRecs
<1>11. OwnOf(k)' BY <1>1, <1>2, <1>3, <1>4, <1>8 DEF OwnOf, Holds, s, u, c
<1> QED BY <1>1, <1>2, <1>5, <1>6, <1>7, <1>9, <1>10, <1>11, StillAsked, ChunkStep

\* The chunk is entered in active.
LEMMA RegisterKeeps ==
  ASSUME RecInv, NEW k \in Sinks, Register(k)
  PROVE  RecInv'
<1> DEFINE s == sink[k]
           u == sink'[k]
           c == sink[k].chunk
<1>1. /\ RecTypes /\ s \in SinkRecs /\ s.pc = "register" /\ s.chunk # 0 /\ k \in 1 .. MaxRuns
      /\ UNCHANGED <<clock, runs, deleted, stuck, behind, row, file, made, dir, del, left>>
  BY DEF RecInv, RecShape, RecTypes, Register, Loop, PlaceOfChunk, Holds, OneSink, Sinks, Sinks
<1>2. /\ c \in Ids /\ c <= made /\ OwnOf(k)
      /\ row \in [Ids -> RowRecs] /\ file \in [Ids -> FileRecs] /\ active \in [Ids -> 0 .. MaxRuns]
      /\ row[c] \in RowRecs /\ file[c] \in FileRecs /\ active[c] \in {0, k}
      /\ row[c].status # "none" => row[c].offset + row[c].length <= MaxTime
      /\ row[c].status # "none" => row[c].offset + s.n <= MaxTime
      /\ left \in Lefts /\ del \in [Deleters -> DelRecs]
  BY <1>1, ChunkKnown
<1>3. /\ Becomes(k, u) /\ u.queue = s.queue
      /\ u.chunk = s.chunk /\ u.pc = "write" /\ u.frame = s.frame /\ u.offset = s.offset /\ u.n = s.n
  <2>0. 0 \in 0 .. MaxChunks BY Bounds
  <2>1. PICK v : sink' = [sink EXCEPT ![k] = v] /\ v = [s EXCEPT !.pc = "write"]
    BY Zenon DEF Register, Loop
  <2>2. /\ v \in SinkRecs /\ v.queue = s.queue
        /\ v.chunk = s.chunk /\ v.pc = "write" /\ v.frame = s.frame /\ v.offset = s.offset /\ v.n = s.n
    BY ONLY <1>1, <2>0, <2>1 DEF SinkRecs, Places
  <2>3. Becomes(k, v) BY ONLY <1>1, <2>1, <2>2, LoopBecomes, k \in Sinks
  <2> QED BY <2>2, <2>3 DEF Becomes
<1>4. /\ active' \in [Ids -> 0 .. MaxRuns] /\ active'[c] = k
      /\ \A i \in Ids : i # c => active'[i] = active[i]
  BY <1>1, <1>2, Bounds DEF Register
<1> HIDE DEF s, u, c
<1>5. u \in SinkRecs BY <1>3 DEF Becomes
<1>6. Onward(k, u)
  <2>1. left' \in Lefts /\ left'.runs = left.runs BY <1>1, <1>2, HappensLeft DEF Register
  <2> QED BY <1>1, <1>2, <1>3, <2>1 DEF Onward, PlaceOf, Holds, Taken, s, u
<1>7. WithChunk(k, c, u) BY <1>1, <1>2, <1>3, <1>4 DEF WithChunk, s, c
<1>8. /\ row[c].status \in {"none", "recording"} /\ Len(file[c].plays) = s.n
      /\ row[c].status # "none" => row[c].offset = s.offset
  BY <1>1, <1>2 DEF OwnOf, Holds, s, c
<1>9. RowGoesOn(k, c, u) BY <1>1, <1>2, <1>3, <1>4, <1>8 DEF RowGoesOn, s, c
<1>10. FileGoesOn(c) BY <1>1, <1>2, <1>4, <1>8 DEF FileGoesOn, FileRecs
<1>11. OwnOf(k)' BY <1>1, <1>2, <1>3, <1>4, <1>8 DEF OwnOf, Holds, s, u, c
<1> QED BY <1>1, <1>2, <1>5, <1>6, <1>7, <1>9, <1>10, <1>11, StillAsked, ChunkStep

\* ffmpeg stops: the file is what was flushed.
LEMMA WriteFailsKeeps ==
  ASSUME RecInv, NEW k \in Sinks, WriteFails(k)
  PROVE  RecInv'
<1> DEFINE s == sink[k]
           u == sink'[k]
           c == sink[k].chunk
<1>1. /\ RecTypes /\ s \in SinkRecs /\ s.pc = "write" /\ s.chunk # 0
      /\ UNCHANGED <<clock, runs, deleted, stuck, behind, row, made, active, dir, del>>
  BY DEF RecInv, RecShape, RecTypes, WriteFails, Loop, PlaceOfChunk, Holds, OneSink, Sinks
<1>2. /\ c \in Ids /\ c <= made /\ OwnOf(k)
      /\ row \in [Ids -> RowRecs] /\ file \in [Ids -> FileRecs] /\ active \in [Ids -> 0 .. MaxRuns]
      /\ row[c] \in RowRecs /\ file[c] \in FileRecs /\ active[c] \in {0, k}
      /\ row[c].status # "none" => row[c].offset + row[c].length <= MaxTime
      /\ row[c].status # "none" => row[c].offset + s.n <= MaxTime
      /\ left \in Lefts /\ del \in [Deleters -> DelRecs]
  BY <1>1, ChunkKnown
<1>3. /\ Becomes(k, u) /\ u.queue = s.queue
      /\ u.chunk = s.chunk /\ u.pc = "finish" /\ u.then = "loop" /\ u.offset = s.offset /\ u.n = s.n
  <2>0. 0 \in 0 .. MaxChunks BY Bounds
  <2>1. PICK v : sink' = [sink EXCEPT ![k] = v] /\ v = [s EXCEPT !.pc = "finish", !.then = "loop", !.err = "failed", !.frame = 0]
    BY Zenon DEF WriteFails, Loop
  <2>2. /\ v \in SinkRecs /\ v.queue = s.queue
        /\ v.chunk = s.chunk /\ v.pc = "finish" /\ v.then = "loop" /\ v.offset = s.offset /\ v.n = s.n
    BY ONLY <1>1, <2>0, <2>1 DEF SinkRecs, Places, Errs
  <2>3. Becomes(k, v) BY ONLY <1>1, <2>1, <2>2, LoopBecomes, k \in Sinks
  <2> QED BY <2>2, <2>3 DEF Becomes
<1>4. /\ file' \in [Ids -> FileRecs] /\ file'[c].there = file[c].there
      /\ \A i \in Ids : i # c => file'[i] = file[i]
      /\ Len(file'[c].plays) <= Len(file[c].plays)
      /\ \A j \in 1 .. Len(file'[c].plays) : file'[c].plays[j] = file[c].plays[j]
  <2>1. PICK n \in 0 .. Len(file[c].plays) : file' = [file EXCEPT ![c].plays = SubSeq(@, 1, n)]
    BY DEF WriteFails
  <2> QED BY <1>2, <2>1, CutFile
<1> HIDE DEF s, u, c
<1>5. u \in SinkRecs BY <1>3 DEF Becomes
<1>6. Onward(k, u)
  <2>1. left' \in Lefts /\ left'.runs = left.runs BY <1>1, <1>2, HappensLeft DEF WriteFails
  <2> QED BY <1>1, <1>2, <1>3, <2>1 DEF Onward, PlaceOf, Holds, Taken, s, u
<1>7. WithChunk(k, c, u) BY <1>1, <1>2, <1>3, <1>4 DEF WithChunk, s, c
<1>8. /\ row[c].status \in {"none", "recording"} /\ Len(file[c].plays) = s.n
      /\ row[c].status # "none" => row[c].offset = s.offset
  BY <1>1, <1>2 DEF OwnOf, Holds, s, c
<1>9. RowGoesOn(k, c, u) BY <1>1, <1>2, <1>3, <1>4, <1>8 DEF RowGoesOn, s, c
<1>10. FileGoesOn(c) BY <1>1, <1>2, <1>4, <1>8 DEF FileGoesOn, FileRecs
<1>11. OwnOf(k)' BY <1>1, <1>2, <1>3, <1>4, <1>8 DEF OwnOf, Holds, s, u, c
<1> QED BY <1>1, <1>2, <1>5, <1>6, <1>7, <1>9, <1>10, <1>11, StillAsked, ChunkStep

\* The row of a chunk is settled by its file.
LEMMA FinishKeeps ==
  ASSUME RecInv, NEW k \in Sinks, Finish(k)
  PROVE  RecInv'
<1> DEFINE s == sink[k]
           u == sink'[k]
           c == sink[k].chunk
<1>1. /\ RecTypes /\ s \in SinkRecs /\ s.pc = "finish" /\ s.chunk # 0 /\ s.then # "none"
      /\ UNCHANGED <<clock, runs, deleted, stuck, behind, file, made, active, dir, del, left>>
  BY DEF RecInv, RecShape, RecTypes, Finish, Loop, PlaceOfChunk, Holds, OneSink, Sinks
<1>2. /\ c \in Ids /\ c <= made /\ OwnOf(k)
      /\ row \in [Ids -> RowRecs] /\ file \in [Ids -> FileRecs] /\ active \in [Ids -> 0 .. MaxRuns]
      /\ row[c] \in RowRecs /\ file[c] \in FileRecs /\ active[c] \in {0, k}
      /\ row[c].status # "none" => row[c].offset + row[c].length <= MaxTime
      /\ row[c].status # "none" => row[c].offset + s.n <= MaxTime
      /\ left \in Lefts /\ del \in [Deleters -> DelRecs]
  BY <1>1, ChunkKnown
<1>3. /\ Becomes(k, u) /\ u.queue = s.queue
      /\ u.chunk = s.chunk /\ u.pc = "unregister" /\ u.then = s.then /\ u.frame = s.frame /\ u.offset = s.offset /\ u.n = s.n
  <2>0. 0 \in 0 .. MaxChunks BY Bounds
  <2>1. PICK v : sink' = [sink EXCEPT ![k] = v] /\ v = [s EXCEPT !.pc = "unregister"]
    BY Zenon DEF Finish, Loop
  <2>2. /\ v \in SinkRecs /\ v.queue = s.queue
        /\ v.chunk = s.chunk /\ v.pc = "unregister" /\ v.then = s.then /\ v.frame = s.frame /\ v.offset = s.offset /\ v.n = s.n
    BY ONLY <1>1, <2>0, <2>1 DEF SinkRecs, Places
  <2>3. Becomes(k, v) BY ONLY <1>1, <2>1, <2>2, LoopBecomes, k \in Sinks
  <2> QED BY <2>2, <2>3 DEF Becomes
<1>4. /\ row' \in [Ids -> RowRecs] /\ \A i \in Ids : i # c => row'[i] = row[i]
      /\ row'[c] = IF row[c].status = "none" THEN row[c]
                   ELSE [status |-> Verdict(c), offset |-> row[c].offset, length |-> s.n]
  <2>1. PICK v \in Statuses \ {"none"}, n \in Nat : row' = Updated(c, v, n) /\ v = Verdict(c) /\ n = s.n
    BY <1>1 DEF Finish, Statuses, Verdict, SinkRecs
  <2> QED BY <1>2, <2>1, UpdatedRow
<1>12. Verdict(c) \in {"complete", "failed"} BY DEF Verdict
<1> HIDE DEF s, u, c
<1>5. u \in SinkRecs BY <1>3 DEF Becomes
<1>6. Onward(k, u)
  <2>1. left' \in Lefts /\ left'.runs = left.runs BY <1>1, <1>2, HappensLeft DEF Finish
  <2> QED BY <1>1, <1>2, <1>3, <2>1 DEF Onward, PlaceOf, Holds, Taken, s, u
<1>7. WithChunk(k, c, u) BY <1>1, <1>2, <1>3, <1>4 DEF WithChunk, s, c
<1>8. /\ row[c].status \in {"none", "recording"} /\ Len(file[c].plays) <= s.n
      /\ row[c].status # "none" => row[c].offset = s.offset
  BY <1>1, <1>2 DEF OwnOf, Holds, s, c
<1>9. RowGoesOn(k, c, u) BY <1>1, <1>2, <1>3, <1>4, <1>8, <1>12 DEF RowGoesOn, s, c
<1>10. FileGoesOn(c) BY <1>1, <1>2, <1>4, <1>8 DEF FileGoesOn, FileRecs
<1>11. OwnOf(k)' BY <1>1, <1>2, <1>3, <1>4, <1>8, <1>12 DEF OwnOf, Holds, s, u, c
<1> QED BY <1>1, <1>2, <1>5, <1>6, <1>7, <1>9, <1>10, <1>11, StillAsked, ChunkStep

\* The store refuses that: the row stays as it is.
LEMMA FinishFailsKeeps ==
  ASSUME RecInv, NEW k \in Sinks, FinishFails(k)
  PROVE  RecInv'
<1> DEFINE s == sink[k]
           u == sink'[k]
           c == sink[k].chunk
<1>1. /\ RecTypes /\ s \in SinkRecs /\ s.pc = "finish" /\ s.chunk # 0 /\ s.then # "none"
      /\ UNCHANGED <<clock, runs, deleted, behind, row, file, made, active, dir, del>>
      /\ stuck' = stuck \cup {s.chunk}
  BY DEF RecInv, RecShape, RecTypes, FinishFails, LoopStuck, PlaceOfChunk, Holds, OneSink, Sinks
<1>2. /\ c \in Ids /\ c <= made /\ OwnOf(k)
      /\ row \in [Ids -> RowRecs] /\ file \in [Ids -> FileRecs] /\ active \in [Ids -> 0 .. MaxRuns]
      /\ row[c] \in RowRecs /\ file[c] \in FileRecs /\ active[c] \in {0, k}
      /\ row[c].status # "none" => row[c].offset + row[c].length <= MaxTime
      /\ row[c].status # "none" => row[c].offset + s.n <= MaxTime
      /\ left \in Lefts /\ del \in [Deleters -> DelRecs]
  BY <1>1, ChunkKnown
<1>3. /\ Becomes(k, u) /\ u.queue = s.queue
      /\ u.chunk = s.chunk /\ u.pc = "unregister" /\ u.then = s.then /\ u.frame = s.frame /\ u.offset = s.offset /\ u.n = s.n
  <2>0. 0 \in 0 .. MaxChunks BY Bounds
  <2>1. PICK v : sink' = [sink EXCEPT ![k] = v] /\ v = [s EXCEPT !.pc = "unregister"]
    BY Zenon DEF FinishFails, LoopStuck
  <2>2. /\ v \in SinkRecs /\ v.queue = s.queue
        /\ v.chunk = s.chunk /\ v.pc = "unregister" /\ v.then = s.then /\ v.frame = s.frame /\ v.offset = s.offset /\ v.n = s.n
    BY ONLY <1>1, <2>0, <2>1 DEF SinkRecs, Places
  <2>3. Becomes(k, v) BY ONLY <1>1, <2>1, <2>2, LoopBecomes, k \in Sinks
  <2> QED BY <2>2, <2>3 DEF Becomes
<1> HIDE DEF s, u, c
<1>5. u \in SinkRecs BY <1>3 DEF Becomes
<1>6. Onward(k, u)
  <2>1. left' \in Lefts /\ left'.runs = left.runs BY <1>1, <1>2, HappensLeft DEF FinishFails
  <2> QED BY <1>1, <1>2, <1>3, <2>1 DEF Onward, PlaceOf, Holds, Taken, s, u
<1>7. WithChunk(k, c, u) BY <1>1, <1>2, <1>3 DEF WithChunk, s, c
<1>8. /\ row[c].status \in {"none", "recording"} /\ Len(file[c].plays) <= s.n
      /\ row[c].status # "none" => row[c].offset = s.offset
  BY <1>1, <1>2 DEF OwnOf, Holds, s, c
<1>9. RowGoesOn(k, c, u) BY <1>1, <1>2, <1>3, <1>8 DEF RowGoesOn, s, c
<1>10. FileGoesOn(c) BY <1>1, <1>2, <1>8 DEF FileGoesOn, FileRecs
<1>11. OwnOf(k)' BY <1>1, <1>2, <1>3, <1>8 DEF OwnOf, Holds, s, u, c
<1> QED BY <1>1, <1>2, <1>5, <1>6, <1>7, <1>9, <1>10, <1>11, StillAsked, ChunkStep

\* Active forgets the chunk, and its sink goes on to what it is to do next.
LEMMA UnregisterKeeps ==
  ASSUME RecInv, NEW k \in Sinks, Unregister(k)
  PROVE  RecInv'
<1> DEFINE s == sink[k]
           u == sink'[k]
           c == sink[k].chunk
<1>1. /\ RecTypes /\ s \in SinkRecs /\ s.pc = "unregister" /\ s.chunk # 0 /\ k # 0 /\ s.then \in {"create", "done", "loop"}
      /\ UNCHANGED <<clock, runs, deleted, stuck, behind, row, file, made, dir, del, left>>
  BY DEF RecInv, RecShape, RecTypes, Unregister, Loop, PlaceOfChunk, Holds, OneSink, Sinks, SinkRecs
<1>2. /\ c \in Ids /\ c <= made /\ OwnOf(k)
      /\ row \in [Ids -> RowRecs] /\ file \in [Ids -> FileRecs] /\ active \in [Ids -> 0 .. MaxRuns]
      /\ row[c] \in RowRecs /\ file[c] \in FileRecs /\ active[c] \in {0, k}
      /\ row[c].status # "none" => row[c].offset + row[c].length <= MaxTime
      /\ row[c].status # "none" => row[c].offset + s.n <= MaxTime
      /\ left \in Lefts /\ del \in [Deleters -> DelRecs]
  BY <1>1, ChunkKnown
<1>3. /\ Becomes(k, u) /\ u.queue = s.queue
      /\ u.chunk = 0 /\ u.pc = s.then /\ u.frame = s.frame
  <2>0. 0 \in 0 .. MaxChunks BY Bounds
  <2>1. PICK v : sink' = [sink EXCEPT ![k] = v] /\ v = [s EXCEPT !.pc = s.then, !.then = "none", !.chunk = 0]
    BY Zenon DEF Unregister, Loop
  <2>2. /\ v \in SinkRecs /\ v.queue = s.queue
        /\ v.chunk = 0 /\ v.pc = s.then /\ v.frame = s.frame
    BY ONLY <1>1, <2>0, <2>1 DEF SinkRecs, Places
  <2>3. Becomes(k, v) BY ONLY <1>1, <2>1, <2>2, LoopBecomes, k \in Sinks
  <2> QED BY <2>2, <2>3 DEF Becomes
<1>4. /\ active' \in [Ids -> 0 .. MaxRuns] /\ active'[c] = 0
      /\ \A i \in Ids : i # c => active'[i] = active[i]
  BY <1>1, <1>2, Bounds DEF Unregister
<1> HIDE DEF s, u, c
<1>5. u \in SinkRecs BY <1>3 DEF Becomes
<1>6. Onward(k, u)
  <2>1. left' \in Lefts /\ left'.runs = left.runs BY <1>1, <1>2, HappensLeft DEF Unregister
  <2> QED BY <1>1, <1>2, <1>3, <2>1 DEF Onward, PlaceOf, Holds, Taken, s, u
<1>7. WithChunk(k, c, u) BY <1>1, <1>2, <1>3, <1>4 DEF WithChunk, s, c
<1>8. /\ (row[c].status = "recording" => c \in stuck) /\ Len(file[c].plays) <= s.n
      /\ row[c].status # "none" => row[c].offset = s.offset
  BY <1>1, <1>2 DEF OwnOf, Holds, s, c
<1>9. RowGoesOn(k, c, u) BY <1>1, <1>2, <1>3, <1>4, <1>8 DEF RecInv, RecTimes, InRows, RowRecs, Statuses, RowGoesOn, s, c
<1>10. FileGoesOn(c) BY <1>1, <1>2, <1>4, <1>8 DEF FileGoesOn, FileRecs
<1>11. OwnOf(k)' BY <1>1, <1>2, <1>3, <1>4, <1>8 DEF OwnOf, Holds, s, u, c
<1> QED BY <1>1, <1>2, <1>5, <1>6, <1>7, <1>9, <1>10, <1>11, StillAsked, ChunkStep

\* A step of a deletion alone.
LEMMA DeletionStep ==
  ASSUME RecInv, UNCHANGED <<clock, runs, sink, made, active, behind>>, stuck \subseteq stuck', dir' \in BOOLEAN,
         left' \in Lefts, left'.runs = left.runs, del' \in [Deleters -> DelRecs],
         row' \in [Ids -> RowRecs], file' \in [Ids -> FileRecs],
         \A i \in Ids : /\ row'[i] = row[i] \/ (row'[i] = NoRow /\ i <= made)
                        /\ file'[i].plays = file[i].plays /\ (file'[i].there => file[i].there)
                        /\ i > made => file'[i] = file[i],
         RowsSettle', Asked'
  PROVE  RecInv'
<1>1. /\ RecTypes /\ RecShape /\ RecTimes /\ made \in Nat
      /\ \A k \in Sinks : sink[k] \in SinkRecs
  BY DEF RecInv, RecShape, RecTypes
<1>2. RecTypes' BY <1>1 DEF RecTypes
<1>3. Started' BY <1>1 DEF RecShape, Started
<1>4. PlaceOfChunk' BY <1>1 DEF RecShape, PlaceOfChunk, Holds
<1>5. OneSink'
  <2>1. \A i \in Ids : i > made => row'[i] = row[i] BY <1>1 DEF Ids
  <2> QED BY <1>1, <2>1 DEF RecShape, OneSink, Holds
<1>6. OwnChunk'
  <2> SUFFICES ASSUME NEW k \in Sinks, sink[k].chunk # 0 PROVE OwnOf(k)'
    BY DEF OwnChunk, OwnOf, Holds
  <2>1. sink[k].chunk \in Ids BY <1>1 DEF SinkRecs, Ids
  <2>2. OwnOf(k) BY <1>1 DEF RecShape, OwnChunk, OwnOf
  <2> QED BY <2>1, <2>2 DEF OwnOf, Holds, NoRow
<1>7. MarksShrink BY DEF MarksShrink, Mark, Waits, Taken, Holds
<1>8. PlaysShrink BY DEF PlaysShrink, Plays, NoRow
<1>9. SameRuns BY DEF SameRuns
<1>10. RunsInOrder' /\ SpanFree' /\ PlaysApart' /\ BeforeClock'
  BY <1>7, <1>8, <1>9, QuietTimes DEF Quiet, DroppedBefore
<1>11. InOrder' BY <1>1 DEF RecTimes, InOrder, Waits, Taken, Holds
<1>12. InRows' BY <1>1 DEF RecTimes, InRows, Fresh, NoRow
<1>13. Bounded' BY <1>1 DEF RecTimes, Bounded, Waits, Taken, Holds, NoRow
<1>14. OnClock' BY DEF RecInv, OnClock, Stored, NoRow
<1> QED BY <1>2, <1>3, <1>4, <1>5, <1>6, <1>10, <1>11, <1>12, <1>13, <1>14 DEF RecInv, RecShape, RecTimes

\* What is known of deletions.
LEMMA DeletionKnown ==
  ASSUME RecInv, NEW d \in Deleters
  PROVE  /\ del \in [Deleters -> DelRecs] /\ del[d] \in DelRecs /\ left \in Lefts
         /\ row \in [Ids -> RowRecs] /\ file \in [Ids -> FileRecs] /\ active \in [Ids -> 0 .. MaxRuns]
         /\ made \in Nat /\ dir \in BOOLEAN /\ Idle \in DelRecs /\ Idle.pc = "idle" /\ Idle.id = 0
         /\ del[d].pc # "idle" => del[d].id \in Ids /\ del[d].id <= made
         /\ \A i \in Ids : row[i].status # "none" => i <= made
<1>1. RecTypes /\ OneSink /\ Asked BY DEF RecInv, RecShape
<1>2. Idle \in DelRecs /\ Idle.pc = "idle" /\ Idle.id = 0 BY Bounds DEF Idle, DelRecs
<1>3. made \in Nat BY <1>1 DEF RecTypes
<1>4. \A i \in Ids : row[i].status # "none" => i <= made BY <1>1, <1>3 DEF OneSink, NoRow, Ids
<1>5. del[d] \in DelRecs BY <1>1 DEF RecTypes
<1>6. del[d].pc # "idle" => del[d].id \in Ids /\ del[d].id <= made
  BY <1>1, <1>5 DEF Asked, DelRecs, Ids
<1> QED BY <1>1, <1>2, <1>3, <1>4, <1>5, <1>6 DEF RecTypes

\* A deletion that goes on with what it is about.
LEMMA DeletionGoes ==
  ASSUME RecInv, NEW d \in Deleters, NEW p \in {"remove", "row"},
         del' = [del EXCEPT ![d].pc = p]
  PROVE  /\ del' \in [Deleters -> DelRecs] /\ del'[d].pc = p
         /\ del'[d].id = del[d].id /\ del'[d].sink = del[d].sink
         /\ \A e \in Deleters : e # d => del'[e] = del[e]
         /\ \A i \in Ids : BeingDeleted(i) => BeingDeleted(i)'
<1>1. del \in [Deleters -> DelRecs] BY DeletionKnown
<1>2. /\ del' \in [Deleters -> DelRecs] /\ del'[d].pc = p
      /\ del'[d].id = del[d].id /\ del'[d].sink = del[d].sink
      /\ \A e \in Deleters : e # d => del'[e] = del[e]
  BY <1>1 DEF DelRecs
<1> QED BY <1>2 DEF BeingDeleted

\* A deletion begins.
LEMMA GetKeeps == ASSUME RecInv, NEW d \in Deleters, Get(d) PROVE RecInv'
<1>1. /\ del \in [Deleters -> DelRecs] /\ del[d] \in DelRecs /\ left \in Lefts
      /\ row \in [Ids -> RowRecs] /\ file \in [Ids -> FileRecs] /\ dir \in BOOLEAN
      /\ del[d].pc = "idle" /\ del[d].id = 0
      /\ \A i \in Ids : row[i].status # "none" => i <= made
  BY DeletionKnown DEF Get, RecInv, Asked
<1>2. PICK i \in Ids : row[i].status # "none" /\ del' = [del EXCEPT ![d] = [pc |-> "look", id |-> i, sink |-> 0]]
  BY DEF Get, Stored
<1>3. /\ del' \in [Deleters -> DelRecs] /\ del'[d] = [pc |-> "look", id |-> i, sink |-> 0]
      /\ \A e \in Deleters : e # d => del'[e] = del[e]
  BY <1>1, <1>2, Bounds DEF DelRecs, Ids
<1>4. left' \in Lefts /\ left'.runs = left.runs BY <1>1, HappensLeft DEF Get
<1>5. UNCHANGED <<clock, runs, sink, made, active, row, file, dir, deleted, stuck, behind>> BY DEF Get, DeleteOnly
<1>6. Asked' BY <1>1, <1>2, <1>3, <1>5 DEF RecInv, Asked, Ids
<1>7. \A j \in Ids : BeingDeleted(j) => BeingDeleted(j)' BY <1>1, <1>3 DEF BeingDeleted, Ids
<1>8. RowsSettle' BY <1>5, <1>7 DEF RecInv, RowsSettle, Being
<1> QED BY <1>1, <1>3, <1>4, <1>5, <1>6, <1>8, DeletionStep

\* A deletion finds the sink of the recording, or none.
LEMMA LookKeeps == ASSUME RecInv, NEW d \in Deleters, Look(d) PROVE RecInv'
<1> DEFINE k == active[del[d].id]
<1>1. /\ del \in [Deleters -> DelRecs] /\ del[d] \in DelRecs /\ left \in Lefts
      /\ row \in [Ids -> RowRecs] /\ file \in [Ids -> FileRecs] /\ dir \in BOOLEAN
      /\ active \in [Ids -> 0 .. MaxRuns]
      /\ del[d].pc = "look" /\ del[d].id \in Ids /\ del[d].id <= made
  BY DeletionKnown DEF Look
<1>2. k \in 0 .. MaxRuns /\ (k # 0 => k \in Sinks /\ sink[k].chunk = del[d].id)
  <2>1. k \in 0 .. MaxRuns BY <1>1
  <2>2. k # 0 => k \in Sinks BY <2>1 DEF Sinks
  <2> QED BY <1>1, <2>1, <2>2 DEF RecInv, RecShape, OneSink
<1>3. /\ del' \in [Deleters -> DelRecs]
      /\ del'[d] = [pc |-> IF k = 0 THEN "remove" ELSE "abort", id |-> del[d].id, sink |-> k]
      /\ \A e \in Deleters : e # d => del'[e] = del[e]
  BY <1>1, <1>2 DEF Look, DelRecs
<1> HIDE DEF k
<1>4. UNCHANGED <<clock, runs, sink, made, active, row, file, dir, deleted, stuck, behind, left>> BY DEF Look, DeleteOnly
<1>5. k # 0 => \A l \in Sinks : sink[l].chunk = del[d].id => l = k
  BY <1>1, <1>2 DEF RecInv, RecShape, OneSink, Holds, Ids
<1>6. Asked' BY <1>1, <1>3, <1>4, <1>5 DEF RecInv, Asked, Ids
<1>7. \A j \in Ids : BeingDeleted(j) => BeingDeleted(j)' BY <1>1, <1>3 DEF BeingDeleted
<1>8. RowsSettle' BY <1>4, <1>7 DEF RecInv, RowsSettle, Being
<1> QED BY <1>1, <1>3, <1>4, <1>6, <1>8, DeletionStep

\* The sink is done: it writes nothing.
LEMMA AbortDoneKeeps == ASSUME RecInv, NEW d \in Deleters, AbortDone(d) PROVE RecInv'
<1>1. /\ del \in [Deleters -> DelRecs] /\ del[d] \in DelRecs /\ left \in Lefts
      /\ row \in [Ids -> RowRecs] /\ file \in [Ids -> FileRecs] /\ dir \in BOOLEAN
      /\ del[d].pc = "abort" /\ del[d].id \in Ids /\ del[d].id <= made /\ sink[del[d].sink].pc = "done"
      /\ del[d].sink # 0 /\ del[d].sink \in 0 .. MaxRuns
  BY DeletionKnown DEF AbortDone, RecInv, Asked, DelRecs
<1>2. /\ del' \in [Deleters -> DelRecs] /\ del'[d].pc = "remove"
      /\ del'[d].id = del[d].id /\ del'[d].sink = del[d].sink
      /\ \A e \in Deleters : e # d => del'[e] = del[e]
      /\ \A i \in Ids : BeingDeleted(i) => BeingDeleted(i)'
  BY DeletionGoes DEF AbortDone
<1>3. UNCHANGED <<clock, runs, sink, made, active, row, file, dir, deleted, stuck, behind, left>>
  BY DEF AbortDone, DeleteOnly
<1>4. \A l \in Sinks : sink[l].chunk # del[d].id
  <2>1. del[d].sink \in Sinks BY <1>1 DEF Sinks
  <2>2. sink[del[d].sink].chunk = 0 BY <1>1, <2>1 DEF RecInv, RecShape, PlaceOfChunk, Holds
  <2> QED BY <1>1, <2>2 DEF RecInv, Asked, Ids
<1>5. Asked' BY <1>1, <1>2, <1>3, <1>4 DEF RecInv, Asked, Ids
<1>6. RowsSettle' BY <1>2, <1>3 DEF RecInv, RowsSettle, Being
<1> QED BY <1>1, <1>2, <1>3, <1>5, <1>6, DeletionStep

\* The file is removed.
LEMMA RemoveKeeps == ASSUME RecInv, NEW d \in Deleters, Remove(d) PROVE RecInv'
<1> DEFINE c == del[d].id
<1>1. /\ del \in [Deleters -> DelRecs] /\ del[d] \in DelRecs /\ left \in Lefts
      /\ row \in [Ids -> RowRecs] /\ file \in [Ids -> FileRecs] /\ dir \in BOOLEAN
      /\ del[d].pc = "remove" /\ c \in Ids /\ c <= made /\ made \in Nat
  BY DeletionKnown DEF Remove
<1>2. /\ del' \in [Deleters -> DelRecs] /\ del'[d].pc = "row"
      /\ del'[d].id = c /\ del'[d].sink = del[d].sink
      /\ \A e \in Deleters : e # d => del'[e] = del[e]
      /\ \A i \in Ids : BeingDeleted(i) => BeingDeleted(i)'
  BY DeletionGoes DEF Remove
<1>3. UNCHANGED <<clock, runs, sink, made, active, row, deleted, stuck, behind, left>> BY DEF Remove, DeleteOnly
<1>4. /\ file' \in [Ids -> FileRecs] /\ ~file'[c].there /\ file'[c].plays = file[c].plays
      /\ \A i \in Ids : i # c => file'[i] = file[i]
  <2>1. PICK no \in BOOLEAN : no = FALSE BY Zenon
  <2>2. file' = [file EXCEPT ![c].there = no] BY <2>1, Zenon DEF Remove
  <2>3. /\ file' \in [Ids -> FileRecs] /\ file'[c].there = no /\ file'[c].plays = file[c].plays
        /\ \A i \in Ids : i # c => file'[i] = file[i]
    BY ONLY <1>1, <2>2, no \in BOOLEAN DEF FileRecs
  <2> QED BY <2>1, <2>3
<1>5. dir' \in BOOLEAN BY Zenon DEF Remove
<1> HIDE DEF c
<1>6. Asked'
  <2>1. \A e \in Deleters : del[e].pc = "row" /\ del[e].sink # 0 => del[e].id \in Ids
    BY DeletionKnown
  <2>2. \A e \in Deleters : del[e].pc = "row" /\ del[e].sink # 0 => ~file'[del[e].id].there
    BY <1>4, <2>1 DEF RecInv, Asked
  <2> QED BY <1>1, <1>2, <1>3, <1>4, <2>2 DEF RecInv, Asked, c
<1>7. RowsSettle' BY <1>2, <1>3 DEF RecInv, RowsSettle, Being
<1>8. \A i \in Ids : /\ file'[i].plays = file[i].plays /\ (file'[i].there => file[i].there)
                     /\ i > made => file'[i] = file[i]
  BY <1>1, <1>4 DEF Ids
<1> QED BY <1>1, <1>2, <1>3, <1>4, <1>5, <1>6, <1>7, <1>8, DeletionStep

\* The file cannot be removed: the deletion ends.
LEMMA RemoveFailedKeeps == ASSUME RecInv, NEW d \in Deleters, RemoveFailed(d) PROVE RecInv'
<1>1. /\ del \in [Deleters -> DelRecs] /\ del[d] \in DelRecs /\ left \in Lefts
      /\ row \in [Ids -> RowRecs] /\ file \in [Ids -> FileRecs] /\ dir \in BOOLEAN
      /\ Idle \in DelRecs /\ Idle.pc = "idle" /\ Idle.id = 0
  BY DeletionKnown
<1>2. del' \in [Deleters -> DelRecs] /\ del'[d] = Idle /\ \A e \in Deleters : e # d => del'[e] = del[e]
  BY <1>1 DEF RemoveFailed
<1>3. UNCHANGED <<clock, runs, sink, made, active, row, file, dir, deleted, behind>> /\ stuck' = stuck \cup {del[d].id}
  BY DEF RemoveFailed, DeleteOnly
<1>4. left' \in Lefts /\ left'.runs = left.runs BY <1>1, HappensLeft DEF RemoveFailed
<1>5. Asked' BY <1>1, <1>2, <1>3 DEF RecInv, Asked
<1>6. \A i \in Ids : BeingDeleted(i) => BeingDeleted(i)' \/ i \in stuck' BY <1>2, <1>3 DEF BeingDeleted
<1>7. RowsSettle' BY <1>3, <1>6 DEF RecInv, RowsSettle, Being
<1> QED BY <1>1, <1>2, <1>3, <1>4, <1>5, <1>7, DeletionStep

\* The row is removed.
LEMMA DeleteRowKeeps == ASSUME RecInv, NEW d \in Deleters, DeleteRow(d) PROVE RecInv'
<1> DEFINE c == del[d].id
<1>1. /\ del \in [Deleters -> DelRecs] /\ del[d] \in DelRecs /\ left \in Lefts
      /\ row \in [Ids -> RowRecs] /\ file \in [Ids -> FileRecs] /\ dir \in BOOLEAN
      /\ Idle \in DelRecs /\ Idle.pc = "idle" /\ Idle.id = 0
      /\ c \in Ids /\ c <= made
  BY DeletionKnown DEF DeleteRow
<1>2. del' \in [Deleters -> DelRecs] /\ del'[d] = Idle /\ \A e \in Deleters : e # d => del'[e] = del[e]
  BY <1>1 DEF DeleteRow
<1>3. UNCHANGED <<clock, runs, sink, made, active, file, dir, stuck, behind, left>> BY DEF DeleteRow, DeleteOnly
<1>4. row' \in [Ids -> RowRecs] /\ row'[c] = NoRow /\ \A i \in Ids : i # c => row'[i] = row[i]
  BY <1>1 DEF DeleteRow, NoRow, RowRecs, Statuses
<1> HIDE DEF c
<1>5. Asked' BY <1>1, <1>2, <1>3 DEF RecInv, Asked
<1>6. \A i \in Ids : i # c /\ BeingDeleted(i) => BeingDeleted(i)' BY <1>2 DEF BeingDeleted, c
<1>7. RowsSettle' BY <1>3, <1>4, <1>6 DEF RecInv, RowsSettle, Being, NoRow
<1>8. \A i \in Ids : row'[i] = row[i] \/ (row'[i] = NoRow /\ i <= made) BY <1>1, <1>4
<1> QED BY <1>1, <1>2, <1>3, <1>4, <1>5, <1>7, <1>8, DeletionStep

\* The store refuses to remove the row: the deletion ends.
LEMMA DeleteRowFailsKeeps == ASSUME RecInv, NEW d \in Deleters, DeleteRowFails(d) PROVE RecInv'
<1>1. /\ del \in [Deleters -> DelRecs] /\ del[d] \in DelRecs /\ left \in Lefts
      /\ row \in [Ids -> RowRecs] /\ file \in [Ids -> FileRecs] /\ dir \in BOOLEAN
      /\ Idle \in DelRecs /\ Idle.pc = "idle" /\ Idle.id = 0
  BY DeletionKnown
<1>2. del' \in [Deleters -> DelRecs] /\ del'[d] = Idle /\ \A e \in Deleters : e # d => del'[e] = del[e]
  BY <1>1 DEF DeleteRowFails
<1>3. UNCHANGED <<clock, runs, sink, made, active, row, file, dir, deleted, behind>> /\ stuck' = stuck \cup {del[d].id}
  BY DEF DeleteRowFails, DeleteOnly
<1>4. left' \in Lefts /\ left'.runs = left.runs BY <1>1, HappensLeft DEF DeleteRowFails
<1>5. Asked' BY <1>1, <1>2, <1>3 DEF RecInv, Asked
<1>6. \A i \in Ids : BeingDeleted(i) => BeingDeleted(i)' \/ i \in stuck' BY <1>2, <1>3 DEF BeingDeleted
<1>7. RowsSettle' BY <1>3, <1>6 DEF RecInv, RowsSettle, Being
<1> QED BY <1>1, <1>2, <1>3, <1>4, <1>5, <1>7, DeletionStep

\* A sink that is asked to stop does so when the chunk it has is the one meant.
LEMMA AbortKeeps == ASSUME RecInv, NEW k \in Sinks, NEW d \in Deleters, Abort(k, d) PROVE RecInv'
<1> DEFINE s == sink[k]
           u == sink'[k]
<1>1. /\ RecTypes /\ s \in SinkRecs /\ s.pc = "loop" /\ del[d].pc = "abort" /\ del[d].sink = k
      /\ del[d].id # 0 /\ k # 0 /\ k \in Nat /\ dir \in BOOLEAN
      /\ UNCHANGED <<clock, runs, deleted, stuck, behind, row, file, made, dir, left>>
  <2>1. UNCHANGED <<clock, runs, deleted, stuck, behind, row, file, made, dir, left>> BY DEF Abort, Loop
  <2> QED BY <2>1 DEF RecInv, RecShape, RecTypes, Abort, Asked, Sinks
<1>2. /\ del' \in [Deleters -> DelRecs] /\ del'[d].pc = "remove"
      /\ del'[d].id = del[d].id /\ del'[d].sink = del[d].sink
      /\ \A e \in Deleters : e # d => del'[e] = del[e]
      /\ \A i \in Ids : BeingDeleted(i) => BeingDeleted(i)'
  BY DeletionGoes DEF Abort
<1>3. \A l \in Sinks : sink[l].chunk = del[d].id => l = k BY <1>1 DEF RecInv, Asked
<1>4. CASE s.chunk = del[d].id
  <2>0. PICK c \in Ids : c = s.chunk BY <1>1, <1>4, ChunkKnown
  <2>1. /\ c \in Ids /\ c <= made /\ OwnOf(k)
        /\ row \in [Ids -> RowRecs] /\ file \in [Ids -> FileRecs] /\ active \in [Ids -> 0 .. MaxRuns]
        /\ row[c] \in RowRecs /\ file[c] \in FileRecs
        /\ row[c].status # "none" => row[c].offset + row[c].length <= MaxTime
        /\ left \in Lefts
    BY <1>1, <1>4, <2>0, ChunkKnown
  <2>2. /\ Becomes(k, u) /\ u.queue = s.queue /\ u.chunk = 0 /\ u.pc = "loop" /\ u.frame = s.frame
    <3>0. 0 \in 0 .. MaxChunks BY Bounds
    <3>1. PICK v : sink' = [sink EXCEPT ![k] = v]
            /\ v = [s EXCEPT !.chunk = 0, !.err = IF @ = "none" THEN "deleted" ELSE @]
      BY <1>4, Zenon DEF Abort, Loop
    <3>2. v \in SinkRecs /\ v.queue = s.queue /\ v.chunk = 0 /\ v.pc = "loop" /\ v.frame = s.frame
      BY ONLY <1>1, <3>0, <3>1 DEF SinkRecs, Errs
    <3>3. Becomes(k, v) BY ONLY <1>1, <3>1, <3>2, LoopBecomes, k \in Sinks
    <3> QED BY <3>2, <3>3 DEF Becomes
  <2>3. /\ active' \in [Ids -> 0 .. MaxRuns] /\ active'[c] = 0
        /\ \A i \in Ids : i # c => active'[i] = active[i]
    BY <1>4, <2>0, <2>1, Bounds DEF Abort
  <2>4. c = del[d].id /\ c = sink[k].chunk BY <1>4, <2>0
  <2> HIDE DEF s, u
  <2>5. u \in SinkRecs BY <2>2 DEF Becomes
  <2>6. Onward(k, u) BY <1>1, <2>1, <2>2 DEF Onward, PlaceOf, Holds, Taken, s, u
  <2>7. WithChunk(k, c, u) BY <1>1, <2>1, <2>2, <2>3, <2>4 DEF WithChunk
  <2>8. /\ row[c].status \in {"none", "recording"} /\ Len(file[c].plays) = s.n
    BY <1>1, <2>1, <2>4 DEF OwnOf, Holds, s, Ids
  <2>9. RowGoesOn(k, c, u) BY <1>1, <1>2, <2>1, <2>4, <2>8 DEF RowGoesOn, BeingDeleted
  <2>10. FileGoesOn(c) BY <1>1, <2>1 DEF FileGoesOn, FileRecs
  <2>11. OwnOf(k)' BY <2>2 DEF OwnOf, Holds, u
  <2>12. \A l \in Sinks : sink'[l].chunk # c /\ (sink'[l].chunk # 0 => sink'[l].chunk = sink[l].chunk)
    BY <1>3, <2>1, <2>2, <2>4 DEF Becomes, Ids, u
  <2>13. Asked'
    BY <1>1, <1>2, <2>1, <2>4, <2>12 DEF RecInv, Asked
  <2> QED BY <1>2, <2>1, <2>5, <2>6, <2>7, <2>9, <2>10, <2>11, <2>13, ChunkStep
<1>5. CASE s.chunk # del[d].id
  <2>1. active' = active /\ sink' = sink
    <3>1. active' = active /\ sink' = [sink EXCEPT ![k] = s] BY <1>5 DEF Abort, Loop
    <3> QED BY <1>1, <3>1 DEF RecTypes
  <2>2. \A l \in Sinks : sink[l].chunk # del[d].id BY <1>3, <1>5
  <2>3. Asked' BY <1>1, <1>2, <2>1, <2>2 DEF RecInv, Asked
  <2>4. RowsSettle' BY <1>1, <1>2, <2>1 DEF RecInv, RowsSettle, Being
  <2>5. left' \in Lefts /\ left'.runs = left.runs /\ row' \in [Ids -> RowRecs] /\ file' \in [Ids -> FileRecs]
    BY <1>1 DEF RecTypes
  <2> QED BY <1>1, <1>2, <2>1, <2>3, <2>4, <2>5, DeletionStep
<1> QED BY <1>4, <1>5

\* The running run's sink but for what waits for it.
SameButQueue(k, s) ==
  /\ s.pc = sink[k].pc /\ s.chunk = sink[k].chunk /\ s.offset = sink[k].offset /\ s.n = sink[k].n
  /\ s.frame = sink[k].frame /\ s.then = sink[k].then
MoreWaits(k, s, f) ==
  \/ s.queue = sink[k].queue
  \/ /\ Len(sink[k].queue) < Buffer /\ s.queue = Append(sink[k].queue, f)
     /\ clock <= f /\ f < clock' /\ f < MaxTime
RunGoesOn == UNCHANGED <<runs, made, row, file, active, dir, del, deleted, stuck, behind>>

\* The run's time goes on, and a frame of that time may wait.
LEMMA RunWrites ==
  ASSUME RecInv, NEW k \in Sinks, NEW s \in SinkRecs, NEW f \in Nat, Becomes(k, s), k = runs,
         RunGoesOn, SameButQueue(k, s), MoreWaits(k, s, f), sink[k].pc # "dead",
         left' \in Lefts, left'.runs = left.runs,
         clock' \in Nat, clock <= clock', clock' <= MaxTime + runs
  PROVE  RecInv'
<1>1. /\ RecTypes /\ RecShape /\ Started /\ sink'[k] = s /\ sink[k] \in SinkRecs /\ runs > 0 /\ runs' = runs
      /\ \A l \in Sinks : l # k => sink'[l] = sink[l]
      /\ clock \in Nat /\ sink' \in [Sinks -> SinkRecs]
  BY Bounds DEF RecInv, RecShape, RecTypes, Becomes, RunGoesOn, Sinks
<1>2. RecTypes' BY <1>1 DEF RecTypes, RunGoesOn
<1>3. \A l \in Sinks : /\ sink'[l].pc = sink[l].pc /\ sink'[l].chunk = sink[l].chunk
                       /\ sink'[l].offset = sink[l].offset /\ sink'[l].n = sink[l].n
                       /\ sink'[l].frame = sink[l].frame /\ sink'[l].then = sink[l].then
  BY <1>1 DEF SameButQueue
<1>4. \A l \in Sinks : (Taken(l)' <=> Taken(l)) /\ (Holds(l)' <=> Holds(l)) BY <1>3 DEF Taken, Holds
<1>5. /\ s.queue \in Seq(Nat) /\ sink[k].queue \in Seq(Nat)
      /\ Len(s.queue) \in Nat /\ Len(sink[k].queue) \in Nat /\ Len(s.queue) <= Buffer
      /\ \A j \in 1 .. Len(sink[k].queue) : s.queue[j] = sink[k].queue[j]
      /\ \/ Len(s.queue) = Len(sink[k].queue)
         \/ /\ Len(s.queue) = Len(sink[k].queue) + 1 /\ s.queue[Len(s.queue)] = f
            /\ clock <= f /\ f < clock' /\ f < MaxTime
  <2>1. sink[k].queue \in Seq(Nat) /\ s.queue \in Seq(Nat) BY <1>1 DEF SinkRecs
  <2>2. CASE s.queue = sink[k].queue BY <1>1, <2>1, <2>2 DEF Started
  <2>3. CASE s.queue = Append(sink[k].queue, f) /\ s.queue # sink[k].queue
    <3>1. PICK q \in Seq(Nat) : q = sink[k].queue BY <2>1
    <3>2. /\ Len(Append(q, f)) = Len(q) + 1 /\ Append(q, f)[Len(q) + 1] = f
          /\ \A j \in 1 .. Len(q) : Append(q, f)[j] = q[j]
      BY AppendProperties
    <3> QED BY SMTT(30), <2>1, <2>3, <3>1, <3>2, Bounds DEF MoreWaits
  <2> QED BY <2>2, <2>3 DEF MoreWaits
<1>new. \A q \in 1 .. Len(s.queue) :
          \/ q \in 1 .. Len(sink[k].queue)
          \/ s.queue[q] = f /\ clock <= f /\ f < clock' /\ f < MaxTime
  <2> SUFFICES ASSUME NEW q \in 1 .. Len(s.queue), q \notin 1 .. Len(sink[k].queue)
      PROVE s.queue[q] = f /\ clock <= f /\ f < clock' /\ f < MaxTime
    OBVIOUS
  <2>1. ~(Len(s.queue) = Len(sink[k].queue)) OBVIOUS
  <2>2. /\ Len(s.queue) = Len(sink[k].queue) + 1 /\ s.queue[Len(s.queue)] = f
        /\ clock <= f /\ f < clock' /\ f < MaxTime
    BY ONLY <1>5, <2>1
  <2>3. q = Len(s.queue)
    <3>1. PICK m \in Nat : m = Len(sink[k].queue) BY <1>5
    <3> QED BY <2>2, <3>1
  <2> QED BY ONLY <2>2, <2>3
<1>6. \A t \in Nat : Waits(k, t)' => Waits(k, t) \/ (t = f /\ clock <= f /\ f < clock' /\ f < MaxTime)
  <2> SUFFICES ASSUME NEW t \in Nat, Waits(k, t)', ~Waits(k, t)
      PROVE t = f /\ clock <= f /\ f < clock' /\ f < MaxTime
    OBVIOUS
  <2>1. PICK j \in 1 .. Len(s.queue) : s.queue[j] = t BY <1>1, <1>3, <1>4 DEF Waits
  <2>2. j \notin 1 .. Len(sink[k].queue) BY <1>5, <2>1 DEF Waits
  <2> QED BY <1>new, <2>1, <2>2
<1>7. \A l \in Sinks : l # k => \A t \in Nat : Waits(l, t)' <=> Waits(l, t)
  BY <1>1, <1>4 DEF Waits
<1>8. \A t \in Nat : Mark(k, t)' => Mark(k, t) \/ (t = f /\ clock <= f /\ f < clock' /\ f < MaxTime)
  BY <1>3, <1>4, <1>6 DEF Mark
<1>9. \A l \in Sinks : l # k => \A t \in Nat : Mark(l, t)' <=> Mark(l, t)
  BY <1>3, <1>4, <1>7 DEF Mark
<1>10. /\ \A l \in Sinks : \A t \in Nat : Mark(l, t) => t < clock
       /\ \A i \in Ids : \A t \in Nat : ProbeWorks /\ Plays(i, t) => t < clock
  BY <1>1 DEF RecInv, RecTimes, BeforeClock
<1>11. \A i \in Ids : \A t \in Nat : Plays(i, t)' <=> Plays(i, t) BY DEF Plays, RunGoesOn
<1>12. RecShape'
  <2>1. Started' 
    <3>1. sink[k] # NoSink BY <1>1, Bounds DEF Started, NoSink, Sinks
    <3>2. runs + left'.runs <= MaxRuns BY <1>1 DEF Started
    <3>3. \A l \in Sinks : IF l > runs THEN sink'[l] = NoSink ELSE sink'[l].pc # "none"
      BY <1>1, <1>3 DEF Started, Sinks
    <3>4. \A l \in Sinks : sink'[l].pc = "dead" => sink'[l].queue = <<>> BY <1>1, <1>3 DEF Started
    <3>5. sink'[runs].pc # "dead" BY <1>1, <1>3
    <3>6. \A l \in Sinks : Len(sink'[l].queue) <= Buffer BY <1>1, <1>5 DEF Started
    <3> QED BY <1>1, <3>2, <3>3, <3>4, <3>5, <3>6 DEF Started
  <2>2. PlaceOfChunk' BY <1>1, <1>3 DEF RecShape, PlaceOfChunk, Holds
  <2>3. OneSink'
    <3>1. \A i \in Ids : active[i] # 0 => active[i] \in Sinks BY <1>1 DEF RecTypes, Sinks
    <3> QED BY <1>1, <1>3, <3>1 DEF RecShape, OneSink, Holds, RunGoesOn
  <2>4. OwnChunk' BY <1>1, <1>3 DEF RecShape, OwnChunk, Holds, RunGoesOn
  <2> QED BY <1>2, <2>1, <2>2, <2>3, <2>4 DEF RecShape
<1>13. RecTimes'
  <2>1. InOrder'
    <3>1. OrderOf(k) BY DEF RecInv, RecTimes, InOrder, OrderOf
    <3>2. \A j \in 1 .. Len(sink[k].queue) : Mark(k, sink[k].queue[j]) /\ sink[k].queue[j] \in Nat
      <4> SUFFICES ASSUME NEW j \in 1 .. Len(sink[k].queue)
          PROVE Mark(k, sink[k].queue[j]) /\ sink[k].queue[j] \in Nat
        OBVIOUS
      <4>1. sink[k].queue[j] \in Nat BY ONLY <1>5, ElementOfSeq, j \in 1 .. Len(sink[k].queue)
      <4>2. PICK t \in Nat : t = sink[k].queue[j] BY <4>1
      <4>3. Mark(k, t) BY <4>2 DEF Mark, Waits
      <4> QED BY ONLY <4>2, <4>3
    <3>3. \A j, q \in 1 .. Len(s.queue) : j < q => s.queue[j] < s.queue[q]
      <4> SUFFICES ASSUME NEW j \in 1 .. Len(s.queue), NEW q \in 1 .. Len(s.queue), j < q
          PROVE s.queue[j] < s.queue[q]
        OBVIOUS
      <4>1. j \in 1 .. Len(sink[k].queue) BY <1>5
      <4>2. sink[k].queue[j] < clock /\ sink[k].queue[j] \in Nat /\ s.queue[j] = sink[k].queue[j]
        BY <1>5, <1>10, <3>2, <4>1
      <4>3. CASE q \in 1 .. Len(sink[k].queue) BY <1>5, <3>1, <4>1, <4>3 DEF OrderOf
      <4>4. CASE q \notin 1 .. Len(sink[k].queue)
        <5>1. s.queue[q] = f /\ clock <= f BY <1>new, <4>4
        <5> QED BY <1>1, <4>2, <5>1
      <4> QED BY <4>3, <4>4
    <3>4. Taken(k) => \A j \in 1 .. Len(s.queue) : s.frame < s.queue[j]
      <4>1. Taken(k) => sink[k].frame < clock /\ sink[k].frame \in Nat
        BY <1>1, <1>10 DEF Mark, Waits, SinkRecs
      <4> SUFFICES ASSUME Taken(k), NEW j \in 1 .. Len(s.queue) PROVE s.frame < s.queue[j]
        OBVIOUS
      <4>2. s.frame = sink[k].frame BY <1>1, <1>3
      <4>3. CASE j \in 1 .. Len(sink[k].queue) BY <1>5, <3>1, <4>2, <4>3 DEF OrderOf
      <4>4. CASE j \notin 1 .. Len(sink[k].queue)
        <5>1. s.queue[j] = f /\ clock <= f BY <1>new, <4>4
        <5> QED BY <1>1, <4>1, <4>2, <5>1
      <4> QED BY <4>3, <4>4
    <3>5. Holds(k) => \A t \in Nat : Waits(k, t)' => s.offset + s.n <= t
      <4>1. Holds(k) => sink[k].offset + sink[k].n <= clock BY DEF RecInv, RecTimes, Bounded
      <4>2. sink[k].offset + sink[k].n \in Nat BY <1>1, Typed
      <4> QED BY <1>1, <1>3, <1>6, <3>1, <4>1, <4>2 DEF OrderOf
    <3>6. OrderOf(k)' BY <1>1, <1>4, <3>3, <3>4, <3>5 DEF OrderOf
    <3> QED BY <3>6, OneOrdered
  <2>2. RunsInOrder'
    <3> SUFFICES ASSUME NEW l \in Sinks, NEW m \in Sinks, NEW t \in Nat, NEW u \in Nat,
                        l < m, Mark(l, t)', Mark(m, u)'
        PROVE t < u
      BY DEF RunsInOrder
    <3>1. l # k
      <4>1. m > k => sink[m] = NoSink BY <1>1 DEF Started
      <4>2. m > k => ~Mark(m, u) BY <4>1 DEF Mark, Waits, Taken, Holds, NoSink
      <4> QED BY <1>9, <4>2 DEF Sinks
    <3>2. Mark(l, t) /\ t < clock BY <1>9, <1>10, <3>1
    <3>3. Mark(m, u) \/ clock <= u BY <1>8, <1>9
    <3> QED BY <1>1, <3>2, <3>3 DEF RecInv, RecTimes, RunsInOrder
  <2>3. SpanFree'
    <3> SUFFICES ASSUME NEW i \in Ids, NEW l \in Sinks, NEW t \in Nat, ProbeWorks, Plays(i, t), sink[l].chunk # i
        PROVE \/ \A u \in Nat : Mark(l, u)' => t < u
              \/ l < runs /\ \A u \in Nat : Mark(l, u)' => u < t
      BY <1>1, <1>3, <1>11 DEF SpanFree
    <3>1. \/ \A u \in Nat : Mark(l, u) => t < u
          \/ l < runs /\ \A u \in Nat : Mark(l, u) => u < t
      BY DEF RecInv, RecTimes, SpanFree
    <3>2. CASE l # k BY <1>9, <3>1, <3>2
    <3>3. CASE l = k
      <4>1. ~(l < runs) BY <1>1, <3>3 DEF Sinks
      <4> QED BY <1>1, <1>8, <1>10, <3>1, <3>3, <4>1
    <3> QED BY <3>2, <3>3
  <2>4. PlaysApart' BY <1>11 DEF RecInv, RecTimes, PlaysApart
  <2>5. BeforeClock'
    <3>1. \A l \in Sinks : \A t \in Nat : Mark(l, t)' => t < clock' BY <1>1, <1>8, <1>9, <1>10
    <3>2. \A i \in Ids : \A t \in Nat : ProbeWorks /\ Plays(i, t)' => t < clock' BY <1>1, <1>10, <1>11
    <3> QED BY <3>1, <3>2 DEF BeforeClock
  <2>6. InRows' BY <1>1, <1>3 DEF RecInv, RecTimes, InRows, Fresh, RunGoesOn
  <2>7. Bounded'
    <3>1. \A l \in Sinks : \A t \in Nat : Waits(l, t)' => t < MaxTime
      BY <1>6, <1>7 DEF RecInv, RecTimes, Bounded
    <3>2. \A l \in Sinks : Holds(l)' => sink'[l].offset + sink'[l].n <= MaxTime
                                        /\ sink'[l].offset + sink'[l].n <= clock'
      <4> SUFFICES ASSUME NEW l \in Sinks, Holds(l)
          PROVE sink[l].offset + sink[l].n <= MaxTime /\ sink[l].offset + sink[l].n <= clock'
        BY <1>3, <1>4
      <4>1. sink[l].offset + sink[l].n <= MaxTime /\ sink[l].offset + sink[l].n <= clock
        BY DEF RecInv, RecTimes, Bounded
      <4>2. sink[l].offset + sink[l].n \in Nat
        <5>1. sink[l] \in SinkRecs BY <1>1 DEF RecTypes
        <5> QED BY ONLY <5>1 DEF SinkRecs
      <4>3. PICK x \in Nat : x = sink[l].offset + sink[l].n BY <4>2
      <4>4. x <= MaxTime /\ x <= clock BY ONLY <4>1, <4>3
      <4>5. x <= clock' BY <1>1, <4>4
      <4> QED BY ONLY <4>3, <4>4, <4>5
    <3> QED BY <1>1, <3>1, <3>2 DEF RecInv, RecTimes, Bounded, RunGoesOn
  <2> QED BY <2>1, <2>2, <2>3, <2>4, <2>5, <2>6, <2>7 DEF RecTimes
<1>14. OnClock' BY DEF RecInv, OnClock, Stored, RunGoesOn
<1>15. RowsSettle' BY <1>3 DEF RecInv, RowsSettle, Being, BeingDeleted, RunGoesOn
<1>16. Asked' BY <1>3 DEF RecInv, Asked, RunGoesOn
<1> QED BY <1>12, <1>13, <1>14, <1>15, <1>16 DEF RecInv

\* The next frame, to a sink that may be full or have failed.
LEMMA WriteKeeps == ASSUME RecInv, Write PROVE RecInv'
<1>1. /\ RecTypes /\ runs \in Sinks /\ sink \in [Sinks -> SinkRecs] /\ sink[runs] \in SinkRecs /\ clock \in Nat
      /\ runs > 0 /\ sink[runs].pc # "dead" /\ left \in Lefts
  BY RunIsSink DEF RecInv, RecShape, RecTypes, Write
<1>2. PICK skip \in 0 .. MaxSkip :
        /\ clock + skip < MaxTime /\ clock' = (clock + skip) + 1
        /\ sink' = IF sink[runs].err # "none" THEN [sink EXCEPT ![runs].closed = TRUE]
                   ELSE Queued(runs, clock + skip)
  BY DEF Write
<1>3. PICK k \in Sinks : k = runs BY <1>1
<1>4. PICK f \in Nat : f = clock + skip /\ clock <= f BY <1>1, Bounds
<1>5. left' \in Lefts /\ left'.runs = left.runs BY <1>1, HappensLeft DEF Write
<1>6. PICK yes \in BOOLEAN : yes = TRUE BY Zenon
<1>7. PICK s \in SinkRecs : sink' = [sink EXCEPT ![k] = s] /\ SameButQueue(k, s)
        /\ (s.queue = sink[k].queue \/ (Len(sink[k].queue) < Buffer /\ s.queue = Append(sink[k].queue, f)))
  <2>1. CASE sink[runs].err # "none"
    <3>1. sink' = [sink EXCEPT ![k].closed = yes] BY <1>2, <1>3, <1>6, <2>1, Zenon
    <3>2. PICK s : s = [sink[k] EXCEPT !.closed = yes] OBVIOUS
    <3>3. s \in SinkRecs /\ SameButQueue(k, s) /\ s.queue = sink[k].queue
      BY ONLY <1>1, <1>3, <1>6, <3>2 DEF SinkRecs, SameButQueue
    <3>4. sink' = [sink EXCEPT ![k] = s] BY ONLY <1>1, <1>3, <3>1, <3>2
    <3> QED BY <3>3, <3>4
  <2>2. CASE sink[runs].err = "none" /\ Len(sink[runs].queue) < Buffer
    <3>1. PICK q : q = Append(sink[k].queue, f) OBVIOUS
    <3>2. sink' = [sink EXCEPT ![k].queue = q] BY <1>2, <1>3, <1>4, <2>2, <3>1 DEF Queued
    <3>3. q \in Seq(Nat) BY <1>1, <1>3, <3>1 DEF SinkRecs
    <3>4. PICK s : s = [sink[k] EXCEPT !.queue = q] OBVIOUS
    <3>5. s \in SinkRecs /\ SameButQueue(k, s) /\ s.queue = q
      BY ONLY <1>1, <1>3, <3>3, <3>4 DEF SinkRecs, SameButQueue
    <3>6. sink' = [sink EXCEPT ![k] = s] BY ONLY <1>1, <1>3, <3>2, <3>4
    <3> QED BY <1>3, <2>2, <3>1, <3>5, <3>6
  <2>3. CASE sink[runs].err = "none" /\ ~(Len(sink[runs].queue) < Buffer)
    <3>1. sink' = [sink EXCEPT ![k] = sink[k]] BY <1>1, <1>2, <1>3, <2>3 DEF Queued
    <3> QED BY <1>1, <1>3, <3>1 DEF SameButQueue
  <2> QED BY <2>1, <2>2, <2>3
<1>8. Becomes(k, s) BY <1>1, <1>7, LoopBecomes
<1>9. RunGoesOn BY DEF Write, RunGoesOn
<1>10. clock' = f + 1 /\ f < MaxTime BY <1>2, <1>4
<1>11. MoreWaits(k, s, f) BY <1>4, <1>7, <1>10 DEF MoreWaits
<1>12. clock' \in Nat /\ clock <= clock' /\ clock' <= MaxTime + runs
  BY <1>1, <1>4, <1>10, Bounds DEF Sinks
<1> QED BY <1>1, <1>3, <1>5, <1>7, <1>8, <1>9, <1>11, <1>12, RunWrites

\* The run ends.
LEMMA CloseKeeps == ASSUME RecInv, Close PROVE RecInv'
<1>1. /\ RecTypes /\ runs \in Sinks /\ sink \in [Sinks -> SinkRecs] /\ sink[runs] \in SinkRecs /\ clock \in Nat
      /\ runs > 0 /\ sink[runs].pc # "dead" /\ left \in Lefts /\ clock <= MaxTime + runs
  BY RunIsSink DEF RecInv, RecShape, RecTypes, Close, RecTimes, Bounded
<1>2. PICK yes \in BOOLEAN : yes = TRUE BY Zenon
<1>3. PICK k \in Sinks : k = runs BY <1>1
<1>4. sink' = [sink EXCEPT ![k].closed = yes] BY <1>2, <1>3, Zenon DEF Close
<1>5. PICK s : s = [sink[k] EXCEPT !.closed = yes] OBVIOUS
<1>6. s \in SinkRecs /\ SameButQueue(k, s) /\ s.queue = sink[k].queue
  BY ONLY <1>1, <1>2, <1>3, <1>5 DEF SinkRecs, SameButQueue
<1>7. sink' = [sink EXCEPT ![k] = s] BY ONLY <1>1, <1>3, <1>4, <1>5
<1>8. Becomes(k, s) BY <1>1, <1>6, <1>7, LoopBecomes
<1>9. RunGoesOn /\ clock' = clock /\ left' = left BY DEF Close, RunGoesOn
<1>10. MoreWaits(k, s, 0) BY <1>6 DEF MoreWaits
<1> QED BY <1>1, <1>3, <1>6, <1>8, <1>9, <1>10, RunWrites

\* The silence and the frame that bring a chunk up to the session clock.
LEMMA PaddedIs ==
  ASSUME NEW s, s.frame \in Nat, NextT(s) \in Nat, NextT(s) <= s.frame
  PROVE  /\ Padded(s) \in Seq(Nat) /\ Len(Padded(s)) = (s.frame - NextT(s)) + 1
         /\ \A j \in 1 .. Len(Padded(s)) : Padded(s)[j] = IF j < Len(Padded(s)) THEN Silence ELSE s.frame
<1> DEFINE gap == s.frame - NextT(s)
<1>1. gap \in Nat /\ Silence \in Nat BY Bounds DEF Silence
<1>2. PICK q : q = [i \in 1 .. gap |-> Silence] OBVIOUS
<1> HIDE DEF gap
<1>3. q \in Seq(Nat) /\ Len(q) = gap /\ \A i \in 1 .. gap : q[i] = Silence
  BY ONLY <1>1, <1>2
<1>4. <<s.frame>> \in Seq(Nat) /\ Len(<<s.frame>>) = 1 /\ <<s.frame>>[1] = s.frame
  OBVIOUS
<1>5. PICK p \in Seq(Nat) : p = <<s.frame>> /\ Len(p) = 1 /\ p[1] = s.frame BY <1>4
<1>6. /\ q \o p \in Seq(Nat) /\ Len(q \o p) = Len(q) + Len(p)
      /\ \A i \in 1 .. Len(q) + Len(p) : (q \o p)[i] = IF i <= Len(q) THEN q[i] ELSE p[i - Len(q)]
  BY ONLY <1>3, <1>5, ConcatProperties
<1>7. \A i \in 1 .. gap + 1 : (q \o p)[i] = IF i < gap + 1 THEN Silence ELSE s.frame
  <2> SUFFICES ASSUME NEW i \in 1 .. gap + 1
      PROVE (q \o p)[i] = IF i < gap + 1 THEN Silence ELSE s.frame
    OBVIOUS
  <2>1. CASE i < gap + 1 BY <1>1, <1>3, <1>5, <1>6, <2>1
  <2>2. CASE i = gap + 1 BY <1>1, <1>3, <1>5, <1>6, <2>2
  <2>3. i < gap + 1 \/ i = gap + 1 BY ONLY <1>1, i \in 1 .. gap + 1
  <2> QED BY ONLY <2>1, <2>2, <2>3
<1>8. Padded(s) = q \o p BY <1>2, <1>5 DEF Padded, gap
<1> QED BY <1>3, <1>5, <1>6, <1>7, <1>8 DEF gap

\* A file that goes on.
LEMMA LongerFile ==
  ASSUME file \in [Ids -> FileRecs], NEW c \in Ids, NEW more \in Seq(Nat),
         file' = [file EXCEPT ![c].plays = @ \o more]
  PROVE  /\ file' \in [Ids -> FileRecs] /\ file'[c].there = file[c].there
         /\ \A i \in Ids : i # c => file'[i] = file[i]
         /\ Len(file'[c].plays) = Len(file[c].plays) + Len(more)
         /\ \A j \in 1 .. Len(file[c].plays) + Len(more) :
              file'[c].plays[j] = IF j <= Len(file[c].plays) THEN file[c].plays[j]
                                  ELSE more[j - Len(file[c].plays)]
<1>1. PICK p \in Seq(Nat) : p = file[c].plays BY DEF FileRecs
<1>2. PICK q \in Seq(Nat) : q = p \o more BY ConcatProperties
<1>3. file' = [file EXCEPT ![c].plays = q] BY <1>1, <1>2
<1>4. /\ file' \in [Ids -> FileRecs] /\ file'[c].there = file[c].there /\ file'[c].plays = q
      /\ \A i \in Ids : i # c => file'[i] = file[i]
  BY ONLY <1>3, file \in [Ids -> FileRecs], c \in Ids, q \in Seq(Nat) DEF FileRecs
<1>5. /\ Len(q) = Len(p) + Len(more)
      /\ \A j \in 1 .. Len(p) + Len(more) : q[j] = IF j <= Len(p) THEN p[j] ELSE more[j - Len(p)]
  BY <1>2, ConcatProperties
<1> QED BY <1>1, <1>4, <1>5

\* A frame is written: what the chunk plays on is between two marks of its sink,
\* so nobody else plays it.
LEMMA WriteFrameKeeps == ASSUME RecInv, NEW k \in Sinks, WriteFrame(k) PROVE RecInv'
<1> DEFINE s == sink[k]
           u == sink'[k]
<1>1. /\ RecTypes /\ RecShape /\ RecTimes /\ s \in SinkRecs /\ s.pc = "write" /\ s.chunk # 0 /\ k \in Nat
      /\ s.frame \in Nat /\ s.offset \in Nat /\ s.n \in Nat /\ clock \in Nat
      /\ UNCHANGED <<clock, runs, deleted, stuck, behind, made, active, dir, del, left>>
  <2>1. RecTypes /\ RecShape /\ RecTimes /\ s \in SinkRecs BY DEF RecInv, RecShape, RecTypes
  <2>2. s.pc = "write" /\ UNCHANGED <<clock, runs, deleted, stuck, behind, made, active, dir, del, left>>
    BY DEF WriteFrame, Loop
  <2>3. s.chunk # 0 BY <2>1, <2>2 DEF RecShape, PlaceOfChunk, Holds
  <2> QED BY <2>1, <2>2, <2>3 DEF SinkRecs, RecTypes, Sinks
<1>2. PICK c \in Ids : c = s.chunk BY <1>1, ChunkKnown
<1>3. /\ c <= made /\ OwnOf(k)
      /\ row \in [Ids -> RowRecs] /\ file \in [Ids -> FileRecs] /\ active \in [Ids -> 0 .. MaxRuns]
      /\ row[c] \in RowRecs /\ file[c] \in FileRecs
      /\ row[c].status # "none" => row[c].offset + row[c].length <= MaxTime
      /\ left \in Lefts
  BY <1>1, <1>2, ChunkKnown
<1>4. /\ row[c].status \in {"none", "recording"} /\ Len(file[c].plays) = s.n
      /\ row[c].status # "none" => row[c].offset = s.offset
  BY <1>1, <1>2, <1>3 DEF OwnOf, Holds
<1>5. /\ Taken(k) /\ Holds(k) /\ OrderOf(k) /\ Waits(k, s.frame) /\ Mark(k, s.frame) /\ Mark(k, s.offset)
  BY <1>1 DEF Taken, Holds, Waits, Mark, RecTimes, InOrder, OrderOf
<1>6. NextT(s) = s.offset + s.n /\ NextT(s) <= s.frame /\ NextT(s) \in Nat
  BY <1>1, <1>5 DEF NextT, OrderOf
<1>7. PICK more \in Seq(Nat) : /\ more = Padded(s) /\ Len(more) = (s.frame - NextT(s)) + 1
        /\ \A j \in 1 .. Len(more) : more[j] = IF j < Len(more) THEN Silence ELSE s.frame
  BY <1>1, <1>6, PaddedIs
<1>8. PICK n \in Nat : n = s.n + Len(more) /\ s.offset + n = s.frame + 1
  <2>1. PICK m \in Nat : m = Len(more) BY <1>7, LenProperties
  <2>2. PICK f \in Nat, o \in Nat, p \in Nat : f = s.frame /\ o = s.offset /\ p = s.n BY <1>1
  <2>3. m = (f - (o + p)) + 1 BY <1>6, <1>7, <2>1, <2>2
  <2>4. o + (p + m) = f + 1 /\ p + m \in Nat BY ONLY <2>3, m \in Nat, f \in Nat, o \in Nat, p \in Nat
  <2> QED BY <2>1, <2>2, <2>4
<1>9. /\ Becomes(k, u) /\ u.queue = s.queue /\ u.pc = "loop"
      /\ u.chunk = s.chunk /\ u.offset = s.offset /\ u.n = n
  <2>1. PICK v : sink' = [sink EXCEPT ![k] = v] /\ v = [s EXCEPT !.pc = "loop", !.n = n, !.frame = 0]
    BY <1>7, <1>8, Zenon DEF WriteFrame, Loop
  <2>2. /\ v \in SinkRecs /\ v.queue = s.queue /\ v.pc = "loop"
        /\ v.chunk = s.chunk /\ v.offset = s.offset /\ v.n = n
    BY ONLY <1>1, <1>8, <2>1 DEF SinkRecs, Places
  <2>3. Becomes(k, v) BY ONLY <1>1, <2>1, <2>2, LoopBecomes, k \in Sinks
  <2> QED BY <2>2, <2>3 DEF Becomes
<1>10. /\ file' \in [Ids -> FileRecs] /\ file'[c].there = file[c].there
       /\ \A i \in Ids : i # c => file'[i] = file[i]
       /\ Len(file'[c].plays) = n
       /\ \A j \in 1 .. n :
            file'[c].plays[j] = IF j <= s.n THEN file[c].plays[j] ELSE more[j - s.n]
  <2>1. file' = [file EXCEPT ![c].plays = @ \o more] BY <1>2, <1>7 DEF WriteFrame
  <2>2. /\ file' \in [Ids -> FileRecs] /\ file'[c].there = file[c].there
        /\ \A i \in Ids : i # c => file'[i] = file[i]
        /\ Len(file'[c].plays) = Len(file[c].plays) + Len(more)
        /\ \A j \in 1 .. Len(file[c].plays) + Len(more) :
             file'[c].plays[j] = IF j <= Len(file[c].plays) THEN file[c].plays[j]
                                 ELSE more[j - Len(file[c].plays)]
    BY <1>3, <2>1, LongerFile
  <2>3. Len(file[c].plays) = s.n /\ s.n + Len(more) = n BY <1>4, <1>8
  <2> QED BY ONLY <2>2, <2>3
<1>11. s.frame < MaxTime /\ s.frame < clock /\ runs > 0 /\ sink[runs].pc # "dead" /\ ~Fresh /\ k <= runs
  <2>1. runs > 0 /\ sink[runs].pc # "dead" /\ ~Fresh /\ k <= runs BY <1>1, NotFresh DEF RecShape
  <2> QED BY <1>1, <1>5, <2>1 DEF RecTimes, Bounded, BeforeClock
<1>12. /\ row' \in [Ids -> RowRecs] /\ \A i \in Ids : i # c => row'[i] = row[i]
       /\ row'[c].status = row[c].status /\ row'[c].offset = row[c].offset
       /\ row'[c].status # "none" => row'[c].offset + row'[c].length <= MaxTime
  <2>1. CASE row' = row BY <1>3, <2>1
  <2>2. CASE row' = Updated(c, "recording", n)
    <3>1. "recording" \in Statuses \ {"none"} BY DEF Statuses
    <3>2. /\ row' \in [Ids -> RowRecs] /\ \A i \in Ids : i # c => row'[i] = row[i]
          /\ row'[c] = IF row[c].status = "none" THEN row[c]
                       ELSE [status |-> "recording", offset |-> row[c].offset, length |-> n]
      BY <1>3, <2>2, <3>1, UpdatedRow
    <3>3. s.offset + n <= MaxTime BY <1>1, <1>8, <1>11, Bounds
    <3>4. CASE row[c].status = "none" BY <1>3, <3>2, <3>4
    <3>5. CASE row[c].status # "none" BY <1>4, <3>2, <3>3, <3>5
    <3> QED BY <3>4, <3>5
  <2> QED BY <1>2, <1>7, <1>8, <2>1, <2>2 DEF WriteFrame
<1> HIDE DEF s, u
<1>13. u \in SinkRecs BY <1>9 DEF Becomes
<1>14. RecTypes' BY <1>1, <1>9, <1>10, <1>12 DEF RecTypes, Becomes, u
<1>15. SameRuns BY <1>1, <1>9 DEF SameRuns, Becomes, s, u
<1>16. Started'
  <2>1. Len(u.queue) <= Buffer BY <1>1, <1>9 DEF RecShape, Started, s
  <2> QED BY <1>1, <1>3, <1>9, <1>13, <1>14, <1>15, <2>1, StillStarted DEF s, u
<1>17. \A l \in Sinks : sink'[l].chunk = sink[l].chunk BY <1>1, <1>9 DEF Becomes, s, u
<1>18. PlaceOfChunk' BY <1>1, <1>9 DEF PlaceOfChunk, Holds, RecShape, Becomes, s, u
<1>19. OneSink'
  <2>1. OneSink BY <1>1 DEF RecShape
  <2>2. \A i \in Ids : active[i] # 0 => active[i] \in Sinks BY <1>1 DEF RecTypes, Sinks
  <2>3. \A l \in Sinks : sink'[l].pc \in {"spawn", "register"} => sink[l].pc \in {"spawn", "register"}
    BY <1>9 DEF Becomes, u
  <2>4. \A l \in Sinks : sink'[l].chunk <= made BY <1>17, <2>1 DEF OneSink
  <2>5. \A l, m \in Sinks : sink'[l].chunk # 0 /\ sink'[l].chunk = sink'[m].chunk => l = m
    BY <1>17, <2>1 DEF OneSink, Holds
  <2>6. \A i \in Ids : i > made => row'[i] = NoRow /\ file'[i] = NoFile /\ active[i] = 0
    <3>1. made \in Nat /\ c \in Nat BY <1>1 DEF RecTypes, Ids
    <3>2. \A i \in Ids : i > made => i # c BY ONLY <1>3, <3>1 DEF Ids
    <3> QED BY <1>10, <1>12, <2>1, <3>2 DEF OneSink
  <2>7. \A i \in Ids : active[i] # 0 => sink'[active[i]].chunk = i BY <1>17, <2>1, <2>2 DEF OneSink
  <2>8. \A l \in Sinks : sink'[l].pc \in {"spawn", "register"} => active[sink'[l].chunk] = 0
    BY <1>17, <2>1, <2>3 DEF OneSink
  <2> QED BY <1>1, <2>4, <2>5, <2>6, <2>7, <2>8 DEF OneSink, Holds
<1>20. OwnChunk'
  <2>1. OwnOf(k)' BY <1>2, <1>4, <1>9, <1>10, <1>12 DEF OwnOf, Holds, s, u
  <2>2. \A l \in Sinks : l # k /\ sink[l].chunk # 0 =>
          row'[sink[l].chunk] = row[sink[l].chunk] /\ file'[sink[l].chunk] = file[sink[l].chunk]
    <3>1. \A l \in Sinks : sink[l].chunk # 0 => sink[l].chunk \in Ids
      <4>1. \A l \in Sinks : sink[l] \in SinkRecs BY <1>1 DEF RecTypes
      <4> QED BY <4>1 DEF SinkRecs, Ids
    <3>2. \A l \in Sinks : l # k => sink[l].chunk # c BY <1>1, <1>2 DEF RecShape, OneSink, Holds, s
    <3> QED BY <1>10, <1>12, <3>1, <3>2
  <2> QED BY <1>1, <1>9, <1>13, <2>1, <2>2, OwnByOne
<1>21. \A t \in Nat : Waits(k, t)' => Waits(k, t) BY <1>9 DEF Waits, Taken, s, u
<1>22. \A t \in Nat : Mark(k, t)' => Mark(k, t) BY <1>9, <1>21 DEF Mark, Holds, s, u
<1>23. MarksShrink BY <1>9, <1>13, <1>22, OneShrinks
<1>24. \A i \in Ids : i # c => \A t \in Nat : Plays(i, t)' <=> Plays(i, t)
  BY <1>1, <1>10, <1>12 DEF Plays
<1>25. \A t \in Nat : Plays(c, t)' => s.offset <= t /\ t <= s.frame
  BY SMTT(30), <1>1, <1>4, <1>8, <1>10, <1>12 DEF Plays
<1>26. RecTimes'
  <2>1. InOrder'
    <3>1. Holds(k)' => \A t \in Nat : Waits(k, t)' => u.offset + u.n <= t
      <4> SUFFICES ASSUME NEW t \in Nat, Waits(k, t)' PROVE u.offset + u.n <= t
        OBVIOUS
      <4>1. PICK j \in 1 .. Len(u.queue) : u.queue[j] = t BY <1>9 DEF Waits, Taken, u
      <4>2. s.frame < t BY <1>5, <1>9, <4>1 DEF OrderOf, s
      <4> QED BY <1>1, <1>8, <1>9, <4>2
    <3>2. OrderOf(k)' BY <1>5, <1>9, <3>1 DEF OrderOf, Taken, s, u
    <3> QED BY <1>9, <1>13, <3>2, OneOrdered
  <2>2. RunsInOrder' BY <1>1, <1>23 DEF RecTimes, RunsInOrder, MarksShrink
  <2>3. SpanFree'
    <3> SUFFICES ASSUME NEW i \in Ids, NEW l \in Sinks, NEW t \in Nat, ProbeWorks, Plays(i, t)', sink[l].chunk # i
        PROVE \/ \A m \in Nat : Mark(l, m)' => t < m
              \/ l < runs /\ \A m \in Nat : Mark(l, m)' => m < t
      BY <1>1, <1>17 DEF SpanFree
    <3>1. CASE i # c BY <1>1, <1>23, <1>24, <3>1 DEF RecTimes, SpanFree, MarksShrink
    <3>2. CASE i = c
      <4>1. s.offset <= t /\ t <= s.frame BY <1>25, <3>2
      <4>2. l # k BY <1>2, <3>2 DEF s
      <4>3. CASE l < k
        <5>1. l < runs BY <1>1, <1>11, <4>3 DEF RecTypes, Sinks
        <5>2. \A m \in Nat : Mark(l, m)' => m < s.offset
          BY <1>1, <1>5, <1>23, <4>3 DEF RecTimes, RunsInOrder, MarksShrink
        <5> QED BY <1>1, <4>1, <5>1, <5>2
      <4>4. CASE l > k
        <5>1. \A m \in Nat : Mark(l, m)' => s.frame < m
          BY <1>1, <1>5, <1>23, <4>4 DEF RecTimes, RunsInOrder, MarksShrink, Sinks
        <5> QED BY <1>1, <4>1, <5>1
      <4> QED BY <4>2, <4>3, <4>4 DEF Sinks
    <3> QED BY <3>1, <3>2
  <2>4. PlaysApart'
    <3>1. \A j \in Ids : \A t \in Nat : j # c /\ ProbeWorks /\ Plays(c, t)' => ~Plays(j, t)
      <4> SUFFICES ASSUME NEW j \in Ids, NEW t \in Nat, j # c, ProbeWorks, Plays(c, t)', Plays(j, t)
          PROVE FALSE
        OBVIOUS
      <4>1. s.offset <= t /\ t <= s.frame BY <1>25
      <4>2. \/ \A m \in Nat : Mark(k, m) => t < m
            \/ \A m \in Nat : Mark(k, m) => m < t
        BY <1>1, <1>2 DEF RecTimes, SpanFree, s
      <4> QED BY <1>1, <1>5, <4>1, <4>2
    <3> QED BY <1>1, <1>24, <3>1 DEF RecTimes, PlaysApart
  <2>5. BeforeClock'
    <3>1. \A l \in Sinks : \A t \in Nat : Mark(l, t)' => t < clock
      BY <1>1, <1>11, <1>23 DEF RecTimes, BeforeClock, MarksShrink
    <3>2. \A i \in Ids : \A t \in Nat : ProbeWorks /\ Plays(i, t)' => t < clock
      BY <1>1, <1>11, <1>24, <1>25 DEF RecTimes, BeforeClock
    <3> QED BY <1>1, <3>1, <3>2 DEF BeforeClock
  <2>6. InRows'
    <3>1. runs \in Sinks BY <1>1, <1>11, RunIsSink DEF RecShape
    <3>2. ~Fresh' BY <1>11, <1>15, <3>1 DEF Fresh, SameRuns
    <3> QED BY <1>1, <1>4, <1>10, <1>12, <3>2 DEF RecTimes, InRows
  <2>7. Bounded'
    <3>1. WaitsShrink BY <1>9, <1>13, <1>21, OneWaits
    <3>2. u.offset + u.n <= MaxTime /\ u.offset + u.n <= clock
      BY <1>1, <1>8, <1>9, <1>11, Bounds
    <3>3. \A l \in Sinks : Holds(l)' => /\ sink'[l].offset + sink'[l].n <= MaxTime
                                        /\ sink'[l].offset + sink'[l].n <= clock
      BY <1>1, <1>9, <3>2 DEF RecTimes, Bounded, Becomes, Holds, u
    <3>4. row'[c].status # "none" => row'[c].offset + Len(file'[c].plays) <= MaxTime
      BY <1>1, <1>4, <1>8, <1>10, <1>11, <1>12, Bounds
    <3> QED BY <1>1, <1>10, <1>12, <3>1, <3>3, <3>4 DEF RecTimes, Bounded, WaitsShrink
  <2> QED BY <2>1, <2>2, <2>3, <2>4, <2>5, <2>6, <2>7 DEF RecTimes
<1>27. OnClock'
  <2> SUFFICES ASSUME NEW i \in Ids, row'[i].status # "none", NEW j \in 1 .. Len(file'[i].plays)
      PROVE file'[i].plays[j] \in {Silence, row'[i].offset + j - 1}
    BY DEF OnClock, Stored
  <2>1. CASE i # c BY <1>10, <1>12, <2>1 DEF RecInv, OnClock, Stored
  <2>2. CASE i = c
    <3>1. j \in 1 .. n /\ row[c].status # "none" /\ row'[c].offset = row[c].offset /\ row[c].offset = s.offset
      BY <1>4, <1>10, <1>12, <2>2
    <3>2. CASE j <= s.n
      <4>1. j \in 1 .. Len(file[c].plays) BY <1>1, <1>4, <3>1, <3>2
      <4> QED BY <1>10, <2>2, <3>1, <3>2, <4>1 DEF RecInv, OnClock, Stored
    <3>3. CASE ~(j <= s.n)
      <4>1. PICK m \in Nat : m = Len(more) BY <1>7, LenProperties
      <4>2. j - s.n \in 1 .. m BY SMTT(30), <1>1, <1>8, <3>1, <3>3, <4>1
      <4>3. file'[c].plays[j] = more[j - s.n] BY <1>10, <3>1, <3>3
      <4>4. CASE j - s.n < m BY <1>7, <2>2, <4>1, <4>2, <4>3, <4>4
      <4>5. CASE j - s.n = m
        <5>1. more[j - s.n] = s.frame BY <1>7, <4>1, <4>2, <4>5
        <5>2. s.offset + j = s.frame + 1
          <6>1. PICK o \in Nat, p \in Nat : o = s.offset /\ p = s.n BY <1>1
          <6>2. n = p + m /\ o + n = s.frame + 1 /\ j - p = m /\ j \in Nat BY <1>8, <4>1, <4>5, <3>1, <6>1
          <6>3. j = n BY ONLY <6>2, p \in Nat, m \in Nat
          <6> QED BY <6>1, <6>2, <6>3
        <5>3. row'[i].offset + j - 1 = s.frame
          <6>1. PICK o \in Nat, f \in Nat : o = s.offset /\ f = s.frame BY <1>1
          <6>2. row'[i].offset = o BY <2>2, <3>1, <6>1
          <6>3. o + j = f + 1 /\ j \in Nat BY <3>1, <5>2, <6>1
          <6>4. o + j - 1 = f BY ONLY <6>3, o \in Nat, f \in Nat
          <6> QED BY <6>1, <6>2, <6>4
        <5> QED BY <2>2, <4>3, <5>1, <5>3
      <4> QED BY <1>1, <3>1, <4>2, <4>4, <4>5
    <3> QED BY <3>2, <3>3
  <2> QED BY <2>1, <2>2
<1>28. RowsSettle' BY <1>1, <1>12, <1>17 DEF RecInv, RowsSettle, Being, BeingDeleted
<1>29. Asked'
  <2>1. \A d \in Deleters : del[d].pc = "row" /\ del[d].sink # 0 => ~file'[del[d].id].there
    <3> SUFFICES ASSUME NEW d \in Deleters, del[d].pc = "row", del[d].sink # 0 PROVE ~file'[del[d].id].there
      OBVIOUS
    <3>1. del[d].id \in Ids BY DeletionKnown
    <3>2. ~file[del[d].id].there BY DEF RecInv, Asked
    <3> QED BY <1>10, <3>1, <3>2
  <2> QED BY <1>1, <1>17, <2>1 DEF RecInv, Asked
<1> QED BY <1>14, <1>16, <1>18, <1>19, <1>20, <1>26, <1>27, <1>28, <1>29 DEF RecInv, RecShape

\* Naturals that are not endless have a greatest.
LEMMA LeastOfNat == ASSUME NEW T \in SUBSET Nat, T # {} PROVE \E x \in T : \A y \in T : x <= y
<1>1. PICK x \in T : \A y \in T : ~ (<<y, x>> \in OpToRel(<, Nat))
  BY WFMin, NatLessThanWellFounded
<1>2. \A y \in T : ~ (y < x)
  <2> SUFFICES ASSUME NEW y \in T, y < x PROVE FALSE
    OBVIOUS
  <2>1. <<y, x>> \in Nat \X Nat OBVIOUS
  <2>2. <<y, x>>[1] < <<y, x>>[2] OBVIOUS
  <2>3. <<y, x>> \in OpToRel(<, Nat) BY <2>1, <2>2 DEF OpToRel
  <2> QED BY <1>1, <2>3
<1> QED BY <1>2

\* MaxOf is what it says of a set that is bounded.
LEMMA MaxIsMost ==
  ASSUME NEW B \in Nat, NEW T \in SUBSET (0 .. B), T # {}
  PROVE  MaxOf(T) \in T /\ \A y \in T : MaxOf(T) >= y
<1> DEFINE U == {B - y : y \in T}
<1>1. U \in SUBSET Nat /\ U # {}
  <2>1. \A y \in T : B - y \in Nat OBVIOUS
  <2>2. PICK y \in T : TRUE OBVIOUS
  <2>3. B - y \in U BY <2>2
  <2> QED BY <2>1, <2>3
<1> HIDE DEF U
<1>2. PICK u \in U : \A v \in U : u <= v BY <1>1, LeastOfNat
<1>3. PICK x \in T : u = B - x BY <1>2 DEF U
<1>4. \A y \in T : x >= y
  <2> SUFFICES ASSUME NEW y \in T PROVE x >= y OBVIOUS
  <2>1. B - y \in U BY DEF U
  <2>2. u <= B - y BY <1>2, <2>1
  <2>3. x \in Nat /\ y \in Nat /\ B \in Nat OBVIOUS
  <2> QED BY ONLY <1>3, <2>2, <2>3
<1> QED BY <1>4 DEF MaxOf

\* The last recording's end is after whatever a row says was recorded.
LEMMA LastEnd ==
  ASSUME RecTypes, Bounded
  PROVE  /\ LastRecordingEnd \in 0 .. MaxTime
         /\ \A i \in Ids : row[i].status # "none" => row[i].offset + row[i].length <= LastRecordingEnd
<1> DEFINE T == {0} \cup {row[i].offset + row[i].length : i \in Stored}
<1>1. T \in SUBSET (0 .. MaxTime) /\ T # {}
  <2>1. \A i \in Stored : row[i].offset + row[i].length \in 0 .. MaxTime
    <3> SUFFICES ASSUME NEW i \in Stored PROVE row[i].offset + row[i].length \in 0 .. MaxTime
      OBVIOUS
    <3>1. row[i] \in RowRecs /\ row[i].status # "none" BY DEF RecTypes, Stored
    <3>2. row[i].offset \in Nat /\ row[i].length \in Nat BY <3>1 DEF RowRecs
    <3>3. row[i].offset + row[i].length <= MaxTime BY <3>1 DEF Bounded, Stored
    <3> QED BY <3>2, <3>3, Bounds
  <2>2. 0 \in 0 .. MaxTime BY Bounds
  <2> QED BY <2>1, <2>2
<1>2. \A i \in Stored : row[i].offset + row[i].length \in T OBVIOUS
<1> HIDE DEF T
<1>3. MaxOf(T) \in T /\ \A y \in T : MaxOf(T) >= y BY <1>1, Bounds, MaxIsMost
<1>4. MaxOf(T) \in 0 .. MaxTime BY <1>1, <1>3
<1>5. \A i \in Stored : row[i].offset + row[i].length <= MaxOf(T)
  <2> SUFFICES ASSUME NEW i \in Stored PROVE row[i].offset + row[i].length <= MaxOf(T)
    OBVIOUS
  <2>1. PICK y \in T : y = row[i].offset + row[i].length BY <1>2
  <2>2. y \in Nat /\ MaxOf(T) >= y BY <1>1, <1>3, Bounds
  <2> QED BY <1>4, <2>1, <2>2, Bounds
<1>6. LastRecordingEnd = MaxOf(T) BY DEF LastRecordingEnd, T
<1> QED BY <1>4, <1>5, <1>6 DEF Stored

\* A run starts after all that was recorded before, as far as it can read.
LEMMA StartRunKeeps == ASSUME RecInv, StartRun \/ StartUnread PROVE RecInv'
<1>1. /\ RecTypes /\ RecShape /\ RecTimes /\ Started /\ runs \in Nat /\ clock \in Nat /\ left \in Lefts
      /\ sink \in [Sinks -> SinkRecs] /\ clock <= MaxTime + runs
  BY DEF RecInv, RecShape, RecTypes, RecTimes, Bounded
<1>2. /\ StartAt(clock') /\ runs' = runs + 1 /\ behind \subseteq behind'
      /\ UNCHANGED <<row, file, made, active, del, deleted, stuck>>
      /\ \/ clock' = ClockOrigin /\ behind' = behind
         \/ Fresh /\ clock' = 0 /\ behind' = behind \cup Stored
  BY DEF StartRun, StartUnread, StartAt
<1>3. left' \in Lefts /\ left'.runs = left.runs - 1 /\ left.runs > 0 /\ left.runs \in Nat
  <2>1. left.runs > 0 BY <1>2 DEF StartAt
  <2>2. CASE StartRun
    <3>1. left' \in Lefts /\ left'.runs = left.runs - 1 BY <1>1, <2>2, HappensLeft DEF StartRun
    <3> QED BY <1>1, <2>1, <3>1 DEF Lefts
  <2>3. CASE StartUnread
    <3>1. PICK m \in Nat, f \in Nat : m = left.runs - 1 /\ f = left.fails - 1
      BY <1>1, <2>1, <2>3 DEF StartUnread, Lefts
    <3>2. left' = [left EXCEPT !.runs = m, !.fails = f] BY <2>3, <3>1 DEF StartUnread
    <3>3. left' \in Lefts /\ left'.runs = m BY ONLY <1>1, <3>1, <3>2 DEF Lefts
    <3> QED BY <1>1, <2>1, <3>1, <3>3 DEF Lefts
  <2> QED BY <2>2, <2>3
<1>4. runs + left.runs <= MaxRuns BY <1>1 DEF Started
<1>5. PICK r \in Sinks : r = runs + 1 BY <1>1, <1>3, <1>4, Bounds DEF Sinks
<1>6. sink[r] = NoSink BY <1>1, <1>5 DEF Started
<1>7. /\ sink' \in [Sinks -> SinkRecs] /\ \A l \in Sinks : l # r => sink'[l] = sink[l]
      /\ sink'[r].pc = "loop" /\ sink'[r].chunk = 0 /\ sink'[r].queue = <<>>
  <2>1. sink' = [sink EXCEPT ![r].pc = "loop"] BY <1>2, <1>5 DEF StartAt
  <2>2. "loop" \in Places BY DEF Places
  <2>3. /\ sink' \in [Sinks -> SinkRecs] /\ \A l \in Sinks : l # r => sink'[l] = sink[l]
        /\ sink'[r].pc = "loop" /\ sink'[r].chunk = sink[r].chunk /\ sink'[r].queue = sink[r].queue
    <3>1. PICK v \in SinkRecs : v = [sink[r] EXCEPT !.pc = "loop"]
      BY ONLY <1>1, <2>2, r \in Sinks DEF SinkRecs
    <3>2. v.pc = "loop" /\ v.chunk = sink[r].chunk /\ v.queue = sink[r].queue
      <4>1. sink[r] \in SinkRecs BY <1>1
      <4> QED BY ONLY <3>1, <4>1 DEF SinkRecs
    <3>3. sink' = [sink EXCEPT ![r] = v] BY ONLY <2>1, <3>1
    <3>4. /\ sink' \in [Sinks -> SinkRecs] /\ sink'[r] = v
          /\ \A l \in Sinks : l # r => sink'[l] = sink[l]
      BY ONLY <1>1, <3>3, v \in SinkRecs, r \in Sinks
    <3> QED BY <3>2, <3>4
  <2> QED BY <1>6, <2>3 DEF NoSink
<1>8. \A t \in Nat : ~Mark(r, t) /\ ~Mark(r, t)' /\ ~Waits(r, t)'
  BY <1>6, <1>7 DEF Mark, Waits, Taken, Holds, NoSink
<1>9. \A l \in Sinks : l # r => \A t \in Nat : (Mark(l, t)' <=> Mark(l, t)) /\ (Waits(l, t)' <=> Waits(l, t))
  BY <1>7 DEF Mark, Waits, Taken, Holds
<1>10. MarksShrink BY <1>8, <1>9 DEF MarksShrink
<1>11. \A l \in Sinks : sink'[l].chunk = sink[l].chunk BY <1>6, <1>7 DEF NoSink
<1>12. \A i \in Ids : \A t \in Nat : Plays(i, t)' => Plays(i, t) BY <1>2 DEF Plays
<1>13. clock' \in Nat /\ clock' <= MaxTime + runs'
       /\ (\A l \in Sinks : \A t \in Nat : Mark(l, t) => t < clock')
       /\ (\A i \in Ids : \A t \in Nat : ProbeWorks /\ Plays(i, t)' => t < clock')
  <2>1. CASE ~Fresh
    <3>1. clock' = IF clock = 0 THEN 0 ELSE clock + 1 BY <1>2, <2>1 DEF ClockOrigin
    <3>2. clock' \in Nat /\ clock <= clock' /\ clock' <= MaxTime + runs' BY <1>1, <1>2, <3>1, Bounds
    <3>3. runs > 0 /\ sink[runs].pc # "dead" BY <1>1, <2>1 DEF Fresh
    <3>4. /\ \A l \in Sinks : \A t \in Nat : Mark(l, t) => t < clock
          /\ \A i \in Ids : \A t \in Nat : ProbeWorks /\ Plays(i, t) => t < clock
      BY <1>1, <3>3 DEF RecTimes, BeforeClock
    <3> QED BY <1>1, <1>12, <3>2, <3>4
  <2>2. CASE Fresh
    <3>1. PICK e \in 0 .. MaxTime : e = LastRecordingEnd
            /\ \A i \in Ids : row[i].status # "none" => row[i].offset + row[i].length <= e
      BY <1>1, LastEnd DEF RecTimes
    <3>2. \/ clock' = IF e = 0 THEN 0 ELSE e + 1
          \/ clock' = 0 /\ behind' = behind \cup Stored
      BY <1>2, <2>2, <3>1 DEF ClockOrigin
    <3>3. clock' \in Nat /\ clock' <= MaxTime + runs' /\ (e <= clock' \/ behind' = behind \cup Stored)
      BY <1>1, <1>2, <3>1, <3>2, Bounds
    <3>4. \A l \in Sinks : \A t \in Nat : ~Mark(l, t)
      <4> SUFFICES ASSUME NEW l \in Sinks PROVE \A t \in Nat : ~Mark(l, t)
        OBVIOUS
      <4>1. sink[l] = NoSink \/ sink[l].pc = "dead"
        <5>1. CASE l > runs BY <1>1, <5>1 DEF Started
        <5>2. CASE ~(l > runs) BY <1>1, <2>2, <5>2 DEF Started, Fresh, Sinks
        <5> QED BY <5>1, <5>2
      <4>2. sink[l].queue = <<>> /\ ~Holds(l) /\ ~Taken(l)
        BY <1>1, <4>1 DEF Started, RecShape, PlaceOfChunk, Holds, Taken, NoSink
      <4> QED BY <4>2 DEF Mark, Waits
    <3>5. \A i \in Ids : \A t \in Nat : ProbeWorks /\ Plays(i, t)' => t < clock'
      <4> SUFFICES ASSUME NEW i \in Ids, NEW t \in Nat, ProbeWorks, Plays(i, t)' PROVE t < clock'
        OBVIOUS
      <4>8. Plays(i, t) BY <1>12
      <4>9. i \in Stored BY <4>8 DEF Plays, Stored
      <4>10. e <= clock' BY <3>3, <4>9 DEF Plays
      <4>1. row[i] \in RowRecs /\ file[i] \in FileRecs BY <1>1 DEF RecTypes
      <4>2. row[i].status \in {"complete", "failed"}
        BY <1>1, <2>2, <4>1, <4>8 DEF RecTimes, InRows, Plays, RowRecs, Statuses
      <4>3. Len(file[i].plays) <= row[i].length BY <1>1, <4>2, <4>8 DEF RecTimes, InRows, Plays
      <4>4. row[i].offset \in Nat /\ row[i].length \in Nat /\ Len(file[i].plays) \in Nat
        BY <4>1 DEF RowRecs, FileRecs
      <4>5. t < row[i].offset + Len(file[i].plays) BY <4>8 DEF Plays
      <4>6. row[i].offset + row[i].length <= e BY <3>1, <4>2
      <4>7. t < e BY ONLY <3>1, <4>3, <4>4, <4>5, <4>6, Bounds, t \in Nat, e \in 0 .. MaxTime
      <4> QED BY <3>1, <3>3, <4>7, <4>10, Bounds
    <3> QED BY <3>3, <3>4, <3>5
  <2> QED BY <2>1, <2>2
<1>14. RecShape'
  <2>1. RecTypes'
    <3>1. dir' \in BOOLEAN BY <1>2, Zenon DEF StartAt
    <3> QED BY <1>1, <1>2, <1>3, <1>7, <1>13, <3>1 DEF RecTypes
  <2>2. Started'
    <3>1. runs' + left'.runs <= MaxRuns BY <1>1, <1>2, <1>3, <1>4, Bounds
    <3>2. \A l \in Sinks : IF l > runs' THEN sink'[l] = NoSink ELSE sink'[l].pc # "none"
      BY <1>1, <1>2, <1>5, <1>7 DEF Started, Sinks
    <3>3. \A l \in Sinks : sink'[l].pc = "dead" => sink'[l].queue = <<>> BY <1>1, <1>7 DEF Started
    <3>4. sink'[runs'].pc # "dead" BY <1>2, <1>5, <1>7
    <3>5. \A l \in Sinks : Len(sink'[l].queue) <= Buffer BY <1>1, <1>7, Bounds DEF Started
    <3> QED BY <3>1, <3>2, <3>3, <3>4, <3>5 DEF Started
  <2>3. PlaceOfChunk' BY <1>1, <1>7 DEF RecShape, PlaceOfChunk, Holds
  <2>4. OneSink'
    <3>1. \A i \in Ids : active[i] # 0 => active[i] \in Sinks BY <1>1 DEF RecTypes, Sinks
    <3>2. \A l \in Sinks : sink'[l].pc \in {"spawn", "register"} => sink[l].pc \in {"spawn", "register"}
      BY <1>7
    <3> QED BY <1>1, <1>2, <1>11, <3>1, <3>2 DEF RecShape, OneSink, Holds
  <2>5. OwnChunk' BY <1>1, <1>2, <1>7 DEF RecShape, OwnChunk, Holds
  <2> QED BY <2>1, <2>2, <2>3, <2>4, <2>5 DEF RecShape
<1>15. RecTimes'
  <2>1. InOrder'
    <3>1. \A l \in Sinks : OrderOf(l) BY <1>1 DEF RecTimes, InOrder, OrderOf
    <3>2. \A l \in Sinks : l # r => OrderOf(l)' BY <1>7, <3>1 DEF OrderOf, Taken, Holds, Waits
    <3>3. OrderOf(r)' BY <1>7 DEF OrderOf, Taken, Holds
    <3> QED BY <3>2, <3>3 DEF InOrder, OrderOf
  <2>2. RunsInOrder' BY <1>1, <1>10 DEF RecTimes, RunsInOrder, MarksShrink
  <2>3. SpanFree'
    <3> SUFFICES ASSUME NEW i \in Ids, NEW l \in Sinks, NEW t \in Nat, ProbeWorks, Plays(i, t), sink[l].chunk # i
        PROVE \/ \A m \in Nat : Mark(l, m)' => t < m
              \/ l < runs + 1 /\ \A m \in Nat : Mark(l, m)' => m < t
      BY <1>2, <1>11, <1>12 DEF SpanFree
    <3>1. \/ \A m \in Nat : Mark(l, m) => t < m
          \/ l < runs /\ \A m \in Nat : Mark(l, m) => m < t
      BY <1>1 DEF RecTimes, SpanFree
    <3>2. l < runs => l < runs + 1 BY <1>1 DEF Sinks
    <3> QED BY <1>10, <3>1, <3>2 DEF MarksShrink
  <2>4. PlaysApart' BY <1>1, <1>12 DEF RecTimes, PlaysApart
  <2>5. BeforeClock' BY <1>10, <1>13 DEF BeforeClock, MarksShrink
  <2>6. InRows'
    <3>1. ~Fresh' BY <1>1, <1>2, <1>5, <1>7 DEF Fresh
    <3> QED BY <1>1, <1>2, <3>1 DEF RecTimes, InRows
  <2>7. Bounded'
    <3>1. \A l \in Sinks : \A t \in Nat : Waits(l, t)' => t < MaxTime BY <1>1, <1>8, <1>9 DEF RecTimes, Bounded
    <3>2. \A l \in Sinks : Holds(l)' =>
            /\ sink'[l].offset + sink'[l].n <= MaxTime /\ sink'[l].offset + sink'[l].n <= clock'
      <4> SUFFICES ASSUME NEW l \in Sinks, Holds(l)'
          PROVE sink'[l].offset + sink'[l].n <= MaxTime /\ sink'[l].offset + sink'[l].n <= clock'
        OBVIOUS
      <4>1. l # r /\ sink'[l] = sink[l] /\ Holds(l) BY <1>7 DEF Holds
      <4>2. PICK x \in Nat : x = sink[l].offset + sink[l].n
        <5>1. sink[l] \in SinkRecs BY <1>1
        <5> QED BY <5>1 DEF SinkRecs
      <4>3. x <= MaxTime /\ x <= clock BY <1>1, <4>1, <4>2 DEF RecTimes, Bounded
      <4>4. clock <= clock'
        <5>1. ~Fresh
          <6>1. l <= runs
            <7>1. ~(l > runs) BY <1>1, <4>1 DEF Started, Holds, NoSink
            <7> QED BY <1>1, <7>1 DEF Sinks
          <6>2. sink[l].pc # "dead" BY <1>1, <4>1 DEF RecShape, PlaceOfChunk
          <6> QED BY <1>1, <6>1, <6>2 DEF Started, Fresh, Sinks
        <5> QED BY <1>1, <1>2, <5>1 DEF ClockOrigin
      <4> QED BY <1>1, <1>13, <4>1, <4>2, <4>3, <4>4
    <3> QED BY <1>1, <1>2, <1>13, <3>1, <3>2 DEF RecTimes, Bounded
  <2> QED BY <2>1, <2>2, <2>3, <2>4, <2>5, <2>6, <2>7 DEF RecTimes
<1>16. OnClock' BY <1>2 DEF RecInv, OnClock, Stored
<1>17. RowsSettle' BY <1>2, <1>11 DEF RecInv, RowsSettle, Being, BeingDeleted
<1>18. Asked' BY <1>2, <1>11 DEF RecInv, Asked
<1> QED BY <1>14, <1>15, <1>16, <1>17, <1>18 DEF RecInv

\* What plays before a cut.
LEMMA CutPlays ==
  ASSUME NEW p \in Seq(Nat), NEW n \in 0 .. Len(p)
  PROVE  /\ SubSeq(p, 1, n) \in Seq(Nat) /\ Len(SubSeq(p, 1, n)) \in Nat /\ Len(SubSeq(p, 1, n)) <= Len(p)
         /\ \A j \in 1 .. Len(SubSeq(p, 1, n)) : SubSeq(p, 1, n)[j] = p[j]
<1>1. /\ 1 \in Int /\ n \in Int /\ n \in Nat /\ n <= Len(p) /\ \A i \in 1 .. n : p[i] \in Nat OBVIOUS
<1>2. /\ SubSeq(p, 1, n) \in Seq(Nat)
      /\ Len(SubSeq(p, 1, n)) = IF 1 <= n THEN n - 1 + 1 ELSE 0
      /\ \A i \in 1 .. n - 1 + 1 : SubSeq(p, 1, n)[i] = p[1 + i - 1]
  BY ONLY <1>1, SubSeqProperties
<1>3. n - 1 + 1 = n /\ \A i \in 1 .. n : 1 + i - 1 = i BY ONLY <1>1
<1>4. Len(SubSeq(p, 1, n)) = n BY ONLY <1>1, <1>2, <1>3
<1>5. \A i \in 1 .. n : SubSeq(p, 1, n)[i] = p[i] BY ONLY <1>2, <1>3
<1> QED BY ONLY <1>1, <1>2, <1>4, <1>5

\* What a crash and the recovery after it do to recording i.
CutShort(i) ==
  /\ file'[i] \in FileRecs /\ row'[i] \in RowRecs
  /\ file'[i].there = file[i].there /\ Len(file'[i].plays) <= Len(file[i].plays)
  /\ \A j \in 1 .. Len(file'[i].plays) : file'[i].plays[j] = file[i].plays[j]
  /\ row'[i].offset = row[i].offset /\ (row'[i].status = "none" <=> row[i].status = "none")
  /\ row[i].status # "recording" => row'[i] = row[i]
  /\ row'[i].status = "recording" => row'[i] = row[i] /\ i \in behind' /\ i \in stuck'
  /\ row[i].status = "recording" =>
       \/ row'[i] = row[i]
       \/ row'[i].length = row[i].length /\ (ProbeWorks /\ file[i].there => Len(file'[i].plays) = 0)
       \/ row'[i].length = Len(file'[i].plays)
  /\ ~Being(i) => file'[i] = file[i]

\* A crash and the recovery do no more than that.
LEMMA CrashCuts ==
  ASSUME RecInv, Crash
  PROVE  /\ \A i \in Ids : CutShort(i)
         /\ file' = [i \in Ids |-> file'[i]] /\ row' = [i \in Ids |-> row'[i]]
<1>1. /\ RecTypes /\ row \in [Ids -> RowRecs] /\ file \in [Ids -> FileRecs]
  BY DEF RecInv, RecShape, RecTypes
<1> DEFINE Kept(cut, i) == IF i \in DOMAIN cut THEN SubSeq(file[i].plays, 1, cut[i]) ELSE file[i].plays
<1>2. PICK m \in 0 .. made, cut \in [{i \in Ids : Being(i)} -> 0 .. MaxTime] :
        /\ \A i \in DOMAIN cut : cut[i] <= Len(file[i].plays)
        /\ file' = [i \in Ids |-> [file[i] EXCEPT !.plays = Kept(cut, i)]]
        /\ row' = [i \in Ids |-> IF i \in Missed(m) THEN row[i] ELSE Recovered(i, Kept(cut, i))]
        /\ stuck' = Missed(m) /\ behind' = behind \cup Missed(m)
  BY Zenon DEF Crash
<1>3. ASSUME NEW i \in Ids PROVE CutShort(i)
  <2>1. PICK q : q = Kept(cut, i) OBVIOUS
  <2>2. file'[i] = [file[i] EXCEPT !.plays = q] /\ row'[i] = IF i \in Missed(m) THEN row[i] ELSE Recovered(i, q)
    BY <1>2, <2>1
  <2>3. PICK p \in Seq(Nat) : p = file[i].plays BY <1>1 DEF FileRecs
  <2>4. /\ q \in Seq(Nat) /\ Len(q) \in Nat /\ Len(q) <= Len(p) /\ (\A j \in 1 .. Len(q) : q[j] = p[j])
        /\ ~Being(i) => q = p
    <3>1. CASE i \in DOMAIN cut
      <4>1. Being(i) /\ cut[i] \in 0 .. Len(p) BY <1>2, <2>3, <3>1, Bounds
      <4>2. PICK n \in 0 .. Len(p) : n = cut[i] BY <4>1
      <4>3. q = SubSeq(p, 1, n) BY <2>1, <2>3, <3>1, <4>2
      <4> QED BY <4>1, <4>3, CutPlays
    <3>2. CASE i \notin DOMAIN cut
      <4>1. q = p BY <2>1, <2>3, <3>2
      <4> QED BY <2>3, <4>1
    <3> QED BY <3>1, <3>2
  <2>5. file'[i] \in FileRecs /\ file'[i].there = file[i].there /\ file'[i].plays = q
        /\ (q = p => file'[i] = file[i])
    <3>1. file[i] \in FileRecs BY <1>1
    <3> QED BY ONLY <2>2, <2>3, <2>4, <3>1 DEF FileRecs
  <2>6. /\ row'[i] \in RowRecs
        /\ row'[i].offset = row[i].offset /\ (row'[i].status = "none" <=> row[i].status = "none")
        /\ row[i].status # "recording" => row'[i] = row[i]
        /\ row'[i].status = "recording" => row'[i] = row[i] /\ i \in Missed(m)
        /\ row[i].status = "recording" =>
             \/ row'[i] = row[i]
             \/ row'[i].length = row[i].length /\ ~(ProbeWorks /\ file[i].there /\ q # <<>>)
             \/ row'[i].length = Len(q)
    <3>1. row[i] \in RowRecs BY <1>1
    <3>2. CASE row[i].status # "recording" BY <2>2, <3>1, <3>2 DEF Recovered
    <3>4. CASE row[i].status = "recording" /\ i \in Missed(m)
      <4>1. row'[i] = row[i] BY ONLY <2>2, <3>4
      <4> QED BY ONLY <3>1, <3>4, <4>1
    <3>3. CASE row[i].status = "recording" /\ i \notin Missed(m)
      <4>1. PICK st \in {"complete", "failed"} : st = IF file[i].there /\ q # <<>> THEN "complete" ELSE "failed"
        OBVIOUS
      <4>2. PICK len \in Nat : /\ len = IF ProbeWorks /\ file[i].there /\ q # <<>> THEN Len(q) ELSE row[i].length
        BY <2>4, <3>1 DEF RowRecs
      <4>3. row'[i] = [row[i] EXCEPT !.status = st, !.length = len] BY <2>2, <3>3, <4>1, <4>2 DEF Recovered
      <4>4. row'[i] \in RowRecs /\ row'[i].offset = row[i].offset /\ row'[i].status = st /\ row'[i].length = len
        BY ONLY <3>1, <4>3, st \in {"complete", "failed"}, len \in Nat DEF RowRecs, Statuses
      <4> QED BY <3>3, <4>2, <4>4
    <3> QED BY <3>2, <3>3, <3>4
  <2>7. q = <<>> => Len(q) = 0 OBVIOUS
  <2> QED BY <1>2, <2>3, <2>4, <2>5, <2>6, <2>7 DEF CutShort
<1> QED BY <1>2, <1>3

\* After a crash nothing is written; what was recorded stays, as far as it was flushed.
LEMMA CrashKeeps == ASSUME RecInv, Crash PROVE RecInv'
<1>1. /\ RecTypes /\ RecShape /\ RecTimes /\ Started /\ OneSink /\ runs \in Nat /\ clock \in Nat /\ left \in Lefts
      /\ \A i \in Ids : row[i] \in RowRecs /\ file[i] \in FileRecs
      /\ made \in 0 .. MaxChunks
  BY DEF RecInv, RecShape, RecTypes
<1>2. /\ sink' = [k \in Sinks |-> IF k <= runs THEN [NoSink EXCEPT !.pc = "dead"] ELSE NoSink]
      /\ active' = [i \in Ids |-> 0] /\ del' = [d \in Deleters |-> Idle]
      /\ UNCHANGED <<clock, runs, made, dir, deleted>> /\ runs > 0 /\ behind \subseteq behind'
  BY DEF Crash
<1>3. left' \in Lefts /\ left'.runs = left.runs
  <2>1. PICK m : /\ left.boots > 0 /\ (Missed(m) # {} => left.fails > 0)
                 /\ left' = [left EXCEPT !.boots = @ - 1, !.fails = IF Missed(m) = {} THEN @ ELSE @ - 1]
    BY Zenon DEF Crash
  <2>2. PICK f \in Nat, b \in Nat : /\ f = (IF Missed(m) = {} THEN left.fails ELSE left.fails - 1)
                                   /\ b = left.boots - 1
    BY <1>1, <2>1 DEF Lefts
  <2>3. left' = [left EXCEPT !.boots = b, !.fails = f] BY ONLY <2>1, <2>2
  <2> QED BY ONLY <1>1, <2>2, <2>3 DEF Lefts
<1>4. /\ \A i \in Ids : CutShort(i)
      /\ file' = [i \in Ids |-> file'[i]] /\ row' = [i \in Ids |-> row'[i]]
  BY CrashCuts
<1>5. /\ \A k \in Sinks : /\ sink'[k] \in SinkRecs /\ sink'[k].queue = <<>> /\ sink'[k].chunk = 0
                          /\ IF k <= runs THEN sink'[k].pc = "dead" ELSE sink'[k] = NoSink
      /\ sink' \in [Sinks -> SinkRecs]
  <2>1. NoSink \in SinkRecs BY Bounds DEF NoSink, SinkRecs, Errs, Places
  <2>2. PICK v : v = [NoSink EXCEPT !.pc = "dead"] OBVIOUS
  <2>3. v \in SinkRecs /\ v.queue = <<>> /\ v.chunk = 0 /\ v.pc = "dead"
    <3>1. NoSink.queue = <<>> /\ NoSink.chunk = 0 /\ "dead" \in Places BY DEF NoSink, Places
    <3> QED BY ONLY <2>1, <2>2, <3>1 DEF SinkRecs
  <2>4. sink' = [k \in Sinks |-> IF k <= runs THEN v ELSE NoSink] BY <1>2, <2>2
  <2>5. NoSink.queue = <<>> /\ NoSink.chunk = 0 BY DEF NoSink
  <2> QED BY ONLY <2>1, <2>3, <2>4, <2>5
<1>6. RecTypes'
  <2>1. row' \in [Ids -> RowRecs] /\ file' \in [Ids -> FileRecs]
    <3>1. \A i \in Ids : row'[i] \in RowRecs /\ file'[i] \in FileRecs BY <1>4 DEF CutShort
    <3> QED BY ONLY <1>4, <3>1
  <2>2. active' \in [Ids -> 0 .. MaxRuns] BY <1>2, Bounds
  <2>3. del' \in [Deleters -> DelRecs] BY <1>2, Bounds DEF Idle, DelRecs
  <2> QED BY <1>1, <1>2, <1>3, <1>5, <2>1, <2>2, <2>3 DEF RecTypes
<1>7. Started'
  <2>1. \A k \in Sinks : IF k > runs THEN sink'[k] = NoSink ELSE sink'[k].pc # "none"
    BY <1>1, <1>5 DEF Sinks
  <2>2. \A k \in Sinks : k <= runs => sink'[k].pc = "dead" BY <1>5
  <2>3. \A k \in Sinks : Len(sink'[k].queue) <= Buffer BY <1>5, Bounds
  <2>4. runs + left'.runs <= MaxRuns BY <1>1, <1>3 DEF Started
  <2> QED BY <1>2, <1>5, <2>1, <2>2, <2>3, <2>4 DEF Started
<1>8. \A k \in Sinks : ~Holds(k)' /\ ~Taken(k)' /\ \A t \in Nat : ~Waits(k, t)' /\ ~Mark(k, t)'
  BY <1>5 DEF Holds, Taken, Waits, Mark, NoSink
<1>9. PlaceOfChunk' BY <1>1, <1>5, <1>8 DEF PlaceOfChunk, NoSink, Sinks
<1>10. OneSink'
  <2>1. ASSUME NEW i \in Ids, i > made PROVE row'[i] = NoRow /\ file'[i] = NoFile
    <3>1. row[i] = NoRow /\ file[i] = NoFile BY <1>1, <2>1 DEF OneSink
    <3>2. ~Being(i)
      <4>1. \A k \in Sinks : sink[k].chunk <= made BY <1>1 DEF OneSink
      <4>2. ~(i <= made) BY <1>1, <2>1 DEF Ids
      <4> QED BY <4>1, <4>2 DEF Being
    <3> QED BY <1>4, <3>1, <3>2 DEF CutShort, NoRow
  <2>2. \A k \in Sinks : sink'[k].chunk <= made BY <1>1, <1>5
  <2> QED BY <1>2, <1>5, <1>8, <2>1, <2>2, Bounds DEF OneSink, NoSink
<1>11. OwnChunk' BY <1>8 DEF OwnChunk
<1>12. PlaysShrink
  <2> SUFFICES ASSUME NEW i \in Ids, NEW t \in Nat, Plays(i, t)' PROVE Plays(i, t)
    BY DEF PlaysShrink
  <2>1. CutShort(i) BY <1>4
  <2>2. PICK o \in Nat, m \in Nat, n \in Nat : o = row[i].offset /\ m = Len(file[i].plays) /\ n = Len(file'[i].plays)
    BY <1>1, <1>6, Typed, TypedNext
  <2>3. /\ row'[i].status # "none" /\ file'[i].there /\ row'[i].offset <= t
        /\ t < row'[i].offset + Len(file'[i].plays)
    BY DEF Plays
  <2>4. i \notin behind /\ row[i].status # "none" /\ file[i].there /\ row'[i].offset = o /\ n <= m
    BY <1>2, <2>1, <2>2, <2>3 DEF CutShort, Plays
  <2>5. row'[i].offset <= t /\ t < row'[i].offset + n BY ONLY <2>2, <2>3
  <2>6. o <= t /\ t < o + n /\ n <= m BY ONLY <2>4, <2>5
  <2>7. o <= t /\ t < o + m BY ONLY <2>6, t \in Nat, o \in Nat, m \in Nat, n \in Nat
  <2> QED BY <2>2, <2>4, <2>7 DEF Plays
<1>13. RecTimes'
  <2>1. InOrder' /\ RunsInOrder' /\ SpanFree'
    <3>1. InOrder' BY <1>5, <1>8 DEF InOrder
    <3>2. RunsInOrder' /\ SpanFree' BY <1>8 DEF RunsInOrder, SpanFree
    <3> QED BY <3>1, <3>2
  <2>2. PlaysApart' BY <1>1, <1>12 DEF RecTimes, PlaysApart, PlaysShrink
  <2>3. BeforeClock'
    <3>1. sink'[runs].pc = "dead" BY <1>1, <1>2, <1>5, RunIsSink
    <3> QED BY <1>2, <3>1 DEF BeforeClock
  <2>4. InRows'
    <3>1. ASSUME NEW i \in Ids, ProbeWorks, row'[i].status \in {"complete", "failed"}, file'[i].there
          PROVE  Len(file'[i].plays) <= row'[i].length
      <4>1. CutShort(i) BY <1>4
      <4>2. PICK m \in Nat, n \in Nat, q \in Nat : m = Len(file[i].plays) /\ n = Len(file'[i].plays) /\ q = row'[i].length
        BY <1>1, <1>6, Typed, TypedNext
      <4>3. CASE row[i].status = "recording"
        <5>1. n = 0 \/ q = n BY <3>1, <4>1, <4>2, <4>3 DEF CutShort
        <5> QED BY <4>2, <5>1
      <4>4. CASE row[i].status # "recording"
        <5>1. row'[i] = row[i] /\ file[i].there /\ n <= m BY <3>1, <4>1, <4>2, <4>4 DEF CutShort
        <5>2. m <= row[i].length BY <1>1, <3>1, <4>2, <5>1 DEF RecTimes, InRows
        <5> QED BY <4>2, <5>1, <5>2
      <4> QED BY <4>3, <4>4
    <3>2. \A i \in Ids : row'[i].status = "recording" => i \in behind' BY <1>4 DEF CutShort
    <3> QED BY <3>1, <3>2 DEF InRows
  <2>5. Bounded'
    <3>1. ASSUME NEW i \in Ids, row'[i].status # "none"
          PROVE  row'[i].offset + row'[i].length <= MaxTime /\ row'[i].offset + Len(file'[i].plays) <= MaxTime
      <4>1. CutShort(i) BY <1>4
      <4>2. PICK o \in Nat, m \in Nat, n \in Nat, p \in Nat, q \in Nat :
              /\ o = row[i].offset /\ m = Len(file[i].plays) /\ n = Len(file'[i].plays)
              /\ p = row[i].length /\ q = row'[i].length
        BY <1>1, <1>6, Typed, TypedNext
      <4>3. o + p <= MaxTime /\ o + m <= MaxTime BY <1>1, <3>1, <4>1, <4>2 DEF RecTimes, Bounded, CutShort
      <4>4. n <= m /\ (q = p \/ q = n) /\ row'[i].offset = o BY <4>1, <4>2 DEF CutShort
      <4>5. o + q <= MaxTime /\ o + n <= MaxTime
        <5>1. o + n <= MaxTime BY <4>3, <4>4, Bounds
        <5> QED BY <4>3, <4>4, <5>1
      <4> QED BY ONLY <4>2, <4>4, <4>5
    <3> QED BY <1>1, <1>2, <1>8, <3>1 DEF RecTimes, Bounded
  <2> QED BY <2>1, <2>2, <2>3, <2>4, <2>5 DEF RecTimes
<1>14. OnClock'
  <2> SUFFICES ASSUME NEW i \in Ids, row'[i].status # "none", NEW j \in 1 .. Len(file'[i].plays)
      PROVE file'[i].plays[j] \in {Silence, row'[i].offset + j - 1}
    BY DEF OnClock, Stored
  <2>1. CutShort(i) BY <1>4
  <2>2. PICK m \in Nat, n \in Nat : m = Len(file[i].plays) /\ n = Len(file'[i].plays) /\ n <= m
    BY <1>1, <2>1 DEF CutShort, FileRecs
  <2>3. j \in 1 .. Len(file[i].plays) BY <2>2
  <2> QED BY <2>1, <2>3 DEF RecInv, OnClock, Stored, CutShort
<1>15. RowsSettle' BY <1>4 DEF RowsSettle, CutShort
<1>16. Asked' BY <1>2 DEF Asked, Idle
<1> QED BY <1>6, <1>7, <1>9, <1>10, <1>11, <1>13, <1>14, <1>15, <1>16 DEF RecInv, RecShape

\* Every step of the recorder, and every step of anything else, keeps its invariant.
LEMMA RecInvNext == ASSUME RecInv, [Next]_vars PROVE RecInv'
<1>1. CASE Next
  <2>1. ASSUME NEW k \in Sinks, Writer(k) PROVE RecInv'
    <3>1. ASSUME NEW d \in Deleters, Abort(k, d) PROVE RecInv' BY <3>1, AbortKeeps
    <3> QED BY <2>1, <3>1, TakeKeeps, EndedKeeps, CreateKeeps, CreateFailsKeeps, SpawnKeeps, SpawnFailsKeeps,
               RegisterKeeps, WriteFrameKeeps, WriteFailsKeeps, FinishKeeps, FinishFailsKeeps,
               UnregisterKeeps DEF Writer
  <2>2. ASSUME NEW d \in Deleters, Deleter(d) PROVE RecInv'
    BY <2>2, GetKeeps, LookKeeps, AbortDoneKeeps, RemoveKeeps, RemoveFailedKeeps, DeleteRowKeeps, DeleteRowFailsKeeps
    DEF Deleter
  <2> QED BY <1>1, <2>1, <2>2, StartRunKeeps, WriteKeeps, CloseKeeps, CrashKeeps DEF Next
<1>2. CASE UNCHANGED vars
  <2>1. UNCHANGED <<clock, runs, sink, row, file, made, active, dir, del, deleted, stuck, behind, left>> BY <1>2 DEF vars
  <2>2. \A k \in Sinks : (Taken(k)' <=> Taken(k)) /\ (Holds(k)' <=> Holds(k))
    BY <2>1 DEF Taken, Holds
  <2>3. \A k \in Sinks : \A t \in Nat : (Waits(k, t)' <=> Waits(k, t)) /\ (Mark(k, t)' <=> Mark(k, t))
    BY <2>1, <2>2 DEF Waits, Mark
  <2>4. \A i \in Ids : \A t \in Nat : Plays(i, t)' <=> Plays(i, t) BY <2>1 DEF Plays
  <2>5. RecShape'
    <3>1. RecShape BY DEF RecInv
    <3>2. RecTypes' BY <2>1, <3>1 DEF RecShape, RecTypes
    <3>3. Started' /\ PlaceOfChunk' BY <2>1, <3>1 DEF RecShape, Started, PlaceOfChunk, Holds
    <3>4. OneSink' /\ OwnChunk' BY <2>1, <3>1 DEF RecShape, OneSink, OwnChunk, Holds
    <3> QED BY <3>2, <3>3, <3>4 DEF RecShape
  <2>6. RecTimes'
    <3>1. RecTimes BY DEF RecInv
    <3>2. InOrder' BY <2>1, <2>2, <2>3, <3>1 DEF RecTimes, InOrder
    <3>3. RunsInOrder' /\ PlaysApart' BY <2>3, <2>4, <3>1 DEF RecTimes, RunsInOrder, PlaysApart
    <3>4. SpanFree' BY <2>1, <2>3, <2>4, <3>1 DEF RecTimes, SpanFree
    <3>5. BeforeClock' BY <2>1, <2>3, <2>4, <3>1 DEF RecTimes, BeforeClock
    <3>6. InRows' BY <2>1, <3>1 DEF RecTimes, InRows, Fresh
    <3>7. Bounded' BY <2>1, <2>2, <2>3, <3>1 DEF RecTimes, Bounded
    <3> QED BY <3>2, <3>3, <3>4, <3>5, <3>6, <3>7 DEF RecTimes
  <2>7. OnClock' BY <2>1 DEF RecInv, OnClock, Stored
  <2>8. RowsSettle' BY <2>1 DEF RecInv, RowsSettle, Being, BeingDeleted
  <2>9. Asked' BY <2>1 DEF RecInv, Asked
  <2> QED BY <2>5, <2>6, <2>7, <2>8, <2>9 DEF RecInv
<1> QED BY <1>1, <1>2

\* The recorder's invariant holds.
THEOREM RecorderSound == Spec => []RecInv
BY RecInvInit, RecInvNext, PTL DEF Spec

\* Types; the queues keep to their bound, and active names the sink that writes
\* a recording: types.
THEOREM RecorderTypes == Spec => []TypeOK
<1>1. RecInv => TypeOK
  <2> SUFFICES ASSUME RecInv PROVE TypeOK
    OBVIOUS
  <2>1. RecTypes /\ Started /\ OneSink /\ Bounded BY DEF RecInv, RecShape, RecTimes
  <2>2. clock \in 0..MaxTime + MaxRuns
    <3>1. runs \in 0 .. MaxRuns BY <2>1, RunIsSink
    <3> QED BY <2>1, <3>1, Bounds DEF RecTypes, Bounded
  <2>3. \A k \in Sinks : sink[k] \in SinkRecs BY <2>1 DEF RecTypes
  <2>4. \A i \in Ids : row[i] \in RowRecs BY <2>1 DEF RecTypes
  <2> QED BY <2>1, <2>2, <2>3, <2>4 DEF TypeOK, RecTypes, SinkRecs, RowRecs, Errs, Statuses, Started, OneSink
<1> QED BY <1>1, RecorderSound, PTL

\* Where ffprobe tells how long the file of a crashed recording is, the
\* recordings of a session keep to its clock and apart, and a row says
\* "recording" only of what goes on.
THEOREM RecordingsAreTrue == ASSUME ProbeWorks PROVE Spec => []RecordingsTrue
<1>1. RecInv => RecordingsTrue
  <2> SUFFICES ASSUME RecInv PROVE ChunksApart
    BY DEF RecordingsTrue, OnOneClock, RecInv
  <2> SUFFICES ASSUME NEW i \in Stored \ behind, NEW j \in Stored \ behind, i # j, NEW t \in Window(i), t \in Window(j)
      PROVE FALSE
    BY DEF ChunksApart
  <2>1. ASSUME NEW l \in Stored \ behind, t \in Window(l) PROVE l \in Ids /\ t \in Nat /\ Plays(l, t)
    <3>1. l \in Ids /\ row[l].status # "none" /\ row[l] \in RowRecs /\ file[l] \in FileRecs
      BY DEF Stored, RecInv, RecShape, RecTypes
    <3>2. file[l].there BY <2>1 DEF Window
    <3>3. PICK m \in 0 .. Len(file[l].plays) - 1 : t = row[l].offset + m BY <2>1, <3>2 DEF Window
    <3>4. PICK o \in Nat, n \in Nat : o = row[l].offset /\ n = Len(file[l].plays)
      BY <3>1 DEF RowRecs, FileRecs
    <3>5. t \in Nat /\ o <= t /\ t < o + n BY <3>3, <3>4
    <3> QED BY <3>1, <3>2, <3>4, <3>5 DEF Plays
  <2>2. i \in Ids /\ j \in Ids /\ t \in Nat /\ Plays(i, t) /\ Plays(j, t) BY <2>1
  <2> QED BY <2>2 DEF RecInv, RecTimes, PlaysApart
<1> QED BY <1>1, RecorderSound, PTL

\* A deletion that found the recording's sink has stopped it, and the file it
\* removed stays removed.
THEOREM FoundSinksStop == Spec => []FoundIsStopped
<1>1. RecInv => FoundIsStopped
  BY DEF RecInv, Asked, FoundIsStopped, Being
<1> QED BY <1>1, RecorderSound, PTL
=============================================================================
