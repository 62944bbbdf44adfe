------------------------------- MODULE UIProofs -------------------------------
(***************************************************************************)
(* Proofs about UI: about the events of EventObject, the windows of        *)
(* UserWindow and the sizes of WindowSize, each with its inductive         *)
(* invariant, and in the end about the composition.                        *)
(***************************************************************************)
EXTENDS UI, Lists, FiniteSetTheorems, SequenceTheorems, TLAPS

-----------------------------------------------------------------------------
(***************************************************************************)
(* Lists.                                                                  *)
(***************************************************************************)

Upto(I, k) == {j \in I : j <= k}

\* A set of numbers has a least one.
LEMMA Least == ASSUME NEW T \in SUBSET Nat, NEW n \in T PROVE \E m \in T : \A k \in T : m <= k
<1> DEFINE R == OpToRel(<, Nat)
<1>1. IsWellFoundedOn(R, Nat)
      BY NatLessThanWellFounded
<1>2. \A k, m \in Nat : <<k, m>> \in R <=> k < m
      BY DEF OpToRel
<1> HIDE DEF R
<1>3. PICK m \in T : \A k \in T : <<k, m>> \notin R
      BY <1>1, WFMin
<1>4. SUFFICES ASSUME NEW k \in T PROVE m <= k
      OBVIOUS
<1>5. k \in Nat /\ m \in Nat /\ ~(k < m)
      BY <1>2, <1>3
<1> QED BY <1>5

\* Positions in a list are finitely many numbers.
LEMMA Positions ==
    ASSUME NEW n \in Nat, NEW I \in SUBSET (1..n)
    PROVE  /\ IsFiniteSet(I) /\ Cardinality(I) \in Nat
           /\ \A k \in I : k \in Nat /\ k >= 1 /\ k <= n
           /\ \A k : Upto(I, k) \in SUBSET I /\ IsFiniteSet(Upto(I, k)) /\ Cardinality(Upto(I, k)) \in Nat
<1>1. n \in Int /\ 1 \in Int
      OBVIOUS
<1>2. IsFiniteSet(1..n)
      BY <1>1, FS_Interval
<1>3. IsFiniteSet(I)
      BY <1>2, FS_Subset
<1>4. \A k : Upto(I, k) \in SUBSET I
      BY Zenon DEF Upto
<1>5. \A k : IsFiniteSet(Upto(I, k))
      BY <1>3, <1>4, FS_Subset
<1> QED BY <1>3, <1>4, <1>5, FS_CardinalityType

\* How many positions there are up to the next one.
LEMMA UptoNext ==
    ASSUME NEW n \in Nat, NEW I \in SUBSET (1..n), NEW k \in Nat \ {0}
    PROVE  /\ Cardinality(Upto(I, k)) \in Nat /\ Cardinality(Upto(I, k - 1)) \in Nat
           /\ Cardinality(Upto(I, k)) = Cardinality(Upto(I, k - 1)) + (IF k \in I THEN 1 ELSE 0)
<1>1. IsFiniteSet(Upto(I, k)) /\ IsFiniteSet(Upto(I, k - 1))
      BY Positions
<1>2. Upto(I, k) = IF k \in I THEN Upto(I, k - 1) \cup {k} ELSE Upto(I, k - 1)
  <2>1. \A j \in I : j <= k <=> j <= k - 1 \/ j = k
        BY Positions
  <2> QED BY <2>1 DEF Upto
<1>3. k \notin Upto(I, k - 1)
      BY DEF Upto
<1>4. Cardinality(Upto(I, k - 1) \cup {k}) = Cardinality(Upto(I, k - 1)) + 1
      BY <1>1, <1>3, FS_AddElement
<1> QED BY <1>1, <1>2, <1>4, FS_CardinalityType

\* There is an n-th position ...
LEMMA NthExists ==
    ASSUME NEW l \in Nat, NEW I \in SUBSET (1..l), NEW n \in 1..Cardinality(I)
    PROVE  \E k \in I : IsNth(k, n, I)
<1> DEFINE T == {k \in 0..l : n <= Cardinality(Upto(I, k))}
<1>1. Upto(I, l) = I /\ Upto(I, 0) = {}
  <2>1. \A j \in I : j <= l /\ ~(j <= 0)
        BY Positions
  <2> QED BY <2>1 DEF Upto
<1>2. IsFiniteSet(I) /\ Cardinality(I) \in Nat /\ n \in Nat /\ n >= 1
      BY Positions
<1>3. l \in T /\ T \in SUBSET Nat
      BY <1>1, <1>2
<1>4. PICK k \in T : \A m \in T : k <= m
      BY <1>3, Least
<1>5. 0 \notin T
      BY <1>1, <1>2, FS_EmptySet
<1>6. k \in 1..l /\ k - 1 \in 0..l /\ k - 1 \notin T /\ k \in Nat \ {0}
      BY <1>4, <1>5
<1>7. ~(n <= Cardinality(Upto(I, k - 1))) /\ n <= Cardinality(Upto(I, k))
      BY <1>6, <1>4
<1> HIDE DEF T
<1>8. k \in I /\ Cardinality(Upto(I, k)) = n
  <2>1. /\ Cardinality(Upto(I, k)) \in Nat /\ Cardinality(Upto(I, k - 1)) \in Nat
        /\ Cardinality(Upto(I, k)) = Cardinality(Upto(I, k - 1)) + (IF k \in I THEN 1 ELSE 0)
        BY <1>6, UptoNext
  <2> QED BY <1>2, <1>7, <2>1
<1> QED BY <1>8 DEF IsNth, Upto

\* ... and only one.
LEMMA NthIsOne ==
    ASSUME NEW l \in Nat, NEW I \in SUBSET (1..l), NEW j \in I, NEW k \in I, j < k
    PROVE  /\ Cardinality(Upto(I, j)) \in Nat /\ Cardinality(Upto(I, k)) \in 1..Cardinality(I)
           /\ Cardinality(I) \in Nat
           /\ Cardinality(Upto(I, j)) < Cardinality(Upto(I, k))
<1>1. IsFiniteSet(I)
      BY Positions
<1>2. Upto(I, j) \in SUBSET Upto(I, k) /\ Upto(I, k) \in SUBSET I
  <2>1. \A i \in I : i <= j => i <= k
        BY Positions
  <2> QED BY <2>1 DEF Upto
<1>3. IsFiniteSet(Upto(I, k)) /\ IsFiniteSet(Upto(I, j))
      BY <1>1, <1>2, FS_Subset
<1>4. k \in Upto(I, k) /\ k \notin Upto(I, j)
      BY DEF Upto
<1>5. Cardinality(Upto(I, j)) <= Cardinality(Upto(I, k)) /\ Cardinality(Upto(I, j)) # Cardinality(Upto(I, k))
      BY <1>2, <1>3, <1>4, FS_Subset
<1>6. Cardinality(Upto(I, k)) <= Cardinality(I)
      BY <1>1, <1>2, FS_Subset
<1> QED BY <1>1, <1>3, <1>5, <1>6, FS_CardinalityType

\* What erasing leaves is a list of the entries that are kept, and of all of them.
LEMMA EntriesKept ==
    ASSUME NEW S, NEW s \in Seq(S), NEW I \in SUBSET (1..Len(s))
    PROVE  /\ Entries(s, I) \in Seq(S)
           /\ \A n \in 1..Len(Entries(s, I)) : \E k \in I : Entries(s, I)[n] = s[k]
           /\ \A k \in I : \E n \in 1..Len(Entries(s, I)) : Entries(s, I)[n] = s[k]
           /\ I = {} => Entries(s, I) = <<>>
<1> DEFINE nth(n) == CHOOSE k \in I : IsNth(k, n, I)
           t == [n \in 1..Cardinality(I) |-> s[nth(n)]]
<1>1. Len(s) \in Nat /\ IsFiniteSet(I) /\ Cardinality(I) \in Nat /\ (\A j \in I : j \in Nat)
  <2>1. Len(s) \in Nat
        BY LenProperties
  <2> QED BY <2>1, Positions
<1>2. \A n \in 1..Cardinality(I) : nth(n) \in I /\ IsNth(nth(n), n, I)
      BY <1>1, NthExists
<1>3. \A n \in 1..Cardinality(I) : s[nth(n)] \in S
      BY <1>2, ElementOfSeq
<1>4. t \in Seq(S) /\ Len(t) = Cardinality(I)
  <2> HIDE DEF nth
  <2>1. t \in [1..Cardinality(I) -> S]
        BY <1>3
  <2> HIDE DEF t
  <2> QED BY <2>1, <1>1
<1>5. t = Entries(s, I)
      BY DEF Entries
<1>6. ASSUME NEW k \in I PROVE \E n \in 1..Cardinality(I) : t[n] = s[k]
  <2> DEFINE n == Cardinality(Upto(I, k))
  <2>1. n \in 1..Cardinality(I)
    <3>1. Upto(I, k) \in SUBSET I /\ k \in Upto(I, k)
          BY DEF Upto
    <3>2. IsFiniteSet(Upto(I, k)) /\ n <= Cardinality(I) /\ n \in Nat
          BY <3>1, <1>1, FS_Subset, FS_CardinalityType
    <3>3. n # 0
          BY <3>1, <3>2, FS_EmptySet
    <3> QED BY <3>2, <3>3, <1>1
  <2>2. nth(n) \in I /\ Cardinality(Upto(I, nth(n))) = n
        BY <2>1, <1>2 DEF IsNth, Upto
  <2>3. nth(n) = k
    <3>1. nth(n) < k \/ nth(n) = k \/ k < nth(n)
      <4>1. nth(n) \in Nat /\ k \in Nat
            BY <2>2, <1>1
      <4> QED BY <4>1
    <3>2. nth(n) < k => Cardinality(Upto(I, nth(n))) < n
          BY <2>2, <1>1, NthIsOne
    <3>3. k < nth(n) => n < Cardinality(Upto(I, nth(n)))
          BY <2>2, <1>1, NthIsOne
    <3>4. n \in Nat
          BY <2>1, <1>1
    <3> QED BY <3>1, <3>2, <3>3, <3>4, <2>2
  <2> QED BY <2>1, <2>3
<1>7. \A n \in 1..Cardinality(I) : t[n] = s[nth(n)]
      OBVIOUS
<1>8. I = {} => Len(t) = 0
      BY <1>4, FS_EmptySet
<1> HIDE DEF t, nth
<1>9. I = {} => t = <<>>
      BY <1>4, <1>8, EmptySeq
<1> QED BY <1>2, <1>4, <1>5, <1>6, <1>7, <1>9

Elements(s) == {s[k] : k \in 1..Len(s)}
Distinct(s) == \A i, j \in 1..Len(s) : s[i] = s[j] => i = j

\* The last of a sequence is taken away.
LEMMA FrontOf ==
    ASSUME NEW S, NEW s \in Seq(S), s # <<>>
    PROVE  LET t == SubSeq(s, 1, Len(s) - 1)
           IN  t \in Seq(S) /\ Len(t) = Len(s) - 1 /\ \A k \in 1..Len(t) : t[k] = s[k]
<1>1. PICK n \in Nat : Len(s) = n + 1
  <2>1. Len(s) \in Nat /\ Len(s) >= 1
        BY LenProperties, EmptySeq
  <2> QED BY <2>1
<1> DEFINE t == SubSeq(s, 1, n)
<1>2. /\ t \in Seq(S) /\ Len(t) = IF 1 <= n THEN n - 1 + 1 ELSE 0
      /\ \A i \in 1..(n - 1 + 1) : t[i] = s[1 + i - 1]
  <2>1. \A i \in 1..n : s[i] \in S
        BY <1>1, ElementOfSeq
  <2> QED BY <2>1, SubSeqProperties
<1> HIDE DEF t
<1>3. Len(t) = n
      BY <1>2
<1>4. ASSUME NEW k \in 1..n  PROVE t[k] = s[k]
  <2>1. k \in 1..(n - 1 + 1) /\ 1 + k - 1 = k
        OBVIOUS
  <2> QED BY <1>2, <2>1
<1>5. SubSeq(s, 1, Len(s) - 1) = t
      BY <1>1 DEF t
<1> QED BY <1>1, <1>2, <1>3, <1>4, <1>5

\* Another element is added.
LEMMA Appended ==
    ASSUME NEW S, NEW s \in Seq(S), NEW e \in S
    PROVE  LET t == Append(s, e)
           IN  /\ t \in Seq(S) /\ Len(t) = Len(s) + 1 /\ Len(s) \in Nat /\ t # <<>>
               /\ t[Len(s) + 1] = e /\ \A k \in 1..Len(s) : t[k] = s[k]
               /\ Elements(t) = Elements(s) \cup {e}
               /\ Distinct(s) /\ e \notin Elements(s) => Distinct(t)
<1> DEFINE t == Append(s, e)
<1>1. /\ t \in Seq(S) /\ Len(t) = Len(s) + 1 /\ Len(s) \in Nat
      /\ t[Len(s) + 1] = e /\ \A k \in 1..Len(s) : t[k] = s[k]
      BY AppendProperties, LenProperties
<1> HIDE DEF t
<1>2. t # <<>>
      BY <1>1, EmptySeq
<1>3. Elements(t) = Elements(s) \cup {e}
      BY <1>1 DEF Elements
<1>4. ASSUME Distinct(s), e \notin Elements(s)  PROVE Distinct(t)
      BY <1>1, <1>4 DEF Distinct, Elements
<1> QED BY <1>1, <1>2, <1>3, <1>4 DEF t

\* The first is taken.
LEMMA HeadTaken ==
    ASSUME NEW S, NEW s \in Seq(S), s # <<>>
    PROVE  /\ Tail(s) \in Seq(S) /\ Head(s) \in S /\ Elements(s) = Elements(Tail(s)) \cup {Head(s)}
           /\ Distinct(s) => Distinct(Tail(s)) /\ Head(s) \notin Elements(Tail(s))
<1> DEFINE t == Tail(s)
           h == Head(s)
<1>1. /\ t \in Seq(S) /\ Len(s) \in Nat /\ Len(s) >= 1 /\ Len(t) = Len(s) - 1 /\ h = s[1]
      /\ \A k \in 1..Len(t) : t[k] = s[k + 1]
      BY HeadTailProperties, EmptySeq, LenProperties
<1> HIDE DEF t, h
<1>2. h \in S
      BY <1>1, ElementOfSeq
<1>3. Elements(s) = Elements(t) \cup {h}
  <2>1. ASSUME NEW k \in 1..Len(s)  PROVE s[k] \in Elements(t) \cup {h}
    <3>1. CASE k = 1
          BY <1>1, <3>1
    <3>2. CASE k # 1
      <4>1. k - 1 \in 1..Len(t) /\ t[k - 1] = s[k]
            BY <1>1, <3>2
      <4> QED BY <4>1 DEF Elements
    <3> QED BY <3>1, <3>2
  <2>2. h \in Elements(s) /\ Elements(t) \subseteq Elements(s)
        BY <1>1 DEF Elements
  <2> QED BY <2>1, <2>2 DEF Elements
<1>4. ASSUME Distinct(s)  PROVE Distinct(t) /\ h \notin Elements(t)
      BY <1>1, <1>4 DEF Distinct, Elements
<1> QED BY <1>1, <1>2, <1>3, <1>4 DEF t, h

\* One is erased.
LEMMA OneErased ==
    ASSUME NEW S, NEW s \in Seq(S), NEW n \in 1..Len(s)
    PROVE  LET t == SubSeq(s, 1, n - 1) \o SubSeq(s, n + 1, Len(s))
           IN  /\ t \in Seq(S) /\ Len(t) = Len(s) - 1
               /\ \A k \in 1..Len(t) : t[k] = IF k < n THEN s[k] ELSE s[k + 1]
               /\ Elements(t) \subseteq Elements(s) /\ Elements(s) \ {s[n]} \subseteq Elements(t)
               /\ Distinct(s) => Distinct(t) /\ Elements(t) = Elements(s) \ {s[n]}
<1> DEFINE a == SubSeq(s, 1, n - 1)
           b == SubSeq(s, n + 1, Len(s))
           t == a \o b
<1>1. Len(s) \in Nat
      BY LenProperties
<1>2. a \in Seq(S) /\ Len(a) = n - 1 /\ \A i \in 1..(n - 1) : a[i] = s[i]
      BY <1>1, SubSeqProperties
<1>3. b \in Seq(S) /\ Len(b) = Len(s) - n /\ \A i \in 1..(Len(s) - n) : b[i] = s[n + i]
      BY <1>1, SubSeqProperties
<1> HIDE DEF a, b
<1>4. /\ t \in Seq(S) /\ Len(t) = Len(a) + Len(b)
      /\ \A i \in 1..(Len(a) + Len(b)) : t[i] = IF i <= Len(a) THEN a[i] ELSE b[i - Len(a)]
      BY <1>2, <1>3, ConcatProperties
<1> HIDE DEF t
<1>5. t \in Seq(S) /\ Len(t) = Len(s) - 1
      BY <1>1, <1>2, <1>3, <1>4
<1>6. ASSUME NEW k \in 1..Len(t)  PROVE t[k] = IF k < n THEN s[k] ELSE s[k + 1]
  <2>1. k \in 1..(Len(a) + Len(b))
        BY <1>4, <1>6
  <2>2. CASE k < n
        BY <1>2, <1>4, <2>1, <2>2
  <2>3. CASE ~(k < n)
    <3>1. t[k] = b[k - (n - 1)]
      <4>1. Len(a) = n - 1 /\ ~(k <= Len(a))
            BY <1>2, <2>1, <2>3
      <4>2. t[k] = b[k - Len(a)]
            BY <1>4, <2>1, <4>1
      <4> QED BY <4>1, <4>2
    <3>2. k - (n - 1) \in 1..(Len(s) - n) /\ n + (k - (n - 1)) = k + 1
          BY <1>1, <1>2, <1>3, <2>1, <2>3
    <3> QED BY <1>3, <2>3, <3>1, <3>2
  <2> QED BY <2>2, <2>3
<1>7. ASSUME Distinct(s)  PROVE Distinct(t)
  <2> SUFFICES ASSUME NEW i \in 1..Len(t), NEW j \in 1..Len(t), t[i] = t[j]  PROVE i = j
      BY DEF Distinct
  <2>1. PICK p \in 1..Len(s) : t[i] = s[p] /\ p = (IF i < n THEN i ELSE i + 1)
        BY <1>1, <1>5, <1>6
  <2>2. PICK q \in 1..Len(s) : t[j] = s[q] /\ q = (IF j < n THEN j ELSE j + 1)
        BY <1>1, <1>5, <1>6
  <2>3. p = q
        BY <1>7, <2>1, <2>2 DEF Distinct
  <2> QED BY <1>1, <1>5, <2>1, <2>2, <2>3
<1>8. Elements(t) \subseteq Elements(s) /\ Elements(s) \ {s[n]} \subseteq Elements(t)
  <2>1. ASSUME NEW k \in 1..Len(t)  PROVE t[k] \in Elements(s)
        BY <1>1, <1>5, <1>6, <2>1 DEF Elements
  <2>2. ASSUME NEW k \in 1..Len(s), s[k] # s[n]  PROVE s[k] \in Elements(t)
    <3>1. CASE k < n
      <4>1. k \in 1..Len(t) /\ t[k] = s[k]
            BY <1>1, <1>5, <1>6, <3>1
      <4> QED BY <4>1 DEF Elements
    <3>2. CASE k > n
      <4>1. k - 1 \in 1..Len(t)
            BY <1>1, <1>5, <3>2
      <4>2. ~(k - 1 < n) /\ (k - 1) + 1 = k
            BY <3>2
      <4>3. t[k - 1] = s[k]
            BY <1>6, <4>1, <4>2
      <4> QED BY <4>1, <4>3 DEF Elements
    <3> QED BY <1>1, <2>2, <3>1, <3>2
  <2> QED BY <2>1, <2>2 DEF Elements
<1>9. ASSUME Distinct(s)  PROVE s[n] \notin Elements(t)
      BY <1>1, <1>5, <1>6, <1>9 DEF Distinct, Elements
<1> QED BY <1>5, <1>6, <1>7, <1>8, <1>9 DEF t, a, b

\* An empty sequence has no elements.
LEMMA NoElements ==
    ASSUME NEW S  PROVE <<>> \in Seq(S) /\ Len(<<>>) = 0 /\ Elements(<<>>) = {} /\ Distinct(<<>>)
BY EmptySeq DEF Elements, Distinct

\* A list without repetitions has as many entries as elements.
LEMMA CountedOnce ==
    ASSUME NEW S, NEW s \in Seq(S), Distinct(s)
    PROVE  Cardinality(Elements(s)) = Len(s)
<1>1. Len(s) \in Nat /\ DOMAIN s = 1..Len(s) /\ s \in [1..Len(s) -> S]
      BY LenProperties
<1>2. s \in Bijection(1..Len(s), Elements(s))
  <2>1. s \in [1..Len(s) -> Elements(s)]
        BY <1>1 DEF Elements
  <2>2. s \in Surjection(1..Len(s), Elements(s))
        BY <2>1 DEF Surjection, Elements
  <2>3. s \in Injection(1..Len(s), Elements(s))
        BY <2>1 DEF Injection, IsInjective, Distinct
  <2> QED BY <2>2, <2>3 DEF Bijection
<1>3. ExistsBijection(1..Len(s), Elements(s))
      BY <1>2 DEF ExistsBijection
<1> QED BY <1>1, <1>3, FS_CountingElements

-----------------------------------------------------------------------------
(***************************************************************************)
(* Events.  The inductive invariant: a listener is in one list, once, and  *)
(* only while it is there (Registered); and for every event (Attended):    *)
(* those ahead of it have not heard it, nor will they be met again when it *)
(* bubbles (Dispatched); the callbacks' wish to stop is on the way (Stops);*)
(* and whom the event is owed to has heard it or is still ahead (Due).     *)
(***************************************************************************)

FireLocals ==
    [at : {"idle", "next", "queued", "running", "done"}, by : {"main", "background"},
     kind : {"event", "args"}, on : Object, copy : Seq(Listener), i : Nat \ {0},
     stopped : BOOLEAN, preventedDefault : BOOLEAN, result : BOOLEAN]

Registered ==
    /\ \A o \in Object : Distinct(listeners[o])
    /\ \A o, p \in Object : o # p => Elements(listeners[o]) \cap Elements(listeners[p]) = {}
    /\ \A o \in Object : \A l \in Elements(listeners[o]) : object[l] = "live"

Ahead(f) == {fire[f].copy[j] : j \in fire[f].i..Len(fire[f].copy)}
Heard(f) == Elements(calls[f])

Dispatched(f) ==
    /\ Distinct(fire[f].copy) /\ Distinct(calls[f])
    /\ \A l \in Elements(fire[f].copy) \cup Heard(f) : object[l] # "unused"
    /\ Ahead(f) \cap Heard(f) = {}
    /\ Bubbles(f) =>
          (Elements(fire[f].copy) \cup Heard(f)) \cap Elements(listeners[Global]) = {}
Stops(f) ==
    /\ fire[f].stopped => halted[f]
    /\ fire[f].at = "idle" => calls[f] = <<>>
    /\ halted[f] => fire[f].at \in {"running", "done"}
    /\ halted[f] /\ fire[f].at = "running" => fire[f].kind = "event" /\ fire[f].stopped
Owes(f, l) ==
    /\ fire[f].at # "done" /\ Handles(l, "event") /\ object[l] = "live"
    /\ l \in Ahead(f) \/ (Bubbles(f) /\ l \in Elements(listeners[Global]))
Due(f) ==
    fire[f].at # "idle" /\ ~halted[f] => \A l \in owed[f] : l \in Heard(f) \/ Owes(f, l)
Attended(f) == Dispatched(f) /\ Stops(f) /\ Due(f)
EventInv == TypeOK /\ Registered /\ \A f \in Fire : Attended(f)

\* What the types say of each variable.
LEMMA EventTypes ==
    ASSUME TypeOK
    PROVE  /\ listeners \in [Object -> Seq(Listener)]
           /\ object \in [Listener -> {"unused", "live", "deleted"}]
           /\ handles \in [Listener -> EventName] /\ callback \in [Listener -> Callback]
           /\ fire \in [Fire -> FireLocals] /\ mainStack \in Seq(Fire)
           /\ calls \in [Fire -> Seq(Listener)] /\ owed \in [Fire -> SUBSET Listener]
           /\ halted \in [Fire -> BOOLEAN] /\ crashed \in BOOLEAN
           /\ \A f \in Fire : /\ fire[f] \in FireLocals /\ fire[f].copy \in Seq(Listener)
                              /\ Len(fire[f].copy) \in Nat /\ fire[f].i \in Nat \ {0}
                              /\ fire[f].i <= Len(fire[f].copy) + 1
                              /\ Elements(fire[f].copy) \subseteq Listener
                              /\ calls[f] \in Seq(Listener) /\ Elements(calls[f]) \subseteq Listener
<1>1. /\ listeners \in [Object -> Seq(Listener)]
      /\ object \in [Listener -> {"unused", "live", "deleted"}]
      /\ handles \in [Listener -> EventName] /\ callback \in [Listener -> Callback]
      /\ fire \in [Fire -> FireLocals] /\ mainStack \in Seq(Fire)
      /\ calls \in [Fire -> Seq(Listener)] /\ owed \in [Fire -> SUBSET Listener]
      /\ halted \in [Fire -> BOOLEAN] /\ crashed \in BOOLEAN
      /\ \A f \in Fire : fire[f].i <= Len(fire[f].copy) + 1
      BY DEF TypeOK, FireLocals
<1>2. ASSUME NEW f \in Fire
      PROVE  /\ fire[f] \in FireLocals /\ fire[f].copy \in Seq(Listener)
             /\ Len(fire[f].copy) \in Nat /\ fire[f].i \in Nat \ {0} /\ calls[f] \in Seq(Listener)
  <2>1. fire[f] \in FireLocals /\ calls[f] \in Seq(Listener)
        BY <1>1
  <2>2. fire[f].copy \in Seq(Listener) /\ fire[f].i \in Nat \ {0}
        BY <2>1 DEF FireLocals
  <2> QED BY <2>1, <2>2, LenProperties
<1>3. \A s \in Seq(Listener) : Elements(s) \subseteq Listener
      BY ElementOfSeq DEF Elements
<1> QED BY <1>1, <1>2, <1>3

\* The types again, after a step.
LEMMA EventTypesKept ==
    ASSUME listeners' \in [Object -> Seq(Listener)],
           object' \in [Listener -> {"unused", "live", "deleted"}],
           handles' \in [Listener -> EventName], callback' \in [Listener -> Callback],
           fire' \in [Fire -> FireLocals], mainStack' \in Seq(Fire),
           calls' \in [Fire -> Seq(Listener)], owed' \in [Fire -> SUBSET Listener],
           halted' \in [Fire -> BOOLEAN], crashed' \in BOOLEAN,
           \A f \in Fire : fire'[f].i <= Len(fire'[f].copy) + 1
    PROVE  TypeOK'
BY DEF TypeOK, FireLocals

\* The next listener is one of those ahead, and the others come after it.
LEMMA AheadOf ==
    ASSUME TypeOK, NEW f \in Fire, Distinct(fire[f].copy), fire[f].i <= Len(fire[f].copy)
    PROVE  LET rest == {fire[f].copy[j] : j \in (fire[f].i + 1)..Len(fire[f].copy)}
           IN  /\ Visited(f) \in Elements(fire[f].copy) /\ Visited(f) \in Listener
               /\ Ahead(f) = rest \cup {Visited(f)} /\ Visited(f) \notin rest
<1> DEFINE s == fire[f].copy
           n == fire[f].i
<1>1. s \in Seq(Listener) /\ Len(s) \in Nat /\ n \in 1..Len(s) /\ n \in Nat
      BY EventTypes
<1>2. s[n] \in Elements(s) /\ s[n] \in Listener
      BY <1>1, ElementOfSeq DEF Elements
<1>3. \A j \in (n + 1)..Len(s) : s[j] # s[n]
      BY <1>1 DEF Distinct
<1>4. \A j \in n..Len(s) : j = n \/ j \in (n + 1)..Len(s)
      BY <1>1
<1>5. n \in n..Len(s) /\ \A j \in (n + 1)..Len(s) : j \in n..Len(s)
      BY <1>1
<1>6. Ahead(f) = {s[j] : j \in n..Len(s)} /\ Visited(f) = s[n]
      BY DEF Ahead, Visited
<1> HIDE DEF s, n
<1>7. Ahead(f) = {s[j] : j \in (n + 1)..Len(s)} \cup {s[n]}
      BY <1>4, <1>5, <1>6
<1>8. s[n] \notin {s[j] : j \in (n + 1)..Len(s)}
      BY <1>3
<1> QED BY <1>2, <1>6, <1>7, <1>8 DEF s, n

\* A step of one event leaves the others alone.
LEMMA OneFire ==
    ASSUME EventInv, NEW f \in Fire, NEW r \in FireLocals, r.i <= Len(r.copy) + 1,
           fire' = [fire EXCEPT ![f] = r], UNCHANGED table,
           calls' \in [Fire -> Seq(Listener)], owed' \in [Fire -> SUBSET Listener],
           halted' \in [Fire -> BOOLEAN], mainStack' \in Seq(Fire), crashed' \in BOOLEAN,
           \A g \in Fire : g # f => /\ calls'[g] = calls[g] /\ owed'[g] = owed[g]
                                    /\ halted'[g] = halted[g],
           Attended(f)'
    PROVE  EventInv'
<1>0. /\ TypeOK /\ fire \in [Fire -> FireLocals] /\ UNCHANGED <<listeners, object, handles, callback>>
      /\ fire' \in [Fire -> FireLocals] /\ fire'[f] = r
      /\ \A g \in Fire : g # f => fire'[g] = fire[g]
      BY EventTypes DEF EventInv, table
<1>1. Registered'
      BY <1>0 DEF EventInv, Registered
<1>2. TypeOK'
  <2>1. \A g \in Fire : fire'[g].i <= Len(fire'[g].copy) + 1
        BY <1>0, EventTypes
  <2> QED BY <1>0, <2>1, EventTypes, EventTypesKept
<1>3. ASSUME NEW g \in Fire, g # f  PROVE Attended(g)'
  <2>1. Attended(g)
        BY DEF EventInv
  <2>2. /\ fire'[g] = fire[g] /\ calls'[g] = calls[g] /\ owed'[g] = owed[g]
        /\ halted'[g] = halted[g]
        BY <1>0, <1>3
  <2>3. Dispatched(g)' /\ Stops(g)'
        BY <1>0, <2>1, <2>2 DEF Attended, Dispatched, Stops, Ahead, Heard, Bubbles
  <2>4. Due(g)'
    <3>1. \A l : Owes(g, l) => Owes(g, l)'
          BY <1>0, <2>2 DEF Owes, Handles, Ahead, Bubbles
    <3> QED BY <2>1, <2>2, <3>1 DEF Attended, Due, Heard
  <2> QED BY <2>3, <2>4 DEF Attended
<1> QED BY <1>1, <1>2, <1>3 DEF EventInv

-----------------------------------------------------------------------------
(* The invariant holds at first, and every step keeps it.                     *)

\* Nothing is registered or fired.
LEMMA EventInit == Init => EventInv
<1> SUFFICES ASSUME Init  PROVE EventInv
    OBVIOUS
<1>1. TypeOK
  <2>1. NoFire \in FireLocals
        BY EmptySeq DEF NoFire, FireLocals, Object
  <2>2. (CHOOSE c \in Callback : TRUE) \in Callback
        BY EventAssumption
  <2>3. \A f \in Fire : fire[f].i <= Len(fire[f].copy) + 1
        BY EmptySeq DEF Init, NoFire
  <2> QED BY <2>1, <2>2, <2>3, EmptySeq DEF Init, TypeOK, FireLocals, EventName
<1>2. Registered
      BY NoElements DEF Init, Registered
<1>3. ASSUME NEW f \in Fire  PROVE Attended(f)
  <2>1. fire[f] = NoFire /\ calls[f] = <<>> /\ owed[f] = {} /\ halted[f] = FALSE
        BY DEF Init
  <2>2. Dispatched(f)
        BY <2>1, NoElements DEF NoFire, Dispatched, Ahead, Heard, Bubbles
  <2>3. Stops(f) /\ Due(f)
        BY <2>1 DEF Stops, Due, NoFire
  <2> QED BY <2>2, <2>3 DEF Attended
<1> QED BY <1>1, <1>2, <1>3 DEF EventInv

\* What a step of an event that has been fired starts from.
LEMMA Firing ==
    ASSUME EventInv, NEW f \in Fire
    PROVE  /\ TypeOK /\ Dispatched(f) /\ Stops(f) /\ Due(f)
           /\ fire[f] \in FireLocals /\ fire[f].i \in Nat \ {0} /\ Len(fire[f].copy) \in Nat
           /\ fire[f].i <= Len(fire[f].copy) + 1 /\ calls[f] \in Seq(Listener)
           /\ halted[f] \in BOOLEAN /\ fire[f].stopped \in BOOLEAN
           /\ calls \in [Fire -> Seq(Listener)] /\ owed \in [Fire -> SUBSET Listener]
           /\ halted \in [Fire -> BOOLEAN] /\ mainStack \in Seq(Fire) /\ crashed \in BOOLEAN
           /\ fire \in [Fire -> FireLocals]
BY EventTypes DEF EventInv, Attended, FireLocals

\* The listener is not for the event, or is not there any more.
LEMMA SkipKeeps ==
    ASSUME EventInv, NEW f \in Fire, Skip(f)  PROVE EventInv'
<1> DEFINE r == [fire[f] EXCEPT !.i = fire[f].i + 1]
<1>0. /\ fire[f].at = "next" /\ fire[f].i <= Len(fire[f].copy)
      /\ ~Handles(Visited(f), "event") \/ object[Visited(f)] = "deleted"
      BY DEF Skip, AtListener
<1>1. /\ UNCHANGED <<listeners, object, handles, callback, mainStack, calls, owed, halted, crashed>>
      /\ UNCHANGED table
      BY DEF Skip, table
<1>2. /\ r \in FireLocals /\ r.i = fire[f].i + 1 /\ r.copy = fire[f].copy /\ r.at = "next"
      /\ r.kind = fire[f].kind /\ r.on = fire[f].on /\ r.stopped = fire[f].stopped
  <2>1. fire[f].i + 1 \in Nat \ {0}
        BY Firing
  <2> QED BY <1>0, <2>1, Firing DEF FireLocals
<1>3. fire' = [fire EXCEPT ![f] = r]
      BY DEF Skip
<1> HIDE DEF r
<1>4. fire'[f] = r
      BY <1>3, Firing
<1>6. Ahead(f) = Ahead(f)' \cup {Visited(f)}
  <2>1. Distinct(fire[f].copy) /\ TypeOK
        BY Firing DEF Dispatched
  <2>2. Ahead(f)' = {fire[f].copy[j] : j \in (fire[f].i + 1)..Len(fire[f].copy)}
        BY <1>2, <1>4 DEF Ahead
  <2> QED BY <1>0, <2>1, <2>2, AheadOf
<1>7. Dispatched(f)'
      BY <1>1, <1>2, <1>4, <1>6, Firing DEF Dispatched, Heard, Bubbles
<1>8. Stops(f)'
      BY <1>0, <1>1, <1>2, <1>4, Firing DEF Stops
<1>9. Due(f)'
  <2>2. ASSUME NEW l \in owed[f], l \notin Heard(f), ~halted[f]  PROVE Owes(f, l)'
    <3>1. Owes(f, l)
          BY <1>0, <2>2, Firing DEF Due
    <3>2. l # Visited(f)
          BY <1>0, <3>1 DEF Owes
    <3> QED BY <1>1, <1>2, <1>4, <1>6, <3>1, <3>2 DEF Owes, Handles, Bubbles
  <2> QED BY <1>1, <2>2 DEF Due, Heard
<1>10. Attended(f)'
       BY <1>7, <1>8, <1>9 DEF Attended
<1>11. r.i <= Len(r.copy) + 1
       BY <1>0, <1>2, Firing
<1> QED BY <1>1, <1>2, <1>3, <1>10, <1>11, OneFire, Firing

\* The next listener is called.
LEMMA DispatchKeeps ==
    ASSUME EventInv, NEW f \in Fire, Dispatch(f)  PROVE EventInv'
<1> DEFINE r == [fire[f] EXCEPT !.at = IF fire[f].by = "main" THEN "running" ELSE "queued",
                                !.i = fire[f].i + 1]
           v == Visited(f)
<1>0. /\ fire[f].at = "next" /\ fire[f].i <= Len(fire[f].copy)
      /\ calls' = [calls EXCEPT ![f] = Append(calls[f], v)]
      BY DEF Dispatch, AtListener
<1>1. /\ UNCHANGED <<listeners, object, handles, callback, mainStack, owed, halted, crashed>>
      /\ UNCHANGED table
      BY DEF Dispatch, table
<1>2. /\ r \in FireLocals /\ r.i = fire[f].i + 1 /\ r.copy = fire[f].copy
      /\ r.at \in {"running", "queued"}
      /\ r.kind = fire[f].kind /\ r.on = fire[f].on /\ r.stopped = fire[f].stopped
  <2>1. fire[f].i + 1 \in Nat \ {0}
        BY Firing
  <2> QED BY <1>0, <2>1, Firing DEF FireLocals
<1>3. fire' = [fire EXCEPT ![f] = r]
      BY DEF Dispatch
<1> HIDE DEF r
<1>4. fire'[f] = r
      BY <1>3, Firing
<1>5. /\ v \in Elements(fire[f].copy) /\ v \in Listener
      /\ Ahead(f) = Ahead(f)' \cup {v} /\ v \notin Ahead(f)'
  <2>1. Distinct(fire[f].copy) /\ TypeOK
        BY Firing DEF Dispatched
  <2>2. Ahead(f)' = {fire[f].copy[j] : j \in (fire[f].i + 1)..Len(fire[f].copy)}
        BY <1>2, <1>4 DEF Ahead
  <2> QED BY <1>0, <2>1, <2>2, AheadOf
<1> HIDE DEF v
<1>6. /\ calls' \in [Fire -> Seq(Listener)] /\ calls'[f] = Append(calls[f], v)
      /\ \A g \in Fire : g # f => calls'[g] = calls[g]
      BY <1>0, <1>5, Firing
<1>7. Heard(f)' = Heard(f) \cup {v} /\ Distinct(calls[f])'
  <2>1. Distinct(calls[f]) /\ v \notin Elements(calls[f])
        BY <1>5, Firing DEF Dispatched, Heard
  <2> QED BY <1>5, <1>6, <2>1, Appended, Firing DEF Heard
<1>8. Dispatched(f)'
      BY <1>1, <1>2, <1>4, <1>5, <1>7, Firing DEF Dispatched, Bubbles
<1>9. Stops(f)'
      BY <1>0, <1>1, <1>2, <1>4, Firing DEF Stops
<1>10. Due(f)'
  <2>2. ASSUME NEW l \in owed[f], l \notin Heard(f)', ~halted[f]  PROVE Owes(f, l)'
    <3>1. Owes(f, l) /\ l # v
          BY <1>0, <1>7, <2>2, Firing DEF Due
    <3> QED BY <1>1, <1>2, <1>4, <1>5, <3>1 DEF Owes, Handles, Bubbles
  <2> QED BY <1>1, <2>2 DEF Due
<1>11. Attended(f)' /\ r.i <= Len(r.copy) + 1
       BY <1>0, <1>2, <1>8, <1>9, <1>10, Firing DEF Attended
<1> QED BY <1>1, <1>2, <1>3, <1>6, <1>11, OneFire, Firing

\* The program crashes: the table and the events stay as they are.
LEMMA CrashKeeps ==
    ASSUME EventInv, NEW f \in Fire, Crash(f)  PROVE EventInv'
<1>1. UNCHANGED <<listeners, object, handles, callback, fire, mainStack, calls, owed, halted>>
      BY DEF Crash, table
<1>2. TypeOK' /\ Registered'
      BY <1>1 DEF Crash, EventInv, TypeOK, Registered
<1>3. \A g \in Fire : Attended(g)'
      BY <1>1 DEF EventInv, Attended, Dispatched, Stops, Due, Owes, Ahead, Heard, Handles, Bubbles
<1> QED BY <1>2, <1>3 DEF EventInv

\* A step that leaves the place in the copy leaves those ahead and those who heard.
LEMMA Alike ==
    ASSUME NEW f \in Fire, UNCHANGED <<listeners, object, calls>>,
           fire'[f].copy = fire[f].copy, fire'[f].i = fire[f].i,
           fire'[f].kind = fire[f].kind, fire'[f].on = fire[f].on
    PROVE  /\ Ahead(f)' = Ahead(f) /\ Heard(f)' = Heard(f) /\ (Bubbles(f)' <=> Bubbles(f))
           /\ Dispatched(f) => Dispatched(f)'
<1>1. Ahead(f)' = Ahead(f) /\ Heard(f)' = Heard(f) /\ (Bubbles(f)' <=> Bubbles(f))
      BY DEF Ahead, Heard, Bubbles
<1>2. Elements(fire[f].copy)' = Elements(fire[f].copy) /\ (Distinct(fire[f].copy)' <=> Distinct(fire[f].copy))
      BY DEF Elements, Distinct
<1>3. Elements(listeners[Global])' = Elements(listeners[Global]) /\ (Distinct(calls[f])' <=> Distinct(calls[f]))
      BY DEF Elements, Distinct
<1> QED BY <1>1, <1>2, <1>3 DEF Dispatched

\* The main loop takes the callback: it runs.
LEMMA RunQueuedKeeps ==
    ASSUME EventInv, NEW f \in Fire, RunQueued(f)  PROVE EventInv'
<1> DEFINE r == [fire[f] EXCEPT !.at = "running"]
<1>1. /\ UNCHANGED <<listeners, object, handles, callback, calls, owed, halted, crashed>>
      /\ UNCHANGED table /\ mainStack' = <<f>> /\ fire[f].at = "queued"
      BY DEF RunQueued, table
<1>2. /\ r \in FireLocals /\ r.i = fire[f].i /\ r.copy = fire[f].copy /\ r.at = "running"
      /\ r.kind = fire[f].kind /\ r.on = fire[f].on /\ r.stopped = fire[f].stopped
      BY Firing DEF FireLocals
<1>3. fire' = [fire EXCEPT ![f] = r]
      BY DEF RunQueued
<1> HIDE DEF r
<1>4. fire'[f] = r /\ mainStack' \in Seq(Fire)
      BY <1>1, <1>3, Firing
<1>5. Dispatched(f)' /\ Stops(f)'
  <2>1. Dispatched(f)'
        BY <1>1, <1>2, <1>4, Firing, Alike
  <2> QED BY <1>1, <1>2, <1>4, <2>1, Firing DEF Stops
<1>6. Due(f)'
  <2>1. \A l : Owes(f, l) => Owes(f, l)'
        BY <1>1, <1>2, <1>4 DEF Owes, Handles, Ahead, Bubbles
  <2> QED BY <1>1, <2>1, Firing DEF Due, Heard
<1>7. Attended(f)' /\ r.i <= Len(r.copy) + 1
      BY <1>2, <1>5, <1>6, Firing DEF Attended
<1> QED BY <1>1, <1>2, <1>3, <1>4, <1>7, OneFire, Firing

\* A callback stops the event.
LEMMA StopPropagationKeeps ==
    ASSUME EventInv, NEW f \in Fire, StopPropagation(f)  PROVE EventInv'
<1> DEFINE r == [fire[f] EXCEPT !.stopped = TRUE, !.preventedDefault = TRUE]
<1>1. /\ UNCHANGED <<listeners, object, handles, callback, mainStack, calls, owed, crashed>>
      /\ UNCHANGED table /\ fire[f].at = "running" /\ fire[f].kind = "event"
      /\ halted' = [halted EXCEPT ![f] = TRUE]
      BY DEF StopPropagation, Running, table
<1>2. /\ r \in FireLocals /\ r.i = fire[f].i /\ r.copy = fire[f].copy /\ r.at = "running"
      /\ r.kind = fire[f].kind /\ r.on = fire[f].on /\ r.stopped
      BY <1>1, Firing DEF FireLocals
<1>3. fire' = [fire EXCEPT ![f] = r]
      BY DEF StopPropagation
<1> HIDE DEF r
<1>4. /\ fire'[f] = r /\ halted' \in [Fire -> BOOLEAN] /\ halted'[f]
      /\ \A g \in Fire : g # f => halted'[g] = halted[g]
      BY <1>1, <1>3, Firing
<1>5. Dispatched(f)'
      BY <1>1, <1>2, <1>4, Firing, Alike
<1>6. Stops(f)' /\ Due(f)'
      BY <1>1, <1>2, <1>4 DEF Stops, Due
<1>7. Attended(f)' /\ r.i <= Len(r.copy) + 1
      BY <1>2, <1>5, <1>6, Firing DEF Attended
<1> QED BY <1>1, <1>2, <1>3, <1>4, <1>7, OneFire, Firing

\* A callback prevents the default action.
LEMMA PreventDefaultKeeps ==
    ASSUME EventInv, NEW f \in Fire, PreventDefault(f)  PROVE EventInv'
<1> DEFINE r == [fire[f] EXCEPT !.preventedDefault = TRUE]
<1>1. /\ UNCHANGED <<listeners, object, handles, callback, mainStack, calls, owed, halted, crashed>>
      /\ UNCHANGED table
      BY DEF PreventDefault, table
<1>2. /\ r \in FireLocals /\ r.i = fire[f].i /\ r.copy = fire[f].copy /\ r.at = fire[f].at
      /\ r.kind = fire[f].kind /\ r.on = fire[f].on /\ r.stopped = fire[f].stopped
      BY <1>1, Firing DEF FireLocals
<1>3. fire' = [fire EXCEPT ![f] = r]
      BY DEF PreventDefault
<1> HIDE DEF r
<1>4. fire'[f] = r
      BY <1>3, Firing
<1>5. Dispatched(f)' /\ Stops(f)'
  <2>1. Dispatched(f)'
        BY <1>1, <1>2, <1>4, Firing, Alike
  <2> QED BY <1>1, <1>2, <1>4, <2>1, Firing DEF Stops
<1>6. Due(f)'
  <2>1. \A l : Owes(f, l) => Owes(f, l)'
        BY <1>1, <1>2, <1>4 DEF Owes, Handles, Ahead, Bubbles
  <2> QED BY <1>1, <1>2, <1>4, <2>1, Firing DEF Due, Heard
<1>7. Attended(f)' /\ r.i <= Len(r.copy) + 1
      BY <1>2, <1>5, <1>6, Firing DEF Attended
<1> QED BY <1>1, <1>2, <1>3, <1>7, OneFire, Firing

\* A callback comes back: the dispatch ends here, or goes on to the next listener
\* if no callback wished to stop.
LEMMA CallbackKeeps ==
    ASSUME EventInv, NEW f \in Fire, CallbackReturns(f)  PROVE EventInv'
<1>1. /\ UNCHANGED <<listeners, object, handles, callback, calls, owed, crashed>>
      /\ UNCHANGED table /\ fire[f].at = "running" /\ mainStack # <<>>
      BY DEF CallbackReturns, Running, OnTop, table
<1>2. PICK result \in {"true", "false", "throws"} :
          /\ fire' = [fire EXCEPT
                 ![f].at = IF EndsHere(f, result) THEN "done" ELSE "next",
                 ![f].result = IF EndsHere(f, result) THEN ~fire[f].preventedDefault ELSE @]
          /\ halted' = [halted EXCEPT ![f] = @ \/ result # "true"]
          /\ mainStack' = IF fire[f].by = "main" /\ ~EndsHere(f, result)
                          THEN mainStack ELSE Pop(mainStack)
      BY DEF CallbackReturns
<1> DEFINE at == IF EndsHere(f, result) THEN "done" ELSE "next"
           answer == IF EndsHere(f, result) THEN ~fire[f].preventedDefault ELSE fire[f].result
           r == [fire[f] EXCEPT !.at = at, !.result = answer]
<1>3. at \in {"next", "done"} /\ (at = "done" <=> EndsHere(f, result)) /\ answer \in BOOLEAN
      BY Firing DEF FireLocals
<1>4. fire' = [fire EXCEPT ![f] = r]
      BY <1>2
<1> HIDE DEF at, answer
<1>5. /\ r \in FireLocals /\ r.i = fire[f].i /\ r.copy = fire[f].copy /\ r.at = at
      /\ r.kind = fire[f].kind /\ r.on = fire[f].on /\ r.stopped = fire[f].stopped
      BY <1>3, Firing DEF FireLocals
<1> HIDE DEF r
<1>6. /\ fire'[f] = r /\ halted' \in [Fire -> BOOLEAN] /\ (halted'[f] <=> halted[f] \/ result # "true")
      /\ \A g \in Fire : g # f => halted'[g] = halted[g]
      BY <1>2, <1>4, Firing
<1>7. mainStack' \in Seq(Fire)
      BY <1>1, <1>2, Firing, FrontOf DEF Pop
<1>8. Dispatched(f)'
      BY <1>1, <1>5, <1>6, Firing, Alike
<1>9. halted'[f] => at = "done"
  <2>1. CASE halted[f]
        BY <1>1, <1>3, <2>1, Firing DEF Stops, EndsHere
  <2>2. CASE result # "true"
        BY <1>3, <2>2 DEF EndsHere
  <2> QED BY <1>6, <2>1, <2>2
<1>10. ~halted'[f] => at = "next"
  <2>1. ~halted'[f] => ~halted[f] /\ result = "true"
        BY <1>6
  <2>2. ~halted[f] => ~fire[f].stopped
        BY Firing DEF Stops
  <2> QED BY <1>3, <2>1, <2>2 DEF EndsHere
<1>11. Stops(f)'
  <2>1. fire[f].stopped => halted[f]
        BY Firing DEF Stops
  <2> QED BY <1>3, <1>5, <1>6, <1>9, <2>1 DEF Stops
<1>12. Due(f)'
  <2>1. ASSUME ~halted'[f]  PROVE \A l : Owes(f, l) => Owes(f, l)'
        BY <1>1, <1>5, <1>6, <1>10, <2>1 DEF Owes, Handles, Ahead, Bubbles
  <2>2. ~halted'[f] => ~halted[f]
        BY <1>6
  <2> QED BY <1>1, <2>1, <2>2, Firing DEF Due, Heard
<1>13. Attended(f)' /\ r.i <= Len(r.copy) + 1
       BY <1>5, <1>8, <1>11, <1>12, Firing DEF Attended
<1> QED BY <1>1, <1>4, <1>5, <1>6, <1>7, <1>13, OneFire, Firing

\* The event goes on to the GlobalObject: whom it is owed to is ahead there.
LEMMA BubbleKeeps ==
    ASSUME EventInv, NEW f \in Fire, Bubble(f)  PROVE EventInv'
<1> DEFINE s == listeners[Global]
           r == [fire[f] EXCEPT !.on = Global, !.copy = s, !.i = 1]
<1>1. /\ UNCHANGED <<listeners, object, handles, callback, mainStack, calls, owed, halted, crashed>>
      /\ UNCHANGED table /\ fire[f].at = "next" /\ fire[f].i > Len(fire[f].copy) /\ Bubbles(f)
      BY DEF Bubble, AtEnd, table
<1>2. /\ s \in Seq(Listener) /\ Len(s) \in Nat /\ Distinct(s)
      /\ \A l \in Elements(s) : object[l] = "live"
  <2>1. Global \in Object
        BY DEF Object
  <2> QED BY <2>1, EventTypes, LenProperties DEF EventInv, Registered
<1>3. fire' = [fire EXCEPT ![f] = r]
      BY DEF Bubble
<1>4. Elements(s) = {s[j] : j \in 1..Len(s)}
      BY DEF Elements
<1>5. s = listeners[Global]
      OBVIOUS
<1> HIDE DEF s
<1>6. /\ r \in FireLocals /\ r.i = 1 /\ r.copy = s /\ r.at = "next" /\ r.on = Global
      /\ r.kind = fire[f].kind /\ r.stopped = fire[f].stopped
  <2>1. Global \in Object /\ 1 \in Nat \ {0}
        BY DEF Object
  <2>2. fire[f] \in FireLocals /\ s \in Seq(Listener) /\ fire[f].at = "next"
        BY <1>1, <1>2, Firing
  <2> QED BY <2>1, <2>2 DEF FireLocals
<1> HIDE DEF r
<1>7. fire'[f] = r
      BY <1>3, Firing
<1>8. Ahead(f)' = Elements(s) /\ ~Bubbles(f)' /\ Heard(f)' = Heard(f)
      BY <1>1, <1>4, <1>6, <1>7 DEF Ahead, Bubbles, Heard
<1>9. Dispatched(f)'
  <2>1. Elements(s) \cap Heard(f) = {} /\ Distinct(calls[f]) /\ \A l \in Heard(f) : object[l] # "unused"
        BY <1>1, <1>5, Firing DEF Dispatched
  <2> QED BY <1>1, <1>2, <1>6, <1>7, <1>8, <2>1 DEF Dispatched
<1>10. Stops(f)'
       BY <1>1, <1>6, <1>7, Firing DEF Stops
<1>11. Due(f)'
  <2>1. Ahead(f) = {}
        BY <1>1, Firing DEF Ahead
  <2>2. \A l : Owes(f, l) => Owes(f, l)'
        BY <1>1, <1>5, <1>6, <1>7, <1>8, <2>1 DEF Owes, Handles
  <2> QED BY <1>1, <1>8, <2>2, Firing DEF Due
<1>12. Attended(f)' /\ r.i <= Len(r.copy) + 1
       BY <1>2, <1>6, <1>9, <1>10, <1>11 DEF Attended
<1> QED BY <1>1, <1>3, <1>6, <1>12, OneFire, Firing

\* FireEvent comes to its end: nobody is ahead, so whom it was owed to heard it.
LEMMA FireReturnsKeeps ==
    ASSUME EventInv, NEW f \in Fire, FireReturns(f)  PROVE EventInv'
<1> DEFINE answer == ~fire[f].preventedDefault
           r == [fire[f] EXCEPT !.at = "done", !.result = answer]
<1>1. /\ UNCHANGED <<listeners, object, handles, callback, calls, owed, halted, crashed>>
      /\ UNCHANGED table /\ fire[f].at = "next" /\ fire[f].i > Len(fire[f].copy) /\ ~Bubbles(f)
      /\ mainStack' = IF fire[f].by = "main" THEN Pop(mainStack) ELSE mainStack
      /\ (fire[f].by = "main" => mainStack # <<>>)
      BY DEF FireReturns, AtEnd, Proceeds, OnTop, table
<1>2. answer \in BOOLEAN
      OBVIOUS
<1>3. fire' = [fire EXCEPT ![f] = r]
      BY DEF FireReturns
<1> HIDE DEF answer
<1>4. /\ r \in FireLocals /\ r.i = fire[f].i /\ r.copy = fire[f].copy /\ r.at = "done"
      /\ r.kind = fire[f].kind /\ r.on = fire[f].on /\ r.stopped = fire[f].stopped
      BY <1>2, Firing DEF FireLocals
<1> HIDE DEF r
<1>5. fire'[f] = r
      BY <1>3, Firing
<1>6. mainStack' \in Seq(Fire)
      BY <1>1, Firing, FrontOf DEF Pop
<1>7. Dispatched(f)' /\ Stops(f)'
      BY <1>1, <1>4, <1>5, Firing DEF Dispatched, Stops, Ahead, Heard, Bubbles
<1>8. Due(f)'
  <2>1. Ahead(f) = {}
        BY <1>1, Firing DEF Ahead
  <2>2. \A l : ~Owes(f, l)
        BY <1>1, <2>1 DEF Owes
  <2> QED BY <1>1, <2>2, Firing DEF Due, Heard
<1>9. Attended(f)' /\ r.i <= Len(r.copy) + 1
      BY <1>4, <1>7, <1>8, Firing DEF Attended
<1> QED BY <1>1, <1>3, <1>4, <1>6, <1>9, OneFire, Firing

\* An event is fired: it is owed to the listeners on its path, who are ahead.
LEMMA FireEventKeeps ==
    ASSUME EventInv, NEW f \in Fire, NEW o \in Object, NEW by \in {"main", "background"},
           NEW kind \in {"event", "args"}, FireEvent(f, o, by, kind)
    PROVE  EventInv'
<1> DEFINE s == listeners[o]
           r == [NoFire EXCEPT !.at = "next", !.by = by, !.kind = kind, !.on = o, !.copy = s]
<1>1. /\ UNCHANGED <<listeners, object, handles, callback, calls, halted, crashed>>
      /\ UNCHANGED table /\ fire[f].at = "idle"
      /\ owed' = [owed EXCEPT ![f] = OnPath(o, kind)]
      /\ mainStack' = IF by = "main" THEN Append(mainStack, f) ELSE mainStack
      BY DEF FireEvent, table
<1>2. /\ s \in Seq(Listener) /\ Len(s) \in Nat /\ Distinct(s)
      /\ \A l \in Elements(s) : object[l] = "live"
      /\ \A l \in Elements(listeners[Global]) : object[l] = "live"
      /\ o # Global => Elements(s) \cap Elements(listeners[Global]) = {}
  <2>1. Global \in Object
        BY DEF Object
  <2> QED BY <2>1, EventTypes, LenProperties DEF EventInv, Registered
<1>3. fire' = [fire EXCEPT ![f] = r]
      BY DEF FireEvent
<1>4. Elements(s) = {s[j] : j \in 1..Len(s)} /\ s = listeners[o]
      BY DEF Elements
<1> HIDE DEF s
<1>5. /\ r \in FireLocals /\ r.i = 1 /\ r.copy = s /\ r.at = "next" /\ r.on = o
      /\ r.kind = kind /\ ~r.stopped
  <2>1. NoFire \in FireLocals
        BY EmptySeq DEF NoFire, FireLocals, Object
  <2>2. NoFire.i = 1 /\ ~NoFire.stopped
        BY DEF NoFire
  <2> HIDE DEF s
  <2> QED BY <1>2, <2>1, <2>2 DEF FireLocals
<1> HIDE DEF r
<1>6. /\ fire'[f] = r /\ mainStack' \in Seq(Fire)
      /\ owed' \in [Fire -> SUBSET Listener] /\ owed'[f] = OnPath(o, kind)
      /\ \A g \in Fire : g # f => owed'[g] = owed[g]
  <2>1. OnPath(o, kind) \in SUBSET Listener
        BY DEF OnPath
  <2>2. Append(mainStack, f) \in Seq(Fire)
        BY Firing, AppendProperties
  <2> QED BY <1>1, <1>3, <2>1, <2>2, Firing
<1>7. /\ Ahead(f)' = Elements(s) /\ Heard(f)' = {} /\ (Bubbles(f)' <=> kind = "event" /\ o # Global)
      /\ calls'[f] = <<>>
  <2>1. calls'[f] = <<>>
        BY <1>1, Firing DEF Stops
  <2> QED BY <1>4, <1>5, <1>6, <2>1, NoElements DEF Ahead, Bubbles, Heard
<1>8. Dispatched(f)'
      BY <1>1, <1>2, <1>5, <1>6, <1>7, NoElements DEF Dispatched
<1>9. Stops(f)'
      BY <1>1, <1>5, <1>6, <1>7, Firing DEF Stops
<1>10. Due(f)'
  <2>1. ASSUME NEW l \in OnPath(o, kind)  PROVE Owes(f, l)'
    <3>1. /\ l \in Listener /\ Handles(l, "event")
          /\ l \in Elements(s) \/ (kind = "event" /\ l \in Elements(listeners[Global]))
          BY <1>4, <2>1 DEF OnPath, Elements
    <3>2. object[l] = "live"
          BY <1>2, <3>1
    <3>3. l \in Elements(s) \/ (Bubbles(f)' /\ l \in Elements(listeners[Global]))
          BY <1>4, <1>7, <3>1
    <3> QED BY <1>1, <1>5, <1>6, <1>7, <3>1, <3>2, <3>3 DEF Owes, Handles
  <2> QED BY <1>6, <2>1 DEF Due
<1>11. Attended(f)' /\ r.i <= Len(r.copy) + 1
       BY <1>2, <1>5, <1>8, <1>9, <1>10 DEF Attended
<1> QED BY <1>1, <1>3, <1>5, <1>6, <1>11, OneFire, Firing

\* A listener is added: it is new, so no event has it in its copy or has called it.
LEMMA AddKeeps ==
    ASSUME EventInv, NEW o \in Object, NEW l \in Listener, NEW e \in EventName, NEW c \in Callback,
           AddEventListener(o, l, e, c)
    PROVE  EventInv'
<1>0. /\ TypeOK /\ Registered /\ object[l] = "unused"
      /\ UNCHANGED <<fire, mainStack, calls, owed, halted, crashed>>
      /\ object' = [object EXCEPT ![l] = "live"] /\ handles' = [handles EXCEPT ![l] = e]
      /\ callback' = [callback EXCEPT ![l] = c]
      /\ listeners' = [listeners EXCEPT ![o] = Append(listeners[o], l)]
      BY DEF AddEventListener, EventInv
<1>1. /\ listeners[o] \in Seq(Listener) /\ l \notin Elements(listeners[o]) /\ Distinct(listeners[o])
      BY <1>0, EventTypes DEF Registered
<1>2. /\ Append(listeners[o], l) \in Seq(Listener) /\ Distinct(Append(listeners[o], l))
      /\ Elements(Append(listeners[o], l)) = Elements(listeners[o]) \cup {l}
      BY <1>1, Appended
<1>3. /\ listeners' \in [Object -> Seq(Listener)]
      /\ listeners'[o] = Append(listeners[o], l)
      /\ \A p \in Object : p # o => listeners'[p] = listeners[p]
      BY <1>0, <1>2, EventTypes
<1>4. /\ object' \in [Listener -> {"unused", "live", "deleted"}] /\ object'[l] = "live"
      /\ \A x \in Listener : x # l => object'[x] = object[x]
      /\ handles' \in [Listener -> EventName] /\ callback' \in [Listener -> Callback]
      /\ \A x \in Listener : x # l => handles'[x] = handles[x]
      BY <1>0, EventTypes
<1>5. TypeOK'
      BY <1>0, <1>3, <1>4, EventTypes, EventTypesKept
<1>6. \A p \in Object : /\ Elements(listeners'[p]) \subseteq Elements(listeners[p]) \cup {l}
                        /\ Elements(listeners[p]) \subseteq Elements(listeners'[p])
                        /\ Distinct(listeners'[p]) /\ Elements(listeners[p]) \subseteq Listener
                        /\ l \notin Elements(listeners[p])
                        /\ p # o => l \notin Elements(listeners'[p])
  <2>1. ASSUME NEW p \in Object  PROVE /\ Elements(listeners[p]) \subseteq Listener
                                       /\ l \notin Elements(listeners[p]) /\ Distinct(listeners[p])
    <3>1. listeners[p] \in Seq(Listener)
          BY <1>0, EventTypes
    <3> QED BY <1>0, <3>1, ElementOfSeq DEF Registered, Elements
  <2>2. ASSUME NEW p \in Object, p # o  PROVE listeners'[p] = listeners[p]
        BY <1>3, <2>2
  <2> QED BY <1>2, <1>3, <2>1, <2>2
<1>7. Registered'
  <2>1. \A p, q \in Object : p # q => Elements(listeners'[p]) \cap Elements(listeners'[q]) = {}
    <3>1. \A p, q \in Object : p # q => Elements(listeners[p]) \cap Elements(listeners[q]) = {}
          BY <1>0 DEF Registered
    <3>2. SUFFICES ASSUME NEW p \in Object, NEW q \in Object, p # q,
                          NEW x \in Elements(listeners'[p]), x \in Elements(listeners'[q])
                   PROVE  FALSE
          OBVIOUS
    <3>3. x # l
          BY <1>6, <3>2
    <3> QED BY <1>6, <3>1, <3>2, <3>3
  <2>2. ASSUME NEW p \in Object, NEW x \in Elements(listeners'[p])  PROVE object'[x] = "live"
    <3>1. CASE x = l
          BY <1>4, <3>1
    <3>2. CASE x # l
      <4>1. x \in Elements(listeners[p]) /\ x \in Listener
            BY <1>6, <2>2, <3>2
      <4> QED BY <1>0, <1>4, <3>2, <4>1 DEF Registered
    <3> QED BY <3>1, <3>2
  <2>3. \A p \in Object : Distinct(listeners'[p])
        BY <1>6
  <2>4. /\ \A p \in Object : Elements(listeners[p])' = Elements(listeners'[p])
        /\ \A p \in Object : Distinct(listeners[p])' <=> Distinct(listeners'[p])
        BY DEF Elements, Distinct
  <2> QED BY <2>1, <2>2, <2>3 DEF Registered
<1>8. ASSUME NEW f \in Fire  PROVE Attended(f)'
  <2>1. Global \in Object
        BY DEF Object
  <2>2. /\ l \notin Elements(fire[f].copy) /\ l \notin Heard(f)
        /\ Elements(fire[f].copy) \subseteq Listener /\ Heard(f) \subseteq Listener
        BY <1>0, Firing, EventTypes DEF Dispatched, Heard
  <2>3. Ahead(f)' = Ahead(f) /\ Heard(f)' = Heard(f) /\ (Bubbles(f)' <=> Bubbles(f))
        BY <1>0 DEF Ahead, Heard, Bubbles
  <2>4. Dispatched(f)'
    <3>1. \A x \in Elements(fire[f].copy) \cup Heard(f) : object'[x] # "unused"
          BY <1>4, <2>2, Firing DEF Dispatched
    <3>2. Bubbles(f) => (Elements(fire[f].copy) \cup Heard(f)) \cap Elements(listeners'[Global]) = {}
      <4>1. Elements(listeners'[Global]) \subseteq Elements(listeners[Global]) \cup {l}
            BY <1>6, <2>1
      <4>2. Bubbles(f) => (Elements(fire[f].copy) \cup Heard(f)) \cap Elements(listeners[Global]) = {}
            BY Firing DEF Dispatched
      <4> QED BY <2>2, <4>1, <4>2
    <3> QED BY <1>0, <2>3, <3>1, <3>2, Firing DEF Dispatched
  <2>5. Stops(f)'
        BY <1>0, Firing DEF Stops
  <2>6. Due(f)'
    <3>1. ASSUME NEW x \in Listener, Owes(f, x)  PROVE Owes(f, x)'
      <4>1. x # l
            BY <1>0, <3>1 DEF Owes
      <4>2. object'[x] = object[x] /\ handles'[x] = handles[x]
            BY <1>4, <4>1
      <4>3. x \in Elements(listeners[Global]) => x \in Elements(listeners'[Global])
            BY <1>6, <2>1
      <4> QED BY <1>0, <2>3, <3>1, <4>2, <4>3 DEF Owes, Handles
    <3>2. owed[f] \subseteq Listener
          BY Firing
    <3> QED BY <1>0, <2>3, <3>1, <3>2, Firing DEF Due
  <2> QED BY <2>4, <2>5, <2>6 DEF Attended
<1> QED BY <1>5, <1>7, <1>8 DEF EventInv

\* A listener is removed: no event owes it anything any more.
LEMMA RemoveKeeps ==
    ASSUME EventInv, NEW o \in Object, NEW e \in EventName, NEW c \in Callback,
           RemoveEventListener(o, e, c)
    PROVE  EventInv'
<1> DEFINE match == {k \in 1..Len(listeners[o]) :
                       Handles(listeners[o][k], e) /\ callback[listeners[o][k]] = c}
           first == CHOOSE k \in match : \A m \in match : k <= m
           l == listeners[o][first]
<1>0. /\ TypeOK /\ Registered /\ match # {}
      /\ UNCHANGED <<handles, callback, fire, mainStack, calls, halted, crashed>>
      /\ listeners' = [listeners EXCEPT ![o] = Without(listeners[o], first)]
      /\ object' = [object EXCEPT ![l] = "deleted"]
      /\ owed' = [f \in Fire |-> owed[f] \ {l}]
      BY DEF RemoveEventListener, EventInv
<1>1. listeners[o] \in Seq(Listener) /\ Distinct(listeners[o]) /\ Len(listeners[o]) \in Nat
      BY <1>0, EventTypes, LenProperties DEF Registered
<1>2. first \in 1..Len(listeners[o])
  <2>1. match \in SUBSET Nat
        BY <1>1
  <2>2. \E k \in match : \A m \in match : k <= m
        BY <1>0, <2>1, Least
  <2>3. first \in match
        BY <2>2
  <2> QED BY <2>3
<1> HIDE DEF first
<1>3. /\ Without(listeners[o], first) \in Seq(Listener) /\ Distinct(Without(listeners[o], first))
      /\ Elements(Without(listeners[o], first)) = Elements(listeners[o]) \ {l}
      BY <1>1, <1>2, OneErased DEF Without
<1>4. l \in Elements(listeners[o]) /\ l \in Listener
      BY <1>1, <1>2, ElementOfSeq DEF Elements
<1> HIDE DEF match, l
<1>5. /\ listeners' \in [Object -> Seq(Listener)]
      /\ listeners'[o] = Without(listeners[o], first)
      /\ \A p \in Object : p # o => listeners'[p] = listeners[p]
      BY <1>0, <1>3, EventTypes
<1>6. /\ object' \in [Listener -> {"unused", "live", "deleted"}] /\ object'[l] = "deleted"
      /\ \A x \in Listener : x # l => object'[x] = object[x]
      /\ owed' \in [Fire -> SUBSET Listener] /\ \A f \in Fire : owed'[f] = owed[f] \ {l}
      BY <1>0, <1>4, EventTypes
<1>7. TypeOK'
      BY <1>0, <1>5, <1>6, EventTypes, EventTypesKept
<1>8. \A p \in Object : /\ Elements(listeners'[p]) = Elements(listeners[p]) \ {l}
                        /\ Distinct(listeners'[p]) /\ Elements(listeners[p]) \subseteq Listener
  <2>1. ASSUME NEW p \in Object  PROVE /\ Elements(listeners[p]) \subseteq Listener
                                       /\ Distinct(listeners[p])
                                       /\ p # o => l \notin Elements(listeners[p])
    <3>1. listeners[p] \in Seq(Listener)
          BY <1>0, EventTypes
    <3>2. p # o => l \notin Elements(listeners[p])
          BY <1>0, <1>4 DEF Registered
    <3> QED BY <1>0, <3>1, <3>2, ElementOfSeq DEF Registered, Elements
  <2>2. ASSUME NEW p \in Object, p # o  PROVE listeners'[p] = listeners[p]
        BY <1>5, <2>2
  <2> QED BY <1>3, <1>5, <2>1, <2>2
<1>9. Registered'
  <2>1. \A p, q \in Object : p # q => Elements(listeners'[p]) \cap Elements(listeners'[q]) = {}
    <3>1. \A p, q \in Object : p # q => Elements(listeners[p]) \cap Elements(listeners[q]) = {}
          BY <1>0 DEF Registered
    <3> QED BY <1>8, <3>1
  <2>2. ASSUME NEW p \in Object, NEW x \in Elements(listeners'[p])  PROVE object'[x] = "live"
    <3>1. x # l /\ x \in Listener /\ x \in Elements(listeners[p])
          BY <1>8, <2>2
    <3> QED BY <1>0, <1>6, <3>1 DEF Registered
  <2>3. \A p \in Object : Distinct(listeners'[p])
        BY <1>8
  <2> QED BY <2>1, <2>2, <2>3 DEF Registered
<1>10. ASSUME NEW f \in Fire  PROVE Attended(f)'
  <2>1. Elements(listeners'[Global]) = Elements(listeners[Global]) \ {l}
        BY <1>8 DEF Object
  <2>2. Elements(fire[f].copy) \subseteq Listener /\ Heard(f) \subseteq Listener
        BY <1>0, EventTypes DEF Heard
  <2>3. Ahead(f)' = Ahead(f) /\ Heard(f)' = Heard(f) /\ (Bubbles(f)' <=> Bubbles(f))
        BY <1>0 DEF Ahead, Heard, Bubbles
  <2>4. Dispatched(f)'
    <3>1. \A x \in Elements(fire[f].copy) \cup Heard(f) : object'[x] # "unused"
          BY <1>6, <2>2, Firing DEF Dispatched
    <3>2. Bubbles(f) => (Elements(fire[f].copy) \cup Heard(f)) \cap Elements(listeners'[Global]) = {}
          BY <2>1, Firing DEF Dispatched
    <3> QED BY <1>0, <2>3, <3>1, <3>2, Firing DEF Dispatched
  <2>5. Stops(f)'
        BY <1>0, Firing DEF Stops
  <2>6. Due(f)'
    <3>1. ASSUME NEW x \in Listener, x # l, Owes(f, x)  PROVE Owes(f, x)'
      <4>1. object'[x] = object[x] /\ handles' = handles
            BY <1>0, <1>6, <3>1
      <4>2. x \in Elements(listeners[Global]) => x \in Elements(listeners'[Global])
            BY <2>1, <3>1
      <4> QED BY <1>0, <2>3, <3>1, <4>1, <4>2 DEF Owes, Handles
    <3>2. owed[f] \subseteq Listener
          BY Firing
    <3> QED BY <1>0, <1>6, <2>3, <3>1, <3>2, Firing DEF Due
  <2> QED BY <2>4, <2>5, <2>6 DEF Attended
<1> QED BY <1>7, <1>9, <1>10 DEF EventInv

\* Every step of the events keeps the invariant.
LEMMA EventNext == ASSUME EventInv, [Next]_vars  PROVE EventInv'
<1>1. CASE UNCHANGED vars
  <2>1. TypeOK' /\ Registered'
        BY <1>1 DEF vars, EventInv, TypeOK, Registered
  <2>2. \A f \in Fire : Attended(f)'
        BY <1>1 DEF vars, EventInv, Attended, Dispatched, Stops, Due, Owes, Ahead, Heard,
                    Handles, Bubbles
  <2> QED BY <2>1, <2>2 DEF EventInv
<1>2. CASE \E o \in Object, l \in Listener, e \in EventName, c \in Callback :
              AddEventListener(o, l, e, c)
      BY <1>2, AddKeeps
<1>3. CASE \E o \in Object, e \in EventName, c \in Callback : RemoveEventListener(o, e, c)
      BY <1>3, RemoveKeeps
<1>4. CASE \E f \in Fire, o \in Object, by \in {"main", "background"}, kind \in {"event", "args"} :
              FireEvent(f, o, by, kind)
      BY <1>4, FireEventKeeps
<1>5. ASSUME NEW f \in Fire, FireStep(f)  PROVE EventInv'
  <2>1. \/ Skip(f) \/ Dispatch(f) \/ RunQueued(f) \/ CallbackReturns(f)
        \/ Bubble(f) \/ FireReturns(f)
        BY <1>5 DEF FireStep
  <2> QED BY <2>1, SkipKeeps, DispatchKeeps, RunQueuedKeeps, CallbackKeeps, BubbleKeeps,
             FireReturnsKeeps
<1>6. ASSUME NEW f \in Fire, StopPropagation(f) \/ PreventDefault(f) \/ Crash(f)  PROVE EventInv'
      BY <1>6, StopPropagationKeeps, PreventDefaultKeeps, CrashKeeps
<1> QED BY <1>1, <1>2, <1>3, <1>4, <1>5, <1>6 DEF Next

\* Lists of listeners, copies and calls are consistent while listeners are added
\* and removed and events fired by any thread.
THEOREM EventsAreSound == Spec => []EventInv
<1> QED BY EventInit, EventNext, PTL DEF Spec

\* A stopped event stays stopped: the step that would call a listener needs an
\* event that is between callbacks, and there no callback has wished to stop.
THEOREM StoppedForGood == Spec => StopIsFinal
<1>1. ASSUME EventInv, [Next]_vars
      PROVE  [\A f \in Fire : halted[f] /\ fire[f].at # "running" => calls'[f] = calls[f]]_vars
  <2>1. CASE UNCHANGED vars
        BY <2>1 DEF vars
  <2>2. ASSUME Next, NEW f \in Fire, halted[f], fire[f].at # "running"  PROVE calls'[f] = calls[f]
    <3>1. fire[f].at = "done"
          BY <1>1, <2>2, Firing DEF Stops
    <3>2. ASSUME NEW g \in Fire, Dispatch(g)  PROVE calls'[f] = calls[f]
      <4>1. g # f /\ calls' = [calls EXCEPT ![g] = Append(calls[g], Visited(g))]
            BY <3>1, <3>2 DEF Dispatch, AtListener
      <4> QED BY <1>1, <4>1, Firing
    <3>3. ASSUME NEW g \in Fire, FireStep(g)  PROVE calls'[f] = calls[f]
          BY <3>2, <3>3 DEF FireStep, Skip, RunQueued, CallbackReturns, Bubble, FireReturns
    <3>4. ASSUME NEW g \in Fire, StopPropagation(g) \/ PreventDefault(g) \/ Crash(g)
          PROVE  calls'[f] = calls[f]
          BY <3>4 DEF StopPropagation, PreventDefault, Crash
    <3> QED BY <2>2, <3>3, <3>4 DEF Next, AddEventListener, RemoveEventListener, FireEvent
  <2> QED BY <1>1, <2>1, <2>2
<1> QED BY <1>1, EventsAreSound, PTL DEF Spec, StopIsFinal

\* No listener hears an event twice, and when an event is through and nobody
\* stopped it, the listeners it was owed to have heard it: nobody is ahead.
THEOREM EveryoneHearsOnce == Spec => []EveryListenerHearsOnce
<1>1. EventInv => EveryListenerHearsOnce
  <2> SUFFICES ASSUME EventInv, NEW f \in Fire
               PROVE  /\ Cardinality(Called(f)) = Len(calls[f])
                      /\ fire[f].at = "done" /\ ~halted[f] => owed[f] \subseteq Called(f)
      BY DEF EveryListenerHearsOnce
  <2>1. Called(f) = Elements(calls[f]) /\ Called(f) = Heard(f)
        BY DEF Called, Elements, Heard
  <2>2. Cardinality(Elements(calls[f])) = Len(calls[f])
        BY Firing, CountedOnce DEF Dispatched
  <2>3. fire[f].at = "done" /\ ~halted[f] => owed[f] \subseteq Heard(f)
        BY Firing DEF Due, Owes
  <2> QED BY <2>1, <2>2, <2>3
<1> QED BY <1>1, EventsAreSound, PTL

-----------------------------------------------------------------------------
(***************************************************************************)
(* Windows.  The inductive invariant: a window that is active is in the    *)
(* list of open windows (Held); the call that closes a window and is past  *)
(* its listeners has a window that is not active, and a call that opens    *)
(* one, whose listeners still run, is above no call that closes it         *)
(* (Marked); a child of a closed window is about to be closed by a call    *)
(* under way (Cared); and the call that has closed the last window is      *)
(* about to make the application exit (Ended).                             *)
(***************************************************************************)

Stage == {"open", "opened", "close", "closed", "children", "exit"}
Entry == [at : Stage, w : Window]

Held == \A w \in Window : active[w] => initialized[w] /\ w \in Elements(openWindows)
Marked ==
    /\ \A k \in 1..Len(stack) :
          /\ stack[k].at \in {"closed", "children", "exit"} => ~active[stack[k].w]
          /\ stack[k].at # "open" => initialized[stack[k].w]
    /\ \A j, k \in 1..Len(stack) :
          j < k /\ stack[k].at = "open" /\ stack[j].w = stack[k].w => stack[j].at = "open"

\* The k-th call closes p, and after that its child w, or is closing it now.
Closes(k, p, w) ==
    /\ k \in 1..Len(stack) /\ stack[k].w = p
    /\ \/ stack[k].at \in {"closed", "children"} /\ w \in Elements(children[p])
       \/ stack[k].at = "children" /\ k < Len(stack) /\ stack[k + 1] = [at |-> "close", w |-> w]
WillClose(p, w) == \E k \in 1..Len(stack) : Closes(k, p, w)
Cared ==
    \A w \in Window \ (refused \cup late) :
        active[w] /\ Parent[w] # None =>
            \/ active[Parent[w]] /\ w \in Elements(children[Parent[w]])
            \/ WillClose(Parent[w], w)
Ended ==
    openWindows = <<>> /\ (\E w \in Window : initialized[w]) /\ ~exiting /\ ~stays =>
        \E k \in 1..Len(stack) : stack[k].at = "exit"
WindowsInv == Windows!TypeOK /\ Held /\ Marked /\ Cared /\ Ended

\* The list that UserWindow speaks of.
LEMMA SameElements ==
    ASSUME NEW S, NEW s \in Seq(S) PROVE Windows!Elements(s) = Elements(s)
BY LenProperties DEF Windows!Elements, Elements

\* What erasing leaves is the same for the lists of windows and of sizes.
LEMMA SameEntries ==
    ASSUME NEW s, NEW I PROVE Windows!Entries(s, I) = Entries(s, I) /\ Sizes!Entries(s, I) = Entries(s, I)
BY DEF Windows!Entries, Windows!IsNth, Windows!Cardinality, Windows!IsFiniteSet,
       Sizes!Entries, Sizes!IsNth, Sizes!Cardinality, Sizes!IsFiniteSet,
       Entries, IsNth, Cardinality, IsFiniteSet

\* What the types say of each variable.
LEMMA WindowTypes ==
    ASSUME Windows!TypeOK
    PROVE  /\ initialized \in [Window -> BOOLEAN] /\ active \in [Window -> BOOLEAN]
           /\ gtkWindow \in [Window -> BOOLEAN]
           /\ children \in [Window -> Seq(Window)] /\ openWindows \in Seq(Window)
           /\ stack \in Seq(Entry) /\ Len(stack) \in Nat /\ DOMAIN stack = 1..Len(stack)
           /\ refused \subseteq Window /\ late \subseteq Window
           /\ exiting \in BOOLEAN /\ stays \in BOOLEAN
           /\ \A k \in 1..Len(stack) : stack[k] \in Entry /\ stack[k].w \in Window /\ stack[k].at \in Stage
<1>1. stack \in Seq(Entry)
      BY DEF Windows!TypeOK, Entry, Stage
<1>2. \A k \in 1..Len(stack) : stack[k] \in Entry
      BY <1>1, ElementOfSeq
<1> QED BY <1>1, <1>2, LenProperties DEF Windows!TypeOK, Entry

\* The first n calls remain.
Remain(n) ==
    /\ n \in 0..Len(stack) /\ Len(stack') \in Nat /\ n <= Len(stack')
    /\ \A k \in 1..n : stack'[k] = stack[k]

\* A call is entered, ...
LEMMA CallEntered ==
    ASSUME Windows!TypeOK, NEW stage \in Stage, NEW w \in Window, stack' = Windows!Call(stage, w)
    PROVE  /\ stack' \in Seq(Entry) /\ Len(stack') = Len(stack) + 1
           /\ stack'[Len(stack) + 1] = [at |-> stage, w |-> w]
           /\ Len(stack) \in Nat /\ Remain(Len(stack))
<1>1. [at |-> stage, w |-> w] \in Entry
      BY DEF Entry
<1> QED BY <1>1, WindowTypes, Appended DEF Windows!Call, Remain

\* ... goes on to another stage, ...
LEMMA CallGoesOn ==
    ASSUME Windows!TypeOK, NEW stage \in Stage, NEW old, NEW w \in Window, Windows!At(old, w),
           stack' = Windows!Goto(stage)
    PROVE  /\ stack' \in Seq(Entry) /\ Len(stack') = Len(stack) /\ Len(stack) >= 1
           /\ stack[Len(stack)] = [at |-> old, w |-> w] /\ stack'[Len(stack)] = [at |-> stage, w |-> w]
           /\ Len(stack) \in Nat /\ Len(stack) - 1 \in Nat /\ Remain(Len(stack) - 1)
<1>1. stack # <<>> /\ stack[Len(stack)] = [at |-> old, w |-> w]
      BY DEF Windows!At, Windows!Idle, Windows!Top
<1>2. stack \in Seq(Entry) /\ Len(stack) \in Nat /\ Len(stack) >= 1
      BY <1>1, WindowTypes, EmptySeq
<1>3. [at |-> stage, w |-> w] \in Entry
      BY DEF Entry
<1>4. stack' = [stack EXCEPT ![Len(stack)] = [at |-> stage, w |-> w]]
  <2>1. stack' = [stack EXCEPT ![Len(stack)] = [stack[Len(stack)] EXCEPT !.at = stage]]
        BY DEF Windows!Goto
  <2>2. [[at |-> old, w |-> w] EXCEPT !.at = stage] = [at |-> stage, w |-> w]
        OBVIOUS
  <2> QED BY <1>1, <2>1, <2>2
<1>5. /\ stack' \in Seq(Entry) /\ Len(stack') = Len(stack)
      /\ \A k \in 1..Len(stack) :
            stack'[k] = IF k = Len(stack) THEN [at |-> stage, w |-> w] ELSE stack[k]
      BY <1>2, <1>3, <1>4, ExceptSeq
<1> QED BY <1>1, <1>2, <1>5 DEF Remain

\* ... and returns.
LEMMA CallReturns ==
    ASSUME Windows!TypeOK, NEW old, NEW w \in Window, Windows!At(old, w), stack' = Windows!Return
    PROVE  /\ stack' \in Seq(Entry) /\ Len(stack') = Len(stack) - 1 /\ Len(stack) >= 1
           /\ stack[Len(stack)] = [at |-> old, w |-> w]
           /\ Len(stack) \in Nat /\ Len(stack) - 1 \in Nat /\ Remain(Len(stack) - 1)
<1>1. stack # <<>> /\ stack[Len(stack)] = [at |-> old, w |-> w]
      BY DEF Windows!At, Windows!Idle, Windows!Top
<1>2. stack \in Seq(Entry) /\ Len(stack) \in Nat /\ Len(stack) >= 1
      BY <1>1, WindowTypes, EmptySeq
<1>3. /\ stack' \in Seq(Entry) /\ Len(stack') = Len(stack) - 1
      /\ \A k \in 1..Len(stack') : stack'[k] = stack[k]
      BY <1>1, <1>2, FrontOf DEF Windows!Return
<1> QED BY <1>1, <1>2, <1>3 DEF Remain

\* Parents are windows.
LEMMA Parents == \A w \in Window : Parent[w] # None => Parent[w] \in Window
BY WindowsAssumption DEF Windows!WindowAssumption

\* What closing does to the children of the parent, and to the list of open windows.
LEMMA Forgotten ==
    ASSUME Windows!TypeOK, NEW w \in Window, Windows!Forget(w)
    PROVE  /\ children' \in [Window -> Seq(Window)]
           /\ \A p \in Window : Elements(children'[p]) \subseteq Elements(children[p])
           /\ \A p \in Window : Elements(children[p]) \ {w} \subseteq Elements(children'[p])
           /\ openWindows' \in Seq(Window)
           /\ Elements(openWindows') \subseteq Elements(openWindows)
           /\ Elements(openWindows) \ {w} \subseteq Elements(openWindows')
           /\ Distinct(openWindows) => Distinct(openWindows') /\ w \notin Elements(openWindows')
<1>1. children \in [Window -> Seq(Window)] /\ openWindows \in Seq(Window)
      BY WindowTypes
<1>2. /\ children' \in [Window -> Seq(Window)]
      /\ \A p \in Window : Elements(children'[p]) \subseteq Elements(children[p])
      /\ \A p \in Window : Elements(children[p]) \ {w} \subseteq Elements(children'[p])
  <2>1. CASE Parent[w] = None
        BY <1>1, <2>1 DEF Windows!Forget
  <2>2. CASE Parent[w] # None
    <3> DEFINE s == children[Parent[w]]
               I == {k \in DOMAIN s : s[k] # w}
               t == Entries(s, I)
    <3>1. Parent[w] \in Window /\ s \in Seq(Window) /\ DOMAIN s = 1..Len(s)
          BY <1>1, <2>2, Parents, LenProperties
    <3>2. children' = [children EXCEPT ![Parent[w]] = t]
          BY <2>2, SameEntries DEF Windows!Forget, Windows!RemoveChild
    <3>3. I \in SUBSET (1..Len(s))
          BY <3>1
    <3>4. /\ t \in Seq(Window)
          /\ \A n \in 1..Len(t) : \E k \in I : t[n] = s[k]
          /\ \A k \in I : \E n \in 1..Len(t) : t[n] = s[k]
          BY <3>1, <3>3, EntriesKept
    <3>5. Elements(t) \subseteq Elements(s) /\ Elements(s) \ {w} \subseteq Elements(t)
      <4> HIDE DEF t
      <4>1. \A k \in I : k \in 1..Len(s)
            BY <3>3
      <4>2. \A k \in 1..Len(s) : s[k] # w => k \in I
            BY <3>1
      <4> HIDE DEF I
      <4>3. ASSUME NEW n \in 1..Len(t)  PROVE t[n] \in Elements(s)
        <5>1. PICK k \in I : t[n] = s[k]
              BY <3>4
        <5> QED BY <5>1, <4>1 DEF Elements
      <4>4. ASSUME NEW k \in 1..Len(s), s[k] # w  PROVE s[k] \in Elements(t)
            BY <3>4, <4>2, <4>4 DEF Elements
      <4> QED BY <4>3, <4>4 DEF Elements
    <3> HIDE DEF t, I
    <3> QED BY <1>1, <3>1, <3>2, <3>4, <3>5
  <2> QED BY <2>1, <2>2
<1>3. /\ openWindows' \in Seq(Window)
      /\ Elements(openWindows') \subseteq Elements(openWindows)
      /\ Elements(openWindows) \ {w} \subseteq Elements(openWindows')
      /\ Distinct(openWindows) => Distinct(openWindows') /\ w \notin Elements(openWindows')
  <2>1. openWindows' = Windows!RemoveFirst(openWindows, w)
        BY DEF Windows!Forget
  <2>2. CASE w \notin Elements(openWindows)
    <3>1. openWindows' = openWindows
          BY <1>1, <2>1, <2>2, SameElements DEF Windows!RemoveFirst
    <3> QED BY <1>1, <2>2, <3>1
  <2>3. CASE w \in Elements(openWindows)
    <3> DEFINE F == {k \in 1..Len(openWindows) : openWindows[k] = w}
               First(k) == openWindows[k] = w /\ \A j \in 1..(k - 1) : openWindows[j] # w
               n == CHOOSE k \in DOMAIN openWindows : First(k)
    <3>1. DOMAIN openWindows = 1..Len(openWindows) /\ Len(openWindows) \in Nat
          BY <1>1, LenProperties
    <3>2. PICK k \in F : \A j \in F : k <= j
      <4>1. F \in SUBSET Nat /\ \E k \in F : TRUE
            BY <2>3, <3>1 DEF Elements
      <4> HIDE DEF F
      <4> QED BY <4>1, Least
    <3>3. k \in DOMAIN openWindows /\ First(k)
      <4>1. k \in 1..Len(openWindows) /\ openWindows[k] = w
            BY <3>2
      <4>2. ASSUME NEW j \in 1..(k - 1), openWindows[j] = w  PROVE FALSE
        <5>1. j \in F /\ j < k
              BY <4>1, <4>2, <3>1
        <5> QED BY <3>2, <5>1, <4>1
      <4> QED BY <4>1, <4>2, <3>1
    <3> HIDE DEF First
    <3>4. n \in DOMAIN openWindows /\ First(n)
          BY <3>3
    <3> HIDE DEF n
    <3>5. n \in 1..Len(openWindows) /\ openWindows[n] = w
          BY <3>1, <3>4 DEF First
    <3>6. openWindows' = SubSeq(openWindows, 1, n - 1) \o SubSeq(openWindows, n + 1, Len(openWindows))
      <4>1. Windows!RemoveFirst(openWindows, w) =
               IF w \notin Windows!Elements(openWindows) THEN openWindows
               ELSE SubSeq(openWindows, 1, n - 1) \o SubSeq(openWindows, n + 1, Len(openWindows))
            BY DEF Windows!RemoveFirst, n, First
      <4> QED BY <1>1, <2>1, <2>3, <4>1, SameElements
    <3>7. /\ openWindows' \in Seq(Window)
          /\ Elements(openWindows') \subseteq Elements(openWindows)
          /\ Elements(openWindows) \ {openWindows[n]} \subseteq Elements(openWindows')
          /\ Distinct(openWindows) =>
                Distinct(openWindows') /\ Elements(openWindows') = Elements(openWindows) \ {openWindows[n]}
          BY <1>1, <3>5, <3>6, OneErased
    <3> QED BY <3>5, <3>7
  <2> QED BY <2>2, <2>3
<1> QED BY <1>2, <1>3

-----------------------------------------------------------------------------
(* What a step does to the calls that it leaves alone: the first n of them.   *)

\* They are marked as before, and so is one above them.
LEMMA MarkedBelow ==
    ASSUME Windows!TypeOK, Marked, NEW n \in Nat, Remain(n),
           Len(stack') = n \/ Len(stack') = n + 1,
           \A v \in Window : initialized[v] => initialized'[v],
           \A k \in 1..n : stack[k].at # "open" /\ active'[stack[k].w] => active[stack[k].w],
           Len(stack') = n + 1 =>
               LET e == stack'[n + 1]
               IN  /\ e.w \in Window
                   /\ e.at \in {"closed", "children", "exit"} => ~active'[e.w]
                   /\ e.at # "open" => initialized'[e.w]
                   /\ e.at = "open" => \A j \in 1..n : stack[j].w = e.w => stack[j].at = "open"
    PROVE  Marked'
<1> USE DEF Remain
<1>1. Len(stack) \in Nat /\ n \in Nat /\ n <= Len(stack) /\ \A k \in 1..Len(stack) : stack[k].w \in Window
      BY WindowTypes
<1>2. ASSUME NEW k \in 1..Len(stack')
      PROVE  /\ stack'[k].at \in {"closed", "children", "exit"} => ~active'[stack'[k].w]
             /\ stack'[k].at # "open" => initialized'[stack'[k].w]
  <2>1. CASE k \in 1..n
    <3>1. k \in 1..Len(stack) /\ stack'[k] = stack[k]
          BY <1>1, <2>1
    <3> QED BY <1>1, <2>1, <3>1 DEF Marked
  <2>2. CASE k = n + 1 /\ Len(stack') = n + 1
        BY <2>2
  <2> QED BY <1>1, <2>1, <2>2
<1>3. ASSUME NEW j \in 1..Len(stack'), NEW k \in 1..Len(stack'), j < k,
             stack'[k].at = "open", stack'[j].w = stack'[k].w
      PROVE  stack'[j].at = "open"
  <2>1. j \in 1..n /\ j \in 1..Len(stack) /\ stack'[j] = stack[j]
        BY <1>1, <1>3
  <2>2. CASE k \in 1..n
    <3>1. k \in 1..Len(stack) /\ stack'[k] = stack[k]
          BY <1>1, <2>2
    <3> QED BY <1>3, <2>1, <3>1 DEF Marked
  <2>3. CASE k = n + 1 /\ Len(stack') = n + 1
        BY <1>3, <2>1, <2>3
  <2> QED BY <1>1, <2>2, <2>3
<1> QED BY <1>2, <1>3 DEF Marked

\* A call among them still closes the child, unless it was closing it just now.
LEMMA ClosesBelow ==
    ASSUME Windows!TypeOK, NEW n \in Nat, Remain(n),
           NEW k \in 1..n, NEW p \in Window, NEW w \in Window, Closes(k, p, w),
           w \in Elements(children[p]) => w \in Elements(children'[p]),
           \/ k < n \/ k = Len(stack)
           \/ stack[n + 1] # [at |-> "close", w |-> w] \/ stack[n].at # "children"
    PROVE  Closes(k, p, w)'
<1> USE DEF Remain
<1>1. Len(stack) \in Nat /\ n \in Nat /\ n <= Len(stack)
      BY WindowTypes
<1>2. k \in 1..Len(stack') /\ stack'[k] = stack[k] /\ stack[k].w = p
      BY <1>1 DEF Closes
<1>3. CASE stack[k].at \in {"closed", "children"} /\ w \in Elements(children[p])
      BY <1>2, <1>3 DEF Closes
<1>4. CASE /\ stack[k].at = "children" /\ k < Len(stack)
           /\ stack[k + 1] = [at |-> "close", w |-> w]
  <2>1. k < n
    <3>1. CASE k = n
          BY <1>1, <1>4, <3>1
    <3> QED BY <1>1, <3>1
  <2>2. k + 1 \in 1..n /\ k < Len(stack')
        BY <1>1, <2>1
  <2>3. stack'[k + 1] = stack[k + 1]
        BY <2>2
  <2> QED BY <1>2, <1>4, <2>2, <2>3 DEF Closes
<1> QED BY <1>3, <1>4 DEF Closes

\* The calls above the first n do nothing for the child w of p.
Apart(n, p, w) ==
    \/ n = Len(stack)
    \/ /\ n = Len(stack) - 1 /\ ~Closes(n + 1, p, w)
       /\ stack[n + 1] = [at |-> "close", w |-> w] => n = 0 \/ stack[n].at # "children"

\* So a child is cared for as before.
LEMMA CaredFor ==
    ASSUME Windows!TypeOK, Cared, NEW n \in Nat, Remain(n),
           NEW w \in Window \ (refused \cup late), active[w],
           NEW p \in Window, p = Parent[w], p # None,
           w \in Elements(children[p]) => w \in Elements(children'[p]),
           Apart(n, p, w)
    PROVE  \/ active[p] /\ w \in Elements(children[p])
           \/ WillClose(p, w)'
<1>1. CASE active[p] /\ w \in Elements(children[p])
      BY <1>1
<1>2. CASE ~(active[p] /\ w \in Elements(children[p]))
  <2>1. PICK k \in 1..Len(stack) : Closes(k, p, w)
        BY <1>2 DEF Cared, WillClose
  <2>2. Len(stack) \in Nat
        BY WindowTypes
  <2>3. k \in 1..n /\ k \in 1..Len(stack')
        BY <2>1, <2>2 DEF Remain, Apart
  <2>4. \/ k < n \/ k = Len(stack)
        \/ stack[n + 1] # [at |-> "close", w |-> w] \/ stack[n].at # "children"
        BY <2>2, <2>3 DEF Remain, Apart
  <2>5. Closes(k, p, w)'
        BY <2>1, <2>3, <2>4, ClosesBelow
  <2> QED BY <2>3, <2>5 DEF WillClose
<1> QED BY <1>1, <1>2

\* ... and so are all, when no window is opened or closed.
LEMMA CaredOn ==
    ASSUME Windows!TypeOK, Cared, NEW n \in Nat, Remain(n), active' = active,
           refused \subseteq refused', late \subseteq late',
           \A v, p \in Window :
               active[v] /\ v \in Elements(children[p]) => v \in Elements(children'[p]),
           \A v, p \in Window : v \notin refused' /\ active[v] => Apart(n, p, v)
    PROVE  Cared'
<1> SUFFICES ASSUME NEW v \in Window \ (refused' \cup late'), active'[v], Parent[v] # None
             PROVE  \/ active'[Parent[v]] /\ v \in Elements(children'[Parent[v]])
                    \/ WillClose(Parent[v], v)'
    BY DEF Cared
<1>1. PICK p \in Window : p = Parent[v]
      BY Parents
<1>2. v \in Window \ (refused \cup late) /\ active[v] /\ p # None
      BY <1>1
<1>3. v \in Elements(children[p]) => v \in Elements(children'[p])
      BY <1>2
<1>4. Apart(n, p, v)
      BY <1>2
<1>5. (active[p] /\ v \in Elements(children[p])) \/ WillClose(p, v)'
      BY <1>1, <1>2, <1>3, <1>4, CaredFor
<1> QED BY <1>1, <1>3, <1>5

\* The innermost call closes a child if it is at that stage, and the child is left.
LEMMA TopCloses ==
    ASSUME Windows!TypeOK, NEW old, NEW p \in Window, NEW w, NEW v,
           stack[Len(stack)] = [at |-> old, w |-> v], Closes(Len(stack), p, w)
    PROVE  old \in {"closed", "children"} /\ p = v /\ w \in Elements(children[p])
BY WindowTypes DEF Closes

\* A call that is not at that stage does nothing for any child but the one it closes.
LEMMA ApartAtTop ==
    ASSUME Windows!TypeOK, Len(stack) >= 1, NEW old, NEW v,
           stack[Len(stack)] = [at |-> old, w |-> v], NEW p \in Window, NEW w \in Window,
           old = "close" => w # v,
           old \in {"closed", "children"} => w \notin Elements(children[v])
    PROVE  Apart(Len(stack) - 1, p, w)
<1>1. Len(stack) \in Nat /\ (Len(stack) - 1) + 1 = Len(stack)
      BY WindowTypes
<1>2. ~Closes(Len(stack), p, w)
      BY TopCloses
<1>3. stack[Len(stack)] # [at |-> "close", w |-> w]
  <2>1. ASSUME [at |-> old, w |-> v] = [at |-> "close", w |-> w]  PROVE FALSE
    <3>1. [at |-> old, w |-> v].at = "close" /\ [at |-> old, w |-> v].w = w
          BY <2>1
    <3> QED BY <3>1
  <2> QED BY <2>1
<1> QED BY <1>1, <1>2, <1>3 DEF Apart

\* The application still ends if the step opens no window and takes none from the list.
LEMMA EndedBelow ==
    ASSUME Windows!TypeOK, Ended, NEW n \in Nat, Remain(n),
           \A k \in 1..Len(stack) : k > n => stack[k].at # "exit",
           UNCHANGED <<initialized, openWindows, exiting, stays>>
    PROVE  Ended'
<1> USE DEF Remain
<1>1. Len(stack) \in Nat
      BY WindowTypes
<1>2. ASSUME NEW k \in 1..Len(stack), stack[k].at = "exit"
      PROVE  \E j \in 1..Len(stack') : stack'[j].at = "exit"
  <2>1. k \in 1..n /\ k \in 1..Len(stack')
        BY <1>1, <1>2
  <2> QED BY <1>2, <2>1
<1> QED BY <1>2 DEF Ended

-----------------------------------------------------------------------------
(* The invariant holds at first, and every step keeps it.                     *)

\* No window was opened.
LEMMA WindowsInit == Windows!Init => WindowsInv
<1> SUFFICES ASSUME Windows!Init  PROVE WindowsInv
    OBVIOUS
<1> USE DEF Windows!Init
<1>1. Windows!TypeOK
      BY EmptySeq DEF Windows!TypeOK
<1>2. Held /\ Cared /\ Ended
      BY DEF Held, Cared, Ended
<1>3. Marked
      BY DEF Marked
<1> QED BY <1>1, <1>2, <1>3 DEF WindowsInv

\* Listeners of OPEN are called: the window was not opened before.
LEMMA OpenKeeps ==
    ASSUME WindowsInv, NEW w \in Window, Windows!Open(w)  PROVE WindowsInv'
<1> USE DEF Windows!Open
<1>0. Windows!TypeOK /\ Held /\ Marked /\ Cared /\ Ended
      BY DEF WindowsInv
<1>1. /\ stack' \in Seq(Entry) /\ Len(stack) \in Nat /\ Len(stack') = Len(stack) + 1
      /\ stack'[Len(stack) + 1] = [at |-> "open", w |-> w]
      /\ \A k \in 1..Len(stack) : stack'[k] = stack[k]
      /\ Remain(Len(stack))
      BY <1>0, CallEntered, WindowTypes DEF Stage, Remain
<1>2. UNCHANGED <<initialized, active, children, openWindows, exiting, refused, late, stays>>
      BY DEF Windows!history
<1>3. Windows!TypeOK'
  <2>1. gtkWindow' \in [Window -> BOOLEAN]
        BY <1>0, WindowTypes
  <2> QED BY <1>0, <1>1, <1>2, <2>1, WindowTypes DEF Windows!TypeOK, Entry, Stage
<1>4. Held'
      BY <1>0, <1>2 DEF Held
<1>5. Marked'
  <2>1. \A j \in 1..Len(stack) : stack[j].w = w => stack[j].at = "open"
        BY <1>0 DEF Marked
  <2> QED BY <1>0, <1>1, <1>2, <2>1, MarkedBelow
<1>6. Cared'
      BY <1>0, <1>1, <1>2, CaredOn DEF Apart
<1>7. Ended'
      BY <1>0, <1>1, <1>2, EndedBelow
<1> QED BY <1>3, <1>4, <1>5, <1>6, <1>7 DEF WindowsInv

\* open() returns.
LEMMA OpenReturnsKeeps ==
    ASSUME WindowsInv, NEW w \in Window, Windows!OpenReturns(w)  PROVE WindowsInv'
<1> USE DEF Windows!OpenReturns
<1>0. Windows!TypeOK /\ Held /\ Marked /\ Cared /\ Ended
      BY DEF WindowsInv
<1>1. /\ stack' \in Seq(Entry) /\ Len(stack) \in Nat /\ Len(stack') = Len(stack) - 1
      /\ Len(stack) >= 1 /\ stack[Len(stack)] = [at |-> "opened", w |-> w]
      /\ Len(stack) - 1 \in Nat /\ Remain(Len(stack) - 1)
      BY <1>0, CallReturns
<1>2. UNCHANGED <<initialized, active, gtkWindow, children, openWindows, exiting, refused, late, stays>>
      BY DEF Windows!history, Windows!windows
<1>3. Windows!TypeOK'
      BY <1>0, <1>1, <1>2, WindowTypes DEF Windows!TypeOK, Entry, Stage
<1>4. Held'
      BY <1>0, <1>2 DEF Held
<1>5. Marked'
      BY <1>0, <1>1, <1>2, MarkedBelow
<1>6. Cared'
  <2>1. \A v, p \in Window : Apart(Len(stack) - 1, p, v)
        BY <1>0, <1>1, ApartAtTop
  <2> QED BY <1>0, <1>1, <1>2, <2>1, CaredOn
<1>7. Ended'
  <2>1. \A k \in 1..Len(stack) : k > Len(stack) - 1 => stack[k].at # "exit"
        BY <1>1
  <2> QED BY <1>0, <1>1, <1>2, <2>1, EndedBelow
<1> QED BY <1>3, <1>4, <1>5, <1>6, <1>7 DEF WindowsInv

\* Listeners of CLOSE are called: the window is open.
LEMMA CloseKeeps ==
    ASSUME WindowsInv, NEW w \in Window, Windows!Close(w)  PROVE WindowsInv'
<1> USE DEF Windows!Close
<1>0. Windows!TypeOK /\ Held /\ Marked /\ Cared /\ Ended
      BY DEF WindowsInv
<1>1. /\ stack' \in Seq(Entry) /\ Len(stack) \in Nat /\ Len(stack') = Len(stack) + 1
      /\ stack'[Len(stack) + 1] = [at |-> "close", w |-> w]
      /\ Remain(Len(stack))
      BY <1>0, CallEntered, WindowTypes DEF Stage, Remain
<1>2. UNCHANGED <<initialized, active, gtkWindow, children, openWindows, exiting, refused, late, stays>>
      BY DEF Windows!history, Windows!windows
<1>3. Windows!TypeOK'
      BY <1>0, <1>1, <1>2, WindowTypes DEF Windows!TypeOK, Entry, Stage
<1>4. Held'
      BY <1>0, <1>2 DEF Held
<1>5. Marked'
  <2>1. initialized[w]
        BY <1>0 DEF Held
  <2> QED BY <1>0, <1>1, <1>2, <2>1, MarkedBelow
<1>6. Cared'
      BY <1>0, <1>1, <1>2, CaredOn DEF Apart
<1>7. Ended'
      BY <1>0, <1>1, <1>2, EndedBelow
<1> QED BY <1>3, <1>4, <1>5, <1>6, <1>7 DEF WindowsInv

\* A listener has cancelled it: a child has refused.
LEMMA StaysOpenKeeps ==
    ASSUME WindowsInv, NEW w \in Window, Windows!StaysOpen(w)  PROVE WindowsInv'
<1> USE DEF Windows!StaysOpen
<1>0. Windows!TypeOK /\ Held /\ Marked /\ Cared /\ Ended
      BY DEF WindowsInv
<1>1. /\ stack' \in Seq(Entry) /\ Len(stack) \in Nat /\ Len(stack') = Len(stack) - 1
      /\ Len(stack) >= 1 /\ stack[Len(stack)] = [at |-> "close", w |-> w]
      /\ Len(stack) - 1 \in Nat /\ Remain(Len(stack) - 1)
      BY <1>0, CallReturns
<1>2. /\ UNCHANGED <<initialized, active, gtkWindow, children, openWindows, exiting, late, stays>>
      /\ refused \subseteq refused' /\ refused' \subseteq Window
      BY <1>0, WindowTypes DEF Windows!windows
<1>3. Windows!TypeOK'
      BY <1>0, <1>1, <1>2, WindowTypes DEF Windows!TypeOK, Entry, Stage
<1>4. Held'
      BY <1>0, <1>2 DEF Held
<1>5. Marked'
      BY <1>0, <1>1, <1>2, MarkedBelow
<1>6. Cared'
  <2>1. ASSUME NEW v \in Window, NEW p \in Window, v \notin refused'
        PROVE  Apart(Len(stack) - 1, p, v)
    <3>1. CASE v # w
          BY <1>0, <1>1, <3>1, ApartAtTop
    <3>2. CASE v = w
      <4>1. Len(stack) = 1 \/ stack[Len(stack) - 1].at # "children"
            BY <1>1, <2>1, <3>2 DEF Windows!ClosedByParent
      <4>2. ~Closes(Len(stack), p, v)
            BY <1>1 DEF Closes
      <4> QED BY <1>1, <4>1, <4>2 DEF Apart
    <3> QED BY <3>1, <3>2
  <2> QED BY <1>0, <1>1, <1>2, <2>1, CaredOn
<1>7. Ended'
  <2>1. \A k \in 1..Len(stack) : k > Len(stack) - 1 => stack[k].at # "exit"
        BY <1>1
  <2> QED BY <1>0, <1>1, <1>2, <2>1, EndedBelow
<1> QED BY <1>3, <1>4, <1>5, <1>6, <1>7 DEF WindowsInv

\* Host::Exit returns: the application exits, or stays.
LEMMA ExitKeeps ==
    ASSUME WindowsInv, NEW w \in Window, Windows!Exit(w)  PROVE WindowsInv'
<1> USE DEF Windows!Exit
<1>0. Windows!TypeOK /\ Held /\ Marked /\ Cared /\ Ended
      BY DEF WindowsInv
<1>1. /\ stack' \in Seq(Entry) /\ Len(stack) \in Nat /\ Len(stack') = Len(stack) - 1
      /\ Len(stack) >= 1 /\ stack[Len(stack)] = [at |-> "exit", w |-> w]
      /\ Len(stack) - 1 \in Nat /\ Remain(Len(stack) - 1)
      BY <1>0, CallReturns
<1>2. /\ UNCHANGED <<initialized, active, gtkWindow, children, openWindows, refused, late>>
      /\ exiting' \/ stays'
      /\ exiting' \in BOOLEAN /\ stays' \in BOOLEAN
      BY <1>0, WindowTypes DEF Windows!windows
<1>3. Windows!TypeOK'
      BY <1>0, <1>1, <1>2, WindowTypes DEF Windows!TypeOK, Entry, Stage
<1>4. Held'
      BY <1>0, <1>2 DEF Held
<1>5. Marked'
      BY <1>0, <1>1, <1>2, MarkedBelow
<1>6. Cared'
  <2>1. \A v, p \in Window : Apart(Len(stack) - 1, p, v)
        BY <1>0, <1>1, ApartAtTop
  <2> QED BY <1>0, <1>1, <1>2, <2>1, CaredOn
<1>7. Ended'
      BY <1>2 DEF Ended
<1> QED BY <1>3, <1>4, <1>5, <1>6, <1>7 DEF WindowsInv

\* The window joins the list and its parent's children; it is late, or its parent is open.
LEMMA OpenedKeeps ==
    ASSUME WindowsInv, NEW w \in Window, Windows!Opened(w)  PROVE WindowsInv'
<1> USE DEF Windows!Opened
<1>0. Windows!TypeOK /\ Held /\ Marked /\ Cared /\ Ended
      BY DEF WindowsInv
<1>1. /\ stack' \in Seq(Entry) /\ Len(stack) \in Nat /\ Len(stack') = Len(stack)
      /\ Len(stack) >= 1 /\ stack[Len(stack)] = [at |-> "open", w |-> w]
      /\ stack'[Len(stack)] = [at |-> "opened", w |-> w]
      /\ Len(stack) - 1 \in Nat /\ Remain(Len(stack) - 1)
      BY <1>0, CallGoesOn DEF Stage
<1>2. /\ UNCHANGED <<gtkWindow, exiting, refused, stays>>
      /\ initialized' = [initialized EXCEPT ![w] = TRUE]
      /\ active' = [active EXCEPT ![w] = TRUE]
      OBVIOUS
<1>3. /\ openWindows' \in Seq(Window) /\ openWindows' # <<>>
      /\ Elements(openWindows') = Elements(openWindows) \cup {w}
      BY <1>0, WindowTypes, Appended
<1>4. /\ children' \in [Window -> Seq(Window)] /\ late' \subseteq Window /\ late \subseteq late'
      /\ \A p \in Window : Elements(children[p]) \subseteq Elements(children'[p])
      /\ Parent[w] # None /\ w \notin late' => active[Parent[w]] /\ w \in Elements(children'[Parent[w]])
  <2>1. children \in [Window -> Seq(Window)] /\ late \subseteq Window
        BY <1>0, WindowTypes
  <2>2. CASE Parent[w] = None
        BY <2>1, <2>2
  <2>3. CASE Parent[w] # None
    <3>1. PICK p \in Window : p = Parent[w]
          BY <2>3, Parents
    <3>2. children[p] \in Seq(Window)
          BY <2>1
    <3>3. /\ Append(children[p], w) \in Seq(Window)
          /\ Elements(Append(children[p], w)) = Elements(children[p]) \cup {w}
          BY <3>2, Appended
    <3>4. /\ children' = [children EXCEPT ![p] = Append(children[p], w)]
          /\ late' = IF active[p] THEN late ELSE late \cup {w}
          BY <2>3, <3>1
    <3> QED BY <2>1, <3>1, <3>3, <3>4
  <2> QED BY <2>2, <2>3
<1>5. Windows!TypeOK'
  <2>1. initialized' \in [Window -> BOOLEAN] /\ active' \in [Window -> BOOLEAN]
        BY <1>0, <1>2, WindowTypes
  <2> QED BY <1>0, <1>1, <1>2, <1>3, <1>4, <2>1, WindowTypes DEF Windows!TypeOK, Entry, Stage
<1>6. \A v \in Window : /\ active'[v] <=> active[v] \/ v = w
                        /\ initialized'[v] <=> initialized[v] \/ v = w
      BY <1>0, <1>2, WindowTypes
<1>7. Held'
      BY <1>0, <1>3, <1>6 DEF Held
<1>8. Marked'
  <2>1. ASSUME NEW k \in 1..(Len(stack) - 1), stack[k].at # "open", active'[stack[k].w]
        PROVE  active[stack[k].w]
    <3>1. k \in 1..Len(stack) /\ Len(stack) \in 1..Len(stack) /\ k < Len(stack)
          BY <1>1
    <3>2. stack[k].w # w
          BY <1>0, <1>1, <2>1, <3>1 DEF Marked
    <3> QED BY <1>0, <1>6, <2>1, <3>1, <3>2, WindowTypes
  <2> QED BY <1>0, <1>1, <1>6, <2>1, MarkedBelow
<1>9. Cared'
  <2> SUFFICES ASSUME NEW v \in Window \ (refused' \cup late'), active'[v], Parent[v] # None
               PROVE  \/ active'[Parent[v]] /\ v \in Elements(children'[Parent[v]])
                      \/ WillClose(Parent[v], v)'
      BY DEF Cared
  <2>1. PICK p \in Window : p = Parent[v]
        BY Parents
  <2>2. CASE v = w
        BY <1>4, <1>6, <2>1, <2>2
  <2>3. CASE v # w
    <3>1. v \in Window \ (refused \cup late) /\ active[v] /\ p # None
          BY <1>2, <1>4, <1>6, <2>1, <2>3
    <3>2. v \in Elements(children[p]) => v \in Elements(children'[p])
          BY <1>4, <2>1
    <3>3. Apart(Len(stack) - 1, p, v)
          BY <1>0, <1>1, ApartAtTop
    <3>4. (active[p] /\ v \in Elements(children[p])) \/ WillClose(p, v)'
          BY <1>0, <1>1, <2>1, <3>1, <3>2, <3>3, CaredFor
    <3> QED BY <1>6, <2>1, <3>2, <3>4
  <2> QED BY <2>2, <2>3
<1>10. Ended'
       BY <1>3 DEF Ended
<1> QED BY <1>5, <1>7, <1>8, <1>9, <1>10 DEF WindowsInv

\* The window is not active any more; its children are closed next.
LEMMA ClosedKeeps ==
    ASSUME WindowsInv, NEW w \in Window, Windows!Closed(w)  PROVE WindowsInv'
<1> USE DEF Windows!Closed
<1>0. Windows!TypeOK /\ Held /\ Marked /\ Cared /\ Ended
      BY DEF WindowsInv
<1>1. /\ stack' \in Seq(Entry) /\ Len(stack) \in Nat /\ Len(stack') = Len(stack)
      /\ Len(stack) >= 1 /\ stack[Len(stack)] = [at |-> "close", w |-> w]
      /\ stack'[Len(stack)] = [at |-> "closed", w |-> w]
      /\ Len(stack) - 1 \in Nat /\ Remain(Len(stack) - 1)
      BY <1>0, CallGoesOn DEF Stage
<1>2. /\ UNCHANGED <<initialized, children, openWindows, exiting, refused, late, stays>>
      /\ active' = [active EXCEPT ![w] = FALSE] /\ gtkWindow' = [gtkWindow EXCEPT ![w] = FALSE]
      BY DEF Windows!history
<1>3. Windows!TypeOK'
  <2>1. gtkWindow' \in [Window -> BOOLEAN] /\ active' \in [Window -> BOOLEAN]
        BY <1>0, <1>2, WindowTypes
  <2> QED BY <1>0, <1>1, <1>2, <2>1, WindowTypes DEF Windows!TypeOK, Entry, Stage
<1>4. \A v \in Window : active'[v] <=> active[v] /\ v # w
      BY <1>0, <1>2, WindowTypes
<1>5. Held'
      BY <1>0, <1>2, <1>4 DEF Held
<1>6. Marked'
  <2>1. initialized[w]
    <3>1. Len(stack) \in 1..Len(stack) /\ stack[Len(stack)].at = "close"
          BY <1>1
    <3>2. initialized[stack[Len(stack)].w]
          BY <1>0, <3>1 DEF Marked
    <3> QED BY <1>1, <3>2
  <2>2. \A k \in 1..(Len(stack) - 1) : active'[stack[k].w] => active[stack[k].w]
        BY <1>0, <1>1, <1>4, WindowTypes
  <2>3. ~active'[w]
        BY <1>4
  <2> QED BY <1>0, <1>1, <1>2, <2>1, <2>2, <2>3, MarkedBelow
<1>7. Cared'
  <2> SUFFICES ASSUME NEW v \in Window \ (refused' \cup late'), active'[v], Parent[v] # None
               PROVE  \/ active'[Parent[v]] /\ v \in Elements(children'[Parent[v]])
                      \/ WillClose(Parent[v], v)'
      BY DEF Cared
  <2>1. PICK p \in Window : p = Parent[v]
        BY Parents
  <2>2. v \in Window \ (refused \cup late) /\ active[v] /\ p # None /\ v # w
        BY <1>2, <1>4, <2>1
  <2>3. v \in Elements(children[p]) => v \in Elements(children'[p])
        BY <1>2, <2>1
  <2>4. Apart(Len(stack) - 1, p, v)
        BY <1>0, <1>1, <2>2, ApartAtTop
  <2>5. (active[p] /\ v \in Elements(children[p])) \/ WillClose(p, v)'
        BY <1>0, <1>1, <2>1, <2>2, <2>3, <2>4, CaredFor
  <2>6. CASE p # w
        BY <1>4, <2>1, <2>3, <2>5, <2>6
  <2>7. CASE p = w /\ v \in Elements(children[p])
    <3>1. Closes(Len(stack), p, v)'
          BY <1>1, <1>2, <2>7 DEF Closes
    <3> QED BY <1>1, <2>1, <3>1 DEF WillClose
  <2> QED BY <2>1, <2>5, <2>6, <2>7
<1>8. Ended'
  <2>1. \A k \in 1..Len(stack) : k > Len(stack) - 1 => stack[k].at # "exit"
        BY <1>1
  <2> QED BY <1>0, <1>1, <1>2, <2>1, EndedBelow
<1> QED BY <1>3, <1>5, <1>6, <1>7, <1>8 DEF WindowsInv

\* The listeners of CLOSED have returned.
LEMMA CloseChildrenKeeps ==
    ASSUME WindowsInv, NEW w \in Window, Windows!CloseChildren(w)  PROVE WindowsInv'
<1> USE DEF Windows!CloseChildren
<1>0. Windows!TypeOK /\ Held /\ Marked /\ Cared /\ Ended
      BY DEF WindowsInv
<1>1. /\ stack' \in Seq(Entry) /\ Len(stack) \in Nat /\ Len(stack') = Len(stack)
      /\ Len(stack) >= 1 /\ stack[Len(stack)] = [at |-> "closed", w |-> w]
      /\ stack'[Len(stack)] = [at |-> "children", w |-> w]
      /\ Len(stack) - 1 \in Nat /\ Remain(Len(stack) - 1)
      BY <1>0, CallGoesOn DEF Stage
<1>2. UNCHANGED <<initialized, active, gtkWindow, children, openWindows, exiting, refused, late, stays>>
      BY DEF Windows!history, Windows!windows
<1>3. Windows!TypeOK'
      BY <1>0, <1>1, <1>2, WindowTypes DEF Windows!TypeOK, Entry, Stage
<1>4. Held'
      BY <1>0, <1>2 DEF Held
<1>5. Marked'
  <2>1. Len(stack) \in 1..Len(stack)
        BY <1>1
  <2>2. initialized[w] /\ ~active[w]
        BY <1>0, <1>1, <2>1 DEF Marked
  <2> QED BY <1>0, <1>1, <1>2, <2>2, MarkedBelow
<1>6. Cared'
  <2> SUFFICES ASSUME NEW v \in Window \ (refused' \cup late'), active'[v], Parent[v] # None
               PROVE  \/ active'[Parent[v]] /\ v \in Elements(children'[Parent[v]])
                      \/ WillClose(Parent[v], v)'
      BY DEF Cared
  <2>1. PICK p \in Window : p = Parent[v]
        BY Parents
  <2>2. CASE p = w /\ v \in Elements(children[p])
    <3>1. Closes(Len(stack), p, v)'
          BY <1>1, <1>2, <2>2 DEF Closes
    <3> QED BY <1>1, <2>1, <3>1 DEF WillClose
  <2>3. CASE ~(p = w /\ v \in Elements(children[p]))
    <3>1. v \in Window \ (refused \cup late) /\ active[v] /\ p # None
          BY <1>2, <2>1
    <3>2. v \in Elements(children[p]) => v \in Elements(children'[p])
          BY <1>2, <2>1
    <3>3. Apart(Len(stack) - 1, p, v)
      <4>1. ~Closes(Len(stack), p, v)
            BY <1>1, <2>3 DEF Closes
      <4>2. stack[Len(stack)] # [at |-> "close", w |-> v]
            BY <1>1
      <4> QED BY <1>1, <4>1, <4>2 DEF Apart
    <3>4. (active[p] /\ v \in Elements(children[p])) \/ WillClose(p, v)'
          BY <1>0, <1>1, <2>1, <3>1, <3>2, <3>3, CaredFor
    <3> QED BY <1>2, <2>1, <3>2, <3>4
  <2> QED BY <2>2, <2>3
<1>7. Ended'
  <2>1. \A k \in 1..Len(stack) : k > Len(stack) - 1 => stack[k].at # "exit"
        BY <1>1
  <2> QED BY <1>0, <1>1, <1>2, <2>1, EndedBelow
<1> QED BY <1>3, <1>4, <1>5, <1>6, <1>7 DEF WindowsInv

\* The next child is closed, if it is open.
LEMMA CloseChildKeeps ==
    ASSUME WindowsInv, NEW w \in Window, Windows!CloseChild(w)  PROVE WindowsInv'
<1> USE DEF Windows!CloseChild
<1>0. Windows!TypeOK /\ Held /\ Marked /\ Cared /\ Ended
      BY DEF WindowsInv
<1>1. /\ stack \in Seq(Entry) /\ Len(stack) \in Nat /\ Len(stack) >= 1
      /\ stack[Len(stack)] = [at |-> "children", w |-> w]
      BY <1>0, WindowTypes, EmptySeq DEF Windows!At, Windows!Idle, Windows!Top
<1>2. UNCHANGED <<initialized, active, gtkWindow, openWindows, exiting, refused, late, stays>>
      BY DEF Windows!history
<1>3. PICK h \in Window : h = Head(children[w])
      BY <1>0, WindowTypes, HeadTaken
<1>4. /\ children' \in [Window -> Seq(Window)]
      /\ \A p \in Window : Elements(children[p]) \subseteq
            Elements(children'[p]) \cup (IF p = w THEN {h} ELSE {})
  <2>1. children \in [Window -> Seq(Window)] /\ children' = [children EXCEPT ![w] = Tail(children[w])]
        BY <1>0, WindowTypes
  <2>2. Tail(children[w]) \in Seq(Window) /\ Elements(children[w]) = Elements(Tail(children[w])) \cup {h}
        BY <2>1, <1>3, HeadTaken
  <2> QED BY <2>1, <2>2
<1>5. /\ stack' \in Seq(Entry) /\ Remain(Len(stack))
      /\ Len(stack') = Len(stack) + (IF active[h] THEN 1 ELSE 0)
      /\ active[h] => stack'[Len(stack) + 1] = [at |-> "close", w |-> h]
  <2>1. CASE active[h]
        BY <1>0, <1>3, <2>1, CallEntered DEF Stage
  <2>2. CASE ~active[h]
        BY <1>1, <1>3, <2>2 DEF Remain
  <2> QED BY <2>1, <2>2
<1>6. Windows!TypeOK'
      BY <1>0, <1>2, <1>4, <1>5, WindowTypes DEF Windows!TypeOK, Entry, Stage
<1>7. Held'
      BY <1>0, <1>2 DEF Held
<1>8. Marked'
  <2>1. active[h] => initialized[h]
        BY <1>0 DEF Held
  <2>2. CASE active[h]
        BY <1>0, <1>1, <1>2, <1>5, <2>1, <2>2, MarkedBelow
  <2>3. CASE ~active[h]
        BY <1>0, <1>1, <1>2, <1>5, <2>3, MarkedBelow
  <2> QED BY <2>2, <2>3
<1>9. Cared'
  <2> SUFFICES ASSUME NEW v \in Window \ (refused' \cup late'), active'[v], Parent[v] # None
               PROVE  \/ active'[Parent[v]] /\ v \in Elements(children'[Parent[v]])
                      \/ WillClose(Parent[v], v)'
      BY DEF Cared
  <2>1. PICK p \in Window : p = Parent[v]
        BY Parents
  <2>2. CASE p = w /\ v = h
    <3>1. PICK k \in Nat : k = Len(stack)
          BY <1>1
    <3>2. k \in 1..Len(stack') /\ k < Len(stack') /\ stack'[k + 1] = [at |-> "close", w |-> v]
          BY <1>1, <1>2, <1>5, <2>2, <3>1
    <3>3. stack'[k].at = "children" /\ stack'[k].w = p
          BY <1>1, <1>5, <2>2, <3>1 DEF Remain
    <3>4. Closes(k, p, v)'
          BY <3>2, <3>3 DEF Closes
    <3> QED BY <2>1, <3>2, <3>4 DEF WillClose
  <2>3. CASE ~(p = w /\ v = h)
    <3>1. v \in Window \ (refused \cup late) /\ active[v] /\ p # None
          BY <1>2, <2>1
    <3>2. v \in Elements(children[p]) => v \in Elements(children'[p])
          BY <1>4, <2>1, <2>3
    <3>3. Apart(Len(stack), p, v)
          BY DEF Apart
    <3>4. (active[p] /\ v \in Elements(children[p])) \/ WillClose(p, v)'
          BY <1>0, <1>1, <1>5, <2>1, <3>1, <3>2, <3>3, CaredFor
    <3> QED BY <1>2, <2>1, <3>2, <3>4
  <2> QED BY <2>2, <2>3
<1>10. Ended'
       BY <1>0, <1>1, <1>2, <1>5, EndedBelow
<1> QED BY <1>6, <1>7, <1>8, <1>9, <1>10 DEF WindowsInv

\* The window is forgotten; the last one makes the application exit.
LEMMA CloseEndsKeeps ==
    ASSUME WindowsInv, NEW w \in Window, Windows!CloseEnds(w)  PROVE WindowsInv'
<1> USE DEF Windows!CloseEnds
<1>0. Windows!TypeOK /\ Held /\ Marked /\ Cared /\ Ended
      BY DEF WindowsInv
<1>1. /\ stack \in Seq(Entry) /\ Len(stack) \in Nat /\ Len(stack) >= 1
      /\ stack[Len(stack)] = [at |-> "children", w |-> w]
      BY <1>0, WindowTypes, EmptySeq DEF Windows!At, Windows!Idle, Windows!Top
<1>2. UNCHANGED <<initialized, active, gtkWindow, exiting, refused, late, stays>>
      BY DEF Windows!history
<1>3. /\ children' \in [Window -> Seq(Window)]
      /\ \A p \in Window : Elements(children[p]) \ {w} \subseteq Elements(children'[p])
      /\ openWindows' \in Seq(Window)
      /\ Elements(openWindows) \ {w} \subseteq Elements(openWindows')
      BY <1>0, Forgotten
<1>4. ~active[w] /\ initialized[w]
  <2>1. Len(stack) \in 1..Len(stack)
        BY <1>1
  <2> QED BY <1>0, <1>1, <2>1 DEF Marked
<1>5. /\ stack' \in Seq(Entry) /\ Remain(Len(stack) - 1) /\ Len(stack) - 1 \in Nat
      /\ openWindows' = <<>> => /\ Len(stack') = Len(stack)
                                /\ stack'[Len(stack)] = [at |-> "exit", w |-> w]
      /\ openWindows' # <<>> => Len(stack') = Len(stack) - 1
  <2>1. CASE openWindows' = <<>>
        BY <1>0, <2>1, CallGoesOn DEF Stage
  <2>2. CASE openWindows' # <<>>
        BY <1>0, <2>2, CallReturns
  <2> QED BY <2>1, <2>2
<1>6. Windows!TypeOK'
      BY <1>0, <1>2, <1>3, <1>5, WindowTypes DEF Windows!TypeOK, Entry, Stage
<1>7. Held'
      BY <1>0, <1>2, <1>3, <1>4 DEF Held
<1>8. Marked'
  <2>1. CASE openWindows' = <<>>
        BY <1>0, <1>1, <1>2, <1>4, <1>5, <2>1, MarkedBelow
  <2>2. CASE openWindows' # <<>>
        BY <1>0, <1>1, <1>2, <1>5, <2>2, MarkedBelow
  <2> QED BY <2>1, <2>2
<1>9. Cared'
  <2>1. Elements(children[w]) = {}
        BY NoElements
  <2>2. \A v, p \in Window : Apart(Len(stack) - 1, p, v)
        BY <1>0, <1>1, <2>1, ApartAtTop
  <2>3. \A v, p \in Window : active[v] /\ v \in Elements(children[p]) => v \in Elements(children'[p])
        BY <1>3, <1>4
  <2> QED BY <1>0, <1>2, <1>5, <2>2, <2>3, CaredOn
<1>10. Ended'
  <2>1. openWindows' = <<>> =>
           Len(stack) \in 1..Len(stack') /\ stack'[Len(stack)].at = "exit"
        BY <1>1, <1>5
  <2> QED BY <2>1 DEF Ended
<1> QED BY <1>6, <1>7, <1>8, <1>9, <1>10 DEF WindowsInv

\* Every step keeps the invariant.
LEMMA WindowsNext == WindowsInv /\ [Windows!Next]_(Windows!vars) => WindowsInv'
<1> SUFFICES ASSUME WindowsInv, [Windows!Next]_(Windows!vars)  PROVE WindowsInv'
    OBVIOUS
<1>1. ASSUME NEW w \in Window,
             \/ Windows!Open(w) \/ Windows!Opened(w) \/ Windows!OpenReturns(w)
             \/ Windows!Close(w) \/ Windows!StaysOpen(w) \/ Windows!Closed(w)
             \/ Windows!CloseChildren(w) \/ Windows!CloseChild(w)
             \/ Windows!CloseEnds(w) \/ Windows!Exit(w)
      PROVE  WindowsInv'
      BY <1>1, OpenKeeps, OpenedKeeps, OpenReturnsKeeps, CloseKeeps, StaysOpenKeeps,
         ClosedKeeps, CloseChildrenKeeps, CloseChildKeeps, CloseEndsKeeps, ExitKeeps
<1>2. CASE UNCHANGED Windows!vars
  <2>1. UNCHANGED <<initialized, active, gtkWindow, children, openWindows, stack, exiting,
                    refused, late, stays>>
        BY <1>2 DEF Windows!vars, Windows!windows, Windows!history
  <2> QED BY <2>1 DEF WindowsInv, Windows!TypeOK, Held, Marked, Cared, WillClose, Closes, Ended
<1> QED BY <1>1, <1>2 DEF Windows!Next

\* Windows keep the invariant, for any windows and parents, and whatever the listeners do.
THEOREM WindowsAreSound == Windows!Spec => []WindowsInv
BY WindowsInit, WindowsNext, PTL DEF Windows!Spec

(***************************************************************************)
(* When listeners open no windows, a window is opened by the outermost     *)
(* call only, and not twice (OnlyFirst); and the list of open windows      *)
(* holds those that are active, once each, and those that a call under way *)
(* has closed and is about to forget (Listed).                             *)
(***************************************************************************)

OnlyFirst ==
    \A k \in 1..Len(stack) : stack[k].at = "open" =>
        k = 1 /\ ~initialized[stack[k].w] /\ gtkWindow[stack[k].w]
Forgets(k, w) == k \in 1..Len(stack) /\ stack[k].w = w /\ stack[k].at \in {"closed", "children"}
Listed ==
    /\ Distinct(openWindows)
    /\ \A w \in Elements(openWindows) :
          w \in Window /\ initialized[w] /\ (active[w] \/ \E k \in Nat : Forgets(k, w))
    /\ \A w \in Window : active[w] => gtkWindow[w]
CarefulInv == WindowsInv /\ OnlyFirst /\ Listed

\* The calls above the first n forget no window, and will open none.
ForgetNone(n) ==
    \/ n = Len(stack)
    \/ n = Len(stack) - 1 /\ stack[Len(stack)].at \notin {"closed", "children"}
OpenNone(n) ==
    \/ Len(stack') = n
    \/ Len(stack') = n + 1 /\ stack'[n + 1].at # "open"

\* The first n calls still open their windows, if nothing happens to those.
LEMMA OnlyFirstBelow ==
    ASSUME Windows!TypeOK, OnlyFirst, NEW n \in Nat, Remain(n),
           OpenNone(n),
           \A k \in 1..n : stack[k].at = "open" /\ ~initialized[stack[k].w] /\ gtkWindow[stack[k].w] =>
               ~initialized'[stack[k].w] /\ gtkWindow'[stack[k].w]
    PROVE  OnlyFirst'
<1> SUFFICES ASSUME NEW k \in 1..Len(stack'), stack'[k].at = "open"
             PROVE  k = 1 /\ ~initialized'[stack'[k].w] /\ gtkWindow'[stack'[k].w]
    BY DEF OnlyFirst
<1>1. k \in 1..n /\ k \in 1..Len(stack) /\ stack'[k] = stack[k]
      BY WindowTypes DEF Remain, OpenNone
<1> QED BY <1>1 DEF OnlyFirst

\* ... and still forget theirs.
LEMMA ForgetsBelow ==
    ASSUME Windows!TypeOK, NEW n \in Nat, Remain(n), NEW k \in Nat, NEW w, Forgets(k, w), k <= n
    PROVE  Forgets(k, w)'
<1>1. k \in 1..n /\ k \in 1..Len(stack') /\ stack'[k] = stack[k]
      BY WindowTypes DEF Remain, Forgets
<1> QED BY <1>1 DEF Forgets

\* The list stays sound when no window is opened, closed or forgotten, and the
\* calls above the first n forget none.
LEMMA ListedBelow ==
    ASSUME Windows!TypeOK, Listed, NEW n \in Nat, Remain(n),
           ForgetNone(n),
           UNCHANGED <<initialized, active, openWindows>>,
           \A w \in Window : gtkWindow[w] => gtkWindow'[w]
    PROVE  Listed'
<1>1. Len(stack) \in Nat
      BY WindowTypes
<1>2. ASSUME NEW w, NEW k \in Nat, Forgets(k, w)  PROVE Forgets(k, w)'
  <2>1. k <= n
        BY <1>1, <1>2 DEF Forgets, ForgetNone
  <2> QED BY <1>2, <2>1, ForgetsBelow
<1>3. \A w \in Elements(openWindows) :
         w \in Window /\ initialized[w] /\ (active[w] \/ \E k \in Nat : Forgets(k, w)')
      BY <1>2 DEF Listed
<1>4. Distinct(openWindows) /\ \A w \in Window : active[w] => gtkWindow'[w]
      BY DEF Listed
<1> QED BY <1>3, <1>4 DEF Listed

\* There is no window.
LEMMA CarefulInit == Windows!Init => CarefulInv
<1> SUFFICES ASSUME Windows!Init  PROVE CarefulInv
    OBVIOUS
<1>1. WindowsInv
      BY WindowsInit
<1>2. OnlyFirst /\ Listed
      BY NoElements DEF Windows!Init, OnlyFirst, Listed
<1> QED BY <1>1, <1>2 DEF CarefulInv

\* The step keeps the rest of the invariant: a window is opened, ...
LEMMA OpenIsCareful ==
    ASSUME Careful, CarefulInv, NEW w \in Window, Windows!Open(w)  PROVE OnlyFirst' /\ Listed'
<1> USE DEF Windows!Open
<1>0. Windows!TypeOK /\ OnlyFirst /\ Listed /\ stack = <<>>
      BY DEF CarefulInv, WindowsInv, Windows!Idle
<1>1. /\ stack' \in Seq(Entry) /\ Len(stack) = 0 /\ Len(stack') = 1
      /\ stack'[1] = [at |-> "open", w |-> w] /\ Remain(Len(stack))
      BY <1>0, CallEntered, WindowTypes, EmptySeq DEF Stage
<1>2. UNCHANGED <<initialized, active, openWindows>> /\ ~initialized[w]
      BY DEF Windows!history
<1>3. gtkWindow'[w] /\ \A v \in Window : gtkWindow[v] => gtkWindow'[v]
      BY <1>0, WindowTypes
<1>4. OnlyFirst'
      BY <1>1, <1>2, <1>3 DEF OnlyFirst
<1>5. Listed'
  <2>1. ForgetNone(Len(stack))
        BY DEF ForgetNone
  <2>2. Len(stack) \in Nat
        BY <1>1
  <2> QED BY <1>0, <1>1, <1>2, <1>3, <2>1, <2>2, ListedBelow
<1> QED BY <1>4, <1>5

\* ... joins the list, ...
LEMMA OpenedIsCareful ==
    ASSUME Careful, CarefulInv, NEW w \in Window, Windows!Opened(w)  PROVE OnlyFirst' /\ Listed'
<1> USE DEF Windows!Opened
<1>0. Windows!TypeOK /\ OnlyFirst /\ Listed
      BY DEF CarefulInv, WindowsInv
<1>1. /\ stack' \in Seq(Entry) /\ Len(stack) \in Nat /\ Len(stack') = Len(stack)
      /\ Len(stack) >= 1 /\ stack[Len(stack)] = [at |-> "open", w |-> w]
      /\ stack'[Len(stack)] = [at |-> "opened", w |-> w]
      BY <1>0, CallGoesOn DEF Stage
<1>2. Len(stack) = 1 /\ ~initialized[w] /\ gtkWindow[w]
  <2>1. Len(stack) \in 1..Len(stack) /\ stack[Len(stack)].at = "open" /\ stack[Len(stack)].w = w
        BY <1>1
  <2> QED BY <1>0, <2>1 DEF OnlyFirst
<1>3. OnlyFirst'
      BY <1>1, <1>2 DEF OnlyFirst
<1>4. /\ \A v \in Window : /\ active'[v] <=> active[v] \/ v = w
                           /\ initialized'[v] <=> initialized[v] \/ v = w
      /\ gtkWindow' = gtkWindow
      BY <1>0, WindowTypes
<1>5. w \notin Elements(openWindows)
      BY <1>0, <1>2 DEF Listed
<1>6. Distinct(openWindows') /\ Elements(openWindows') = Elements(openWindows) \cup {w}
      BY <1>0, <1>5, WindowTypes, Appended DEF Listed
<1>7. ASSUME NEW v \in Elements(openWindows)  PROVE v \in Window /\ initialized[v] /\ active[v]
      BY <1>0, <1>1, <1>2 DEF Listed, Forgets
<1>8. \A v \in Elements(openWindows') : v \in Window /\ initialized'[v] /\ active'[v]
      BY <1>4, <1>6, <1>7
<1>9. Listed'
      BY <1>0, <1>2, <1>4, <1>6, <1>8 DEF Listed
<1> QED BY <1>3, <1>9

\* ... is no longer active, ...
LEMMA ClosedIsCareful ==
    ASSUME CarefulInv, NEW w \in Window, Windows!Closed(w)  PROVE OnlyFirst' /\ Listed'
<1> USE DEF Windows!Closed
<1>0. Windows!TypeOK /\ Marked /\ OnlyFirst /\ Listed
      BY DEF CarefulInv, WindowsInv
<1>1. /\ Len(stack) \in Nat /\ Len(stack') = Len(stack)
      /\ Len(stack) >= 1 /\ stack[Len(stack)] = [at |-> "close", w |-> w]
      /\ stack'[Len(stack)] = [at |-> "closed", w |-> w]
      /\ Len(stack) - 1 \in Nat /\ Remain(Len(stack) - 1)
      BY <1>0, CallGoesOn DEF Stage
<1>2. initialized[w]
  <2>1. Len(stack) \in 1..Len(stack) /\ stack[Len(stack)].at = "close" /\ stack[Len(stack)].w = w
        BY <1>1
  <2> QED BY <1>0, <2>1 DEF Marked
<1>3. /\ \A v \in Window : /\ active'[v] <=> active[v] /\ v # w
                           /\ gtkWindow'[v] <=> gtkWindow[v] /\ v # w
      /\ initialized' = initialized /\ openWindows' = openWindows
      BY <1>0, WindowTypes
<1>4. OnlyFirst'
  <2>1. \A k \in 1..(Len(stack) - 1) : ~initialized[stack[k].w] /\ gtkWindow[stack[k].w] =>
           ~initialized'[stack[k].w] /\ gtkWindow'[stack[k].w]
        BY <1>0, <1>1, <1>2, <1>3, WindowTypes
  <2>2. OpenNone(Len(stack) - 1)
        BY <1>1 DEF OpenNone
  <2> QED BY <1>0, <1>1, <2>1, <2>2, OnlyFirstBelow
<1>5. \A v \in Window : active'[v] => gtkWindow'[v]
      BY <1>0, <1>3 DEF Listed
<1>6. ASSUME NEW v \in Elements(openWindows)
      PROVE  v \in Window /\ initialized[v] /\ (active'[v] \/ \E k \in Nat : Forgets(k, v)')
  <2>1. PICK n \in Nat : n = Len(stack)
        BY <1>1
  <2>2. CASE v = w
    <3>1. Forgets(n, v)'
          BY <1>1, <2>1, <2>2 DEF Forgets
    <3> QED BY <1>2, <2>1, <2>2, <3>1
  <2>3. CASE v # w
    <3>1. v \in Window /\ initialized[v] /\ (active[v] \/ \E k \in Nat : Forgets(k, v))
          BY <1>0, <1>6 DEF Listed
    <3>2. ASSUME NEW k \in Nat, Forgets(k, v)  PROVE Forgets(k, v)'
      <4>1. k <= Len(stack) - 1
        <5>1. k # Len(stack)
              BY <1>1, <3>2 DEF Forgets
        <5> QED BY <1>1, <3>2, <5>1 DEF Forgets
      <4> QED BY <1>0, <1>1, <3>2, <4>1, ForgetsBelow
    <3> QED BY <1>3, <2>3, <3>1, <3>2
  <2> QED BY <2>2, <2>3
<1>7. Listed'
      BY <1>0, <1>3, <1>5, <1>6 DEF Listed
<1> QED BY <1>4, <1>7

\* ... its children are next, ...
LEMMA CloseChildrenIsCareful ==
    ASSUME CarefulInv, NEW w \in Window, Windows!CloseChildren(w)  PROVE OnlyFirst' /\ Listed'
<1> USE DEF Windows!CloseChildren
<1>0. Windows!TypeOK /\ OnlyFirst /\ Listed
      BY DEF CarefulInv, WindowsInv
<1>1. /\ Len(stack) \in Nat /\ Len(stack') = Len(stack)
      /\ Len(stack) >= 1 /\ stack[Len(stack)] = [at |-> "closed", w |-> w]
      /\ stack'[Len(stack)] = [at |-> "children", w |-> w]
      /\ Len(stack) - 1 \in Nat /\ Remain(Len(stack) - 1)
      BY <1>0, CallGoesOn DEF Stage
<1>2. UNCHANGED <<initialized, active, gtkWindow, openWindows>>
      BY DEF Windows!windows
<1>3. OnlyFirst'
  <2>1. OpenNone(Len(stack) - 1)
        BY <1>1 DEF OpenNone
  <2> QED BY <1>0, <1>1, <1>2, <2>1, OnlyFirstBelow
<1>4. ASSUME NEW v, NEW k \in Nat, Forgets(k, v)  PROVE Forgets(k, v)'
  <2>1. CASE k = Len(stack)
        BY <1>1, <1>4, <2>1 DEF Forgets
  <2>2. CASE k # Len(stack)
    <3>1. k <= Len(stack) - 1
          BY <1>1, <1>4, <2>2 DEF Forgets
    <3> QED BY <1>0, <1>1, <1>4, <3>1, ForgetsBelow
  <2> QED BY <2>1, <2>2
<1>5. \A v \in Elements(openWindows) :
         v \in Window /\ initialized[v] /\ (active[v] \/ \E k \in Nat : Forgets(k, v)')
      BY <1>0, <1>4 DEF Listed
<1>6. Listed'
      BY <1>0, <1>2, <1>5 DEF Listed
<1> QED BY <1>3, <1>6

\* ... and is forgotten.
LEMMA CloseEndsIsCareful ==
    ASSUME CarefulInv, NEW w \in Window, Windows!CloseEnds(w)  PROVE OnlyFirst' /\ Listed'
<1> USE DEF Windows!CloseEnds
<1>0. Windows!TypeOK /\ OnlyFirst /\ Listed
      BY DEF CarefulInv, WindowsInv
<1>1. /\ Len(stack) \in Nat /\ Len(stack) >= 1 /\ Len(stack) - 1 \in Nat
      /\ stack[Len(stack)] = [at |-> "children", w |-> w]
      BY <1>0, WindowTypes, EmptySeq DEF Windows!At, Windows!Idle, Windows!Top
<1>2. UNCHANGED <<initialized, active, gtkWindow>>
      OBVIOUS
<1>3. /\ Elements(openWindows') \subseteq Elements(openWindows)
      /\ Distinct(openWindows') /\ w \notin Elements(openWindows')
      BY <1>0, Forgotten DEF Listed
<1>4. /\ Remain(Len(stack) - 1)
      /\ openWindows' = <<>> => /\ Len(stack') = Len(stack)
                                /\ stack'[Len(stack)] = [at |-> "exit", w |-> w]
      /\ openWindows' # <<>> => Len(stack') = Len(stack) - 1
  <2>1. CASE openWindows' = <<>>
        BY <1>0, <2>1, CallGoesOn DEF Stage
  <2>2. CASE openWindows' # <<>>
        BY <1>0, <2>2, CallReturns
  <2> QED BY <2>1, <2>2
<1>5. OnlyFirst'
  <2>1. OpenNone(Len(stack) - 1)
    <3>1. (Len(stack) - 1) + 1 = Len(stack)
          BY <1>1
    <3>2. CASE openWindows' = <<>>
          BY <1>4, <3>1, <3>2 DEF OpenNone
    <3>3. CASE openWindows' # <<>>
      <4>1. Len(stack') = Len(stack) - 1
            BY <1>4, <3>3
      <4> QED BY <4>1 DEF OpenNone
    <3> QED BY <3>2, <3>3
  <2> QED BY <1>0, <1>1, <1>2, <1>4, <2>1, OnlyFirstBelow
<1>6. ASSUME NEW v \in Elements(openWindows')
      PROVE  v \in Window /\ initialized[v] /\ (active[v] \/ \E k \in Nat : Forgets(k, v)')
  <2>1. v \in Window /\ initialized[v] /\ (active[v] \/ \E k \in Nat : Forgets(k, v))
        BY <1>0, <1>3, <1>6 DEF Listed
  <2>2. ASSUME NEW k \in Nat, Forgets(k, v)  PROVE Forgets(k, v)'
    <3>1. k # Len(stack)
          BY <1>1, <1>3, <1>6, <2>2 DEF Forgets
    <3>2. k <= Len(stack) - 1
          BY <1>1, <2>2, <3>1 DEF Forgets
    <3> QED BY <1>0, <1>1, <1>4, <2>2, <3>2, ForgetsBelow
  <2> QED BY <2>1, <2>2
<1>7. Listed'
      BY <1>0, <1>2, <1>3, <1>6 DEF Listed
<1> QED BY <1>5, <1>7

\* A call returns, or another begins.
LEMMA OthersAreCareful ==
    ASSUME CarefulInv, NEW w \in Window,
           \/ Windows!OpenReturns(w) \/ Windows!Close(w) \/ Windows!StaysOpen(w)
           \/ Windows!CloseChild(w) \/ Windows!Exit(w)
    PROVE  OnlyFirst' /\ Listed'
<1>0. Windows!TypeOK /\ OnlyFirst /\ Listed
      BY DEF CarefulInv, WindowsInv
<1>1. UNCHANGED <<initialized, active, gtkWindow, openWindows>>
      BY DEF Windows!OpenReturns, Windows!Close, Windows!StaysOpen, Windows!CloseChild,
             Windows!Exit, Windows!windows
<1>2. CASE /\ stack' = Windows!Return
           /\ Windows!At("opened", w) \/ Windows!At("close", w) \/ Windows!At("exit", w)
  <2>1. /\ Len(stack) >= 1 /\ Len(stack') = Len(stack) - 1 /\ Len(stack) - 1 \in Nat
        /\ Remain(Len(stack) - 1) /\ stack[Len(stack)].at \notin {"closed", "children"}
    <3>1. PICK old \in {"opened", "close", "exit"} : Windows!At(old, w)
          BY <1>2
    <3>2. /\ Len(stack) >= 1 /\ Len(stack') = Len(stack) - 1 /\ Len(stack) - 1 \in Nat
          /\ Remain(Len(stack) - 1) /\ stack[Len(stack)] = [at |-> old, w |-> w]
          BY <1>0, <1>2, <3>1, CallReturns
    <3> QED BY <3>1, <3>2
  <2>2. OpenNone(Len(stack) - 1)
        BY <2>1 DEF OpenNone
  <2>3. ForgetNone(Len(stack) - 1)
        BY <2>1 DEF ForgetNone
  <2> QED BY <1>0, <1>1, <2>1, <2>2, <2>3, OnlyFirstBelow, ListedBelow
<1>3. CASE \E v \in Window : stack' = Windows!Call("close", v)
  <2>1. PICK v \in Window : stack' = Windows!Call("close", v)
        BY <1>3
  <2>2. /\ Len(stack') = Len(stack) + 1 /\ Len(stack) \in Nat
        /\ stack'[Len(stack) + 1] = [at |-> "close", w |-> v] /\ Remain(Len(stack))
        BY <1>0, <2>1, CallEntered DEF Stage
  <2>3. ForgetNone(Len(stack))
        BY DEF ForgetNone
  <2>4. OpenNone(Len(stack))
    <3>1. stack'[Len(stack) + 1].at # "open"
          BY <2>2
    <3> QED BY <2>2, <3>1 DEF OpenNone
  <2> QED BY <1>0, <1>1, <2>2, <2>3, <2>4, OnlyFirstBelow, ListedBelow
<1>4. CASE stack' = stack
  <2>1. Len(stack) \in Nat /\ Remain(Len(stack)) /\ Len(stack') = Len(stack)
        BY <1>0, <1>4, WindowTypes DEF Remain
  <2>2. ForgetNone(Len(stack))
        BY DEF ForgetNone
  <2>3. OpenNone(Len(stack))
        BY <2>1 DEF OpenNone
  <2> QED BY <1>0, <1>1, <2>1, <2>2, <2>3, OnlyFirstBelow, ListedBelow
<1>5. CASE Windows!OpenReturns(w)
      BY <1>2, <1>5 DEF Windows!OpenReturns
<1>6. CASE Windows!Close(w)
      BY <1>3, <1>6 DEF Windows!Close
<1>7. CASE Windows!StaysOpen(w)
      BY <1>2, <1>7 DEF Windows!StaysOpen
<1>8. CASE Windows!CloseChild(w)
  <2>1. Head(children[w]) \in Window
        BY <1>0, <1>8, WindowTypes, HeadTaken DEF Windows!CloseChild
  <2> QED BY <1>3, <1>4, <1>8, <2>1 DEF Windows!CloseChild
<1>9. CASE Windows!Exit(w)
      BY <1>2, <1>9 DEF Windows!Exit
<1> QED BY <1>5, <1>6, <1>7, <1>8, <1>9

\* Nothing happens.
LEMMA RestIsCareful ==
    ASSUME CarefulInv, UNCHANGED Windows!vars  PROVE OnlyFirst' /\ Listed'
<1>0. Windows!TypeOK /\ OnlyFirst /\ Listed
      BY DEF CarefulInv, WindowsInv
<1>1. UNCHANGED <<initialized, active, gtkWindow, openWindows, stack>>
      BY DEF Windows!vars, Windows!windows
<1>2. OnlyFirst'
      BY <1>0, <1>1 DEF OnlyFirst
<1>3. Len(stack) \in Nat /\ Remain(Len(stack))
      BY <1>0, <1>1, WindowTypes DEF Remain
<1>4. ForgetNone(Len(stack))
      BY DEF ForgetNone
<1>5. \A w \in Window : gtkWindow[w] => gtkWindow'[w]
      BY <1>1
<1>6. Listed'
      BY <1>0, <1>1, <1>3, <1>4, <1>5, ListedBelow
<1> QED BY <1>2, <1>6

\* When listeners open no windows, every step keeps the invariant.
LEMMA CarefulNext ==
    ASSUME Careful, CarefulInv, [Windows!Next]_(Windows!vars)  PROVE CarefulInv'
<1>1. WindowsInv'
      BY WindowsNext DEF CarefulInv
<1>2. ASSUME NEW w \in Window,
             \/ Windows!Open(w) \/ Windows!Opened(w) \/ Windows!OpenReturns(w)
             \/ Windows!Close(w) \/ Windows!StaysOpen(w) \/ Windows!Closed(w)
             \/ Windows!CloseChildren(w) \/ Windows!CloseChild(w)
             \/ Windows!CloseEnds(w) \/ Windows!Exit(w)
      PROVE  OnlyFirst' /\ Listed'
      BY <1>2, OpenIsCareful, OpenedIsCareful, ClosedIsCareful, CloseChildrenIsCareful,
         CloseEndsIsCareful, OthersAreCareful
<1>3. CASE UNCHANGED Windows!vars
      BY <1>1, <1>3, RestIsCareful DEF CarefulInv
<1> QED BY <1>1, <1>2, <1>3 DEF Windows!Next, CarefulInv

\* Between calls nothing is left to do, so the list and the windows agree.
THEOREM WindowsAreListed ==
    ASSUME Careful  PROVE Windows!Spec => []CarefulInv
<1>1. CarefulInv /\ [Windows!Next]_(Windows!vars) => CarefulInv'
      BY CarefulNext
<1> QED BY <1>1, CarefulInit, PTL DEF Windows!Spec

-----------------------------------------------------------------------------
(***************************************************************************)
(* Sizes.  The inductive invariant: what a window is configured to be is   *)
(* within its limits (WithinLimits), and GTK was told these limits (Told). *)
(* For a window that is alone: the last event says what is on the screen   *)
(* (Reported), and unless an event on the way will correct it, so does     *)
(* targetWidth (Followed).                                                 *)
(***************************************************************************)

Size == Sizes!Size
Bounds == [min : Size, max : Size]
Limits(w) == Sizes!SizeLimits(width[w], minWidth[w], maxWidth[w], resizable[w])

Within(size, min, max) ==
    /\ Sizes!Consistent(min, max)
    /\ min # -1 => min <= size
    /\ max # -1 => size <= max
WithinLimits == \A w \in Sized : Within(width[w], minWidth[w], maxWidth[w])
Told == \A w \in Sized : isOpen[w] => hints[w] = Limits(w)
SizesInv == Sizes!TypeOK /\ WithinLimits /\ Told

Reported(w) ==
    isOpen[w] => IF events = <<>> THEN oldWidth = screen[w]
                                  ELSE events[Len(events)][2] = screen[w]
Behind(w) ==
    \/ oldWidth # -1 /\ oldWidth # screen[w]
    \/ \E k \in 1..Len(events) : events[k][2] # screen[w]
Followed(w) == isOpen[w] => Behind(w) \/ targetWidth[w] = screen[w]
AloneInv(w) == SizesInv /\ Reported(w) /\ Followed(w)

\* What the types say of each variable.
LEMMA SizeTypes ==
    ASSUME Sizes!TypeOK
    PROVE  /\ width \in [Sized -> Size] /\ minWidth \in [Sized -> Size \cup {-1}]
           /\ maxWidth \in [Sized -> Size \cup {-1}] /\ resizable \in [Sized -> BOOLEAN]
           /\ isOpen \in [Sized -> BOOLEAN] /\ targetWidth \in [Sized -> Size \cup {-1}]
           /\ hints \in [Sized -> Bounds] /\ screen \in [Sized -> Size \cup {0}]
           /\ events \in Seq(Sized \X Size) /\ oldWidth \in Size \cup {-1}
           /\ Len(events) \in Nat
<1>1. /\ width \in [Sized -> Size] /\ minWidth \in [Sized -> Size \cup {-1}]
      /\ maxWidth \in [Sized -> Size \cup {-1}] /\ resizable \in [Sized -> BOOLEAN]
      /\ isOpen \in [Sized -> BOOLEAN] /\ targetWidth \in [Sized -> Size \cup {-1}]
      /\ hints \in [Sized -> Bounds] /\ screen \in [Sized -> Size \cup {0}]
      /\ events \in Seq(Sized \X Size) /\ oldWidth \in Size \cup {-1}
      BY DEF Sizes!TypeOK, Sizes!Limit, Sizes!Unlimited, Bounds, Size
<1> QED BY <1>1, LenProperties

\* The types again, after a step.
LEMMA SizeTypesKept ==
    ASSUME width' \in [Sized -> Size], minWidth' \in [Sized -> Size \cup {-1}],
           maxWidth' \in [Sized -> Size \cup {-1}], resizable' \in [Sized -> BOOLEAN],
           isOpen' \in [Sized -> BOOLEAN], targetWidth' \in [Sized -> Size \cup {-1}],
           hints' \in [Sized -> Bounds], screen' \in [Sized -> Size \cup {0}],
           events' \in Seq(Sized \X Size), oldWidth' \in Size \cup {-1}
    PROVE  Sizes!TypeOK'
BY DEF Sizes!TypeOK, Sizes!Limit, Sizes!Unlimited, Bounds, Size

\* Sizes are numbers above zero.
LEMMA SizeIsPositive == /\ MaxSize \in Nat \ {0} /\ 1 \in Size /\ MaxSize \in Size
                        /\ \A n \in Size : n \in Nat /\ 1 <= n /\ n <= MaxSize
                        /\ \A n \in Nat : 1 <= n /\ n <= MaxSize => n \in Size
BY SizesAssumption DEF Sizes!SizeAssumption, Size, Sizes!Size

\* What a window is given lies within the limits, and is what it asked for if that does.
LEMMA Given ==
    ASSUME NEW asked \in Size \cup {0}, NEW limits \in Bounds
    PROVE  LET given == Sizes!Constrain(asked, limits.min, limits.max)
           IN  /\ given \in Size
               /\ limits.min <= asked /\ asked <= limits.max => given = asked
               /\ limits.min = limits.max => given = limits.min
<1>1. /\ asked \in Nat /\ limits.min \in Nat /\ limits.max \in Nat /\ MaxSize \in Nat
      /\ limits.min \in Size /\ limits.max \in Size /\ 1 <= limits.min /\ 1 <= limits.max
      /\ limits.min <= MaxSize /\ limits.max <= MaxSize /\ asked <= MaxSize
  <2>1. limits.min \in Size /\ limits.max \in Size
        BY DEF Bounds
  <2>2. asked \in Nat /\ asked <= MaxSize
        BY SizeIsPositive
  <2> HIDE DEF Bounds
  <2> QED BY <2>1, <2>2, SizeIsPositive
<1> DEFINE given == Sizes!Constrain(asked, limits.min, limits.max)
<1>2. given \in Nat /\ 1 <= given /\ given <= MaxSize
      BY <1>1 DEF Sizes!Constrain
<1>3. limits.min <= asked /\ asked <= limits.max => given = asked
      BY <1>1 DEF Sizes!Constrain
<1>4. limits.min = limits.max => given = limits.min
      BY <1>1 DEF Sizes!Constrain
<1> QED BY <1>2, <1>3, <1>4, SizeIsPositive

\* The limits GTK is told are sizes, and a configured size within its limits meets them.
LEMMA LimitsAreSizes ==
    ASSUME NEW size \in Size, NEW min \in Size \cup {-1}, NEW max \in Size \cup {-1},
           NEW resize \in BOOLEAN
    PROVE  LET limits == Sizes!SizeLimits(size, min, max, resize)
           IN  /\ limits \in Bounds
               /\ Within(size, min, max) => limits.min <= size /\ size <= limits.max
<1>1. 1 \in Size /\ MaxSize \in Size /\ size \in Nat /\ 1 <= size /\ size <= MaxSize
      BY SizeIsPositive
<1>2. -1 \notin Size
      BY SizeIsPositive
<1> DEFINE low == IF min = -1 THEN 1 ELSE min
           high == IF max = -1 THEN MaxSize ELSE max
<1>3. low \in Size /\ high \in Size
      BY <1>1
<1>4. Within(size, min, max) => low <= size /\ size <= high
      BY <1>1 DEF Within
<1>5. Sizes!SizeLimits(size, min, max, resize) =
         IF ~resize THEN [min |-> size, max |-> size] ELSE [min |-> low, max |-> high]
      BY DEF Sizes!SizeLimits, Sizes!Unlimited
<1> HIDE DEF low, high
<1> QED BY <1>1, <1>3, <1>4, <1>5 DEF Bounds

\* What GTK does: an event follows if and only if the window changes.
Displays(w, asked, limits) ==
    /\ hints' \in [Sized -> Bounds] /\ hints'[w] = limits
    /\ \A v \in Sized : v # w => hints'[v] = hints[v]
    /\ screen' \in [Sized -> Size \cup {0}] /\ screen'[w] \in Size
    /\ limits.min <= asked /\ asked <= limits.max => screen'[w] = asked
    /\ limits.min = limits.max => screen'[w] = limits.min
    /\ events' \in Seq(Sized \X Size)
    /\ events' = IF screen'[w] = screen[w] THEN events ELSE Append(events, <<w, screen'[w]>>)

\* It does so whatever it is asked for.
LEMMA Shown ==
    ASSUME Sizes!TypeOK, NEW w \in Sized, NEW asked \in Size \cup {0}, NEW limits \in Bounds,
           Sizes!Shows(w, asked, limits)
    PROVE  Displays(w, asked, limits)
<1> DEFINE given == Sizes!Constrain(asked, limits.min, limits.max)
<1>1. /\ given \in Size /\ (limits.min <= asked /\ asked <= limits.max => given = asked)
      /\ limits.min = limits.max => given = limits.min
      BY Given
<1>2. /\ hints' = [hints EXCEPT ![w] = limits] /\ screen' = [screen EXCEPT ![w] = given]
      /\ events' = IF given = screen[w] THEN events ELSE Append(events, <<w, given>>)
      BY DEF Sizes!Shows
<1> HIDE DEF given
<1>3. /\ screen'[w] = given /\ screen' \in [Sized -> Size \cup {0}]
      BY <1>1, <1>2, SizeTypes
<1>4. /\ hints'[w] = limits /\ hints' \in [Sized -> Bounds]
      /\ \A v \in Sized : v # w => hints'[v] = hints[v]
      BY <1>2, SizeTypes
<1>5. Append(events, <<w, given>>) \in Seq(Sized \X Size)
      BY <1>1, SizeTypes, AppendProperties
<1> QED BY <1>1, <1>2, <1>3, <1>4, <1>5, SizeTypes DEF Displays

\* What a call that configures w leaves: a configuration within its limits ...
Configures(w) ==
    /\ width' \in [Sized -> Size] /\ minWidth' \in [Sized -> Size \cup {-1}]
    /\ maxWidth' \in [Sized -> Size \cup {-1}] /\ resizable' \in [Sized -> BOOLEAN]
    /\ Within(width'[w], minWidth'[w], maxWidth'[w])
    /\ \A v \in Sized : v # w =>
          /\ width'[v] = width[v] /\ minWidth'[v] = minWidth[v]
          /\ maxWidth'[v] = maxWidth[v] /\ resizable'[v] = resizable[v]

\* ... and a window that GTK has been told of: it shows what it is taken to show,
\* or is taken to show what it was.
Redraws(w) ==
    /\ hints' \in [Sized -> Bounds] /\ hints'[w] = Limits(w)'
    /\ screen' \in [Sized -> Size \cup {0}] /\ targetWidth' \in [Sized -> Size \cup {-1}]
    /\ \A v \in Sized : v # w => hints'[v] = hints[v]
    /\ events' \in Seq(Sized \X Size)
    /\ events' = IF screen'[w] = screen[w] THEN events ELSE Append(events, <<w, screen'[w]>>)
    /\ targetWidth'[w] \in {targetWidth[w], screen'[w]}
PassesOn(w) ==
    /\ UNCHANGED <<isOpen, oldWidth>>
    /\ isOpen[w] => Redraws(w)
    /\ ~isOpen[w] => UNCHANGED <<targetWidth, hints, screen, events>>

\* After another event the chain still tells whether one will correct targetWidth.
LEMMA MoreEvents ==
    ASSUME Sizes!TypeOK, NEW w \in Sized, NEW size \in Size, events' = Append(events, <<w, size>>),
           oldWidth' = oldWidth, screen'[w] = size, Reported(w), isOpen[w]
    PROVE  /\ events' # <<>> /\ events'[Len(events')][2] = size
           /\ size = screen[w] /\ Behind(w) => Behind(w)'
           /\ size # screen[w] => Behind(w)'
<1> DEFINE e == <<w, size>>
           t == Append(events, e)
<1>1. /\ e \in Sized \X Size /\ e[2] = size
      /\ events \in Seq(Sized \X Size) /\ Len(events) \in Nat
      /\ screen[w] \in Size \cup {0} /\ -1 \notin Size
      BY SizeTypes, SizeIsPositive
<1>2. /\ t \in Seq(Sized \X Size) /\ Len(t) = Len(events) + 1 /\ t # <<>> /\ t[Len(events) + 1] = e
      /\ \A k \in 1..Len(events) : t[k] = events[k]
  <2> HIDE DEF e
  <2> QED BY <1>1, Appended
<1>3. events' = t
      OBVIOUS
<1> HIDE DEF t, e
<1>4. events' # <<>> /\ events'[Len(events')][2] = size
      BY <1>1, <1>2, <1>3
<1>5. \A k \in 1..Len(events) : k \in 1..Len(t)
      BY <1>1, <1>2
<1>6. ASSUME size = screen[w], Behind(w)  PROVE Behind(w)'
  <2>1. CASE oldWidth # -1 /\ oldWidth # screen[w]
        BY <1>6, <2>1 DEF Behind
  <2>2. CASE \E k \in 1..Len(events) : events[k][2] # screen[w]
        BY <1>2, <1>3, <1>5, <1>6, <2>2 DEF Behind
  <2> QED BY <1>6, <2>1, <2>2 DEF Behind
<1>7. ASSUME size # screen[w]  PROVE Behind(w)'
  <2>1. CASE events = <<>>
    <3>1. oldWidth = screen[w] /\ oldWidth # -1
          BY <1>1, <2>1 DEF Reported
    <3> QED BY <1>7, <3>1 DEF Behind
  <2>2. CASE events # <<>>
    <3>1. Len(events) \in 1..Len(events)
          BY <1>1, <2>2, EmptySeq
    <3>2. events[Len(events)][2] = screen[w]
          BY <2>2 DEF Reported
    <3>3. t[Len(events)][2] # size /\ Len(events) \in 1..Len(t)
          BY <1>2, <1>5, <1>7, <3>1, <3>2
    <3> QED BY <1>3, <3>3 DEF Behind
  <2> QED BY <2>1, <2>2
<1> QED BY <1>4, <1>6, <1>7

\* A call that configures a window keeps the invariant of all windows ...
LEMMA SetKeeps ==
    ASSUME SizesInv, NEW w \in Sized, Configures(w), PassesOn(w)
    PROVE  SizesInv'
<1>1. Sizes!TypeOK'
  <2>1. CASE isOpen[w]
        BY <2>1, SizeTypes, SizeTypesKept DEF SizesInv, Configures, PassesOn, Redraws
  <2>2. CASE ~isOpen[w]
        BY <2>2, SizeTypes, SizeTypesKept DEF SizesInv, Configures, PassesOn
  <2> QED BY <2>1, <2>2
<1>2. WithinLimits'
  <2>1. ASSUME NEW v \in Sized  PROVE Within(width'[v], minWidth'[v], maxWidth'[v])
        BY DEF SizesInv, WithinLimits, Configures
  <2> QED BY <2>1 DEF WithinLimits
<1>3. Told'
  <2>1. ASSUME NEW v \in Sized, isOpen[v], v # w  PROVE hints'[v] = Limits(v)'
    <3>1. hints'[v] = hints[v]
          BY <2>1 DEF PassesOn, Redraws
    <3>2. Limits(v)' = Limits(v)
          BY <2>1 DEF Configures, Limits
    <3> QED BY <2>1, <3>1, <3>2 DEF SizesInv, Told
  <2>2. isOpen[w] => hints'[w] = Limits(w)'
        BY DEF PassesOn, Redraws
  <2> QED BY <2>1, <2>2 DEF Told, PassesOn
<1> QED BY <1>1, <1>2, <1>3 DEF SizesInv

\* ... and of one that is alone.
LEMMA SetKeepsAlone ==
    ASSUME NEW w \in Sized, AloneInv(w), Configures(w), PassesOn(w)
    PROVE  AloneInv(w)'
<1>1. SizesInv' /\ Sizes!TypeOK
      BY SetKeeps DEF AloneInv, SizesInv
<1>2. CASE ~isOpen[w]
      BY <1>1, <1>2 DEF AloneInv, PassesOn, Reported, Followed
<1>3. CASE isOpen[w]
  <2>1. Redraws(w) /\ oldWidth' = oldWidth /\ isOpen' = isOpen /\ Reported(w) /\ Followed(w)
        BY <1>3 DEF AloneInv, PassesOn
  <2>2. CASE screen'[w] = screen[w]
    <3>1. events' = events
          BY <2>1, <2>2 DEF Redraws
    <3>2. Reported(w)' /\ (Behind(w)' <=> Behind(w))
          BY <2>1, <2>2, <3>1 DEF Reported, Behind
    <3>3. targetWidth'[w] \in {targetWidth[w], screen[w]}
          BY <2>1, <2>2 DEF Redraws
    <3> QED BY <1>1, <2>1, <2>2, <3>2, <3>3 DEF AloneInv, Followed
  <2>3. CASE screen'[w] # screen[w]
    <3>1. /\ events' = Append(events, <<w, screen'[w]>>) /\ events' \in Seq(Sized \X Size)
          /\ screen' \in [Sized -> Size \cup {0}]
          BY <2>1, <2>3 DEF Redraws
    <3>2. screen'[w] \in Size
      <4> DEFINE e == <<w, screen'[w]>>
      <4>1. Len(events) \in Nat
            BY <1>1, SizeTypes
      <4>2. events'[Len(events')] \in Sized \X Size /\ events'[Len(events')] = e
            BY <3>1, <4>1, <1>1, SizeTypes, ElementOfSeq
      <4> QED BY <4>2
    <3> QED BY <1>1, <1>3, <2>1, <2>3, <3>1, <3>2, MoreEvents DEF AloneInv, Reported, Followed
  <2> QED BY <2>2, <2>3
<1> QED BY <1>2, <1>3

\* GTK is told the limits configured now.
LEMMA Drawn ==
    ASSUME SizesInv, NEW w \in Sized, Configures(w), NEW asked \in Size \cup {0},
           Sizes!Shows(w, asked, Limits(w)')
    PROVE  /\ targetWidth' = targetWidth => Redraws(w)
           /\ asked = (IF resizable'[w] THEN width'[w] ELSE screen[w])
              => screen'[w] = width'[w]
           /\ /\ asked = IF resizable'[w] THEN width'[w] ELSE screen[w]
              /\ targetWidth' = [targetWidth EXCEPT ![w] = width'[w]]
              => Redraws(w)
<1>0. PICK limits : limits = Limits(w)'
      OBVIOUS
<1>1. /\ width'[w] \in Size /\ minWidth'[w] \in Size \cup {-1} /\ maxWidth'[w] \in Size \cup {-1}
      /\ resizable'[w] \in BOOLEAN /\ Within(width'[w], minWidth'[w], maxWidth'[w])
      BY DEF Configures
<1>2. limits = Sizes!SizeLimits(width'[w], minWidth'[w], maxWidth'[w], resizable'[w])
      BY <1>0 DEF Limits
<1>3. limits \in Bounds /\ limits.min <= width'[w] /\ width'[w] <= limits.max
      BY <1>1, <1>2, LimitsAreSizes
<1>4. ~resizable'[w] => limits.min = width'[w] /\ limits.max = width'[w]
      BY <1>2 DEF Sizes!SizeLimits
<1>5. Sizes!TypeOK /\ targetWidth \in [Sized -> Size \cup {-1}]
      BY SizeTypes DEF SizesInv
<1>6. Sizes!Shows(w, asked, limits)
      BY <1>0
<1>7. /\ hints' \in [Sized -> Bounds] /\ hints'[w] = limits
      /\ \A v \in Sized : v # w => hints'[v] = hints[v]
      /\ screen' \in [Sized -> Size \cup {0}] /\ screen'[w] \in Size
      /\ limits.min <= asked /\ asked <= limits.max => screen'[w] = asked
      /\ limits.min = limits.max => screen'[w] = limits.min
      /\ events' \in Seq(Sized \X Size)
      /\ events' = IF screen'[w] = screen[w] THEN events ELSE Append(events, <<w, screen'[w]>>)
  <2>1. limits \in Bounds /\ Sizes!TypeOK
        BY <1>3, <1>5
  <2>2. Displays(w, asked, limits)
        BY <1>6, <2>1, Shown
  <2> QED BY <2>2 DEF Displays
<1>8. ASSUME asked = IF resizable'[w] THEN width'[w] ELSE screen[w]
      PROVE  screen'[w] = width'[w]
  <2>1. CASE resizable'[w]
        BY <1>3, <1>7, <1>8, <2>1
  <2>2. CASE ~resizable'[w]
        BY <1>4, <1>7, <2>2
  <2> QED BY <2>1, <2>2
<1>9. ASSUME targetWidth' \in [Sized -> Size \cup {-1}], targetWidth'[w] \in {targetWidth[w], screen'[w]}
      PROVE  Redraws(w)
      BY <1>0, <1>7, <1>9 DEF Redraws
<1>10. ASSUME asked = IF resizable'[w] THEN width'[w] ELSE screen[w],
              targetWidth' = [targetWidth EXCEPT ![w] = width'[w]]
       PROVE  Redraws(w)
  <2>1. screen'[w] = width'[w]
        BY <1>8, <1>10
  <2> QED BY <1>1, <1>5, <1>9, <1>10, <2>1
<1> QED BY <1>5, <1>8, <1>9, <1>10

\* The screen of a window, as GTK is asked to keep it.
LEMMA ScreenTyped ==
    ASSUME SizesInv, NEW w \in Sized
    PROVE  /\ screen[w] \in Size \cup {0} /\ width[w] \in Size /\ minWidth[w] \in Size \cup {-1}
           /\ maxWidth[w] \in Size \cup {-1} /\ resizable[w] \in BOOLEAN /\ hints[w] \in Bounds
           /\ Within(width[w], minWidth[w], maxWidth[w]) /\ (isOpen[w] => hints[w] = Limits(w))
           /\ Sizes!Unlimited = -1 /\ -1 \notin Size
BY SizeTypes, SizeIsPositive DEF SizesInv, WithinLimits, Told, Sizes!Unlimited

\* setWidth()
LEMMA SetWidthPasses ==
    ASSUME SizesInv, NEW w \in Sized, NEW size \in Size, Sizes!SetWidth(w, size)
    PROVE  Configures(w) /\ PassesOn(w)
<1> DEFINE new == Sizes!Constrain(size, minWidth[w], maxWidth[w])
<1>1. /\ width' = [width EXCEPT ![w] = new]
      /\ UNCHANGED <<minWidth, maxWidth, resizable, isOpen, oldWidth>>
      /\ Sizes!IfOpen(w, Sizes!SetupSize(w))
      BY DEF Sizes!SetWidth
<1>2. new \in Size /\ Within(new, minWidth[w], maxWidth[w])
  <2>1. /\ size \in Nat /\ 1 <= size /\ size <= MaxSize /\ MaxSize \in Nat
        /\ minWidth[w] = -1 \/ (minWidth[w] \in Nat /\ 1 <= minWidth[w] /\ minWidth[w] <= MaxSize)
        /\ maxWidth[w] = -1 \/ (maxWidth[w] \in Nat /\ 1 <= maxWidth[w] /\ maxWidth[w] <= MaxSize)
        /\ maxWidth[w] = -1 \/ minWidth[w] <= maxWidth[w]
        BY ScreenTyped, SizeIsPositive DEF Within, Sizes!Consistent
  <2>2. new \in Nat /\ 1 <= new /\ new <= MaxSize
        BY <2>1 DEF Sizes!Constrain
  <2>3. minWidth[w] # -1 => minWidth[w] <= new
        BY <2>1 DEF Sizes!Constrain
  <2>4. maxWidth[w] # -1 => new <= maxWidth[w]
        BY <2>1 DEF Sizes!Constrain
  <2>5. Sizes!Consistent(minWidth[w], maxWidth[w])
        BY ScreenTyped DEF Within
  <2> QED BY <2>2, <2>3, <2>4, <2>5, SizeIsPositive DEF Within
<1> HIDE DEF new
<1>3. Configures(w) /\ width'[w] = new
      BY <1>1, <1>2, SizeTypes DEF Configures, SizesInv
<1>4. ASSUME isOpen[w]  PROVE Redraws(w)
  <2> DEFINE asked == IF resizable'[w] THEN width'[w] ELSE screen[w]
             limits == IF resizable'[w] THEN hints[w]
                       ELSE Sizes!SizeLimits(width'[w], minWidth'[w], maxWidth'[w], FALSE)
  <2>1. /\ targetWidth' = [targetWidth EXCEPT ![w] = width'[w]] /\ Sizes!Shows(w, asked, limits)
        BY <1>1, <1>4 DEF Sizes!IfOpen, Sizes!SetupSize
  <2>2. asked \in Size \cup {0}
        BY <1>2, <1>3, ScreenTyped
  <2>3. limits = Limits(w)'
    <3>1. CASE resizable[w]
          BY <1>1, <1>4, <3>1, ScreenTyped DEF Limits, Sizes!SizeLimits
    <3>2. CASE ~resizable[w]
          BY <1>1, <3>2, ScreenTyped DEF Limits
    <3> QED BY <3>1, <3>2
  <2>4. asked = IF resizable'[w] THEN width'[w] ELSE screen[w]
        OBVIOUS
  <2> HIDE DEF asked, limits
  <2> QED BY <1>3, <2>1, <2>2, <2>3, <2>4, Drawn
<1>5. ~isOpen[w] => UNCHANGED <<targetWidth, hints, screen, events>>
      BY <1>1 DEF Sizes!IfOpen
<1> QED BY <1>1, <1>3, <1>4, <1>5 DEF PassesOn

\* After a limit has changed.
LEMMA LimitPasses ==
    ASSUME SizesInv, NEW w \in Sized, NEW beyond \in BOOLEAN, Configures(w), Sizes!LimitChanged(w, beyond),
           UNCHANGED <<isOpen, oldWidth, resizable>>
    PROVE  PassesOn(w)
<1>1. width'[w] \in Size
      BY DEF Configures
<1>2. ASSUME isOpen[w], beyond  PROVE Redraws(w)
  <2> DEFINE asked == IF resizable'[w] THEN width'[w] ELSE screen[w]
  <2>1. /\ targetWidth' = [targetWidth EXCEPT ![w] = width'[w]]
        /\ Sizes!Shows(w, asked, Limits(w)')
        BY <1>2 DEF Sizes!LimitChanged, Sizes!IfOpen, Limits
  <2>2. asked \in Size \cup {0} /\ asked = IF resizable'[w] THEN width'[w] ELSE screen[w]
        BY <1>1, ScreenTyped
  <2> HIDE DEF asked
  <2> QED BY <2>1, <2>2, Drawn
<1>3. ASSUME isOpen[w], ~beyond  PROVE Redraws(w)
  <2>1. Sizes!Shows(w, screen[w], Limits(w)') /\ targetWidth' = targetWidth
        BY <1>3 DEF Sizes!LimitChanged, Sizes!IfOpen, Sizes!SetupSizeLimits, Limits
  <2> QED BY <2>1, Drawn, ScreenTyped
<1>4. ~isOpen[w] => UNCHANGED <<targetWidth, hints, screen, events>>
      BY DEF Sizes!LimitChanged, Sizes!IfOpen
<1> QED BY <1>2, <1>3, <1>4 DEF PassesOn

\* setMinWidth()
LEMMA SetMinWidthPasses ==
    ASSUME SizesInv, NEW w \in Sized, NEW min \in Size \cup {-1}, Sizes!SetMinWidth(w, min)
    PROVE  Configures(w) /\ PassesOn(w)
<1> DEFINE new == IF width[w] < min THEN min ELSE width[w]
<1>1. /\ minWidth' = [minWidth EXCEPT ![w] = min] /\ width' = [width EXCEPT ![w] = new]
      /\ UNCHANGED <<maxWidth, resizable, isOpen, oldWidth>>
      /\ Sizes!Consistent(min, maxWidth[w]) /\ Sizes!LimitChanged(w, targetWidth[w] < min)
      BY DEF Sizes!SetMinWidth
<1>2. new \in Size /\ Within(new, min, maxWidth[w])
  <2>1. /\ width[w] \in Nat /\ 1 <= width[w] /\ width[w] \in Size
        /\ min = -1 \/ (min \in Nat /\ min \in Size)
        /\ maxWidth[w] = -1 \/ (maxWidth[w] \in Nat /\ width[w] <= maxWidth[w] /\ min <= maxWidth[w])
        BY <1>1, ScreenTyped, SizeIsPositive DEF Within, Sizes!Consistent
  <2>2. new \in Size
        BY <2>1
  <2>3. (min # -1 => min <= new) /\ (maxWidth[w] # -1 => new <= maxWidth[w])
        BY <2>1
  <2> QED BY <1>1, <2>2, <2>3 DEF Within
<1> HIDE DEF new
<1>3. Configures(w)
      BY <1>1, <1>2, SizeTypes DEF Configures, SizesInv
<1>4. (targetWidth[w] < min) \in BOOLEAN
      BY <1>1
<1> QED BY <1>1, <1>3, <1>4, LimitPasses

\* setMaxWidth()
LEMMA SetMaxWidthPasses ==
    ASSUME SizesInv, NEW w \in Sized, NEW max \in Size \cup {-1}, Sizes!SetMaxWidth(w, max)
    PROVE  Configures(w) /\ PassesOn(w)
<1> DEFINE new == IF max # -1 /\ width[w] > max THEN max ELSE width[w]
<1>1. /\ maxWidth' = [maxWidth EXCEPT ![w] = max] /\ width' = [width EXCEPT ![w] = new]
      /\ UNCHANGED <<minWidth, resizable, isOpen, oldWidth>>
      /\ Sizes!Consistent(minWidth[w], max)
      /\ Sizes!LimitChanged(w, max # -1 /\ targetWidth[w] > max)
      BY ScreenTyped DEF Sizes!SetMaxWidth
<1>2. new \in Size /\ Within(new, minWidth[w], max)
  <2>1. /\ width[w] \in Nat /\ 1 <= width[w] /\ width[w] \in Size
        /\ max = -1 \/ (max \in Nat /\ max \in Size /\ minWidth[w] <= max)
        /\ minWidth[w] = -1 \/ (minWidth[w] \in Nat /\ minWidth[w] <= width[w])
        BY <1>1, ScreenTyped, SizeIsPositive DEF Within, Sizes!Consistent
  <2>2. new \in Size
        BY <2>1
  <2>3. (minWidth[w] # -1 => minWidth[w] <= new) /\ (max # -1 => new <= max)
        BY <2>1
  <2> QED BY <1>1, <2>2, <2>3 DEF Within
<1> HIDE DEF new
<1>3. Configures(w)
      BY <1>1, <1>2, SizeTypes DEF Configures, SizesInv
<1> QED BY <1>1, <1>3, LimitPasses

\* setResizable()
LEMMA SetResizablePasses ==
    ASSUME SizesInv, NEW w \in Sized, Sizes!SetResizable(w)
    PROVE  Configures(w) /\ PassesOn(w)
<1>1. /\ resizable' = [resizable EXCEPT ![w] = ~resizable[w]]
      /\ UNCHANGED <<width, minWidth, maxWidth, isOpen, oldWidth>>
      /\ Sizes!IfOpen(w, Sizes!SetupSizeLimits(w) /\ UNCHANGED targetWidth)
      BY DEF Sizes!SetResizable
<1>2. Configures(w)
      BY <1>1, SizeTypes, ScreenTyped DEF Configures, SizesInv
<1>3. ASSUME isOpen[w]  PROVE Redraws(w)
  <2>1. Sizes!Shows(w, screen[w], Limits(w)') /\ targetWidth' = targetWidth
        BY <1>1, <1>3 DEF Sizes!IfOpen, Sizes!SetupSizeLimits, Limits
  <2> QED BY <1>2, <2>1, Drawn, ScreenTyped
<1>4. ~isOpen[w] => UNCHANGED <<targetWidth, hints, screen, events>>
      BY <1>1 DEF Sizes!IfOpen
<1> QED BY <1>1, <1>2, <1>3, <1>4 DEF PassesOn

\* A window is opened: it is given the size it is configured to have.
LEMMA SizeOpenKeeps ==
    ASSUME SizesInv, NEW w \in Sized, Sizes!Open(w)
    PROVE  SizesInv' /\ Reported(w)' /\ Followed(w)'
<1>1. PICK limits : limits = Limits(w)
      OBVIOUS
<1>2. /\ ~isOpen[w] /\ screen[w] = 0 /\ isOpen' = [isOpen EXCEPT ![w] = TRUE]
      /\ targetWidth' = [targetWidth EXCEPT ![w] = width[w]]
      /\ Sizes!Shows(w, width[w], limits)
      /\ UNCHANGED <<width, minWidth, maxWidth, resizable, oldWidth>>
      BY <1>1 DEF Sizes!Open, Sizes!config, Limits
<1>3. limits \in Bounds /\ limits.min <= width[w] /\ width[w] <= limits.max
      BY <1>1, ScreenTyped, LimitsAreSizes DEF Limits
<1>4. Displays(w, width[w], limits)
  <2>1. width[w] \in Size \cup {0} /\ Sizes!TypeOK
        BY ScreenTyped DEF SizesInv
  <2> QED BY <1>2, <1>3, <2>1, Shown
<1>5. /\ screen'[w] = width[w] /\ screen'[w] \in Size /\ screen'[w] # screen[w]
      /\ events' = Append(events, <<w, width[w]>>)
  <2>1. screen'[w] = width[w] /\ screen'[w] \in Size
        BY <1>3, <1>4 DEF Displays
  <2>2. screen'[w] # screen[w]
        BY <1>2, <2>1, SizeIsPositive
  <2> QED BY <1>4, <2>1, <2>2 DEF Displays
<1>6. Sizes!TypeOK'
      BY <1>2, <1>4, SizeTypes, SizeTypesKept, ScreenTyped DEF Displays, SizesInv
<1>7. WithinLimits'
      BY <1>2 DEF SizesInv, WithinLimits
<1>8. Told'
  <2>1. ASSUME NEW v \in Sized, isOpen'[v]  PROVE hints'[v] = Limits(v)'
    <3>1. Limits(v)' = Limits(v)
          BY <1>2 DEF Limits
    <3>2. CASE v = w
          BY <1>1, <1>4, <3>1, <3>2 DEF Displays
    <3>3. CASE v # w
          BY <1>2, <1>4, <2>1, <3>1, <3>3, SizeTypes DEF Displays, SizesInv, Told
    <3> QED BY <3>2, <3>3
  <2> QED BY <2>1 DEF Told
<1>9. Reported(w)' /\ Followed(w)'
  <2>1. <<w, width[w]>> \in Sized \X Size /\ events \in Seq(Sized \X Size)
        BY ScreenTyped, SizeTypes DEF SizesInv
  <2>2. events' # <<>> /\ events'[Len(events')] = <<w, width[w]>>
    <3> DEFINE e == <<w, width[w]>>
    <3>1. events' = Append(events, e) /\ e \in Sized \X Size
          BY <1>5, <2>1
    <3> HIDE DEF e
    <3>2. events' # <<>> /\ events'[Len(events')] = e
      <4> DEFINE t == Append(events, e)
      <4>1. t # <<>> /\ Len(t) = Len(events) + 1 /\ t[Len(events) + 1] = e
        <5>1. e \in Sized \X Size /\ events \in Seq(Sized \X Size)
              BY <2>1, <3>1
        <5> QED BY <5>1, Appended
      <4> HIDE DEF t
      <4> QED BY <3>1, <4>1 DEF t
    <3> QED BY <3>2 DEF e
  <2>3. targetWidth'[w] = screen'[w]
        BY <1>2, <1>5, SizeTypes DEF SizesInv
  <2> QED BY <1>5, <2>2, <2>3 DEF Reported, Followed
<1> QED BY <1>6, <1>7, <1>8, <1>9 DEF SizesInv

\* A window is closed: nothing more is promised of it.
LEMMA SizeCloseKeeps ==
    ASSUME SizesInv, NEW w \in Sized, Sizes!Close(w)
    PROVE  SizesInv' /\ Reported(w)' /\ Followed(w)'
<1> DEFINE I == {k \in DOMAIN events : events[k][1] # w}
<1>1. /\ isOpen' = [isOpen EXCEPT ![w] = FALSE] /\ events' = Entries(events, I)
      /\ UNCHANGED <<width, minWidth, maxWidth, resizable, targetWidth, hints, screen, oldWidth>>
      BY SameEntries DEF Sizes!Close, Sizes!config
<1>2. Sizes!TypeOK /\ events \in Seq(Sized \X Size)
      BY SizeTypes DEF SizesInv
<1>3. I \in SUBSET (1..Len(events))
      BY <1>2, LenProperties
<1> HIDE DEF I
<1>4. events' \in Seq(Sized \X Size)
      BY <1>1, <1>2, <1>3, EntriesKept
<1>5. isOpen' \in [Sized -> BOOLEAN] /\ ~isOpen'[w] /\ \A v \in Sized : isOpen'[v] => isOpen[v]
      BY <1>1, <1>2, SizeTypes
<1>6. Sizes!TypeOK'
      BY <1>1, <1>2, <1>4, <1>5, SizeTypes, SizeTypesKept
<1>7. WithinLimits' /\ Told'
      BY <1>1, <1>5 DEF SizesInv, WithinLimits, Told, Limits
<1>8. Reported(w)' /\ Followed(w)'
      BY <1>5 DEF Reported, Followed
<1> QED BY <1>6, <1>7, <1>8 DEF SizesInv

\* The user resizes a window.
LEMMA UserKeeps ==
    ASSUME SizesInv, NEW w \in Sized, NEW size \in Size, Sizes!UserResizes(w, size)
    PROVE  SizesInv' /\ (Reported(w) /\ Followed(w) => Reported(w)' /\ Followed(w)')
<1>1. /\ isOpen[w] /\ screen' = [screen EXCEPT ![w] = size] /\ events' = Append(events, <<w, size>>)
      /\ UNCHANGED <<width, minWidth, maxWidth, resizable, isOpen, targetWidth, hints, oldWidth>>
      BY DEF Sizes!UserResizes, Sizes!config
<1>2. /\ Sizes!TypeOK /\ events' \in Seq(Sized \X Size)
      /\ screen' \in [Sized -> Size \cup {0}] /\ screen'[w] = size
      BY <1>1, SizeTypes, AppendProperties DEF SizesInv
<1>3. Sizes!TypeOK'
      BY <1>1, <1>2, SizeTypes, SizeTypesKept
<1>4. WithinLimits' /\ Told'
      BY <1>1 DEF SizesInv, WithinLimits, Told, Limits
<1>5. ASSUME Reported(w), Followed(w)  PROVE Reported(w)' /\ Followed(w)'
  <2>1. /\ events' # <<>> /\ events'[Len(events')][2] = size
        /\ size = screen[w] /\ Behind(w) => Behind(w)'
        /\ size # screen[w] => Behind(w)'
        BY <1>1, <1>2, <1>5, MoreEvents
  <2> QED BY <1>1, <1>2, <1>5, <2>1 DEF Reported, Followed
<1> QED BY <1>3, <1>4, <1>5 DEF SizesInv

\* An event is dispatched: what the window is taken to show follows.
LEMMA SizeDispatchKeeps ==
    ASSUME SizesInv, Sizes!Dispatch
    PROVE  /\ SizesInv'
           /\ \A w \in Sized : Sized = {w} /\ Reported(w) /\ Followed(w) => Reported(w)' /\ Followed(w)'
<1>0. PICK w \in Sized, size \in Size : events[1] = <<w, size>>
  <2>1. events \in Seq(Sized \X Size) /\ events # <<>>
        BY SizeTypes DEF SizesInv, Sizes!Dispatch
  <2>2. events[1] \in Sized \X Size
        BY <2>1, HeadTailProperties
  <2> QED BY <2>2
<1>1. /\ events # <<>> /\ events' = Tail(events) /\ oldWidth' = size
      /\ targetWidth' = IF oldWidth # -1 /\ size # oldWidth
                        THEN [targetWidth EXCEPT ![w] = size] ELSE targetWidth
      /\ UNCHANGED <<width, minWidth, maxWidth, resizable, isOpen, hints, screen>>
      BY <1>0 DEF Sizes!Dispatch, Sizes!config, Sizes!Unlimited
<1>2. /\ Sizes!TypeOK /\ events \in Seq(Sized \X Size) /\ Len(events) \in Nat
      /\ targetWidth \in [Sized -> Size \cup {-1}]
      BY SizeTypes DEF SizesInv
<1>3. events' \in Seq(Sized \X Size) /\ Len(events') = Len(events) - 1 /\ Len(events) >= 1
      /\ \A k \in 1..Len(events') : events'[k] = events[k + 1]
      BY <1>1, <1>2, HeadTailProperties, EmptySeq
<1>4. Sizes!TypeOK'
  <2>1. targetWidth' \in [Sized -> Size \cup {-1}]
        BY <1>1, <1>2
  <2> QED BY <1>1, <1>2, <1>3, <2>1, SizeTypes, SizeTypesKept
<1>5. WithinLimits' /\ Told'
      BY <1>1 DEF SizesInv, WithinLimits, Told, Limits
<1>6. ASSUME Sized = {w}, isOpen[w], Reported(w), Followed(w)  PROVE Reported(w)' /\ Followed(w)'
  <2>1. Reported(w)'
    <3>1. events[Len(events)][2] = screen[w]
          BY <1>1, <1>6 DEF Reported
    <3>2. CASE Len(events) = 1
      <4>1. events' = <<>> /\ oldWidth' = screen'[w]
            BY <1>0, <1>1, <1>3, <3>1, <3>2, EmptySeq
      <4> QED BY <4>1 DEF Reported
    <3>3. CASE Len(events) # 1
      <4>1. events' # <<>> /\ Len(events') \in 1..Len(events') /\ Len(events') + 1 = Len(events)
            BY <1>2, <1>3, <3>3, EmptySeq
      <4>2. events'[Len(events')] = events[Len(events)]
            BY <1>3, <4>1
      <4> QED BY <1>1, <3>1, <4>1, <4>2 DEF Reported
    <3> QED BY <3>2, <3>3
  <2>2. ASSUME ~Behind(w)'  PROVE targetWidth'[w] = screen'[w]
    <3>1. size = screen[w] /\ \A k \in 1..Len(events') : events'[k][2] = screen[w]
      <4>1. size # -1
            BY SizeIsPositive
      <4> QED BY <1>1, <2>2, <4>1 DEF Behind
    <3>2. \A k \in 1..Len(events) : events[k][2] = screen[w]
      <4> SUFFICES ASSUME NEW k \in 1..Len(events)  PROVE events[k][2] = screen[w]
          OBVIOUS
      <4>1. CASE k = 1
            BY <1>0, <3>1, <4>1
      <4>2. CASE k # 1
        <5>1. k - 1 \in 1..Len(events') /\ (k - 1) + 1 = k
              BY <1>2, <1>3, <4>2
        <5> QED BY <1>3, <3>1, <5>1
      <4> QED BY <4>1, <4>2
    <3>3. CASE oldWidth # -1 /\ size # oldWidth
          BY <1>1, <1>2, <3>1, <3>3
    <3>4. CASE ~(oldWidth # -1 /\ size # oldWidth)
      <4>1. ~Behind(w)
            BY <3>1, <3>2, <3>4 DEF Behind
      <4> QED BY <1>1, <1>6, <3>4, <4>1 DEF Followed
    <3> QED BY <3>3, <3>4
  <2> QED BY <1>1, <1>6, <2>1, <2>2 DEF Followed
<1>7. ASSUME NEW v \in Sized, Sized = {v}, Reported(v), Followed(v)  PROVE Reported(v)' /\ Followed(v)'
  <2>1. v = w
        BY <1>7
  <2>2. CASE isOpen[w]
        BY <1>6, <1>7, <2>1, <2>2
  <2>3. CASE ~isOpen[w]
        BY <1>1, <2>1, <2>3 DEF Reported, Followed
  <2> QED BY <2>2, <2>3
<1> QED BY <1>4, <1>5, <1>7 DEF SizesInv

\* Nothing is limited or open at first.
LEMMA SizesInit ==
    ASSUME Sizes!Init  PROVE SizesInv /\ \A w \in Sized : Reported(w) /\ Followed(w)
<1>1. Sizes!TypeOK
  <2>1. [min |-> 1, max |-> MaxSize] \in Bounds
        BY SizeIsPositive DEF Bounds
  <2>2. <<>> \in Seq(Sized \X Size)
        BY EmptySeq
  <2> QED BY <2>1, <2>2 DEF Sizes!Init, Sizes!TypeOK, Sizes!Limit, Sizes!Unlimited, Bounds, Size
<1>2. \A w \in Sized : minWidth[w] = -1 /\ maxWidth[w] = -1 /\ ~isOpen[w]
      BY DEF Sizes!Init, Sizes!Unlimited
<1> QED BY <1>1, <1>2 DEF SizesInv, WithinLimits, Within, Told, Sizes!Consistent, Sizes!Unlimited,
                          Reported, Followed

\* Every step of the sizes keeps the invariant.
LEMMA SizesNext ==
    ASSUME SizesInv, [Sizes!Next]_(Sizes!vars)
    PROVE  /\ SizesInv'
           /\ \A w \in Sized : Sized = {w} /\ Reported(w) /\ Followed(w) => Reported(w)' /\ Followed(w)'
<1>1. CASE UNCHANGED Sizes!vars
  <2>1. UNCHANGED <<width, minWidth, maxWidth, resizable, isOpen, targetWidth, hints, screen,
                    events, oldWidth>>
        BY <1>1 DEF Sizes!vars, Sizes!config, Sizes!native
  <2>2. Sizes!TypeOK'
        BY <2>1, SizeTypes, SizeTypesKept DEF SizesInv
  <2> QED BY <2>1, <2>2 DEF SizesInv, WithinLimits, Told, Limits, Reported, Followed, Behind
<1>2. CASE Sizes!Dispatch
      BY <1>2, SizeDispatchKeeps
<1>3. ASSUME NEW v \in Sized, Sizes!Open(v)  PROVE SizesInv' /\ Reported(v)' /\ Followed(v)'
      BY <1>3, SizeOpenKeeps
<1>4. ASSUME NEW v \in Sized, Sizes!Close(v)  PROVE SizesInv' /\ Reported(v)' /\ Followed(v)'
      BY <1>4, SizeCloseKeeps
<1>5. ASSUME NEW v \in Sized, NEW size \in Size, Sizes!UserResizes(v, size)
      PROVE  SizesInv' /\ (Reported(v) /\ Followed(v) => Reported(v)' /\ Followed(v)')
      BY <1>5, UserKeeps
<1>6. ASSUME NEW v \in Sized, Configures(v), PassesOn(v)
      PROVE  SizesInv' /\ (Reported(v) /\ Followed(v) => Reported(v)' /\ Followed(v)')
      BY <1>6, SetKeeps, SetKeepsAlone DEF AloneInv
<1>7. ASSUME NEW v \in Sized,
             \/ Sizes!SetResizable(v)
             \/ \E size \in Size : Sizes!SetWidth(v, size)
             \/ \E limit \in Size \cup {-1} : Sizes!SetMinWidth(v, limit) \/ Sizes!SetMaxWidth(v, limit)
      PROVE  Configures(v) /\ PassesOn(v)
      BY <1>7, SetResizablePasses, SetWidthPasses, SetMinWidthPasses, SetMaxWidthPasses
<1>8. ASSUME Sizes!Next, ~Sizes!Dispatch
      PROVE  \E v \in Sized : SizesInv' /\ (Reported(v) /\ Followed(v) => Reported(v)' /\ Followed(v)')
  <2>1. PICK v \in Sized :
          \/ Sizes!Open(v) \/ Sizes!Close(v) \/ Sizes!SetResizable(v)
          \/ \E size \in Size : Sizes!SetWidth(v, size) \/ Sizes!UserResizes(v, size)
          \/ \E limit \in Size \cup {-1} : Sizes!SetMinWidth(v, limit) \/ Sizes!SetMaxWidth(v, limit)
        BY <1>8 DEF Sizes!Next, Size, Sizes!Limit, Sizes!Unlimited
  <2> QED BY <1>3, <1>4, <1>5, <1>6, <1>7, <2>1
<1> QED BY <1>1, <1>2, <1>8

\* Sizes stay sizes, configurations within their limits, and GTK knows the limits.
THEOREM SizesAreSound == Sizes!Spec => []SizesInv
<1> QED BY SizesInit, SizesNext, PTL DEF Sizes!Spec

\* A window that is alone: its last event is true, and corrects what it is taken for.
LEMMA AloneIsHeard ==
    ASSUME NEW w, Sized = {w}  PROVE Sizes!Spec => []AloneInv(w)
<1>1. w \in Sized
      OBVIOUS
<1>2. Sizes!Init => AloneInv(w)
      BY <1>1, SizesInit DEF AloneInv
<1>3. AloneInv(w) /\ [Sizes!Next]_(Sizes!vars) => AloneInv(w)'
      BY <1>1, SizesNext DEF AloneInv
<1> QED BY <1>2, <1>3, PTL DEF Sizes!Spec

-----------------------------------------------------------------------------
(* The composition: each takes its own steps only.                           *)

\* A behaviour of the composition is one of events, of windows and of sizes.
LEMMA Together == UISpec => Spec /\ Windows!Spec /\ Sizes!Spec
<1>1. UIInit => Init /\ Windows!Init /\ Sizes!Init
      BY DEF UIInit
<1>2. [UINext]_<<part, vars, windowVars, sizeVars>> =>
         [Next]_vars /\ [Windows!Next]_(Windows!vars) /\ [Sizes!Next]_(Sizes!vars)
      BY DEF UINext, windowVars, sizeVars, Windows!vars, Windows!windows, Windows!history,
             Sizes!vars, Sizes!config, Sizes!native
<1> QED BY <1>1, <1>2, PTL DEF UISpec, Spec, Windows!Spec, Sizes!Spec

\* When a window is closed its children have been closed with it, but for those
\* that refused and those opened too late; however listeners open and close
\* windows in the meantime.
THEOREM ChildrenFollow == UISpec => []ChildrenAreClosed
<1>1. WindowsInv => ChildrenAreClosed
  <2> SUFFICES ASSUME WindowsInv, stack = <<>>, NEW w \in Window \ (refused \cup late),
                      active[w], Parent[w] # None
               PROVE  active[Parent[w]]
      BY DEF ChildrenAreClosed, Windows!ChildrenAreClosed, Windows!Idle
  <2>1. ~WillClose(Parent[w], w)
        BY EmptySeq DEF WillClose
  <2> QED BY <2>1 DEF WindowsInv, Cared
<1> QED BY <1>1, Together, WindowsAreSound, PTL

\* An application whose last window is gone exits, unless a listener objected.
THEOREM LastWindowEnds == UISpec => []ExitsWithLastWindow
<1>1. WindowsInv => ExitsWithLastWindow
  <2> SUFFICES ASSUME WindowsInv, stack = <<>>, openWindows = <<>>, initialized[Main]
               PROVE  exiting \/ stays
      BY DEF ExitsWithLastWindow, Windows!ExitsWithLastWindow, Windows!Idle
  <2>1. Main \in Window
        BY WindowsAssumption DEF Windows!WindowAssumption
  <2>2. ~\E k \in 1..Len(stack) : stack[k].at = "exit"
        BY EmptySeq
  <2> QED BY <2>1, <2>2 DEF WindowsInv, Ended
<1> QED BY <1>1, Together, WindowsAreSound, PTL

\* A window that is active is in the list of open windows, at every moment and
\* whatever listeners do.
THEOREM ActiveIsHeld == UISpec => []Held
<1>1. WindowsInv => Held
      BY DEF WindowsInv
<1> QED BY <1>1, Together, WindowsAreSound, PTL

\* When listeners open no windows, the list holds no other window between calls,
\* and none twice.
THEOREM ListHoldsActive ==
    ASSUME Careful  PROVE UISpec => []ListIsActive
<1>1. CarefulInv => ListIsActive
  <2> SUFFICES ASSUME CarefulInv  PROVE ListIsActive
      OBVIOUS
  <2>1. WindowsInv /\ Windows!TypeOK /\ Held /\ Listed /\ openWindows \in Seq(Window)
        BY WindowTypes DEF CarefulInv, WindowsInv
  <2>2. Windows!Elements(openWindows) = Elements(openWindows)
        BY <2>1, SameElements
  <2>3. \A w \in Window : active[w] => w \in Elements(openWindows)
        BY <2>1 DEF Held
  <2>4. ASSUME stack = <<>>, NEW w \in Elements(openWindows)  PROVE active[w] /\ gtkWindow[w]
    <3>1. ~\E k \in Nat : Forgets(k, w)
          BY <2>4, EmptySeq DEF Forgets
    <3> QED BY <2>1, <3>1 DEF Listed
  <2>5. Len(openWindows) = Windows!Cardinality(Elements(openWindows))
    <3>1. \A S : Windows!Cardinality(S) = Cardinality(S)
          BY DEF Windows!Cardinality, Cardinality, Windows!IsFiniteSet, IsFiniteSet
    <3> QED BY <2>1, <3>1, CountedOnce DEF Listed
  <2> QED BY <2>2, <2>3, <2>4, <2>5 DEF ListIsActive, Windows!ListIsActive, Windows!Idle
<1> QED BY <1>1, Together, WindowsAreListed, PTL

\* The properties of events hold when windows and sizes are at work, too.
THEOREM EventsInUI == UISpec => []EveryListenerHearsOnce /\ StopIsFinal
<1> QED BY Together, EveryoneHearsOnce, StoppedForGood, PTL

\* getWidth() of a window that is alone answers with the width on the screen,
\* once the events are dispatched.
THEOREM WidthIsHeard ==
    ASSUME NEW w, Sized = {w}  PROVE UISpec => []WidthIsReported
<1>1. AloneInv(w) => WidthIsReported
  <2> SUFFICES ASSUME AloneInv(w), events = <<>>, isOpen[w]  PROVE targetWidth[w] = screen[w]
      BY DEF WidthIsReported, Sizes!WidthIsReported
  <2>1. oldWidth = screen[w] /\ (Behind(w) \/ targetWidth[w] = screen[w])
        BY DEF AloneInv, Reported, Followed
  <2>2. Len(events) = 0
        BY EmptySeq
  <2> QED BY <2>1, <2>2 DEF Behind
<1>2. Sizes!Spec => []AloneInv(w)
      BY AloneIsHeard
<1> QED BY <1>1, <1>2, Together, PTL

\* The variables of the three have their types.
THEOREM UITypes == UISpec => []TypesOK
<1>1. EventInv /\ WindowsInv /\ SizesInv => TypesOK
      BY DEF EventInv, WindowsInv, SizesInv, TypesOK
<1> QED BY <1>1, Together, EventsAreSound, WindowsAreSound, SizesAreSound, PTL
=============================================================================
