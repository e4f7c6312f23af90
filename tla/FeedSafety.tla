----------------------------- MODULE FeedSafety -----------------------------
(***************************************************************************)
(* The dashboard feed, proved for any number of notes, any page size, any  *)
(* grain of timestamps and any time: what nobody touches is listed once,   *)
(* and in order, while the rest moves.                                     *)
(***************************************************************************)
EXTENDS Feed, FiniteSetTheorems, WellFoundedInduction, SequenceTheorems, TLAPS

(* The order of rows: of their times as text, then of their ids.           *)

LEMMA TextKeyInt ==
    ASSUME NEW t \in Instants
    PROVE  TextKey(t) \in Int /\ t \in Nat
  BY SizeAssumption DEF TextKey, Instants

(* Two instants never have the same text. *)
LEMMA TextTellsTimes ==
    ASSUME NEW t \in Instants, NEW u \in Instants, TextKey(t) = TextKey(u)
    PROVE  t = u
  <1>0. Grain \in Nat \ {0} /\ t \in Nat /\ u \in Nat
    BY SizeAssumption, TextKeyInt
  <1>1. ASSUME NEW a \in Nat, NEW b \in Nat, b = a + Grain, a % Grain = 0
        PROVE  b % Grain = 0
    <2> DEFINE q == a \div Grain
               p == b \div Grain
               z == q + 1 - p
    <2>1. a = Grain * q /\ q \in Int
      BY <1>0, <1>1
    <2>2. b = Grain * p + (b % Grain) /\ p \in Int /\ b % Grain \in 0..(Grain - 1)
      BY <1>0, <1>1
    <2>3. z \in Int /\ Grain * z = Grain * q + Grain - Grain * p
      BY <1>0, <2>1, <2>2
    <2>4. Grain * z = b % Grain
      BY <1>0, <1>1, <2>1, <2>2, <2>3
    <2> HIDE DEF z
    <2>5. ~(z >= 1)
      <3>1. z >= 1 => Grain * z >= Grain
        BY <1>0, <2>3
      <3> QED  BY <1>0, <2>2, <2>3, <2>4, <3>1
    <2>6. ~(z <= -1)
      <3>1. z <= -1 => Grain * z <= -Grain
        BY <1>0, <2>3
      <3> QED  BY <1>0, <2>2, <2>3, <2>4, <3>1
    <2>7. z = 0
      BY <2>3, <2>5, <2>6
    <2> QED  BY <1>0, <2>4, <2>7
  <1>2. CASE t % Grain = 0 /\ u % Grain = 0
    BY <1>0, <1>2 DEF TextKey
  <1>3. CASE t % Grain # 0 /\ u % Grain # 0
    BY <1>0, <1>3 DEF TextKey
  <1>4. CASE t % Grain = 0 /\ u % Grain # 0
    <2>1. u = t + Grain
      BY <1>0, <1>4 DEF TextKey
    <2> QED  BY <1>0, <1>1, <1>4, <2>1
  <1>5. CASE t % Grain # 0 /\ u % Grain = 0
    <2>1. t = u + Grain
      BY <1>0, <1>5 DEF TextKey
    <2> QED  BY <1>0, <1>1, <1>5, <2>1
  <1> QED  BY <1>2, <1>3, <1>4, <1>5

LEMMA BeforeIsOrder ==
    ASSUME NEW a \in Entries, NEW b \in Entries
    PROVE  /\ ~Before(a, a)
           /\ Before(a, b) => ~Before(b, a)
           /\ \A c \in Entries : Before(a, b) /\ Before(b, c) => Before(a, c)
           /\ a.id # b.id => Before(a, b) \/ Before(b, a)
  <1>1. ASSUME NEW e \in Entries
        PROVE  e.at \in Instants /\ TextKey(e.at) \in Int /\ e.id \in Nat
    <2>1. e.at \in Instants /\ e.id \in Notes \cup {Sample}
      BY DEF Entries
    <2>2. Notes \cup {Sample} \subseteq Nat
      BY IdAssumption DEF Sample
    <2> QED  BY <2>1, <2>2, TextKeyInt
  <1>2. a.id # b.id => Before(a, b) \/ Before(b, a)
    BY <1>1, TextTellsTimes DEF Before
  <1>3. ~Before(a, a) /\ (Before(a, b) => ~Before(b, a))
    BY <1>1 DEF Before
  <1>4. ASSUME NEW c \in Entries, Before(a, b), Before(b, c) PROVE Before(a, c)
    BY <1>1, <1>4 DEF Before
  <1> QED  BY <1>2, <1>3, <1>4

-----------------------------------------------------------------------------
(* Every finite set of rows can be put in order. *)

(* Induction over finite sets, for a property given as a set of sets. *)
LEMMA SmallestSet ==
    ASSUME NEW T, T \subseteq FiniteSubsetsOf(Entries), T # {}
    PROVE  \E V \in T : \A e \in V : V \ {e} \notin T
  <1>1. IsWellFoundedOn(StrictSubsetOrdering(Entries), FiniteSubsetsOf(Entries))
    BY FS_StrictSubsetOrderingWellFounded
  <1>2. PICK V \in T : \A W \in T : <<W, V>> \notin StrictSubsetOrdering(Entries)
    BY <1>1, WFMin
  <1>3. ASSUME NEW e \in V, V \ {e} \in T PROVE FALSE
    <2>1. V \subseteq Entries
      BY DEF FiniteSubsetsOf
    <2>2. <<V \ {e}, V>> \in StrictSubsetOrdering(Entries)
      BY <1>3, <2>1 DEF StrictSubsetOrdering
    <2> QED  BY <1>2, <1>3, <2>2
  <1> QED  BY <1>3

LEMMA NewestRow ==
    ASSUME NEW V \in FiniteSubsetsOf(Entries), V # {}
    PROVE  \E e \in V : \A f \in V : ~Before(e, f)
  <1> DEFINE Headless(U) == U # {} /\ \A e \in U : \E f \in U : Before(e, f)
             T == {U \in FiniteSubsetsOf(Entries) : Headless(U)}
  <1> SUFFICES ASSUME T # {} PROVE FALSE
    OBVIOUS
  <1>1. PICK U \in T : \A e \in U : U \ {e} \notin T
    <2> HIDE DEF Headless
    <2> QED  BY SmallestSet
  <1>2. PICK e \in U : TRUE
    OBVIOUS
  <1> DEFINE W == U \ {e}
  <1>3. U \subseteq Entries /\ IsFiniteSet(U)
    BY DEF FiniteSubsetsOf
  <1>4. W \in FiniteSubsetsOf(Entries) /\ W \notin T
    BY <1>1, <1>3, FS_Subset DEF FiniteSubsetsOf
  <1>5. CASE W = {}
    <2>1. U = {e}
      BY <1>5
    <2> QED  BY <1>3, <2>1, BeforeIsOrder
  <1>6. CASE W # {}
    <2>1. PICK g \in W : \A f \in W : ~Before(g, f)
      BY <1>4, <1>6
    <2>2. Before(g, e)
      BY <2>1
    <2>3. PICK f \in U : Before(e, f)
      OBVIOUS
    <2>4. f # e
      BY <1>3, <2>3, BeforeIsOrder
    <2>5. Before(g, f)
      BY <1>3, <2>2, <2>3, BeforeIsOrder
    <2> QED  BY <2>1, <2>4, <2>5
  <1> QED  BY <1>5, <1>6

IsInOrder(s, rows) ==
    /\ s \in [1..Cardinality(rows) -> rows]
    /\ \A row \in rows : \E i \in DOMAIN s : s[i] = row
    /\ \A i, j \in DOMAIN s : i < j => ~Before(s[i], s[j])

LEMMA OrderExists ==
    ASSUME NEW V \in FiniteSubsetsOf(Entries)
    PROVE  \E s : IsInOrder(s, V)
  <1> DEFINE T == {U \in FiniteSubsetsOf(Entries) : ~\E s : IsInOrder(s, U)}
  <1> SUFFICES ASSUME T # {} PROVE FALSE
    OBVIOUS
  <1>1. PICK U \in T : \A e \in U : U \ {e} \notin T
    BY SmallestSet
  <1>2. U \in FiniteSubsetsOf(Entries) /\ U \subseteq Entries /\ IsFiniteSet(U)
    BY DEF FiniteSubsetsOf
  <1>3. CASE U = {}
    <2>1. IsInOrder([i \in 1..0 |-> 0], U)
      BY <1>3, FS_EmptySet DEF IsInOrder
    <2> QED  BY <2>1
  <1>4. CASE U # {}
    <2>1. PICK e \in U : \A f \in U : ~Before(e, f)
      BY <1>2, <1>4, NewestRow
    <2> DEFINE W == U \ {e}
               n == Cardinality(W)
    <2>2. W \in FiniteSubsetsOf(Entries) /\ IsFiniteSet(W)
      BY <1>2, FS_Subset DEF FiniteSubsetsOf
    <2>3. PICK w : IsInOrder(w, W)
      BY <1>1, <2>2
    <2>4. n \in Nat /\ Cardinality(U) = n + 1
      BY <1>2, <2>2, FS_RemoveElement, FS_CardinalityType
    <2> DEFINE s == [i \in 1..(n + 1) |-> IF i = 1 THEN e ELSE w[i - 1]]
    <2> HIDE DEF n
    <2>5. w \in [1..n -> W]
      BY <2>3 DEF IsInOrder, n
    <2>6. s \in [1..Cardinality(U) -> U]
      BY <2>4, <2>5
    <2>7. ASSUME NEW f \in U PROVE \E i \in DOMAIN s : s[i] = f
      <3>1. CASE f = e
        BY <2>4, <3>1
      <3>2. CASE f # e
        <4>1. PICK i \in 1..n : w[i] = f
          BY <2>3, <2>5, <3>2 DEF IsInOrder
        <4>2. i + 1 \in 1..(n + 1) /\ s[i + 1] = f
          BY <2>4, <4>1
        <4> QED  BY <4>2
      <3> QED  BY <3>1, <3>2
    <2>8. ASSUME NEW i \in DOMAIN s, NEW j \in DOMAIN s, i < j
          PROVE  ~Before(s[i], s[j])
      <3>1. i \in 1..(n + 1) /\ j \in 2..(n + 1) /\ s[j] = w[j - 1]
        BY <2>4, <2>8
      <3>2. CASE i = 1
        BY <2>1, <2>4, <2>5, <3>1, <3>2
      <3>3. CASE i # 1
        <4>1. i - 1 \in 1..n /\ j - 1 \in 1..n /\ i - 1 < j - 1
          BY <2>4, <2>8, <3>1, <3>3
        <4>2. ~Before(w[i - 1], w[j - 1])
          BY <2>3, <2>5, <4>1 DEF IsInOrder
        <4> QED  BY <2>4, <3>1, <3>3, <4>2
      <3> QED  BY <3>2, <3>3
    <2> HIDE DEF s
    <2>9. IsInOrder(s, U)
      BY <2>6, <2>7, <2>8 DEF IsInOrder
    <2> QED  BY <2>9
  <1> QED  BY <1>3, <1>4
LEMMA InOrderIsSorted ==
    ASSUME NEW V \in FiniteSubsetsOf(Entries),
           \A e, f \in V : e # f => e.id # f.id
    PROVE  LET s == InOrder(V)
               n == Cardinality(V)
           IN  /\ n \in Nat /\ s \in [1..n -> V]
               /\ \A row \in V : \E i \in 1..n : s[i] = row
               /\ \A i, j \in 1..n : i < j => Before(s[j], s[i])
  <1> DEFINE s == InOrder(V)
             n == Cardinality(V)
  <1>1. IsInOrder(s, V)
    <2>1. PICK t : IsInOrder(t, V)
      BY OrderExists
    <2> QED  BY <2>1 DEF InOrder, IsInOrder
  <1>2. IsFiniteSet(V) /\ V \subseteq Entries /\ n \in Nat
    BY FS_CardinalityType DEF FiniteSubsetsOf
  <1> HIDE DEF n, s
  <1>3. /\ s \in [1..n -> V]
        /\ \A row \in V : \E i \in 1..n : s[i] = row
        /\ \A i, j \in 1..n : i < j => ~Before(s[i], s[j])
    BY <1>1 DEF IsInOrder, n
  <1>4. IsFiniteSet(1..n) /\ Cardinality(1..n) = Cardinality(V)
    BY <1>2, FS_Interval DEF n
  <1>5. s \in Injection(1..n, V)
    <2>1. s \in Surjection(1..n, V)
      BY <1>3 DEF Surjection
    <2> QED  BY <1>2, <1>4, <2>1, FS_SurjSameCardinalityImpliesInj
  <1>6. ASSUME NEW i \in 1..n, NEW j \in 1..n, i < j PROVE Before(s[j], s[i])
    <2>1. s[i] \in V /\ s[j] \in V /\ s[i] # s[j]
      BY <1>2, <1>3, <1>5, <1>6 DEF Injection, IsInjective
    <2>2. s[i] \in Entries /\ s[j] \in Entries /\ s[i].id # s[j].id
      BY <1>2, <2>1
    <2>3. ~Before(s[i], s[j])
      BY <1>3, <1>6
    <2> QED  BY <2>2, <2>3, BeforeIsOrder
  <1> QED  BY <1>2, <1>3, <1>6 DEF n, s
-----------------------------------------------------------------------------
(* What the query returns. *)
After(c) == {n \in Visible : c # NoCursor => Before(Entry(n), c)}

(* A page, in order and before its cursor, and up to its next cursor.      *)
IsPage(p, c) ==
    /\ p.state = "served" /\ p.items \in Seq(Entries)
    /\ p.next \in Entries \cup {NoCursor}
    /\ \A i \in DOMAIN p.items : \E m \in After(c) : p.items[i] = Entry(m)
    /\ \A i, j \in DOMAIN p.items : i < j => Before(p.items[j], p.items[i])
    /\ p.next # NoCursor => p.items # <<>> /\ p.next = p.items[Len(p.items)]
    /\ \A m \in After(c) :
           \/ \E i \in DOMAIN p.items : p.items[i] = Entry(m)
           \/ p.next # NoCursor /\ Before(Entry(m), p.next)

LEMMA RowsOfVisible ==
    ASSUME TypeOK, NEW c
    PROVE  LET V == {Entry(n) : n \in After(c)}
           IN  /\ V \in FiniteSubsetsOf(Entries)
               /\ \A e, f \in V : e # f => e.id # f.id
  <1> DEFINE V == {Entry(n) : n \in After(c)}
  <1>1. ASSUME NEW n \in After(c)
        PROVE  n \in Notes /\ Entry(n) \in Entries /\ Entry(n).id = n
    <2>1. n \in Notes /\ updated[n] \in Instants
      BY DEF After, Visible, TypeOK
    <2> QED  BY <2>1 DEF Entry, Entries
  <1>2. IsFiniteSet(After(c))
    BY <1>1, IdAssumption, FS_Subset
  <1>3. IsFiniteSet(V)
    <2> DEFINE f == [n \in After(c) |-> Entry(n)]
    <2>1. f \in Surjection(After(c), V)
      BY DEF Surjection
    <2> QED  BY <1>2, <2>1, FS_Surjection
  <1>4. V \subseteq Entries
    BY <1>1
  <1>5. \A e, f \in V : e # f => e.id # f.id
    BY <1>1
  <1> QED  BY <1>3, <1>4, <1>5 DEF FiniteSubsetsOf

LEMMA QueryGivesPage ==
    ASSUME TypeOK, NEW c
    PROVE  IsPage(ListForViewer(c), c)
  <1> DEFINE V == {Entry(n) : n \in After(c)}
             s == InOrder(V)
             n == Cardinality(V)
             k == IF n > PageSize THEN PageSize ELSE n
             p == ListForViewer(c)
  <1>1. V \in FiniteSubsetsOf(Entries) /\ \A e, f \in V : e # f => e.id # f.id
    BY RowsOfVisible
  <1>2. /\ n \in Nat /\ s \in [1..n -> V]
        /\ \A row \in V : \E i \in 1..n : s[i] = row
        /\ \A i, j \in 1..n : i < j => Before(s[j], s[i])
    BY <1>1, InOrderIsSorted
  <1>3. V \subseteq Entries
    BY <1>1 DEF FiniteSubsetsOf
  <1>4. p = [state |-> "served", next |-> NextCursor(s),
             items |-> SubSeq(s, 1, IF Len(s) > PageSize THEN PageSize
                                    ELSE Len(s))]
    BY DEF ListForViewer, After
  <1> HIDE DEF V, s, n
  <1>5. s \in Seq(V) /\ Len(s) = n
    BY <1>2
  <1>6. PageSize \in Nat \ {0} /\ k \in 0..n /\ k <= PageSize
    BY <1>2, SizeAssumption
  <1>7. /\ p.items = SubSeq(s, 1, k) /\ p.state = "served"
        /\ p.next = IF n > PageSize THEN s[PageSize] ELSE NoCursor
    <2> HIDE DEF p
    <2>1. Len(s) = n
      BY <1>5
    <2>2. k = IF Len(s) > PageSize THEN PageSize ELSE Len(s)
      BY <2>1
    <2> HIDE DEF k
    <2>3. p = [state |-> "served", next |-> NextCursor(s), items |-> SubSeq(s, 1, k)]
      BY <1>4, <2>2
    <2>4. NextCursor(s) = IF n > PageSize THEN s[PageSize] ELSE NoCursor
      BY <2>1 DEF NextCursor
    <2> QED  BY <2>3, <2>4
  <1> HIDE DEF k, p
  <1>8. /\ p.items \in Seq(V) /\ Len(p.items) = k /\ DOMAIN p.items = 1..k
        /\ \A i \in 1..k : p.items[i] = s[i] /\ i \in 1..n
    <2>1. \A i \in 1..k : s[i] \in V
      BY <1>2, <1>6
    <2>2. /\ SubSeq(s, 1, k) \in Seq(V) /\ Len(SubSeq(s, 1, k)) = k
          /\ \A i \in 1..k : SubSeq(s, 1, k)[i] = s[i]
      BY <1>6, <2>1, SubSeqProperties
    <2> QED  BY <1>2, <1>6, <1>7, <2>2
  <1>9. p.items \in Seq(Entries) /\ p.next \in Entries \cup {NoCursor}
    BY <1>2, <1>3, <1>6, <1>7, <1>8
  <1>10. \A i \in DOMAIN p.items : \E m \in After(c) : p.items[i] = Entry(m)
    BY <1>2, <1>8 DEF V
  <1>11. \A i, j \in DOMAIN p.items : i < j => Before(p.items[j], p.items[i])
    BY <1>2, <1>8
  <1>12. p.next # NoCursor => p.items # <<>> /\ p.next = p.items[Len(p.items)]
    <2> SUFFICES ASSUME n > PageSize
                 PROVE  p.items # <<>> /\ s[PageSize] = p.items[Len(p.items)]
      BY <1>7
    <2>1. k = PageSize
      BY DEF k
    <2> QED  BY <1>6, <1>8, <2>1, EmptySeq
  <1>13. ASSUME NEW m \in After(c)
         PROVE  \/ \E i \in DOMAIN p.items : p.items[i] = Entry(m)
                \/ p.next # NoCursor /\ Before(Entry(m), p.next)
    <2>1. PICK i \in 1..n : s[i] = Entry(m)
      BY <1>2 DEF V
    <2>2. CASE i <= k
      BY <1>6, <1>8, <2>1, <2>2
    <2>3. CASE i > k
      <3>1. n > PageSize /\ k = PageSize /\ PageSize \in 1..n
        BY <1>2, <1>6, <2>1, <2>3 DEF k
      <3>2. p.next = s[PageSize] /\ p.next \in Entries
        BY <1>2, <1>3, <1>7, <3>1
      <3> QED  BY <1>2, <2>1, <2>3, <3>1, <3>2, AbsenceAssumption
    <2> QED  BY <1>2, <1>6, <2>2, <2>3
  <1> QED
    BY <1>7, <1>9, <1>10, <1>11, <1>12, <1>13 DEF IsPage, p

-----------------------------------------------------------------------------
(* The inductive invariant. *)

(* What a cursor has gone past. *)
Passed(e, c) == c # NoCursor /\ ~Before(e, c)
Lists(s, n) == {i \in DOMAIN s : s[i].id = n}
ListsOnce(s, e) ==
    /\ \A i \in Lists(s, e.id) : s[i] = e
    /\ \A i, j \in Lists(s, e.id) : i = j

(* Of the notes that nobody touches, those that the cursor has gone past   *)
(* are the ones listed so far, and the page that is on its way continues   *)
(* where the cursor is.                                                    *)
FeedFits(f, e, sure) ==
    LET listed == Lists(f.items, e.id) # {}
    IN  /\ ListsOnce(f.items, e)
        /\ f.hasMore => (listed <=> Passed(e, f.cursor))
        /\ ~f.hasMore /\ sure => listed
PageFits(p, c, e, sure) ==
    LET listed == Lists(p.items, e.id) # {}
    IN  /\ ListsOnce(p.items, e)
        /\ ~(listed /\ Passed(e, c))
        /\ p.next # NoCursor => ((listed \/ Passed(e, c)) <=> Passed(e, p.next))
        /\ p.next = NoCursor /\ sure => listed \/ Passed(e, c)
SteadyIsKnown ==
    \A n \in steady :
        /\ n \in Visible
        /\ FeedFits(feed, Entry(n), signedIn)
        /\ reply.state = "served" =>
               PageFits(reply, feed.cursor, Entry(n), signedIn)

(* The cursor is the last card, and a page begins after its cursor.        *)
Ordered(s) ==
    \A i \in 1..(Len(s) - 1) : s[i + 1].id # Sample => Before(s[i + 1], s[i])
EndsAt(s, c) == c # NoCursor => s # <<>> /\ c = s[Len(s)]
PageJoins(p, c) ==
    /\ Ordered(p.items) /\ EndsAt(p.items, p.next)
    /\ p.items # <<>> /\ p.items[1].id # Sample /\ c # NoCursor =>
           Before(p.items[1], c)
SeamsHold ==
    /\ Ordered(feed.items)
    /\ feed.hasMore => /\ EndsAt(feed.items, feed.cursor)
                       /\ feed.cursor = NoCursor => feed.items = <<>>
    /\ feed.loading => feed.hasMore
    /\ reply.state = "served" => PageJoins(reply, feed.cursor)

FInv == TypeOK /\ SeamsHold /\ SteadyIsKnown

-----------------------------------------------------------------------------
(* Steps, by what they change. *)
TableMoves ==
    \/ \E n \in Notes : Delete(n) \/ \E t \in Instants : Write(n, t)
    \/ \E n \in Lent : Share(n) \/ Revoke(n)
    \/ SessionEnds
BrowserMoves == Observe \/ \E to \in {0, Bottom} : Scroll(to)

LEMMA FeedSteps ==
    ASSUME [Next]_vars
    PROVE  \/ UNCHANGED vars \/ TableMoves \/ BrowserMoves
           \/ Serve \/ Fail \/ Arrive \/ ArriveError
  BY DEF Next, TableMoves, BrowserMoves

LEMMA TableMoved ==
    ASSUME TypeOK, TableMoves
    PROVE  /\ updated' \in [Notes -> Instants \cup {Absent}]
           /\ shared' \subseteq Lent /\ signedIn' \in BOOLEAN
           /\ UNCHANGED <<feed, reply>>
           /\ steady' \subseteq steady
           /\ signedIn' => signedIn
           /\ \A n \in steady' : /\ updated'[n] = updated[n]
                                 /\ n \in Visible => n \in Visible'
  <1> USE DEF TypeOK, Visible
  <1>1. ASSUME NEW n \in Notes, NEW t \in Instants, Write(n, t)
        PROVE  /\ updated' \in [Notes -> Instants \cup {Absent}]
               /\ UNCHANGED <<shared, signedIn, feed, reply>>
               /\ steady' \subseteq steady
               /\ \A m \in steady' : updated'[m] = updated[m]
    BY <1>1 DEF Write
  <1>2. ASSUME NEW n \in Notes, Delete(n)
        PROVE  /\ updated' \in [Notes -> Instants \cup {Absent}]
               /\ shared' = shared \ {n} /\ n \notin steady'
               /\ UNCHANGED <<signedIn, feed, reply>>
               /\ steady' \subseteq steady
               /\ \A m \in steady' : updated'[m] = updated[m]
    BY <1>2 DEF Delete
  <1>3. ASSUME NEW n \in Lent, Share(n)
        PROVE  shared' = shared \cup {n} /\ UNCHANGED <<updated, signedIn, feed, reply, steady>>
    BY <1>3 DEF Share
  <1>4. ASSUME NEW n \in Lent, Revoke(n)
        PROVE  /\ shared' = shared \ {n} /\ steady' = steady \ {n}
               /\ UNCHANGED <<updated, signedIn, feed, reply>>
    BY <1>4 DEF Revoke
  <1>5. CASE SessionEnds
    BY <1>5 DEF SessionEnds
  <1>6. CASE \E n \in Notes : \E t \in Instants : Write(n, t)
    BY <1>1, <1>6
  <1>7. CASE \E n \in Notes : Delete(n)
    BY <1>2, <1>7
  <1>8. CASE \E n \in Lent : Share(n)
    BY <1>3, <1>8
  <1>9. CASE \E n \in Lent : Revoke(n)
    BY <1>4, <1>9
  <1> QED  BY <1>5, <1>6, <1>7, <1>8, <1>9 DEF TableMoves

LEMMA SilentAsked ==
    /\ Silent \in Reply /\ Silent.state = "none"
    /\ Asked \in Reply /\ Asked.state = "asked"
    /\ [Silent EXCEPT !.state = "error"] \in Reply
    /\ [Silent EXCEPT !.state = "error"].state = "error"
  <1>1. Silent \in Reply /\ Silent.state = "none"
    <2>1. <<>> \in Seq(Entries)
      OBVIOUS
    <2> QED  BY <2>1 DEF Silent, Reply
  <1>2. \A state \in {"asked", "error"} :
            /\ [Silent EXCEPT !.state = state] \in Reply
            /\ [Silent EXCEPT !.state = state].state = state
    BY <1>1 DEF Reply
  <1> QED  BY <1>1, <1>2 DEF Asked

LEMMA BrowserMoved ==
    ASSUME TypeOK, BrowserMoves
    PROVE  /\ feed' \in NoteFeed /\ UNCHANGED <<table, steady>>
           /\ feed'.items = feed.items /\ feed'.cursor = feed.cursor
           /\ feed'.hasMore = feed.hasMore
           /\ feed'.loading => feed.loading \/ feed.hasMore
           /\ \/ reply' = reply
              \/ reply'.state = "asked" /\ reply' \in Reply
           /\ feed'.loading <=> reply'.state # "none"
  <1>0. feed \in NoteFeed /\ reply \in Reply /\ (feed.loading <=> reply.state # "none")
    BY DEF TypeOK
  <1>1. CASE Observe
    <2> DEFINE more == Sentinel = "near" /\ ~feed.loading
               loading == feed.loading \/ more
    <2>1. /\ feed' = [feed EXCEPT !.reported = Sentinel, !.loading = loading]
          /\ reply' = IF more THEN Asked ELSE reply
          /\ feed.hasMore /\ UNCHANGED <<table, steady>>
      BY <1>1 DEF Observe
    <2>2. Sentinel \in {"unknown", "near", "far"}
      BY DEF Sentinel
    <2>3. loading \in BOOLEAN
      BY <1>0 DEF NoteFeed
    <2>4. loading <=> reply'.state # "none"
      BY <1>0, <2>1, SilentAsked
    <2>5. reply' = reply \/ (reply'.state = "asked" /\ reply' \in Reply)
      BY <2>1, SilentAsked
    <2> HIDE DEF loading, more
    <2>6. /\ feed' \in NoteFeed /\ feed'.loading = loading
          /\ feed'.items = feed.items /\ feed'.cursor = feed.cursor
          /\ feed'.hasMore = feed.hasMore
      BY <1>0, <2>1, <2>2, <2>3 DEF NoteFeed
    <2> QED  BY <2>1, <2>4, <2>5, <2>6
  <1>2. ASSUME NEW to \in {0, Bottom}, Scroll(to)
        PROVE  /\ feed' \in NoteFeed /\ UNCHANGED <<table, reply, steady>>
               /\ feed'.items = feed.items /\ feed'.cursor = feed.cursor
               /\ feed'.hasMore = feed.hasMore /\ feed'.loading = feed.loading
    <2>1. Len(feed.items) \in Nat /\ Screen \in Nat
      BY <1>0, SizeAssumption, LenProperties DEF NoteFeed
    <2>2. to \in Nat
      BY <2>1 DEF Bottom
    <2>3. feed' = [feed EXCEPT !.top = to] /\ UNCHANGED <<table, reply, steady>>
      BY <1>2 DEF Scroll
    <2> QED  BY <1>0, <2>2, <2>3 DEF NoteFeed
  <1>3. CASE \E to \in {0, Bottom} : Scroll(to)
    BY <1>0, <1>2, <1>3
  <1> QED  BY <1>1, <1>3 DEF BrowserMoves

LEMMA ReplyArrives ==
    ASSUME TypeOK, Arrive
    PROVE  /\ feed' \in NoteFeed /\ ~feed'.loading
           /\ feed'.items = feed.items \o reply.items
           /\ feed'.cursor = reply.next
           /\ feed'.hasMore = (reply.next # NoCursor)
           /\ reply' = Silent /\ UNCHANGED <<table, steady>>
           /\ reply.state = "served" /\ feed.loading
  <1>0. feed \in NoteFeed /\ reply \in Reply /\ (feed.loading <=> reply.state # "none")
    BY DEF TypeOK
  <1> DEFINE items == feed.items \o reply.items
             more == reply.next # NoCursor
  <1>1. /\ feed' = [feed EXCEPT !.items = items, !.cursor = reply.next,
                                !.hasMore = more, !.loading = FALSE]
        /\ reply' = Silent /\ UNCHANGED <<table, steady>>
        /\ reply.state = "served"
    BY DEF Arrive
  <1>2. items \in Seq(Entries) /\ reply.next \in Entries \cup {NoCursor}
    <2>1. feed.items \in Seq(Entries) /\ reply.items \in Seq(Entries)
      BY <1>0 DEF NoteFeed, Reply
    <2> QED  BY <1>0, <2>1, ConcatProperties DEF Reply
  <1>3. more \in BOOLEAN
    OBVIOUS
  <1> HIDE DEF items, more
  <1>4. /\ feed' \in NoteFeed /\ ~feed'.loading /\ feed'.items = items
        /\ feed'.cursor = reply.next /\ feed'.hasMore = more
    BY <1>0, <1>1, <1>2, <1>3 DEF NoteFeed
  <1> QED  BY <1>0, <1>1, <1>4 DEF items, more

LEMMA ErrorArrives ==
    ASSUME TypeOK, ArriveError
    PROVE  /\ feed' \in NoteFeed /\ ~feed'.loading
           /\ feed'.items = feed.items /\ feed'.cursor = feed.cursor
           /\ feed'.hasMore = feed.hasMore
           /\ reply' = Silent /\ UNCHANGED <<table, steady>>
  BY DEF ArriveError, TypeOK, NoteFeed

(* What the server answers with. *)
LEMMA Served ==
    ASSUME TypeOK, Serve
    PROVE  /\ reply' \in Reply /\ reply'.state = "served"
           /\ reply.state = "asked" /\ UNCHANGED <<table, feed, steady>>
           /\ \/ IsPage(reply', feed.cursor)
              \/ /\ ~signedIn /\ reply'.next = NoCursor
                 /\ Len(reply'.items) = 1 /\ reply'.items[1].id = Sample
  <1> DEFINE sample == [id |-> Sample, at |-> MaxTime]
             page == [state |-> "served", next |-> NoCursor, items |-> <<sample>>]
  <1>1. reply.state = "asked" /\ UNCHANGED <<table, feed, steady>>
    BY DEF Serve
  <1>2. CASE signedIn
    <2>1. reply' = ListForViewer(feed.cursor)
      BY <1>2 DEF Serve
    <2>2. IsPage(reply', feed.cursor)
      BY <2>1, QueryGivesPage
    <2>3. reply' = [state |-> reply'.state, items |-> reply'.items, next |-> reply'.next]
      BY <2>1 DEF ListForViewer
    <2>4. reply' \in Reply /\ reply'.state = "served"
      BY <2>2, <2>3 DEF IsPage, Reply
    <2> QED  BY <1>1, <2>2, <2>4
  <1>3. CASE ~signedIn
    <2>1. reply' = page
      BY <1>3 DEF Serve
    <2>2. sample \in Entries /\ sample.id = Sample
      BY SizeAssumption DEF Entries, Instants
    <2> HIDE DEF sample
    <2>3. <<sample>> \in Seq(Entries) /\ Len(<<sample>>) = 1 /\ <<sample>>[1] = sample
      BY <2>2
    <2> QED  BY <1>1, <1>3, <2>1, <2>2, <2>3 DEF Reply
  <1> QED  BY <1>2, <1>3

-----------------------------------------------------------------------------
(* The invariant is kept. *)

LEMMA FeedTypeStep ==
    ASSUME TypeOK, [Next]_vars
    PROVE  TypeOK'
  <1>0. feed \in NoteFeed /\ reply \in Reply /\ (feed.loading <=> reply.state # "none")
    BY DEF TypeOK
  <1>1. CASE UNCHANGED vars
    BY <1>1 DEF vars, table, TypeOK
  <1>2. CASE TableMoves
    BY <1>2, TableMoved DEF TypeOK
  <1>3. CASE BrowserMoves
    BY <1>3, BrowserMoved DEF TypeOK, table
  <1>4. CASE Serve
    BY <1>0, <1>4, Served DEF TypeOK, table
  <1>5. CASE Fail
    BY <1>0, <1>5, SilentAsked DEF Fail, TypeOK, table
  <1>6. CASE Arrive
    BY <1>6, ReplyArrives, SilentAsked DEF TypeOK, table
  <1>7. CASE ArriveError
    BY <1>7, ErrorArrives, SilentAsked DEF TypeOK, table
  <1> QED  BY <1>1, <1>2, <1>3, <1>4, <1>5, <1>6, <1>7, FeedSteps

(* Lists that meet at a cursor. *)
LEMMA JoinedOrder ==
    ASSUME NEW s \in Seq(Entries), NEW t \in Seq(Entries), Ordered(s), Ordered(t),
           s = <<>> \/ t = <<>> \/ t[1].id = Sample \/ Before(t[1], s[Len(s)])
    PROVE  Ordered(s \o t)
  <1>1. /\ Len(s) \in Nat /\ Len(t) \in Nat /\ Len(s \o t) = Len(s) + Len(t)
        /\ \A i \in 1..(Len(s) + Len(t)) :
               (s \o t)[i] = IF i <= Len(s) THEN s[i] ELSE t[i - Len(s)]
    BY ConcatProperties, LenProperties
  <1> SUFFICES ASSUME NEW i \in 1..(Len(s) + Len(t) - 1),
                      (s \o t)[i + 1].id # Sample
               PROVE  Before((s \o t)[i + 1], (s \o t)[i])
    BY <1>1 DEF Ordered
  <1>2. /\ i \in 1..(Len(s) + Len(t)) /\ i + 1 \in 1..(Len(s) + Len(t))
    BY <1>1
  <1>3. CASE i < Len(s)
    <2>1. (s \o t)[i] = s[i] /\ (s \o t)[i + 1] = s[i + 1]
      BY <1>1, <1>2, <1>3
    <2>2. i \in 1..(Len(s) - 1)
      BY <1>1, <1>3
    <2> QED  BY <2>1, <2>2 DEF Ordered
  <1>4. CASE i = Len(s)
    <2>1. (s \o t)[i] = s[Len(s)] /\ (s \o t)[i + 1] = t[1]
      BY <1>1, <1>2, <1>4
    <2>2. s # <<>> /\ t # <<>>
      BY <1>1, <1>2, <1>4, EmptySeq
    <2> QED  BY <2>1, <2>2
  <1>5. CASE i > Len(s)
    <2>1. PICK j \in 1..(Len(t) - 1) : i = j + Len(s)
      <3>1. i - Len(s) \in 1..(Len(t) - 1) /\ i = (i - Len(s)) + Len(s)
        BY <1>1, <1>5
      <3> QED  BY <3>1
    <2>2. (s \o t)[i] = t[j] /\ (s \o t)[i + 1] = t[j + 1]
      BY <1>1, <1>2, <1>5, <2>1
    <2> QED  BY <2>1, <2>2 DEF Ordered
  <1> QED  BY <1>1, <1>3, <1>4, <1>5

LEMMA JoinedEnd ==
    ASSUME NEW s \in Seq(Entries), NEW t \in Seq(Entries), NEW c, EndsAt(t, c)
    PROVE  EndsAt(s \o t, c)
  <1> SUFFICES ASSUME c # NoCursor, t # <<>>, c = t[Len(t)]
               PROVE  s \o t # <<>> /\ c = (s \o t)[Len(s \o t)]
    BY DEF EndsAt
  <1>1. /\ Len(s) \in Nat /\ Len(t) \in Nat /\ Len(s \o t) = Len(s) + Len(t)
        /\ \A i \in 1..(Len(s) + Len(t)) :
               (s \o t)[i] = IF i <= Len(s) THEN s[i] ELSE t[i - Len(s)]
    BY ConcatProperties, LenProperties
  <1>2. Len(t) > 0
    BY EmptySeq
  <1>3. (s \o t)[Len(s) + Len(t)] = t[Len(t)]
    BY <1>1, <1>2
  <1>4. s \o t # <<>>
    BY <1>1, <1>2, EmptySeq
  <1> QED  BY <1>1, <1>3, <1>4

LEMMA PageIsOrdered ==
    ASSUME NEW p, NEW c \in Entries \cup {NoCursor}, IsPage(p, c)
    PROVE  PageJoins(p, c)
  <1>1. p.items \in Seq(Entries) /\ Len(p.items) \in Nat
        /\ DOMAIN p.items = 1..Len(p.items)
    BY LenProperties DEF IsPage
  <1>2. Ordered(p.items)
    BY <1>1 DEF IsPage, Ordered
  <1>3. EndsAt(p.items, p.next)
    BY DEF IsPage, EndsAt
  <1>4. p.items # <<>> /\ c # NoCursor => Before(p.items[1], c)
    <2> SUFFICES ASSUME p.items # <<>>, c # NoCursor PROVE Before(p.items[1], c)
      OBVIOUS
    <2>1. 1 \in DOMAIN p.items
      BY <1>1, EmptySeq
    <2>2. PICK m \in After(c) : p.items[1] = Entry(m)
      BY <2>1 DEF IsPage
    <2> QED  BY <2>2 DEF After
  <1> QED  BY <1>2, <1>3, <1>4 DEF PageJoins

LEMMA SeamsStep ==
    ASSUME TypeOK, SeamsHold, [Next]_vars
    PROVE  SeamsHold'
  <1>0. /\ feed \in NoteFeed /\ reply \in Reply
        /\ (feed.loading <=> reply.state # "none")
        /\ feed.items \in Seq(Entries) /\ feed.cursor \in Entries \cup {NoCursor}
        /\ reply.items \in Seq(Entries)
    BY DEF TypeOK, NoteFeed, Reply
  <1>1. CASE UNCHANGED <<feed, reply>>
    BY <1>1 DEF SeamsHold
  <1>2. CASE BrowserMoves
    BY <1>2, BrowserMoved DEF SeamsHold
  <1>3. CASE Serve
    <2>1. /\ reply'.state = "served" /\ feed' = feed /\ reply' \in Reply
          /\ \/ IsPage(reply', feed.cursor)
             \/ /\ reply'.next = NoCursor
                /\ Len(reply'.items) = 1 /\ reply'.items[1].id = Sample
      BY <1>3, Served
    <2>2. PageJoins(reply', feed.cursor)
      <3> PICK p : p = reply'
        OBVIOUS
      <3>1. CASE IsPage(p, feed.cursor)
        BY <1>0, <3>1, PageIsOrdered
      <3>2. CASE /\ p.next = NoCursor /\ Len(p.items) = 1
                 /\ p.items[1].id = Sample
        BY <3>2 DEF PageJoins, Ordered, EndsAt
      <3> QED  BY <2>1, <3>1, <3>2
    <2> QED  BY <2>1, <2>2 DEF SeamsHold
  <1>4. CASE Fail
    BY <1>4, SilentAsked DEF Fail, SeamsHold
  <1>5. CASE Arrive
    <2>1. /\ ~feed'.loading /\ feed'.items = feed.items \o reply.items
          /\ feed'.cursor = reply.next /\ feed'.hasMore = (reply.next # NoCursor)
          /\ reply' = Silent /\ reply.state = "served" /\ feed.loading
      BY <1>5, ReplyArrives
    <2>2. /\ Ordered(feed.items) /\ feed.hasMore
          /\ EndsAt(feed.items, feed.cursor)
          /\ feed.cursor = NoCursor => feed.items = <<>>
          /\ PageJoins(reply, feed.cursor)
      BY <2>1 DEF SeamsHold
    <2>3. Ordered(feed.items \o reply.items)
      BY <1>0, <2>2, JoinedOrder DEF PageJoins, EndsAt
    <2>4. EndsAt(feed.items \o reply.items, reply.next)
      BY <1>0, <2>2, JoinedEnd DEF PageJoins
    <2> QED  BY <2>1, <2>3, <2>4, SilentAsked DEF SeamsHold
  <1>6. CASE ArriveError
    BY <1>6, ErrorArrives, SilentAsked DEF SeamsHold
  <1>7. TableMoves \/ UNCHANGED vars => UNCHANGED <<feed, reply>>
    BY TableMoved DEF vars
  <1> QED  BY <1>1, <1>2, <1>3, <1>4, <1>5, <1>6, <1>7, FeedSteps

(* What is listed in two lists, one after the other. *)
LEMMA JoinedLists ==
    ASSUME NEW s \in Seq(Entries), NEW t \in Seq(Entries), NEW e
    PROVE  /\ Lists(s \o t, e.id) # {} <=> Lists(s, e.id) # {} \/ Lists(t, e.id) # {}
           /\ ListsOnce(s, e) /\ ListsOnce(t, e)
                  /\ ~(Lists(s, e.id) # {} /\ Lists(t, e.id) # {})
              => ListsOnce(s \o t, e)
  <1>1. /\ Len(s) \in Nat /\ Len(t) \in Nat /\ DOMAIN (s \o t) = 1..(Len(s) + Len(t))
        /\ DOMAIN s = 1..Len(s) /\ DOMAIN t = 1..Len(t)
        /\ \A i \in 1..(Len(s) + Len(t)) :
               (s \o t)[i] = IF i <= Len(s) THEN s[i] ELSE t[i - Len(s)]
    <2>1. s \o t \in Seq(Entries) /\ Len(s \o t) = Len(s) + Len(t)
      BY ConcatProperties
    <2> QED  BY <2>1, ConcatProperties, LenProperties
  <1>2. ASSUME NEW i \in Lists(s \o t, e.id)
        PROVE  \/ i \in Lists(s, e.id) /\ (s \o t)[i] = s[i]
               \/ i - Len(s) \in Lists(t, e.id) /\ (s \o t)[i] = t[i - Len(s)]
    <2>1. i \in 1..(Len(s) + Len(t)) /\ (s \o t)[i].id = e.id
      BY <1>1 DEF Lists
    <2>2. CASE i <= Len(s)
      BY <1>1, <2>1, <2>2 DEF Lists
    <2>3. CASE i > Len(s)
      <3>1. i - Len(s) \in 1..Len(t) /\ (s \o t)[i] = t[i - Len(s)]
        BY <1>1, <2>1, <2>3
      <3> QED  BY <1>1, <2>1, <3>1 DEF Lists
    <2> QED  BY <1>1, <2>1, <2>2, <2>3
  <1>3. ASSUME NEW i \in Lists(s, e.id) PROVE i \in Lists(s \o t, e.id)
    <2>1. i \in 1..Len(s) /\ s[i].id = e.id
      BY <1>1 DEF Lists
    <2>2. i \in 1..(Len(s) + Len(t)) /\ (s \o t)[i] = s[i]
      BY <1>1, <2>1
    <2> QED  BY <1>1, <2>1, <2>2 DEF Lists
  <1>4. ASSUME NEW i \in Lists(t, e.id) PROVE i + Len(s) \in Lists(s \o t, e.id)
    <2>1. i \in 1..Len(t) /\ t[i].id = e.id
      BY <1>1 DEF Lists
    <2>2. /\ i + Len(s) \in 1..(Len(s) + Len(t))
          /\ (s \o t)[i + Len(s)] = t[(i + Len(s)) - Len(s)]
          /\ (i + Len(s)) - Len(s) = i
      BY <1>1, <2>1
    <2> QED  BY <1>1, <2>1, <2>2 DEF Lists
  <1>5. Lists(s \o t, e.id) # {} <=> Lists(s, e.id) # {} \/ Lists(t, e.id) # {}
    BY <1>2, <1>3, <1>4
  <1>6. ASSUME ListsOnce(s, e), ListsOnce(t, e),
               ~(Lists(s, e.id) # {} /\ Lists(t, e.id) # {})
        PROVE  ListsOnce(s \o t, e)
    <2>1. ASSUME NEW i \in Lists(s \o t, e.id) PROVE (s \o t)[i] = e
      BY <1>2, <1>6 DEF ListsOnce
    <2>2. ASSUME NEW i \in Lists(s \o t, e.id), NEW j \in Lists(s \o t, e.id)
          PROVE  i = j
      <3>1. i \in Int /\ j \in Int
        BY <1>1 DEF Lists
      <3>2. CASE i \in Lists(s, e.id) /\ j \in Lists(s, e.id)
        BY <1>6, <3>2 DEF ListsOnce
      <3>3. CASE i - Len(s) \in Lists(t, e.id) /\ j - Len(s) \in Lists(t, e.id)
        <4>1. i - Len(s) = j - Len(s)
          BY <1>6, <3>3 DEF ListsOnce
        <4> QED  BY <1>1, <3>1, <4>1
      <3> QED  BY <1>2, <1>6, <3>2, <3>3
    <2> QED  BY <2>1, <2>2 DEF ListsOnce
  <1> QED  BY <1>5, <1>6

(* A page that has just been read fits the notes that can be seen. *)
LEMMA PageKnows ==
    ASSUME TypeOK, NEW c \in Entries \cup {NoCursor}, NEW p, IsPage(p, c),
           NEW n \in Visible
    PROVE  PageFits(p, c, Entry(n), TRUE)
  <1> DEFINE e == Entry(n)
             listed == Lists(p.items, e.id) # {}
  <1>1. ASSUME NEW m \in Visible
        PROVE  Entry(m) \in Entries /\ Entry(m).id = m
    BY <1>1 DEF Visible, TypeOK, Entry, Entries
  <1>2. e \in Entries /\ e.id = n
    BY <1>1
  <1>3. /\ p.items \in Seq(Entries) /\ DOMAIN p.items = 1..Len(p.items)
        /\ Len(p.items) \in Nat
    BY LenProperties DEF IsPage
  <1>4. ASSUME NEW i \in Lists(p.items, e.id)
        PROVE  i \in DOMAIN p.items /\ p.items[i] = e /\ n \in After(c)
    <2>1. i \in DOMAIN p.items /\ p.items[i].id = n
      BY <1>2 DEF Lists
    <2>2. PICK m \in After(c) : p.items[i] = Entry(m)
      BY <2>1 DEF IsPage
    <2>3. m = n
      BY <1>1, <2>1, <2>2 DEF After
    <2> QED  BY <2>1, <2>2, <2>3
  <1>5. ListsOnce(p.items, e)
    <2>1. ASSUME NEW i \in Lists(p.items, e.id), NEW j \in Lists(p.items, e.id),
                 i # j
          PROVE  FALSE
      <3>1. i \in Int /\ j \in Int /\ p.items[i] = e /\ p.items[j] = e
        BY <1>3, <1>4
      <3>2. i \in DOMAIN p.items /\ j \in DOMAIN p.items
        BY <1>4
      <3>3. CASE i < j
        <4>1. Before(p.items[j], p.items[i])
          BY <3>2, <3>3 DEF IsPage
        <4> QED  BY <1>2, <3>1, <4>1, BeforeIsOrder
      <3>4. CASE j < i
        <4>1. Before(p.items[i], p.items[j])
          BY <3>2, <3>4 DEF IsPage
        <4> QED  BY <1>2, <3>1, <4>1, BeforeIsOrder
      <3> QED  BY <2>1, <3>1, <3>3, <3>4
    <2> QED  BY <1>4, <2>1 DEF ListsOnce
  <1>6. listed => n \in After(c)
    BY <1>4
  <1>7. ~(listed /\ Passed(e, c))
    BY <1>6 DEF After, Passed
  <1>8. n \in After(c) \/ Passed(e, c)
    BY DEF After, Passed
  <1>9. n \in After(c) => listed \/ (p.next # NoCursor /\ Before(e, p.next))
    <2> SUFFICES ASSUME n \in After(c), NEW i \in DOMAIN p.items, p.items[i] = e
                 PROVE  listed
      BY DEF IsPage
    <2> QED  BY DEF Lists
  <1>10. p.next # NoCursor => ((listed \/ Passed(e, c)) <=> Passed(e, p.next))
    <2> SUFFICES ASSUME p.next # NoCursor
                 PROVE  (listed \/ Passed(e, c)) <=> ~Before(e, p.next)
      BY DEF Passed
    <2>1. /\ p.next \in Entries /\ p.items # <<>>
          /\ p.next = p.items[Len(p.items)]
      BY DEF IsPage
    <2>2. Len(p.items) \in DOMAIN p.items
      BY <1>3, <2>1, EmptySeq
    <2>3. PICK m \in After(c) : p.next = Entry(m)
      BY <2>1, <2>2 DEF IsPage
    <2>4. ASSUME listed PROVE ~Before(e, p.next)
      <3>1. PICK i \in DOMAIN p.items : p.items[i] = e
        BY <1>4, <2>4
      <3>2. CASE i = Len(p.items)
        BY <1>2, <2>1, <3>1, <3>2, BeforeIsOrder
      <3>3. CASE i < Len(p.items)
        <4>1. Before(p.next, e)
          BY <2>1, <2>2, <3>1, <3>3 DEF IsPage
        <4> QED  BY <1>2, <2>1, <4>1, BeforeIsOrder
      <3> QED  BY <1>3, <3>2, <3>3
    <2>5. ASSUME Passed(e, c), Before(e, p.next) PROVE FALSE
      <3>1. c # NoCursor /\ c \in Entries /\ ~Before(e, c)
        BY <2>5 DEF Passed
      <3>2. Before(p.next, c)
        BY <2>3, <3>1 DEF After
      <3> QED  BY <1>2, <2>1, <2>5, <3>1, <3>2, BeforeIsOrder
    <2> QED  BY <1>8, <1>9, <2>4, <2>5
  <1>11. p.next = NoCursor => listed \/ Passed(e, c)
    BY <1>8, <1>9
  <1> QED  BY <1>5, <1>7, <1>10, <1>11 DEF PageFits

LEMMA FitsJoined ==
    ASSUME NEW f, NEW p, NEW g, NEW e, NEW sure,
           f.items \in Seq(Entries), p.items \in Seq(Entries), f.hasMore,
           FeedFits(f, e, sure), PageFits(p, f.cursor, e, sure),
           g.items = f.items \o p.items, g.cursor = p.next,
           g.hasMore = (p.next # NoCursor)
    PROVE  FeedFits(g, e, sure)
  <1>1. /\ ListsOnce(f.items, e) /\ ListsOnce(p.items, e)
        /\ Lists(f.items, e.id) # {} <=> Passed(e, f.cursor)
        /\ ~(Lists(p.items, e.id) # {} /\ Passed(e, f.cursor))
    BY DEF FeedFits, PageFits
  <1>2. /\ ListsOnce(g.items, e)
        /\ Lists(g.items, e.id) # {} <=>
               Lists(f.items, e.id) # {} \/ Lists(p.items, e.id) # {}
    <2> PICK s, t : s = f.items /\ t = p.items
      OBVIOUS
    <2>1. /\ ListsOnce(s, e) /\ ListsOnce(t, e)
          /\ ~(Lists(s, e.id) # {} /\ Lists(t, e.id) # {})
      BY <1>1
    <2>2. /\ Lists(s \o t, e.id) # {}
              <=> Lists(s, e.id) # {} \/ Lists(t, e.id) # {}
          /\ ListsOnce(s \o t, e)
      BY <2>1, JoinedLists
    <2> QED  BY <2>2
  <1> QED  BY <1>1, <1>2 DEF FeedFits, PageFits

(* The sample note is nobody's note. *)
LEMMA SampleFits ==
    ASSUME NEW c, NEW p, NEW e, e.id \in Notes,
           Len(p.items) = 1, p.items \in Seq(Entries), p.items[1].id = Sample,
           p.next = NoCursor
    PROVE  PageFits(p, c, e, FALSE)
  <1>1. DOMAIN p.items = 1..1
    BY LenProperties
  <1>2. e.id # Sample
    BY IdAssumption
  <1>3. Lists(p.items, e.id) = {}
    BY <1>1, <1>2 DEF Lists
  <1> QED  BY <1>3 DEF PageFits, ListsOnce

LEMMA SteadyStep ==
    ASSUME TypeOK, SeamsHold, SteadyIsKnown, [Next]_vars
    PROVE  SteadyIsKnown'
  <1>0. /\ feed \in NoteFeed /\ reply \in Reply /\ steady \subseteq Notes
        /\ feed.items \in Seq(Entries) /\ feed.cursor \in Entries \cup {NoCursor}
        /\ reply.items \in Seq(Entries) /\ signedIn \in BOOLEAN
    BY DEF TypeOK, NoteFeed, Reply
  <1>1. ASSUME NEW n \in steady, NEW e, e = Entry(n)
        PROVE  /\ n \in Visible /\ FeedFits(feed, e, signedIn) /\ e.id = n
               /\ reply.state = "served" => PageFits(reply, feed.cursor, e, signedIn)
    BY <1>1 DEF SteadyIsKnown, Entry
  <1> SUFFICES ASSUME NEW n \in steady'
               PROVE  /\ n \in Visible'
                      /\ FeedFits(feed, Entry(n), signedIn)'
                      /\ reply'.state = "served" =>
                             PageFits(reply, feed.cursor, Entry(n), signedIn)'
    BY DEF SteadyIsKnown
  <1> PICK e : e = Entry(n)
    OBVIOUS
  <1>2. CASE UNCHANGED vars
    <2>1. n \in steady
      BY <1>2 DEF vars
    <2> QED  BY <1>1, <1>2, <2>1 DEF vars, table, Visible, Entry
  <1>3. CASE TableMoves
    <2>1. /\ UNCHANGED <<feed, reply>> /\ n \in steady /\ signedIn' \in BOOLEAN
          /\ updated'[n] = updated[n] /\ (n \in Visible => n \in Visible')
          /\ signedIn' => signedIn
      BY <1>3, TableMoved
    <2>2. Entry(n)' = e
      BY <2>1 DEF Entry
    <2>3. /\ FeedFits(feed, e, signedIn')
          /\ reply.state = "served" => PageFits(reply, feed.cursor, e, signedIn')
      BY <1>1, <2>1 DEF FeedFits, PageFits
    <2> QED  BY <1>1, <2>1, <2>2, <2>3
  <1>4. ASSUME UNCHANGED <<table, steady>>
        PROVE  /\ n \in steady /\ Entry(n)' = e /\ signedIn' = signedIn
               /\ n \in Visible /\ n \in Visible' /\ FeedFits(feed, e, signedIn)
               /\ reply.state = "served" => PageFits(reply, feed.cursor, e, signedIn)
    <2>1. n \in steady
      BY <1>4
    <2>2. Entry(n)' = e /\ Visible' = Visible
      BY <1>4 DEF table, Entry, Visible
    <2> QED  BY <1>1, <1>4, <2>1, <2>2 DEF table
  <1>5. CASE BrowserMoves
    <2>1. /\ UNCHANGED <<table, steady>>
          /\ feed'.items = feed.items /\ feed'.cursor = feed.cursor
          /\ feed'.hasMore = feed.hasMore
          /\ reply' = reply \/ reply'.state = "asked"
      BY <1>5, BrowserMoved
    <2>2. FeedFits(feed', e, signedIn)
      BY <1>4, <2>1 DEF FeedFits
    <2> QED  BY <1>4, <2>1, <2>2
  <1>6. CASE Serve
    <2>1. /\ UNCHANGED <<table, feed, steady>> /\ reply' \in Reply
          /\ \/ IsPage(reply', feed.cursor)
             \/ /\ ~signedIn /\ reply'.next = NoCursor
                /\ Len(reply'.items) = 1 /\ reply'.items[1].id = Sample
      BY <1>6, Served
    <2> PICK p : p = reply'
      OBVIOUS
    <2>2. PageFits(p, feed.cursor, e, signedIn)
      <3>1. CASE IsPage(p, feed.cursor)
        <4>1. PageFits(p, feed.cursor, e, TRUE)
          BY <1>0, <1>4, <2>1, <3>1, PageKnows
        <4> QED  BY <4>1 DEF PageFits
      <3>2. CASE /\ ~signedIn /\ p.next = NoCursor
                 /\ Len(p.items) = 1 /\ p.items[1].id = Sample
        <4>1. e.id \in Notes
          BY <1>0, <1>1, <1>4, <2>1
        <4>2. p.items \in Seq(Entries)
          BY <2>1 DEF Reply
        <4>3. PageFits(p, feed.cursor, e, FALSE)
          BY <3>2, <4>1, <4>2, SampleFits
        <4> QED  BY <1>0, <3>2, <4>3 DEF PageFits
      <3> QED  BY <2>1, <3>1, <3>2
    <2> QED  BY <1>4, <2>1, <2>2
  <1>7. CASE Fail
    <2>1. UNCHANGED <<table, feed, steady>> /\ reply'.state = "error"
      BY <1>7, SilentAsked DEF Fail
    <2> QED  BY <1>4, <2>1
  <1>8. CASE Arrive
    <2>1. /\ UNCHANGED <<table, steady>> /\ reply'.state = "none"
          /\ feed'.items = feed.items \o reply.items /\ feed'.cursor = reply.next
          /\ feed'.hasMore = (reply.next # NoCursor)
          /\ reply.state = "served" /\ feed.loading
      BY <1>8, ReplyArrives, SilentAsked
    <2>2. feed.hasMore
      BY <2>1 DEF SeamsHold
    <2> PICK g : g = feed'
      OBVIOUS
    <2>3. FeedFits(g, e, signedIn)
      BY <1>0, <1>4, <2>1, <2>2, FitsJoined
    <2> QED  BY <1>4, <2>1, <2>3
  <1>9. CASE ArriveError
    <2>1. /\ UNCHANGED <<table, steady>> /\ reply'.state = "none"
          /\ feed'.items = feed.items /\ feed'.cursor = feed.cursor
          /\ feed'.hasMore = feed.hasMore
      BY <1>9, ErrorArrives, SilentAsked
    <2>2. FeedFits(feed', e, signedIn)
      BY <1>4, <2>1 DEF FeedFits
    <2> QED  BY <1>4, <2>1, <2>2
  <1> QED  BY <1>2, <1>3, <1>5, <1>6, <1>7, <1>8, <1>9, FeedSteps

LEMMA FInvInit ==
    ASSUME Init
    PROVE  FInv
  <1> DEFINE mounted == [items |-> <<>>, cursor |-> NoCursor, hasMore |-> TRUE,
                         loading |-> TRUE, failed |-> FALSE, top |-> 0,
                         reported |-> "unknown"]
  <1>1. /\ updated \in [Notes -> Instants \cup {Absent}]
        /\ shared \subseteq Lent /\ signedIn = TRUE
        /\ feed = mounted /\ reply = Asked /\ steady = Visible
    BY DEF Init
  <1>2. <<>> \in Seq(Entries) /\ Len(<<>>) = 0 /\ DOMAIN <<>> = {}
    OBVIOUS
  <1>3. TypeOK
    <2>1. feed \in NoteFeed
      BY <1>1, <1>2 DEF NoteFeed
    <2>2. steady \subseteq Notes
      BY <1>1 DEF Visible
    <2> QED  BY <1>1, <2>1, <2>2, SilentAsked DEF TypeOK
  <1>4. SeamsHold
    <2>1. Ordered(<<>>)
      BY <1>2 DEF Ordered
    <2> QED  BY <1>1, <2>1, SilentAsked DEF SeamsHold, EndsAt
  <1>5. SteadyIsKnown
    <2>1. ASSUME NEW e PROVE FeedFits(feed, e, signedIn)
      <3>1. Lists(feed.items, e.id) = {}
        BY <1>1, <1>2 DEF Lists
      <3> QED  BY <1>1, <3>1 DEF FeedFits, ListsOnce, Passed
    <2> QED  BY <1>1, <2>1, SilentAsked DEF SteadyIsKnown
  <1> QED  BY <1>3, <1>4, <1>5 DEF FInv

LEMMA FInvHolds == Spec => []FInv
  <1>1. Init => FInv
    BY FInvInit
  <1>2. FInv /\ [Next]_vars => FInv'
    BY FeedTypeStep, SeamsStep, SteadyStep DEF FInv
  <1> QED  BY <1>1, <1>2, PTL DEF Spec

-----------------------------------------------------------------------------
(* What follows. *)

(* The state of useNoteFeed, its request and the table keep their types,   *)
(* and the feed is loading exactly while a request is under way.           *)
THEOREM FeedTypeCorrect == Spec => []TypeOK
  <1>1. FInv => TypeOK
    BY DEF FInv
  <1> QED  BY <1>1, FInvHolds, PTL

(* "Newest-edited first": each card was older, as text, than the one above *)
(* it when its page was read, within the pages of list_for_viewer and over *)
(* the seams that loadMore makes.                                          *)
THEOREM NewestFirstHolds == Spec => []NewestFirst
  <1>1. FInv => NewestFirst
    BY DEF FInv, SeamsHold, Ordered, NewestFirst
  <1> QED  BY <1>1, FInvHolds, PTL

(* ADR 0007, "pagination is stable even as notes are edited": a note that  *)
(* nobody touches while the feed is scrolled is on one card at most, and   *)
(* when a signed-in viewer's list_for_viewer has no next page it is on one.*)
THEOREM SteadyNotesOnceHolds == Spec => []SteadyNotesOnce
  <1>1. ASSUME FInv PROVE SteadyNotesOnce
    <2> SUFFICES ASSUME NEW n \in steady
                 PROVE  /\ Cardinality(Places(n)) <= 1
                        /\ ~feed.hasMore /\ signedIn => Places(n) # {}
      BY DEF SteadyNotesOnce
    <2>1. FeedFits(feed, Entry(n), signedIn) /\ Entry(n).id = n
      BY <1>1 DEF FInv, SteadyIsKnown, Entry
    <2>2. Places(n) = Lists(feed.items, n)
      BY DEF Places, Lists
    <2>3. \A i, j \in Places(n) : i = j
      BY <2>1, <2>2 DEF FeedFits, ListsOnce
    <2>4. CASE Places(n) = {}
      BY <2>1, <2>2, <2>4, FS_EmptySet DEF FeedFits
    <2>5. CASE Places(n) # {}
      <3>1. PICK i : Places(n) = {i}
        BY <2>3, <2>5
      <3> QED  BY <2>5, <3>1, FS_Singleton
    <2> QED  BY <2>4, <2>5
  <1> QED  BY <1>1, FInvHolds, PTL
=============================================================================
