----------------------- MODULE PlaylistOrder_proofs -----------------------
(***************************************************************************)
(* Positions number the members of a playlist: as long as nothing was      *)
(* written from rows others had changed, no two of them are equal.  And    *)
(* the client's queue, replayed on what the server has, gives the list the *)
(* client shows.  Which operation the handler is at does not matter to it: *)
(* what is done of the first operation is nothing the second time.         *)
(***************************************************************************)
EXTENDS PlaylistOrder, SequenceTheorems, FiniteSetTheorems, WellFoundedInduction, TLAPS

Handler == [op : Operation, todo : Seq(Episodes), seen : Seq(Episodes), free : Int,
            phase : {"read", "write", "done"}, reply : {"none", "ok", "refused", "error"}]

OrderTypes ==
    /\ position \in [DOMAIN position -> Int] /\ DOMAIN position \subseteq Episodes
    /\ alive \subseteq Episodes
    /\ handling \in [DOMAIN handling -> Handler] /\ DOMAIN handling \subseteq Requesters
    /\ \A s \in DOMAIN handling : Writes(s, {"add"}) => handling[s].todo # <<>>
    /\ outbox \in Seq(Operation)
    /\ waiting \in BOOLEAN /\ (waiting => "app" \in DOMAIN handling /\ outbox # <<>>)
    /\ crossed \in BOOLEAN

\* Every member has its place in the order, and one only.
Covers(order, pos) == IsInjective(order) /\ DOMAIN pos \subseteq ToSet(order)

Above(n, pos) == \A e \in DOMAIN pos : pos[e] < n

\* What a handler has read still holds, unless others have written since.
Fresh(s) ==
    handling[s].phase = "write" /\ s \notin overtaken =>
        /\ Covers(handling[s].seen, position)
        /\ handling[s].op.kind = "add" => Above(handling[s].free, position)

OrderInv == OrderTypes /\ (\A s \in DOMAIN handling : Fresh(s)) /\ Numbered

-----------------------------------------------------------------------------
(* Sequences, sets of numbers.                                             *)

LEMMA NatBelow == IsWellFoundedOn({ss \in Nat \X Nat : ss[1] < ss[2]}, Nat)
BY NatLessThanWellFounded DEF OpToRel

\* A finite set of integers has a greatest element: fewest are above it.
LEMMA GreatestOf ==
    ASSUME NEW S \in SUBSET Int, S # {}, IsFiniteSet(S)
    PROVE  \E m \in S : \A s \in S : s <= m
<1> DEFINE R == {ss \in Nat \X Nat : ss[1] < ss[2]}
<1> DEFINE T == {Cardinality({y \in S : y > x}) : x \in S}
<1>1. \A x \in S : IsFiniteSet({y \in S : y > x}) /\ Cardinality({y \in S : y > x}) \in Nat
  <2> TAKE x \in S
  <2>1. {y \in S : y > x} \in SUBSET S  OBVIOUS
  <2>2. IsFiniteSet({y \in S : y > x})
    BY <2>1, FS_Subset
  <2> QED BY <2>2, FS_CardinalityType
<1>2. T \subseteq Nat /\ T # {}  BY <1>1
<1>3. PICK n \in T : \A k \in T : <<k, n>> \notin R
  <2>1. IsWellFoundedOn(R, Nat)  BY NatBelow
  <2> HIDE DEF T, R
  <2> QED BY <1>2, <2>1, WFMin
<1>4. PICK m \in S : n = Cardinality({y \in S : y > m})  OBVIOUS
<1>5. ASSUME NEW s \in S, s > m PROVE FALSE
  <2>1. {y \in S : y > s} \subseteq {y \in S : y > m}
    <3>1. \A y \in S : y > s => y > m  BY <1>5
    <3> QED BY <3>1
  <2>2. s \in {y \in S : y > m} /\ s \notin {y \in S : y > s}  BY <1>5
  <2>3. Cardinality({y \in S : y > s}) < Cardinality({y \in S : y > m})
    <3>1. IsFiniteSet({y \in S : y > m})  BY <1>1
    <3>2. {y \in S : y > s} # {y \in S : y > m}  BY <2>2
    <3>3. /\ Cardinality({y \in S : y > s}) <= Cardinality({y \in S : y > m})
          /\ Cardinality({y \in S : y > s}) = Cardinality({y \in S : y > m})
             => {y \in S : y > s} = {y \in S : y > m}
      BY <2>1, <3>1, FS_Subset
    <3> QED BY <3>2, <3>3, <1>1
  <2>4. <<Cardinality({y \in S : y > s}), n>> \in R
    BY <1>1, <1>4, <2>3
  <2>5. Cardinality({y \in S : y > s}) \in T  OBVIOUS
  <2> QED BY <1>3, <2>4, <2>5
<1> QED BY <1>5

\* An element put into an order.
Inserted(new, ids, at, e) ==
    /\ Len(new) = Len(ids) + 1
    /\ \A i \in 1..(Len(ids) + 1) : new[i] = IF i < at THEN ids[i] ELSE IF i = at THEN e ELSE ids[i - 1]

LEMMA InsertedAt ==
    ASSUME NEW S, NEW ids \in Seq(S), NEW e \in S, NEW at \in 1..(Len(ids) + 1)
    PROVE  InsertAt(ids, at, e) \in Seq(S) /\ Inserted(InsertAt(ids, at, e), ids, at, e)
<1>1. Len(ids) \in Nat /\ \A i \in 1..Len(ids) : ids[i] \in S  BY LenProperties, ElementOfSeq
<1>2. PICK a : a = SubSeq(ids, 1, at - 1)  OBVIOUS
<1>3. PICK b : b = SubSeq(ids, at, Len(ids))  OBVIOUS
<1>4. a \in Seq(S) /\ Len(a) = at - 1 /\ \A i \in 1..(at - 1) : a[i] = ids[i]
  <2>1. \A i \in 1..(at - 1) : ids[i] \in S  BY <1>1
  <2>2. at - 1 \in Int  OBVIOUS
  <2>3. /\ a \in Seq(S)
        /\ Len(a) = IF 1 <= at - 1 THEN (at - 1) - 1 + 1 ELSE 0
        /\ \A i \in 1..((at - 1) - 1 + 1) : a[i] = ids[1 + i - 1]
    BY <1>2, <2>1, <2>2, SubSeqProperties
  <2> QED BY <2>3
<1>5. b \in Seq(S) /\ Len(b) = Len(ids) + 1 - at /\ \A i \in 1..(Len(ids) + 1 - at) : b[i] = ids[at + i - 1]
  <2>1. \A i \in at..Len(ids) : ids[i] \in S  BY <1>1
  <2>3. /\ b \in Seq(S)
        /\ Len(b) = IF at <= Len(ids) THEN Len(ids) - at + 1 ELSE 0
        /\ \A i \in 1..(Len(ids) - at + 1) : b[i] = ids[at + i - 1]
    BY <1>1, <1>3, <2>1, SubSeqProperties
  <2> QED BY <1>1, <2>3
<1>6. PICK m : m = <<e>>  OBVIOUS
<1>7. m \in Seq(S) /\ Len(m) = 1 /\ m[1] = e  BY <1>6
<1>8. PICK c : c = a \o m  OBVIOUS
<1>9. c \in Seq(S) /\ Len(c) = at /\ \A i \in 1..at : c[i] = IF i < at THEN ids[i] ELSE e
  <2>1. /\ c \in Seq(S) /\ Len(c) = Len(a) + Len(m)
        /\ \A i \in 1..(Len(a) + Len(m)) : c[i] = IF i <= Len(a) THEN a[i] ELSE m[i - Len(a)]
    BY <1>4, <1>7, <1>8, ConcatProperties
  <2> QED BY <1>4, <1>7, <2>1
<1>10. InsertAt(ids, at, e) = c \o b  BY <1>2, <1>3, <1>6, <1>8 DEF InsertAt
<1>11. /\ c \o b \in Seq(S) /\ Len(c \o b) = Len(c) + Len(b)
       /\ \A i \in 1..(Len(c) + Len(b)) : (c \o b)[i] = IF i <= Len(c) THEN c[i] ELSE b[i - Len(c)]
  BY <1>5, <1>9, ConcatProperties
<1> QED BY <1>1, <1>5, <1>9, <1>10, <1>11 DEF Inserted

\* An element taken out of an order.
LEMMA RemovedAt ==
    ASSUME NEW S, NEW ids \in Seq(S), NEW at \in 1..Len(ids)
    PROVE  /\ RemoveAt(ids, at) \in Seq(S)
           /\ Len(RemoveAt(ids, at)) = Len(ids) - 1
           /\ \A i \in 1..(Len(ids) - 1) : RemoveAt(ids, at)[i] = IF i < at THEN ids[i] ELSE ids[i + 1]
<1>1. Len(ids) \in Nat /\ \A i \in 1..Len(ids) : ids[i] \in S  BY LenProperties, ElementOfSeq
<1>2. PICK a : a = SubSeq(ids, 1, at - 1)  OBVIOUS
<1>3. PICK b : b = SubSeq(ids, at + 1, Len(ids))  OBVIOUS
<1>4. a \in Seq(S) /\ Len(a) = at - 1 /\ \A i \in 1..(at - 1) : a[i] = ids[i]
  <2>1. \A i \in 1..(at - 1) : ids[i] \in S  BY <1>1
  <2>2. at - 1 \in Int  OBVIOUS
  <2>3. /\ a \in Seq(S)
        /\ Len(a) = IF 1 <= at - 1 THEN (at - 1) - 1 + 1 ELSE 0
        /\ \A i \in 1..((at - 1) - 1 + 1) : a[i] = ids[1 + i - 1]
    BY <1>2, <2>1, <2>2, SubSeqProperties
  <2> QED BY <2>3
<1>5. b \in Seq(S) /\ Len(b) = Len(ids) - at /\ \A i \in 1..(Len(ids) - at) : b[i] = ids[at + i]
  <2>1. \A i \in (at + 1)..Len(ids) : ids[i] \in S  BY <1>1
  <2>2. at + 1 \in Int  OBVIOUS
  <2>3. /\ b \in Seq(S)
        /\ Len(b) = IF at + 1 <= Len(ids) THEN Len(ids) - (at + 1) + 1 ELSE 0
        /\ \A i \in 1..(Len(ids) - (at + 1) + 1) : b[i] = ids[(at + 1) + i - 1]
    BY <1>1, <1>3, <2>1, <2>2, SubSeqProperties
  <2> QED BY <1>1, <2>3
<1>6. RemoveAt(ids, at) = a \o b  BY <1>2, <1>3 DEF RemoveAt
<1>7. /\ a \o b \in Seq(S) /\ Len(a \o b) = Len(a) + Len(b)
      /\ \A i \in 1..(Len(a) + Len(b)) : (a \o b)[i] = IF i <= Len(a) THEN a[i] ELSE b[i - Len(a)]
  BY <1>4, <1>5, ConcatProperties
<1> QED BY <1>1, <1>4, <1>5, <1>6, <1>7

\* Where an element stands.
LEMMA IndexFound ==
    ASSUME NEW S, NEW ids \in Seq(S), NEW e \in ToSet(ids)
    PROVE  Index(ids, e) \in 1..Len(ids) /\ ids[Index(ids, e)] = e
<1>1. DOMAIN ids = 1..Len(ids)  BY LenProperties
<1>2. \E i \in DOMAIN ids : ids[i] = e  BY DEF ToSet
<1> QED BY <1>1, <1>2 DEF Index

\* Every element once, before and after.
LEMMA InsertKeepsOrder ==
    ASSUME NEW S, NEW ids \in Seq(S), NEW e \in S, NEW at \in 1..(Len(ids) + 1),
           IsInjective(ids), e \notin ToSet(ids)
    PROVE  /\ InsertAt(ids, at, e) \in Seq(S) /\ IsInjective(InsertAt(ids, at, e))
           /\ ToSet(InsertAt(ids, at, e)) = ToSet(ids) \cup {e}
<1>1. PICK new : new = InsertAt(ids, at, e)  OBVIOUS
<1>2. /\ new \in Seq(S) /\ Len(new) = Len(ids) + 1
      /\ \A i \in 1..(Len(ids) + 1) : new[i] = IF i < at THEN ids[i] ELSE IF i = at THEN e ELSE ids[i - 1]
  <2>1. InsertAt(ids, at, e) \in Seq(S) /\ Inserted(InsertAt(ids, at, e), ids, at, e)  BY InsertedAt
  <2> QED BY <1>1, <2>1 DEF Inserted
<1>3. DOMAIN ids = 1..Len(ids) /\ DOMAIN new = 1..(Len(ids) + 1) /\ Len(ids) \in Nat
  BY <1>2, LenProperties
<1>4. \A i \in 1..Len(ids) : ids[i] # e  BY <1>3 DEF ToSet
<1>5. IsInjective(new)
  <2> SUFFICES ASSUME NEW i \in DOMAIN new, NEW j \in DOMAIN new, new[i] = new[j], i < j
               PROVE  FALSE
    BY <1>3 DEF IsInjective
  <2>1. CASE j = at  BY <1>2, <1>3, <1>4, <2>1
  <2>2. CASE i = at  BY <1>2, <1>3, <1>4, <2>2
  <2>3. CASE i # at /\ j # at
    <3>1. PICK a : a = IF i < at THEN i ELSE i - 1  OBVIOUS
    <3>2. PICK b : b = IF j < at THEN j ELSE j - 1  OBVIOUS
    <3>3. a \in DOMAIN ids /\ b \in DOMAIN ids /\ a # b  BY <1>3, <2>3, <3>1, <3>2
    <3>4. new[i] = ids[a] /\ new[j] = ids[b]  BY <1>2, <1>3, <2>3, <3>1, <3>2
    <3> QED BY <3>3, <3>4 DEF IsInjective
  <2> QED BY <2>1, <2>2, <2>3
<1>6. ASSUME NEW x \in ToSet(ids) PROVE x \in ToSet(new)
  <2>1. PICK i \in 1..Len(ids) : ids[i] = x  BY <1>3 DEF ToSet
  <2>2. new[IF i < at THEN i ELSE i + 1] = x /\ (IF i < at THEN i ELSE i + 1) \in DOMAIN new
    BY <1>2, <1>3, <2>1
  <2> QED BY <2>2 DEF ToSet
<1>7. e \in ToSet(new)
  BY <1>2, <1>3 DEF ToSet
<1>8. ToSet(new) \subseteq ToSet(ids) \cup {e}
  <2> SUFFICES ASSUME NEW i \in DOMAIN new PROVE new[i] \in ToSet(ids) \cup {e}
    BY DEF ToSet
  <2>1. CASE i = at  BY <1>2, <1>3, <2>1
  <2>2. CASE i < at
    <3>1. new[i] = ids[i] /\ i \in DOMAIN ids  BY <1>2, <1>3, <2>2
    <3> QED BY <3>1 DEF ToSet
  <2>3. CASE i > at
    <3>1. new[i] = ids[i - 1] /\ i - 1 \in DOMAIN ids  BY <1>2, <1>3, <2>3
    <3> QED BY <3>1 DEF ToSet
  <2> QED BY <1>3, <2>1, <2>2, <2>3
<1> QED BY <1>1, <1>2, <1>5, <1>6, <1>7, <1>8

LEMMA RemoveKeepsOrder ==
    ASSUME NEW S, NEW ids \in Seq(S), NEW at \in 1..Len(ids), IsInjective(ids)
    PROVE  /\ RemoveAt(ids, at) \in Seq(S) /\ IsInjective(RemoveAt(ids, at))
           /\ Len(RemoveAt(ids, at)) = Len(ids) - 1
           /\ ToSet(RemoveAt(ids, at)) = ToSet(ids) \ {ids[at]}
<1>1. PICK new : new = RemoveAt(ids, at)  OBVIOUS
<1>2. /\ new \in Seq(S) /\ Len(new) = Len(ids) - 1
      /\ \A i \in 1..(Len(ids) - 1) : new[i] = IF i < at THEN ids[i] ELSE ids[i + 1]
  BY <1>1, RemovedAt
<1>3. DOMAIN ids = 1..Len(ids) /\ DOMAIN new = 1..(Len(ids) - 1) /\ Len(ids) \in Nat
  BY <1>2, LenProperties
<1>4. \A i \in 1..Len(ids) : i # at => ids[i] # ids[at]  BY <1>3 DEF IsInjective
<1>5. IsInjective(new)
  <2> SUFFICES ASSUME NEW i \in DOMAIN new, NEW j \in DOMAIN new, new[i] = new[j], i < j
               PROVE  FALSE
    BY <1>3 DEF IsInjective
  <2>1. PICK a : a = IF i < at THEN i ELSE i + 1  OBVIOUS
  <2>2. PICK b : b = IF j < at THEN j ELSE j + 1  OBVIOUS
  <2>3. a \in DOMAIN ids /\ b \in DOMAIN ids /\ a # b  BY <1>3, <2>1, <2>2
  <2>4. new[i] = ids[a] /\ new[j] = ids[b]  BY <1>2, <1>3, <2>1, <2>2
  <2> QED BY <2>3, <2>4 DEF IsInjective
<1>6. ASSUME NEW x \in ToSet(ids), x # ids[at] PROVE x \in ToSet(new)
  <2>1. PICK i \in 1..Len(ids) : ids[i] = x  BY <1>3 DEF ToSet
  <2>2. i # at  BY <1>6, <2>1
  <2>3. CASE i < at
    <3>1. i \in DOMAIN new /\ new[i] = x  BY <1>2, <1>3, <2>1, <2>3
    <3> QED BY <3>1 DEF ToSet
  <2>4. CASE i > at
    <3>1. i - 1 \in DOMAIN new /\ new[i - 1] = x  BY <1>2, <1>3, <2>1, <2>4
    <3> QED BY <3>1 DEF ToSet
  <2> QED BY <1>3, <2>2, <2>3, <2>4
<1>7. ASSUME NEW i \in DOMAIN new PROVE new[i] \in ToSet(ids) \ {ids[at]}
  <2>1. CASE i < at
    <3>1. i \in DOMAIN ids /\ new[i] = ids[i] /\ i # at  BY <1>2, <1>3, <2>1
    <3> QED BY <1>3, <1>4, <3>1 DEF ToSet
  <2>2. CASE i >= at
    <3>1. i + 1 \in DOMAIN ids /\ new[i] = ids[i + 1] /\ i + 1 # at  BY <1>2, <1>3, <2>2
    <3> QED BY <1>3, <1>4, <3>1 DEF ToSet
  <2> QED BY <1>3, <2>1, <2>2
<1>8. ToSet(new) \subseteq ToSet(ids) \ {ids[at]}
  BY <1>7 DEF ToSet
<1> QED BY <1>1, <1>2, <1>5, <1>6, <1>8

\* The orders of a set.
LEMMA OrdersOf ==
    ASSUME NEW E, IsFiniteSet(E), NEW ids \in SetToSeqs(E)
    PROVE  ids \in Seq(E) /\ IsInjective(ids) /\ ToSet(ids) = E
<1>1. PICK n : n = Cardinality(E)  OBVIOUS
<1>2. n \in Nat  BY <1>1, FS_CardinalityType
<1>3. ids \in [1..n -> E] /\ \A i, j \in 1..n : i # j => ids[i] # ids[j]
  BY <1>1 DEF SetToSeqs
<1>4. ids \in Seq(E)  BY <1>2, <1>3, SeqDef
<1>5. ids \in Injection(1..n, E)  BY <1>3 DEF Injection, IsInjective
<1>6. IsFiniteSet(1..n) /\ Cardinality(1..n) = n
  BY <1>2, FS_Interval
<1>7. ids \in Surjection(1..n, E)
  BY <1>1, <1>5, <1>6, FS_Injection
<1>8. ToSet(ids) = E
  BY <1>3, <1>7 DEF Surjection, ToSet
<1> QED BY <1>3, <1>4, <1>8 DEF IsInjective

-----------------------------------------------------------------------------
(* The operators of the model.                                             *)

LEMMA EpisodesFinite == IsFiniteSet(Episodes)
<1>1. ASSUME NEW ids \in Seq(Episodes) PROVE IsFiniteSet(ToSet(ids))
  <2>1. Len(ids) \in Nat /\ DOMAIN ids = 1..Len(ids) /\ ids \in [1..Len(ids) -> Episodes]
    BY LenProperties
  <2>2. ids \in Surjection(1..Len(ids), ToSet(ids))
    BY <2>1 DEF Surjection, ToSet
  <2>3. IsFiniteSet(1..Len(ids))  BY <2>1, FS_Interval
  <2> QED BY <2>2, <2>3, FS_Surjection
<1>2. IsFiniteSet(ToSet(Members)) /\ IsFiniteSet(ToSet(Batch)) /\ IsFiniteSet(Others)
  BY <1>1, OrderAssumption
<1>3. IsFiniteSet(ToSet(Members) \cup Others)  BY <1>2, FS_Union
<1> QED BY <1>2, <1>3, FS_Union DEF Episodes

\* A playlist as the server keeps it: integers for some of the episodes.
Rows(pos) == pos \in [DOMAIN pos -> Int] /\ DOMAIN pos \subseteq Episodes

LEMMA RowsFinite ==
    ASSUME NEW pos, Rows(pos)
    PROVE  IsFiniteSet(DOMAIN pos)
BY EpisodesFinite, FS_Subset DEF Rows

\* What a handler reads is every member once.
LEMMA OrderRead ==
    ASSUME NEW pos, Rows(pos), NEW order \in SetToSeqs(DOMAIN pos)
    PROVE  order \in Seq(Episodes) /\ IsInjective(order) /\ ToSet(order) = DOMAIN pos
<1>1. IsFiniteSet(DOMAIN pos)  BY RowsFinite
<1>2. order \in Seq(DOMAIN pos) /\ IsInjective(order) /\ ToSet(order) = DOMAIN pos
  BY <1>1, OrdersOf
<1> QED BY <1>2, SeqMonotonic DEF Rows

\* The lowest and the highest position.
LEMMA LastPosition ==
    ASSUME NEW pos, Rows(pos), DOMAIN pos # {}
    PROVE  /\ \E n \in {pos[e] + 1 : e \in DOMAIN pos} : \A e \in DOMAIN pos : pos[e] < n
           /\ \E m \in {pos[e] : e \in DOMAIN pos} : \A e \in DOMAIN pos : m <= pos[e]
<1> DEFINE P == {pos[e] : e \in DOMAIN pos}
<1> DEFINE N == {0 - pos[e] : e \in DOMAIN pos}
<1>1. \A e \in DOMAIN pos : pos[e] \in Int  BY DEF Rows
<1>2. IsFiniteSet(P) /\ IsFiniteSet(N)
  <2>1. IsFiniteSet(DOMAIN pos)  BY RowsFinite
  <2>2. [e \in DOMAIN pos |-> pos[e]] \in Surjection(DOMAIN pos, P)  BY DEF Surjection
  <2>3. [e \in DOMAIN pos |-> 0 - pos[e]] \in Surjection(DOMAIN pos, N)  BY DEF Surjection
  <2> QED BY <2>1, <2>2, <2>3, FS_Surjection
<1>3. PICK h \in P : \A x \in P : x <= h
  <2>1. P \in SUBSET Int /\ P # {}  BY <1>1
  <2> HIDE DEF P
  <2> QED BY <1>2, <2>1, GreatestOf
<1>4. PICK l \in N : \A x \in N : x <= l
  <2>1. N \in SUBSET Int /\ N # {}  BY <1>1
  <2> HIDE DEF N
  <2> QED BY <1>2, <2>1, GreatestOf
<1>5. \E n \in {pos[e] + 1 : e \in DOMAIN pos} : \A e \in DOMAIN pos : pos[e] < n
  <2>1. PICK a \in DOMAIN pos : h = pos[a]  BY <1>3
  <2>2. ASSUME NEW e \in DOMAIN pos PROVE pos[e] < pos[a] + 1
    <3>1. pos[e] <= h  BY <1>3
    <3> QED BY <1>1, <2>1, <3>1
  <2> QED BY <2>2
<1>6. \E m \in {pos[e] : e \in DOMAIN pos} : \A e \in DOMAIN pos : m <= pos[e]
  <2>1. PICK a \in DOMAIN pos : l = 0 - pos[a]  BY <1>4
  <2>2. ASSUME NEW e \in DOMAIN pos PROVE pos[a] <= pos[e]
    <3>1. 0 - pos[e] <= l  BY <1>4
    <3> QED BY <1>1, <2>1, <3>1
  <2> QED BY <2>2
<1> QED BY <1>5, <1>6

LEMMA FreeIsAbove ==
    ASSUME NEW pos, Rows(pos)
    PROVE  Free(pos) \in Int /\ Above(Free(pos), pos)
<1>1. CASE DOMAIN pos = {}  BY <1>1 DEF Free, Above
<1>2. CASE DOMAIN pos # {}
  <2>1. \E n \in {pos[e] + 1 : e \in DOMAIN pos} : \A e \in DOMAIN pos : pos[e] < n
    BY <1>2, LastPosition
  <2>2. Free(pos) \in {pos[e] + 1 : e \in DOMAIN pos} /\ \A e \in DOMAIN pos : pos[e] < Free(pos)
    BY <1>2, <2>1 DEF Free
  <2>3. \A e \in DOMAIN pos : pos[e] \in Int  BY DEF Rows
  <2> QED BY <2>2, <2>3 DEF Above
<1> QED BY <1>1, <1>2

\* An episode that is put in keeps everyone's place.
LEMMA AddedCovers ==
    ASSUME NEW order \in Seq(Episodes), IsInjective(order), NEW e \in Episodes, e \notin ToSet(order),
           NEW at \in Int
    PROVE  /\ Added(order, e, at) \in Seq(Episodes) /\ IsInjective(Added(order, e, at))
           /\ ToSet(Added(order, e, at)) = ToSet(order) \cup {e}
<1>1. Len(order) \in Nat  BY LenProperties
<1>2. Lesser(Greater(at, 0), Len(order)) + 1 \in 1..(Len(order) + 1)
  BY <1>1 DEF Lesser, Greater
<1>3. Added(order, e, at) = InsertAt(order, Lesser(Greater(at, 0), Len(order)) + 1, e)
  BY DEF Added
<1> QED BY <1>2, <1>3, InsertKeepsOrder

\* So does one that is moved.
LEMMA TargetCovers ==
    ASSUME NEW order \in Seq(Episodes), IsInjective(order), NEW e \in ToSet(order), NEW to \in Int
    PROVE  /\ Target(order, e, to) \in Seq(Episodes) /\ IsInjective(Target(order, e, to))
           /\ ToSet(Target(order, e, to)) = ToSet(order)
<1>1. Len(order) \in Nat /\ DOMAIN order = 1..Len(order)  BY LenProperties
<1>2. Index(order, e) \in 1..Len(order) /\ order[Index(order, e)] = e
  BY IndexFound
<1>3. e \in Episodes  BY <1>2, ElementOfSeq
<1>4. PICK rest : rest = RemoveAt(order, Index(order, e))  OBVIOUS
<1>5. /\ rest \in Seq(Episodes) /\ IsInjective(rest) /\ Len(rest) = Len(order) - 1
      /\ ToSet(rest) = ToSet(order) \ {e}
  <2>1. PICK i \in 1..Len(order) : i = Index(order, e) /\ order[i] = e  BY <1>2
  <2>2. RemoveAt(order, i) \in Seq(Episodes) /\ IsInjective(RemoveAt(order, i))  BY RemoveKeepsOrder
  <2>3. Len(RemoveAt(order, i)) = Len(order) - 1  BY RemoveKeepsOrder
  <2>4. ToSet(RemoveAt(order, i)) = ToSet(order) \ {order[i]}  BY RemoveKeepsOrder
  <2> QED BY <1>4, <2>1, <2>2, <2>3, <2>4
<1>6. PICK at : at = Clamped(to, Len(order) - 1) + 1  OBVIOUS
<1>7. at \in 1..(Len(rest) + 1)
  <2>1. PICK n \in Nat : n = Len(order)
    <3>1. Len(order) \in Nat  BY LenProperties
    <3> QED BY <3>1
  <2>2. n >= 1  BY <1>2, <2>1
  <2>3. Clamped(to, n - 1) \in 0..(n - 1)  BY <2>2 DEF Clamped
  <2> QED BY <1>5, <1>6, <2>1, <2>2, <2>3
<1>8. Target(order, e, to) = InsertAt(rest, at, e)  BY <1>4, <1>6 DEF Target
<1>9. /\ InsertAt(rest, at, e) \in Seq(Episodes) /\ IsInjective(InsertAt(rest, at, e))
      /\ ToSet(InsertAt(rest, at, e)) = ToSet(rest) \cup {e}
  BY <1>3, <1>5, <1>7, InsertKeepsOrder
<1> QED BY <1>5, <1>8, <1>9

LEMMA RenumberRows ==
    ASSUME NEW order \in Seq(Episodes), Rows(position)
    PROVE  Rows(Renumber(order))
<1>1. ToSet(order) \subseteq Episodes
  <2>1. DOMAIN order = 1..Len(order)  BY LenProperties
  <2> QED BY <2>1, ElementOfSeq DEF ToSet
<1>2. \A e \in ToSet(order) : Index(order, e) \in Int
  <2>1. Len(order) \in Nat  BY LenProperties
  <2> QED BY <2>1, IndexFound
<1> QED BY <1>1, <1>2 DEF Rows, Renumber

\* A row that is deleted leaves a hole.
LEMMA WithoutKeeps ==
    ASSUME NEW pos, Rows(pos), NEW e
    PROVE  Rows(Without(pos, e)) /\ (Distinct(pos) => Distinct(Without(pos, e)))
BY DEF Rows, Distinct, Without

\* Renumbering an order that covers the rows leaves no two positions equal.
LEMMA RenumberDistinct ==
    ASSUME NEW order \in Seq(Episodes), Covers(order, position), Rows(position)
    PROVE  Distinct(Renumber(order))
<1>1. DOMAIN position \subseteq ToSet(order)  BY DEF Covers
<1>3. \A e \in ToSet(order) : Index(order, e) \in Int /\ order[Index(order, e)] = e
  <2>1. Len(order) \in Nat  BY LenProperties
  <2> QED BY <2>1, IndexFound
<1>4. PICK new : new = Renumber(order)  OBVIOUS
<1>5. new = [e \in ToSet(order) |-> Index(order, e) - 1]
  <2>1. DOMAIN position \cup ToSet(order) = ToSet(order)  BY <1>1
  <2> QED BY <1>4, <2>1 DEF Renumber
<1>7. Distinct(new)
  <2> SUFFICES ASSUME NEW a \in ToSet(order), NEW b \in ToSet(order), a # b
               PROVE  new[a] # new[b]
    BY <1>5 DEF Distinct
  <2>1. Index(order, a) # Index(order, b)  BY <1>3
  <2> QED BY <1>3, <1>5, <2>1
<1> QED BY <1>4, <1>7

-----------------------------------------------------------------------------
(* What a step does to the handlers and to the rows.                       *)

\* Only s's handler goes on, and it has nothing left to write.
Turns(s) ==
    /\ DOMAIN handling' \subseteq DOMAIN handling /\ ("app" \in DOMAIN handling => "app" \in DOMAIN handling')
    /\ handling' \in [DOMAIN handling' -> Handler]
    /\ \A t \in DOMAIN handling' \ {s} : handling'[t] = handling[t]
    /\ s \in DOMAIN handling' => handling'[s].phase # "write"

LEMMA DoneTurns ==
    ASSUME OrderTypes, NEW s \in DOMAIN handling, NEW reply \in {"ok", "refused", "error"}, Done(s, reply)
    PROVE  Turns(s)
<1>1. handling \in [DOMAIN handling -> Handler]  BY DEF OrderTypes
<1>2. CASE s = "app"
  <2>1. handling' = [handling EXCEPT ![s].phase = "done", ![s].reply = reply]  BY <1>2 DEF Done
  <2>2. /\ DOMAIN handling' = DOMAIN handling
        /\ handling'[s] = [handling[s] EXCEPT !.phase = "done", !.reply = reply]
        /\ \A t \in DOMAIN handling \ {s} : handling'[t] = handling[t]
    BY <1>1, <2>1
  <2>3. handling[s] \in Handler  BY <1>1
  <2>4. handling'[s] \in Handler /\ handling'[s].phase = "done"
    BY <2>2, <2>3 DEF Handler
  <2>5. handling' \in [DOMAIN handling' -> Handler]
    BY <1>1, <2>1, <2>2, <2>4
  <2> QED BY <2>2, <2>4, <2>5 DEF Turns
<1>3. CASE s # "app"
  <2>1. handling' = [x \in DOMAIN handling \ {s} |-> handling[x]]  BY <1>3 DEF Done, Without
  <2> QED BY <1>1, <1>3, <2>1 DEF Turns
<1> QED BY <1>2, <1>3

LEMMA AdvanceTurns ==
    ASSUME OrderTypes, NEW s \in DOMAIN handling, NEW reply \in {"ok", "refused", "error"},
           handling[s].todo # <<>>, Advance(s, reply)
    PROVE  Turns(s)
<1>1. handling \in [DOMAIN handling -> Handler]  BY DEF OrderTypes
<1>2. CASE Bulk(handling[s].op)
  <2>1. handling' = [handling EXCEPT ![s].todo = Tail(@), ![s].phase = "read"]  BY <1>2 DEF Advance
  <2>2. /\ DOMAIN handling' = DOMAIN handling
        /\ handling'[s] = [handling[s] EXCEPT !.todo = Tail(handling[s].todo), !.phase = "read"]
        /\ \A t \in DOMAIN handling \ {s} : handling'[t] = handling[t]
    BY <1>1, <2>1
  <2>3. handling[s] \in Handler  BY <1>1
  <2>4. Tail(handling[s].todo) \in Seq(Episodes)
    BY <2>3, HeadTailProperties DEF Handler
  <2>5. handling'[s] \in Handler /\ handling'[s].phase = "read"
    BY <2>2, <2>3, <2>4 DEF Handler
  <2>6. handling' \in [DOMAIN handling' -> Handler]
    BY <1>1, <2>1, <2>2, <2>5
  <2> QED BY <2>2, <2>5, <2>6 DEF Turns
<1>3. CASE ~Bulk(handling[s].op)
  BY <1>3, DoneTurns DEF Advance
<1> QED BY <1>2, <1>3

\* The rows stay, or change and whoever has read them knows old ones.
LEMMA TurnKeepsInv ==
    ASSUME OrderInv, NEW s, Turns(s), UNCHANGED <<alive, outbox, waiting>>,
           \/ UNCHANGED <<position, overtaken>>
           \/ \E pos : Wrote(s, pos),
           Rows(position)', crossed' \in BOOLEAN, Numbered'
    PROVE  OrderInv'
<1>1. OrderTypes'
  <2>1. handling' \in [DOMAIN handling' -> Handler] /\ DOMAIN handling' \subseteq Requesters
    BY DEF OrderInv, OrderTypes, Turns
  <2>2. \A t \in DOMAIN handling' : Writes(t, {"add"})' => handling'[t].todo # <<>>
    BY DEF OrderInv, OrderTypes, Turns, Writes
  <2>3. waiting' => "app" \in DOMAIN handling' /\ outbox' # <<>>
    BY DEF OrderInv, OrderTypes, Turns
  <2> QED BY <2>1, <2>2, <2>3 DEF OrderInv, OrderTypes, Rows
<1>2. ASSUME NEW t \in DOMAIN handling' PROVE Fresh(t)'
  <2>1. CASE t = s  BY <2>1 DEF Turns, Fresh
  <2>2. CASE t # s
    <3>1. t \in DOMAIN handling /\ handling'[t] = handling[t]  BY <2>2 DEF Turns
    <3>2. Fresh(t)  BY <3>1 DEF OrderInv
    <3>3. CASE UNCHANGED <<position, overtaken>>
      BY <3>1, <3>2, <3>3 DEF Fresh, Covers, Above
    <3>4. CASE \E pos : Wrote(s, pos)
      BY <2>2, <3>1, <3>4 DEF Fresh, Wrote
    <3> QED BY <3>3, <3>4
  <2> QED BY <2>1, <2>2
<1> QED BY <1>1, <1>2 DEF OrderInv

\* A handler has read the rows and goes on to write.
LEMMA FoundKeepsInv ==
    ASSUME OrderInv, NEW s \in DOMAIN handling, NEW seen \in Seq(Episodes), NEW free \in Int,
           Found(s, seen, free), UNCHANGED <<position, alive, outbox, waiting, crossed>>,
           handling[s].op.kind = "add" => handling[s].todo # <<>> /\ Above(free, position),
           Covers(seen, position)
    PROVE  OrderInv'
<1>1. handling \in [DOMAIN handling -> Handler]  BY DEF OrderInv, OrderTypes
<1>2. handling' = [handling EXCEPT ![s].seen = seen, ![s].free = free, ![s].phase = "write"]
  BY DEF Found
<1>3. /\ DOMAIN handling' = DOMAIN handling
      /\ handling'[s] = [handling[s] EXCEPT !.seen = seen, !.free = free, !.phase = "write"]
      /\ \A t \in DOMAIN handling \ {s} : handling'[t] = handling[t]
  BY <1>1, <1>2
<1>4. handling[s] \in Handler  BY <1>1
<1>5. /\ handling'[s] \in Handler /\ handling'[s].op = handling[s].op /\ handling'[s].todo = handling[s].todo
      /\ handling'[s].seen = seen /\ handling'[s].free = free
  BY <1>3, <1>4 DEF Handler
<1>6. handling' \in [DOMAIN handling' -> Handler]
  BY <1>1, <1>2, <1>3, <1>5
<1>7. OrderTypes'
  <2>1. ASSUME NEW t \in DOMAIN handling', Writes(t, {"add"})' PROVE handling'[t].todo # <<>>
    <3>1. handling'[t].op.kind = "add"  BY <2>1 DEF Writes
    <3>2. CASE t = s  BY <1>5, <3>1, <3>2
    <3>3. CASE t # s
      <4>1. handling'[t] = handling[t] /\ t \in DOMAIN handling  BY <1>3, <3>3
      <4>2. Writes(t, {"add"})  BY <2>1, <4>1 DEF Writes
      <4> QED BY <4>1, <4>2 DEF OrderInv, OrderTypes
    <3> QED BY <3>2, <3>3
  <2> QED BY <1>3, <1>6, <2>1 DEF OrderInv, OrderTypes
<1>8. ASSUME NEW t \in DOMAIN handling' PROVE Fresh(t)'
  <2>1. CASE t = s  BY <1>5, <2>1 DEF Fresh, Covers, Above
  <2>2. CASE t # s
    <3>1. t \in DOMAIN handling /\ handling'[t] = handling[t] /\ Fresh(t)  BY <1>3, <2>2 DEF OrderInv
    <3> QED BY <2>2, <3>1 DEF Found, Fresh, Covers, Above
  <2> QED BY <2>1, <2>2
<1>9. Numbered'  BY DEF OrderInv, Numbered, Distinct
<1> QED BY <1>7, <1>8, <1>9 DEF OrderInv

\* Others write the rows.
LEMMA FeedKeepsInv ==
    ASSUME OrderInv, UNCHANGED <<handling, outbox, waiting, crossed>>, alive' \subseteq Episodes,
           \/ UNCHANGED <<position, overtaken>>
           \/ \E pos : Wrote("feed", pos) /\ Rows(pos) /\ (Distinct(position) => Distinct(pos))
    PROVE  OrderInv'
<1>1. CASE UNCHANGED <<position, overtaken>>
  <2>1. OrderTypes'  BY <1>1 DEF OrderInv, OrderTypes, Writes
  <2>2. \A t \in DOMAIN handling' : Fresh(t)'  BY <1>1 DEF OrderInv, Fresh, Covers, Above
  <2>3. Numbered'  BY <1>1 DEF OrderInv, Numbered, Distinct
  <2> QED BY <2>1, <2>2, <2>3 DEF OrderInv
<1>2. ASSUME NEW pos, Wrote("feed", pos), Rows(pos), Distinct(position) => Distinct(pos)
      PROVE  OrderInv'
  <2>1. position' = pos  BY <1>2 DEF Wrote
  <2>2. OrderTypes'  BY <1>2, <2>1 DEF OrderInv, OrderTypes, Writes, Rows
  <2>3. \A t \in DOMAIN handling' : Fresh(t)'
    <3> SUFFICES ASSUME NEW t \in DOMAIN handling, handling[t].phase = "write" PROVE t \in overtaken'
      BY DEF Fresh
    <3>1. t # "feed"  BY DEF OrderInv, OrderTypes, Requesters
    <3> QED BY <1>2, <3>1 DEF Wrote
  <2>4. Numbered'
    BY <1>2, <2>1 DEF OrderInv, Numbered, Distinct
  <2> QED BY <2>2, <2>3, <2>4 DEF OrderInv
<1> QED BY <1>1, <1>2

-----------------------------------------------------------------------------
(* Each step keeps what a handler has read true, or knows it old.          *)

LEMMA InitInv == Init => OrderInv
<1> SUFFICES ASSUME Init PROVE OrderInv  OBVIOUS
<1>1. Members \in Seq(Episodes)  BY OrderAssumption
<1>2. \A e \in ToSet(Members) : Index(Members, e) \in Int /\ Members[Index(Members, e)] = e
  <2>1. Len(Members) \in Nat  BY <1>1, LenProperties
  <2> QED BY <1>1, <2>1, IndexFound
<1>3. DOMAIN position = ToSet(Members) /\ \A e \in DOMAIN position : position[e] = Index(Members, e) - 1
  BY DEF Init
<1>4. position \in [DOMAIN position -> Int] /\ DOMAIN position \subseteq Episodes
  BY <1>2, <1>3 DEF Init, Episodes
<1>5. Distinct(position)
  BY <1>2, <1>3 DEF Distinct
<1>6. handling = <<>> /\ DOMAIN handling = {}  BY DEF Init
<1>7. handling \in [DOMAIN handling -> Handler]  BY <1>6
<1>8. outbox \in Seq(Operation)  BY DEF Init
<1>9. OrderTypes
  BY <1>4, <1>6, <1>7, <1>8 DEF Init, OrderTypes
<1> QED BY <1>5, <1>6, <1>9 DEF OrderInv, Numbered

LEMMA EndBulkKeeps ==
    ASSUME OrderInv, NEW s \in Requesters, EndBulk(s) PROVE OrderInv'
<1>1. Turns(s)  BY DoneTurns DEF EndBulk, OrderInv
<1>2. UNCHANGED <<position, alive, outbox, waiting, overtaken, crossed>>
  BY DEF EndBulk, serverVars, clientVars, histVars
<1>3. Rows(position)' /\ crossed' \in BOOLEAN /\ Numbered'
  BY <1>2 DEF OrderInv, OrderTypes, Rows, Numbered, Distinct
<1> QED BY <1>1, <1>2, <1>3, TurnKeepsInv

LEMMA PassOverKeeps ==
    ASSUME OrderInv, NEW s \in Requesters, PassOver(s) PROVE OrderInv'
<1>1. /\ s \in DOMAIN handling /\ handling[s].todo # <<>> /\ Advance(s, "refused")
      /\ UNCHANGED <<position, alive, outbox, waiting, overtaken, crossed>>
  BY DEF PassOver, Reads, Writes, serverVars, clientVars
<1>2. Turns(s)  BY <1>1, AdvanceTurns DEF OrderInv
<1>3. Rows(position)' /\ crossed' \in BOOLEAN /\ Numbered'
  BY <1>1 DEF OrderInv, OrderTypes, Rows, Numbered, Distinct
<1> QED BY <1>1, <1>2, <1>3, TurnKeepsInv

LEMMA ReadAddKeeps ==
    ASSUME OrderInv, NEW s \in Requesters, ReadAdd(s) PROVE OrderInv'
<1>1. PICK e : e = Head(handling[s].todo)  OBVIOUS
<1>2. PICK op : op = handling[s].op  OBVIOUS
<1>3. /\ s \in DOMAIN handling /\ handling[s].todo # <<>> /\ op.kind = "add"
      /\ UNCHANGED <<position, alive, outbox, waiting, crossed>>
  BY <1>2 DEF ReadAdd, Reads, serverVars, clientVars
<1>4. handling[s] \in Handler  BY <1>3 DEF OrderInv, OrderTypes
<1>5. e \in Episodes /\ op.at \in Int
  BY <1>1, <1>2, <1>3, <1>4, HeadTailProperties DEF Handler, Operation
<1>6. Rows(position) /\ Rows(position)' /\ crossed' \in BOOLEAN /\ Numbered'
  BY <1>3 DEF OrderInv, OrderTypes, Rows, Numbered, Distinct
<1>7. CASE (Advance(s, "refused") \/ Advance(s, "ok")) /\ UNCHANGED overtaken
  <2>1. Turns(s)  BY <1>3, <1>7, AdvanceTurns DEF OrderInv
  <2> QED BY <1>3, <1>6, <1>7, <2>1, TurnKeepsInv
<1>8. ASSUME e \notin DOMAIN position,
             NEW order \in Listed(position), Found(s, Added(order, e, op.at), Free(position))
      PROVE  OrderInv'
  <2>1. order \in SetToSeqs(DOMAIN position)  BY DEF Listed
  <2>2. order \in Seq(Episodes) /\ IsInjective(order) /\ ToSet(order) = DOMAIN position
    BY <1>6, <2>1, OrderRead
  <2>3. Added(order, e, op.at) \in Seq(Episodes) /\ Covers(Added(order, e, op.at), position)
    BY <1>5, <1>8, <2>2, AddedCovers DEF Covers
  <2>4. Free(position) \in Int /\ Above(Free(position), position)  BY <1>6, FreeIsAbove
  <2> QED BY <1>3, <1>8, <2>3, <2>4, FoundKeepsInv
<1> QED BY <1>1, <1>2, <1>7, <1>8 DEF ReadAdd

LEMMA WriteAddKeeps ==
    ASSUME OrderInv, NEW s \in Requesters, WriteAdd(s) PROVE OrderInv'
<1>1. PICK e : e = Head(handling[s].todo)  OBVIOUS
<1>2. PICK r : r = handling[s]  OBVIOUS
<1>3. /\ s \in DOMAIN handling /\ handling[s].phase = "write" /\ r.op.kind = "add" /\ r.todo # <<>>
      /\ UNCHANGED <<alive, outbox, waiting>>
  BY <1>2 DEF WriteAdd, Writes, clientVars, OrderInv, OrderTypes
<1>4. r \in Handler  BY <1>2, <1>3 DEF OrderInv, OrderTypes
<1>5. e \in Episodes /\ r.seen \in Seq(Episodes) /\ r.free \in Int
  BY <1>1, <1>2, <1>3, <1>4, HeadTailProperties DEF Handler
<1>6. Rows(position) /\ crossed \in BOOLEAN  BY DEF OrderInv, OrderTypes, Rows
<1>7. s \notin overtaken => Covers(r.seen, position) /\ Above(r.free, position)
  BY <1>2, <1>3 DEF OrderInv, Fresh
<1>8. ASSUME NEW reply \in {"ok", "refused", "error"}, Advance(s, reply),
             UNCHANGED <<position, overtaken, crossed>>
      PROVE  OrderInv'
  <2>1. Turns(s)  BY <1>2, <1>3, <1>8, AdvanceTurns DEF OrderInv
  <2>2. Rows(position)' /\ crossed' \in BOOLEAN /\ Numbered'
    BY <1>6, <1>8 DEF OrderInv, Rows, Numbered, Distinct
  <2> QED BY <1>3, <1>8, <2>1, <2>2, TurnKeepsInv
<1>9. ASSUME e \in alive \ DOMAIN position, Advance(s, "ok"),
             Wrote(s, IF Bulk(r.op) THEN Joined(position, [x \in {e} |-> r.free]) ELSE Renumber(r.seen)),
             crossed' = IF Bulk(r.op) THEN crossed \/ s \in overtaken ELSE s \in overtaken
      PROVE  OrderInv'
  <2>1. Turns(s)  BY <1>2, <1>3, <1>9, AdvanceTurns DEF OrderInv
  <2>2. CASE Bulk(r.op)
    <3>1. position' = Joined(position, [x \in {e} |-> r.free]) /\ crossed' = (crossed \/ s \in overtaken)
      BY <1>9, <2>2 DEF Wrote
    <3>2. /\ DOMAIN position' = DOMAIN position \cup {e}
          /\ position'[e] = r.free
          /\ \A x \in DOMAIN position : position'[x] = position[x]
          /\ position' = [x \in DOMAIN position' |-> position'[x]]
      BY <1>9, <3>1 DEF Joined
    <3>3. Rows(position)'
      BY <1>5, <1>6, <3>2 DEF Rows
    <3>4. Numbered'
      <4> SUFFICES ASSUME ~crossed, s \notin overtaken,
                          NEW a \in DOMAIN position', NEW b \in DOMAIN position', a # b
                   PROVE  position'[a] # position'[b]
        BY <1>6, <3>1 DEF Numbered, Distinct
      <4>1. \A x \in DOMAIN position : position[x] \in Int /\ position[x] < r.free
        BY <1>6, <1>7 DEF Rows, Above
      <4>2. CASE a = e \/ b = e
        BY <1>5, <3>2, <4>1, <4>2
      <4>3. CASE a # e /\ b # e
        BY <3>2, <4>3 DEF OrderInv, Numbered, Distinct
      <4> QED BY <4>2, <4>3
    <3> QED BY <1>3, <1>6, <1>9, <2>1, <3>1, <3>3, <3>4, TurnKeepsInv
  <2>3. CASE ~Bulk(r.op)
    <3>1. position' = Renumber(r.seen) /\ crossed' = (s \in overtaken)
      BY <1>9, <2>3 DEF Wrote
    <3>2. Rows(position)'
      BY <1>5, <1>6, <3>1, RenumberRows DEF Rows
    <3>3. Numbered'
      BY <1>5, <1>6, <1>7, <3>1, RenumberDistinct DEF Numbered, Distinct
    <3>4. crossed' \in BOOLEAN  BY <3>1
    <3> QED BY <1>3, <1>9, <2>1, <3>2, <3>3, <3>4, TurnKeepsInv
  <2> QED BY <2>2, <2>3
<1>10. \/ /\ \E reply \in {"ok", "refused", "error"} : Advance(s, reply)
          /\ UNCHANGED <<position, overtaken, crossed>>
       \/ /\ e \in alive \ DOMAIN position /\ Advance(s, "ok")
          /\ Wrote(s, IF Bulk(r.op) THEN Joined(position, [x \in {e} |-> r.free]) ELSE Renumber(r.seen))
          /\ crossed' = IF Bulk(r.op) THEN crossed \/ s \in overtaken ELSE s \in overtaken
  BY <1>1, <1>2 DEF WriteAdd
<1> QED BY <1>8, <1>9, <1>10

LEMMA DeleteKeeps ==
    ASSUME OrderInv, NEW s \in Requesters, Delete(s) PROVE OrderInv'
<1>1. PICK e : e = Head(handling[s].todo)  OBVIOUS
<1>2. /\ s \in DOMAIN handling /\ handling[s].phase = "read" /\ handling[s].todo # <<>>
      /\ handling' = [handling EXCEPT ![s].todo = Tail(@)]
      /\ UNCHANGED <<alive, outbox, waiting, crossed>>
  BY DEF Delete, Reads, clientVars
<1>3. handling \in [DOMAIN handling -> Handler]  BY DEF OrderInv, OrderTypes
<1>4. Turns(s)
  <2>1. /\ DOMAIN handling' = DOMAIN handling
        /\ handling'[s] = [handling[s] EXCEPT !.todo = Tail(handling[s].todo)]
        /\ \A t \in DOMAIN handling \ {s} : handling'[t] = handling[t]
    BY <1>2, <1>3
  <2>2. handling[s] \in Handler  BY <1>2, <1>3
  <2>3. Tail(handling[s].todo) \in Seq(Episodes)
    BY <1>2, <2>2, HeadTailProperties DEF Handler
  <2>4. handling'[s] \in Handler /\ handling'[s].phase = "read"
    BY <1>2, <2>1, <2>2, <2>3 DEF Handler
  <2>5. handling' \in [DOMAIN handling' -> Handler]
    BY <1>2, <1>3, <2>1, <2>4
  <2> QED BY <2>1, <2>4, <2>5 DEF Turns
<1>5. Rows(position) /\ crossed \in BOOLEAN  BY DEF OrderInv, OrderTypes, Rows
<1>6. CASE e \in DOMAIN position
  <2>1. Wrote(s, Without(position, e))  BY <1>1, <1>6 DEF Delete
  <2>2. position' = Without(position, e)  BY <2>1 DEF Wrote
  <2>3. Rows(position)' /\ Numbered'
    BY <1>2, <1>5, <2>2, WithoutKeeps DEF OrderInv, Numbered
  <2> QED BY <1>2, <1>4, <1>5, <2>1, <2>3, TurnKeepsInv
<1>7. CASE e \notin DOMAIN position
  <2>1. UNCHANGED <<position, overtaken>>  BY <1>1, <1>7 DEF Delete
  <2>2. Rows(position)' /\ Numbered'
    BY <1>2, <1>5, <2>1 DEF OrderInv, Rows, Numbered, Distinct
  <2> QED BY <1>2, <1>4, <1>5, <2>1, <2>2, TurnKeepsInv
<1> QED BY <1>6, <1>7

LEMMA ReadMoveKeeps ==
    ASSUME OrderInv, NEW s \in Requesters, ReadMove(s) PROVE OrderInv'
<1>1. PICK e : e = handling[s].op.ids[1]  OBVIOUS
<1>2. /\ s \in DOMAIN handling /\ handling[s].op.kind = "move"
      /\ UNCHANGED <<position, alive, outbox, waiting, crossed>>
  BY DEF ReadMove, Reads, serverVars, clientVars
<1>3. handling[s] \in Handler  BY <1>2 DEF OrderInv, OrderTypes
<1>4. handling[s].op.at \in Int  BY <1>3 DEF Handler, Operation
<1>5. Rows(position) /\ Rows(position)' /\ crossed' \in BOOLEAN /\ Numbered'
  BY <1>2 DEF OrderInv, OrderTypes, Rows, Numbered, Distinct
<1>6. CASE (Done(s, "refused") \/ Done(s, "ok")) /\ UNCHANGED overtaken
  <2>1. Turns(s)  BY <1>2, <1>6, DoneTurns DEF OrderInv
  <2> QED BY <1>2, <1>5, <1>6, <2>1, TurnKeepsInv
<1>7. ASSUME e \in DOMAIN position,
             NEW order \in Listed(position), Found(s, Target(order, e, handling[s].op.at), 0)
      PROVE  OrderInv'
  <2>1. order \in SetToSeqs(DOMAIN position)  BY DEF Listed
  <2>2. order \in Seq(Episodes) /\ IsInjective(order) /\ ToSet(order) = DOMAIN position
    BY <1>5, <2>1, OrderRead
  <2>3. PICK seen : seen = Target(order, e, handling[s].op.at)  OBVIOUS
  <2>4. seen \in Seq(Episodes) /\ Covers(seen, position)
    BY <1>4, <1>7, <2>2, <2>3, TargetCovers DEF Covers
  <2>5. Found(s, seen, 0)  BY <1>7, <2>3
  <2> QED BY <1>2, <2>4, <2>5, FoundKeepsInv
<1> QED BY <1>1, <1>6, <1>7 DEF ReadMove

LEMMA ReadSortKeeps ==
    ASSUME OrderInv, NEW s \in Requesters, ReadSort(s) PROVE OrderInv'
<1>2. /\ s \in DOMAIN handling /\ handling[s].op.kind = "sort"
      /\ UNCHANGED <<position, alive, outbox, waiting, crossed>>
  BY DEF ReadSort, Reads, serverVars, clientVars
<1>5. Rows(position) /\ Rows(position)' /\ crossed' \in BOOLEAN /\ Numbered'
  BY <1>2 DEF OrderInv, OrderTypes, Rows, Numbered, Distinct
<1>6. CASE Done(s, "ok") /\ UNCHANGED overtaken
  <2>1. Turns(s)  BY <1>2, <1>6, DoneTurns DEF OrderInv
  <2> QED BY <1>2, <1>5, <1>6, <2>1, TurnKeepsInv
<1>7. ASSUME NEW order \in SetToSeqs(DOMAIN position), Found(s, order, 0) PROVE OrderInv'
  <2>1. order \in Seq(Episodes) /\ Covers(order, position)
    BY <1>5, OrderRead DEF Covers
  <2> QED BY <1>2, <1>7, <2>1, FoundKeepsInv
<1>8. Sorted(Published, DOMAIN position) \subseteq SetToSeqs(DOMAIN position)  BY DEF Sorted
<1> QED BY <1>6, <1>7, <1>8 DEF ReadSort

LEMMA RewriteKeeps ==
    ASSUME OrderInv, NEW s \in Requesters, Rewrite(s) PROVE OrderInv'
<1>1. PICK order : order = handling[s].seen  OBVIOUS
<1>2. /\ s \in DOMAIN handling /\ handling[s].phase = "write"
      /\ UNCHANGED <<alive, outbox, waiting>>
  BY DEF Rewrite, Writes, clientVars
<1>3. handling[s] \in Handler  BY <1>2 DEF OrderInv, OrderTypes
<1>4. order \in Seq(Episodes)  BY <1>1, <1>3 DEF Handler
<1>5. Rows(position) /\ crossed \in BOOLEAN  BY DEF OrderInv, OrderTypes, Rows
<1>6. CASE Wrote(s, Renumber(order)) /\ Done(s, "ok") /\ crossed' = (s \in overtaken)
  <2>1. Turns(s)  BY <1>2, <1>6, DoneTurns DEF OrderInv
  <2>2. position' = Renumber(order)  BY <1>6 DEF Wrote
  <2>3. Rows(position)'  BY <1>4, <1>5, <2>2, RenumberRows
  <2>4. s \notin overtaken => Covers(order, position)
    BY <1>1, <1>2 DEF OrderInv, Fresh
  <2>5. Numbered'
    BY <1>4, <1>5, <1>6, <2>2, <2>4, RenumberDistinct DEF Numbered, Distinct
  <2> QED BY <1>2, <1>6, <2>1, <2>3, <2>5, TurnKeepsInv
<1>7. CASE Done(s, "error") /\ UNCHANGED <<position, overtaken, crossed>>
  <2>1. Turns(s)  BY <1>2, <1>7, DoneTurns DEF OrderInv
  <2>2. Rows(position)' /\ crossed' \in BOOLEAN /\ Numbered'
    BY <1>5, <1>7 DEF OrderInv, Rows, Numbered, Distinct
  <2> QED BY <1>2, <1>7, <2>1, <2>2, TurnKeepsInv
<1> QED BY <1>1, <1>6, <1>7 DEF Rewrite

\* Another requester's handler starts.
LEMMA StartKeeps ==
    ASSUME OrderInv, NEW s \in Requesters \ DOMAIN handling, NEW op \in Operation,
           handling' = Joined(handling, [x \in {s} |-> Request(op)]),
           UNCHANGED <<position, alive, outbox, overtaken, crossed>>,
           UNCHANGED waiting \/ (waiting' = TRUE /\ s = "app" /\ outbox # <<>>)
    PROVE  OrderInv'
<1>1. Request(op) \in Handler /\ Request(op).phase = "read"
  BY DEF Request, Handler, Operation
<1>2. /\ DOMAIN handling' = DOMAIN handling \cup {s} /\ handling'[s] = Request(op)
      /\ \A t \in DOMAIN handling : handling'[t] = handling[t]
      /\ handling' = [t \in DOMAIN handling' |-> handling'[t]]
  BY DEF Joined
<1>3. handling' \in [DOMAIN handling' -> Handler] /\ DOMAIN handling' \subseteq Requesters
  BY <1>1, <1>2 DEF OrderInv, OrderTypes
<1>4. ASSUME NEW t \in DOMAIN handling', t # s
      PROVE  /\ Fresh(t)'
             /\ Writes(t, {"add"})' => handling'[t].todo # <<>>
  <2>1. t \in DOMAIN handling /\ handling'[t] = handling[t]  BY <1>2, <1>4
  <2>2. Fresh(t) /\ (Writes(t, {"add"}) => handling[t].todo # <<>>)
    BY <2>1 DEF OrderInv, OrderTypes
  <2> QED BY <2>1, <2>2 DEF Fresh, Covers, Above, Writes
<1>5. Fresh(s)' /\ ~Writes(s, {"add"})'
  BY <1>1, <1>2 DEF Fresh, Writes
<1>6. OrderTypes'
  <2>1. waiting' \in BOOLEAN /\ (waiting' => "app" \in DOMAIN handling' /\ outbox' # <<>>)
    <3>1. CASE UNCHANGED waiting  BY <1>2, <3>1 DEF OrderInv, OrderTypes
    <3>2. CASE waiting' = TRUE /\ s = "app" /\ outbox # <<>>  BY <1>2, <3>2
    <3> QED BY <3>1, <3>2
  <2> QED BY <1>3, <1>4, <1>5, <2>1 DEF OrderInv, OrderTypes
<1>7. Numbered'  BY DEF OrderInv, Numbered, Distinct
<1> QED BY <1>4, <1>5, <1>6, <1>7 DEF OrderInv

\* The client's request is answered or given up.
LEMMA LeaveKeeps ==
    ASSUME OrderInv, handling' = Without(handling, "app"), outbox' \in Seq(Operation), waiting' = FALSE,
           UNCHANGED <<position, alive, crossed>>, overtaken \ {"app"} \subseteq overtaken'
    PROVE  OrderInv'
<1>1. /\ DOMAIN handling' = DOMAIN handling \ {"app"}
      /\ \A t \in DOMAIN handling' : handling'[t] = handling[t]
      /\ handling' = [t \in DOMAIN handling' |-> handling'[t]]
  BY DEF Without
<1>2. handling' \in [DOMAIN handling' -> Handler] /\ DOMAIN handling' \subseteq Requesters
  BY <1>1 DEF OrderInv, OrderTypes
<1>3. ASSUME NEW t \in DOMAIN handling'
      PROVE  /\ Fresh(t)'
             /\ Writes(t, {"add"})' => handling'[t].todo # <<>>
  <2>1. t \in DOMAIN handling \ {"app"} /\ handling'[t] = handling[t]  BY <1>1
  <2>2. Fresh(t) /\ (Writes(t, {"add"}) => handling[t].todo # <<>>)
    BY <2>1 DEF OrderInv, OrderTypes
  <2> QED BY <2>1, <2>2 DEF Fresh, Covers, Above, Writes
<1>4. OrderTypes'
  BY <1>2, <1>3 DEF OrderInv, OrderTypes
<1>5. Numbered'  BY DEF OrderInv, Numbered, Distinct
<1> QED BY <1>3, <1>4, <1>5 DEF OrderInv

\* The client's own steps.
LEMMA ClientKeeps ==
    ASSUME OrderInv, UNCHANGED <<position, alive, handling, overtaken, crossed, waiting>>,
           outbox' \in Seq(Operation), waiting => outbox' # <<>>
    PROVE  OrderInv'
<1>1. OrderTypes'  BY DEF OrderInv, OrderTypes, Writes
<1>2. \A t \in DOMAIN handling' : Fresh(t)'  BY DEF OrderInv, Fresh, Covers, Above
<1>3. Numbered'  BY DEF OrderInv, Numbered, Distinct
<1> QED BY <1>1, <1>2, <1>3 DEF OrderInv

LEMMA LoseKeeps ==
    ASSUME OrderInv, Lose PROVE OrderInv'
<1>1. UNCHANGED <<position, alive, outbox, crossed>> /\ waiting' = FALSE /\ "app" \in DOMAIN handling
  BY DEF Lose, serverVars, OrderInv, OrderTypes
<1>2. outbox' \in Seq(Operation)  BY <1>1 DEF OrderInv, OrderTypes
<1>3. CASE handling' = Without(handling, "app") /\ overtaken' = overtaken \ {"app"}
  BY <1>1, <1>2, <1>3, LeaveKeeps
<1>4. CASE /\ "late" \notin DOMAIN handling
           /\ handling' = Joined(Without(handling, "app"), [x \in {"late"} |-> handling["app"]])
           /\ overtaken' = IF "app" \in overtaken THEN (overtaken \ {"app"}) \cup {"late"} ELSE overtaken
  <2>1. /\ DOMAIN handling' = (DOMAIN handling \ {"app"}) \cup {"late"}
        /\ handling'["late"] = handling["app"]
        /\ \A t \in DOMAIN handling \ {"app"} : handling'[t] = handling[t]
        /\ handling' = [t \in DOMAIN handling' |-> handling'[t]]
    BY <1>4 DEF Joined, Without
  <2>2. handling' \in [DOMAIN handling' -> Handler] /\ DOMAIN handling' \subseteq Requesters
    BY <1>1, <2>1 DEF OrderInv, OrderTypes, Requesters
  <2>3. ASSUME NEW t \in DOMAIN handling', t # "late"
        PROVE  /\ Fresh(t)'
               /\ Writes(t, {"add"})' => handling'[t].todo # <<>>
    <3>1. t \in DOMAIN handling \ {"app"} /\ handling'[t] = handling[t]  BY <2>1, <2>3
    <3>2. Fresh(t) /\ (Writes(t, {"add"}) => handling[t].todo # <<>>)
      BY <3>1 DEF OrderInv, OrderTypes
    <3>3. t \notin overtaken' => t \notin overtaken  BY <1>4, <3>1
    <3> QED BY <1>1, <3>1, <3>2, <3>3 DEF Fresh, Covers, Above, Writes
  <2>4. /\ Fresh("late")'
        /\ Writes("late", {"add"})' => handling'["late"].todo # <<>>
    <3>1. Fresh("app") /\ (Writes("app", {"add"}) => handling["app"].todo # <<>>)
      BY <1>1 DEF OrderInv, OrderTypes
    <3>2. "late" \notin overtaken' => "app" \notin overtaken  BY <1>4
    <3> QED BY <1>1, <2>1, <3>1, <3>2 DEF Fresh, Covers, Above, Writes
  <2>5. OrderTypes'
    BY <1>1, <1>2, <2>2, <2>3, <2>4 DEF OrderInv, OrderTypes
  <2>6. Numbered'  BY <1>1 DEF OrderInv, Numbered, Distinct
  <2> QED BY <2>3, <2>4, <2>5, <2>6 DEF OrderInv
<1> QED BY <1>3, <1>4 DEF Lose

\* New episodes stand together, after the last row or before the first.
LEMMA PublishKeeps ==
    ASSUME OrderInv, NEW toStart \in BOOLEAN, Publish(toStart) PROVE OrderInv'
<1>1. PICK low : low = Lowest(position)  OBVIOUS
<1>2. PICK first : first = IF toStart /\ DOMAIN position # {} THEN low - Len(Batch) ELSE Free(position)
  OBVIOUS
<1>3. PICK new : new = [e \in ToSet(Batch) |-> first + Index(Batch, e) - 1]  OBVIOUS
<1>4. Batch \in Seq(Episodes) /\ Len(Batch) \in Nat  BY OrderAssumption, LenProperties
<1>5. ToSet(Batch) \subseteq Episodes  BY DEF Episodes
<1>6. \A e \in ToSet(Batch) : Index(Batch, e) \in 1..Len(Batch) /\ Batch[Index(Batch, e)] = e
  BY <1>4, IndexFound
<1>7. Rows(position) /\ \A e \in DOMAIN position : position[e] \in Int  BY DEF OrderInv, OrderTypes, Rows
<1>8. \/ first \in Int /\ \A e \in DOMAIN position : position[e] < first
      \/ first \in Int /\ \A e \in DOMAIN position : first + Len(Batch) <= position[e]
  <2>1. CASE toStart /\ DOMAIN position # {}
    <3>1. \E m \in {position[e] : e \in DOMAIN position} : \A e \in DOMAIN position : m <= position[e]
      BY <1>7, <2>1, LastPosition
    <3>2. low \in {position[e] : e \in DOMAIN position} /\ \A e \in DOMAIN position : low <= position[e]
      BY <1>1, <3>1 DEF Lowest
    <3>3. low \in Int  BY <1>7, <3>2
    <3>4. first = low - Len(Batch)  BY <1>2, <2>1
    <3> QED BY <1>4, <1>7, <3>2, <3>3, <3>4
  <2>2. CASE ~(toStart /\ DOMAIN position # {})
    <3>1. first = Free(position)  BY <1>2, <2>2
    <3> QED BY <1>7, <3>1, FreeIsAbove DEF Above
  <2> QED BY <2>1, <2>2
<1>9. PICK pos : pos = Joined(position, new)  OBVIOUS
<1>10. /\ DOMAIN pos = DOMAIN position \cup ToSet(Batch)
       /\ \A e \in DOMAIN position : pos[e] = position[e]
       /\ \A e \in ToSet(Batch) \ DOMAIN position : pos[e] = first + Index(Batch, e) - 1
       /\ pos = [e \in DOMAIN pos |-> pos[e]]
  BY <1>3, <1>9 DEF Joined
<1>11. \A e \in DOMAIN pos : pos[e] \in Int
  BY <1>6, <1>7, <1>8, <1>10
<1>12. Rows(pos)
  BY <1>5, <1>7, <1>10, <1>11 DEF Rows
<1>13. ASSUME Distinct(position) PROVE Distinct(pos)
  <2> SUFFICES ASSUME NEW a \in DOMAIN pos, NEW b \in DOMAIN pos, a # b PROVE pos[a] # pos[b]
    BY DEF Distinct
  <2>1. CASE a \in DOMAIN position /\ b \in DOMAIN position
    BY <1>10, <1>13, <2>1 DEF Distinct
  <2>2. CASE a \in DOMAIN position /\ b \notin DOMAIN position
    BY <1>4, <1>6, <1>7, <1>8, <1>10, <2>2
  <2>3. CASE a \notin DOMAIN position /\ b \in DOMAIN position
    BY <1>4, <1>6, <1>7, <1>8, <1>10, <2>3
  <2>4. CASE a \notin DOMAIN position /\ b \notin DOMAIN position
    <3>1. Index(Batch, a) # Index(Batch, b)  BY <1>6, <1>10, <2>4
    <3> QED BY <1>6, <1>8, <1>10, <2>4, <3>1
  <2> QED BY <2>1, <2>2, <2>3, <2>4
<1>14. UNCHANGED <<handling, outbox, waiting, crossed>>  BY DEF Publish, clientVars
<1>15. alive' \subseteq Episodes  BY <1>5 DEF Publish, OrderInv, OrderTypes
<1>16. Wrote("feed", pos) \/ UNCHANGED <<position, overtaken>>
  BY <1>1, <1>2, <1>3, <1>9 DEF Publish
<1> QED BY <1>12, <1>13, <1>14, <1>15, <1>16, FeedKeepsInv

LEMMA VanishKeeps ==
    ASSUME OrderInv, NEW e \in Episodes, Vanish(e) PROVE OrderInv'
<1>1. UNCHANGED <<handling, outbox, waiting, crossed>> /\ alive' \subseteq Episodes
  BY DEF Vanish, clientVars, OrderInv, OrderTypes
<1>2. Rows(position)  BY DEF OrderInv, OrderTypes, Rows
<1>3. Wrote("feed", Without(position, e)) \/ UNCHANGED <<position, overtaken>>  BY DEF Vanish
<1> QED BY <1>1, <1>2, <1>3, WithoutKeeps, FeedKeepsInv

-----------------------------------------------------------------------------

LEMMA NextInv == OrderInv /\ [Next]_vars => OrderInv'
<1> SUFFICES ASSUME OrderInv, [Next]_vars PROVE OrderInv'  OBVIOUS
<1>1. ASSUME NEW s \in Requesters, Handle(s) PROVE OrderInv'
  BY <1>1, EndBulkKeeps, PassOverKeeps, ReadAddKeeps, WriteAddKeeps, DeleteKeeps, ReadMoveKeeps,
     ReadSortKeeps, RewriteKeeps DEF Handle
<1>2. ASSUME NEW op \in Ours, Command(op) PROVE OrderInv'
  <2>1. op \in Operation  BY OrderAssumption
  <2>2. outbox' \in Seq(Operation)  BY <1>2, <2>1 DEF Command, OrderInv, OrderTypes
  <2> QED BY <1>2, <2>2, ClientKeeps DEF Command, serverVars
<1>3. ASSUME NEW op \in Theirs, Foreign(op) PROVE OrderInv'
  <2>1. op \in Operation  BY OrderAssumption
  <2>2. /\ "other" \in Requesters \ DOMAIN handling
        /\ handling' = Joined(handling, [x \in {"other"} |-> Request(op)])
        /\ UNCHANGED <<position, alive, outbox, overtaken, crossed, waiting>>
    BY <1>3 DEF Foreign, serverVars, clientVars, histVars, Requesters
  <2> QED BY <2>1, <2>2, StartKeeps
<1>4. ASSUME NEW toStart \in BOOLEAN, Publish(toStart) PROVE OrderInv'
  BY <1>4, PublishKeeps
<1>5. ASSUME NEW e \in Episodes, Vanish(e) PROVE OrderInv'
  BY <1>5, VanishKeeps
<1>6. CASE Send
  <2>1. Head(outbox) \in Operation
    BY <1>6, HeadTailProperties DEF Send, OrderInv, OrderTypes
  <2>2. /\ "app" \in Requesters \ DOMAIN handling
        /\ handling' = Joined(handling, [x \in {"app"} |-> Request(Head(outbox))])
        /\ UNCHANGED <<position, alive, outbox, overtaken, crossed>> /\ waiting' = TRUE /\ outbox # <<>>
    BY <1>6 DEF Send, serverVars, histVars, Requesters
  <2> QED BY <2>1, <2>2, StartKeeps
<1>7. CASE Answer
  <2>1. outbox' = outbox \/ outbox' = Tail(outbox)  BY <1>7 DEF Answer
  <2>2. outbox' \in Seq(Operation)
    <3>1. outbox \in Seq(Operation) /\ outbox # <<>>  BY <1>7 DEF Answer, OrderInv, OrderTypes
    <3> QED BY <2>1, <3>1, HeadTailProperties
  <2> QED BY <1>7, <2>2, LeaveKeeps DEF Answer, serverVars, histVars
<1>8. CASE Lose  BY <1>8, LoseKeeps
<1>9. CASE Pull \/ Repair \/ Fetch \/ Cache
  <2>1. UNCHANGED <<position, alive, handling, overtaken, crossed, waiting, outbox>>
    BY <1>9 DEF Pull, Repair, Fetch, Cache, serverVars, histVars
  <2> QED BY <2>1, ClientKeeps DEF OrderInv, OrderTypes
<1>10. CASE UNCHANGED vars
  <2>1. UNCHANGED <<position, alive, handling, overtaken, crossed, waiting, outbox>>
    BY <1>10 DEF vars, serverVars, clientVars, histVars
  <2> QED BY <2>1, ClientKeeps DEF OrderInv, OrderTypes
<1> QED BY <1>1, <1>2, <1>3, <1>4, <1>5, <1>6, <1>7, <1>8, <1>9, <1>10 DEF Next

LEMMA OrderHolds == Spec => []OrderInv
<1>1. Init => OrderInv  BY InitInv
<1>2. OrderInv /\ [Next]_vars => OrderInv'  BY NextInv
<1> QED BY <1>1, <1>2, PTL DEF Spec

\* Each member has a position of its own, through deletions, failed transactions and
\* episodes placed below zero, unless a handler wrote what it had computed from rows that
\* others changed meanwhile and no rewriting has followed.
THEOREM PositionsAreDistinct == Spec => []Numbered
<1>1. OrderInv => Numbered  BY DEF OrderInv
<1> QED BY <1>1, OrderHolds, PTL

-----------------------------------------------------------------------------
(* The order of a set is one.                                              *)

LEMMA LeastOf ==
    ASSUME NEW S \in SUBSET Nat, S # {}
    PROVE  \E m \in S : \A s \in S : m <= s
<1> DEFINE R == {ss \in Nat \X Nat : ss[1] < ss[2]}
<1>1. IsWellFoundedOn(R, Nat)  BY NatBelow
<1>2. \E m \in S : \A s \in S : <<s, m>> \notin R
  <2> HIDE DEF R
  <2> QED BY <1>1, WFMin
<1>3. PICK m \in S : \A s \in S : <<s, m>> \notin R  BY <1>2
<1>4. \A s \in S : ~(s < m)  BY <1>3
<1> QED BY <1>4

LEMMA InductiveSet ==
    ASSUME NEW S, 0 \in S, \A n \in Nat : n \in S => n + 1 \in S
    PROVE  Nat \subseteq S
<1> SUFFICES ASSUME Nat \ S # {} PROVE FALSE  OBVIOUS
<1>1. PICK m \in Nat \ S : \A n \in Nat \ S : m <= n  BY LeastOf
<1>2. m # 0 /\ m - 1 \in Nat /\ m - 1 \notin Nat \ S  BY <1>1
<1> QED BY <1>1, <1>2

\* Where two orders of a set first differ each has the other's element later.
LEMMA OneOrder ==
    ASSUME NEW E, IsFiniteSet(E), NEW R, \A x, y \in E : <<x, y>> \in R => <<y, x>> \notin R,
           NEW a \in SetToSeqs(E), \A i, j \in DOMAIN a : i < j => <<a[i], a[j]>> \in R,
           NEW b \in SetToSeqs(E), \A i, j \in DOMAIN b : i < j => <<b[i], b[j]>> \in R
    PROVE  a = b
<1>1. PICK n : n = Cardinality(E)  OBVIOUS
<1>2. n \in Nat  BY <1>1, FS_CardinalityType
<1>3. a \in [1..n -> E] /\ b \in [1..n -> E]  BY <1>1 DEF SetToSeqs
<1>4. IsInjective(a) /\ ToSet(a) = E /\ IsInjective(b) /\ ToSet(b) = E  BY OrdersOf
<1> SUFFICES ASSUME a # b PROVE FALSE  OBVIOUS
<1>5. PICK T : T = {i \in 1..n : a[i] # b[i]}  OBVIOUS
<1>6. T \in SUBSET Nat /\ T # {}  BY <1>2, <1>3, <1>5
<1>7. PICK i \in T : \A k \in T : i <= k  BY <1>6, LeastOf
<1>8. i \in 1..n /\ a[i] # b[i] /\ \A k \in 1..n : k < i => a[k] = b[k]
  BY <1>2, <1>5, <1>7
<1>9. PICK j \in 1..n : b[j] = a[i]
  <2>1. a[i] \in ToSet(b)  BY <1>3, <1>4, <1>8
  <2> QED BY <1>3, <2>1 DEF ToSet
<1>10. PICK k \in 1..n : a[k] = b[i]
  <2>1. b[i] \in ToSet(a)  BY <1>3, <1>4, <1>8
  <2> QED BY <1>3, <2>1 DEF ToSet
<1>11. j > i
  <2>1. j # i  BY <1>8, <1>9
  <2>2. ASSUME j < i PROVE FALSE
    <3>1. a[j] = a[i]  BY <1>8, <1>9, <2>2
    <3> QED BY <1>3, <1>4, <1>8, <2>2, <3>1 DEF IsInjective
  <2> QED BY <1>2, <1>8, <2>1, <2>2
<1>12. k > i
  <2>1. k # i  BY <1>8, <1>10
  <2>2. ASSUME k < i PROVE FALSE
    <3>1. b[k] = b[i]  BY <1>8, <1>10, <2>2
    <3> QED BY <1>3, <1>4, <1>8, <2>2, <3>1 DEF IsInjective
  <2> QED BY <1>2, <1>8, <2>1, <2>2
<1>13. <<b[i], a[i]>> \in R
  <2>1. i \in DOMAIN b /\ j \in DOMAIN b  BY <1>3, <1>8
  <2> QED BY <1>9, <1>11, <2>1
<1>14. <<a[i], b[i]>> \in R
  <2>1. i \in DOMAIN a /\ k \in DOMAIN a  BY <1>3, <1>8
  <2> QED BY <1>10, <1>12, <2>1
<1>15. a[i] \in E /\ b[i] \in E  BY <1>3, <1>8
<1> QED BY <1>13, <1>14, <1>15

LEMMA OrderMade ==
    ASSUME NEW E, IsFiniteSet(E), NEW S, NEW ids \in Seq(S), IsInjective(ids), ToSet(ids) = E
    PROVE  ids \in SetToSeqs(E)
<1>1. Len(ids) \in Nat /\ DOMAIN ids = 1..Len(ids) /\ ids \in [1..Len(ids) -> S]
  <2>1. Len(ids) \in Nat  BY LenProperties
  <2>2. DOMAIN ids = 1..Len(ids)  BY LenProperties
  <2>3. ids \in [1..Len(ids) -> S]  BY LenProperties
  <2> QED BY <2>1, <2>2, <2>3
<1>2. PICK n \in Nat : n = Len(ids)
  <2>1. Len(ids) \in Nat  BY LenProperties
  <2> QED BY <2>1
<1>3. ids \in [1..n -> E]  BY <1>1, <1>2 DEF ToSet
<1>4. ids \in Surjection(1..n, E)  BY <1>3 DEF Surjection, ToSet
<1>5. ids \in Injection(1..n, E)  BY <1>3 DEF Injection
<1>6. IsFiniteSet(1..n) /\ Cardinality(1..n) = n  BY FS_Interval
<1>7. Cardinality(E) = n  BY <1>4, <1>5, <1>6, FS_Surjection
<1>8. \A i, j \in 1..n : i # j => ids[i] # ids[j]  BY <1>3 DEF IsInjective
<1> QED BY <1>3, <1>7, <1>8 DEF SetToSeqs

LEMMA ListedMade ==
    ASSUME NEW pos, Rows(pos), NEW ids \in Seq(Episodes), IsInjective(ids), ToSet(ids) = DOMAIN pos,
           \A i, j \in DOMAIN ids : i < j => pos[ids[i]] <= pos[ids[j]]
    PROVE  ids \in Listed(pos)
<1>1. IsFiniteSet(DOMAIN pos)  BY RowsFinite
<1>2. ids \in SetToSeqs(DOMAIN pos)  BY <1>1, OrderMade
<1> QED BY <1>2 DEF Listed

LEMMA ListedRead ==
    ASSUME NEW pos, Rows(pos), NEW ids \in Listed(pos)
    PROVE  /\ ids \in Seq(Episodes) /\ IsInjective(ids) /\ ToSet(ids) = DOMAIN pos
           /\ \A i, j \in DOMAIN ids : i < j => pos[ids[i]] <= pos[ids[j]]
<1>1. ids \in SetToSeqs(DOMAIN pos)  BY DEF Listed
<1> QED BY <1>1, OrderRead DEF Listed

\* Rows whose positions differ are read in one order.
LEMMA ListedOnce ==
    ASSUME NEW pos, Rows(pos), Distinct(pos), NEW a \in Listed(pos), NEW b \in Listed(pos)
    PROVE  a = b
<1> DEFINE R == {xy \in (DOMAIN pos) \X (DOMAIN pos) : pos[xy[1]] < pos[xy[2]]}
<1>1. \A x \in DOMAIN pos : pos[x] \in Int  BY DEF Rows
<1>2. ASSUME NEW ids \in Listed(pos), NEW i \in DOMAIN ids, NEW j \in DOMAIN ids, i < j
      PROVE  <<ids[i], ids[j]>> \in R
  <2>1. IsInjective(ids) /\ ToSet(ids) = DOMAIN pos /\ pos[ids[i]] <= pos[ids[j]]
    BY <1>2, ListedRead
  <2>2. ids[i] \in DOMAIN pos /\ ids[j] \in DOMAIN pos  BY <2>1 DEF ToSet
  <2>3. DOMAIN ids \subseteq Int
    <3>1. ids \in Seq(Episodes)  BY ListedRead
    <3> QED BY <3>1, LenProperties
  <2>4. i # j  BY <1>2, <2>3
  <2>5. ids[i] # ids[j]  BY <2>1, <2>4 DEF IsInjective
  <2>6. pos[ids[i]] # pos[ids[j]]  BY <2>2, <2>5 DEF Distinct
  <2> QED BY <1>1, <2>1, <2>2, <2>6
<1>3. \A x, y \in DOMAIN pos : <<x, y>> \in R => <<y, x>> \notin R  BY <1>1
<1>4. IsFiniteSet(DOMAIN pos) /\ a \in SetToSeqs(DOMAIN pos) /\ b \in SetToSeqs(DOMAIN pos)
  BY RowsFinite DEF Listed
<1> HIDE DEF R
<1> QED BY <1>2, <1>3, <1>4, OneOrder

\* So is what is sorted: ties go by id.
LEMMA SortedOnce ==
    ASSUME NEW E \in SUBSET Episodes, NEW key \in [Episodes -> Nat],
           NEW a \in Sorted(key, E), NEW b \in Sorted(key, E)
    PROVE  a = b
<1> DEFINE R == {xy \in E \X E : Before(key, xy[1], xy[2])}
<1>1. Episodes \subseteq Nat  BY OrderAssumption
<1>2. \A x, y \in E : <<x, y>> \in R => <<y, x>> \notin R
  BY <1>1 DEF Before
<1>3. IsFiniteSet(E)  BY EpisodesFinite, FS_Subset
<1>4. ASSUME NEW ids \in Sorted(key, E), NEW i \in DOMAIN ids, NEW j \in DOMAIN ids, i < j
      PROVE  <<ids[i], ids[j]>> \in R
  <2>1. ids \in SetToSeqs(E) /\ Before(key, ids[i], ids[j])  BY <1>4 DEF Sorted
  <2>2. ToSet(ids) = E  BY <1>3, <2>1, OrdersOf
  <2>3. ids[i] \in E /\ ids[j] \in E  BY <2>2 DEF ToSet
  <2> QED BY <2>1, <2>3
<1>5. a \in SetToSeqs(E) /\ b \in SetToSeqs(E)  BY DEF Sorted
<1> HIDE DEF R
<1> QED BY <1>2, <1>3, <1>4, <1>5, OneOrder

-----------------------------------------------------------------------------
(* What the server writes is what the client has done.                     *)

LEMMA IndexOf ==
    ASSUME NEW S, NEW ids \in Seq(S), IsInjective(ids), NEW i \in 1..Len(ids)
    PROVE  Index(ids, ids[i]) = i /\ ids[i] \in ToSet(ids)
<1>1. DOMAIN ids = 1..Len(ids)  BY LenProperties
<1>2. ids[i] \in ToSet(ids)  BY <1>1 DEF ToSet
<1>3. Index(ids, ids[i]) \in 1..Len(ids) /\ ids[Index(ids, ids[i])] = ids[i]  BY <1>2, IndexFound
<1> QED BY <1>1, <1>2, <1>3 DEF IsInjective

\* Rows that are renumbered are read in the order that was written.
LEMMA RenumberLists ==
    ASSUME NEW order \in Seq(Episodes), Covers(order, position), Rows(position)
    PROVE  order \in Listed(Renumber(order))
<1>1. PICK pos : pos = Renumber(order)  OBVIOUS
<1>2. Rows(pos)  BY <1>1, RenumberRows
<1>3. DOMAIN pos = ToSet(order) /\ \A e \in ToSet(order) : pos[e] = Index(order, e) - 1
  <2>1. DOMAIN position \cup ToSet(order) = ToSet(order)  BY DEF Covers
  <2> QED BY <1>1, <2>1 DEF Renumber
<1>4. Len(order) \in Nat /\ DOMAIN order = 1..Len(order)  BY LenProperties
<1>5. \A i \in DOMAIN order : pos[order[i]] = i - 1
  <2> TAKE i \in DOMAIN order
  <2>1. Index(order, order[i]) = i /\ order[i] \in ToSet(order)  BY <1>4, IndexOf DEF Covers
  <2> QED BY <1>3, <2>1
<1>6. \A i, j \in DOMAIN order : i < j => pos[order[i]] <= pos[order[j]]  BY <1>4, <1>5
<1> QED BY <1>1, <1>2, <1>3, <1>6, ListedMade DEF Covers

\* Behind the last there is always room.
LEMMA AddedLast ==
    ASSUME NEW ids \in Seq(Episodes), IsInjective(ids), NEW e \in Episodes, e \notin ToSet(ids)
    PROVE  /\ Added(ids, e, End) \in Seq(Episodes) /\ Len(Added(ids, e, End)) = Len(ids) + 1
           /\ \A i \in 1..(Len(ids) + 1) : Added(ids, e, End)[i] = IF i <= Len(ids) THEN ids[i] ELSE e
<1>1. Len(ids) \in Nat /\ DOMAIN ids = 1..Len(ids) /\ ids \in [1..Len(ids) -> Episodes]
  <2>1. Len(ids) \in Nat  BY LenProperties
  <2>2. DOMAIN ids = 1..Len(ids)  BY LenProperties
  <2>3. ids \in [1..Len(ids) -> Episodes]  BY LenProperties
  <2> QED BY <2>1, <2>2, <2>3
<1>2. PICK n \in Nat : n = Len(ids)
  <2>1. Len(ids) \in Nat  BY LenProperties
  <2> QED BY <2>1
<1>3. ids \in Injection(1..n, Episodes)  BY <1>1, <1>2 DEF Injection
<1>4. IsFiniteSet(1..n) /\ Cardinality(1..n) = n  BY FS_Interval
<1>5. IsFiniteSet(Episodes) /\ Cardinality(Episodes) \in Nat  BY EpisodesFinite, FS_CardinalityType
<1>6. n <= Cardinality(Episodes)  BY <1>3, <1>4, <1>5, FS_Injection
<1>7. Lesser(Greater(End, 0), Len(ids)) = Len(ids)  BY <1>2, <1>5, <1>6 DEF Lesser, Greater, End
<1>8. Added(ids, e, End) = InsertAt(ids, Len(ids) + 1, e)  BY <1>7 DEF Added
<1>9. Len(ids) + 1 \in 1..(Len(ids) + 1)  BY <1>1
<1>10. /\ InsertAt(ids, Len(ids) + 1, e) \in Seq(Episodes)
       /\ Len(InsertAt(ids, Len(ids) + 1, e)) = Len(ids) + 1
       /\ \A i \in 1..(Len(ids) + 1) :
            InsertAt(ids, Len(ids) + 1, e)[i] =
              IF i < Len(ids) + 1 THEN ids[i] ELSE IF i = Len(ids) + 1 THEN e ELSE ids[i - 1]
  <2>1. PICK at \in 1..(Len(ids) + 1) : at = Len(ids) + 1  BY <1>9
  <2>2. InsertAt(ids, at, e) \in Seq(Episodes) /\ Inserted(InsertAt(ids, at, e), ids, at, e)  BY InsertedAt
  <2> QED BY <2>1, <2>2 DEF Inserted
<1> QED BY <1>1, <1>8, <1>10

\* A row behind the others is read last.
LEMMA LastRow ==
    ASSUME NEW pos, Rows(pos), Distinct(pos), NEW ids \in Listed(pos), NEW e \in Episodes, e \notin DOMAIN pos,
           NEW new, Rows(new), DOMAIN new = DOMAIN pos \cup {e}, Above(new[e], pos),
           \A x \in DOMAIN pos : new[x] = pos[x]
    PROVE  Distinct(new) /\ Added(ids, e, End) \in Listed(new)
<1>2. new[e] \in Int /\ \A x \in DOMAIN pos : pos[x] \in Int /\ pos[x] < new[e]  BY DEF Rows, Above
<1>4. Distinct(new)
  <2> SUFFICES ASSUME NEW a \in DOMAIN new, NEW b \in DOMAIN new, a # b PROVE new[a] # new[b]
    BY DEF Distinct
  <2>1. CASE a = e \/ b = e  BY <1>2, <2>1
  <2>2. CASE a # e /\ b # e  BY <2>2 DEF Distinct
  <2> QED BY <2>1, <2>2
<1>5. /\ ids \in Seq(Episodes) /\ IsInjective(ids) /\ ToSet(ids) = DOMAIN pos
      /\ \A i, j \in DOMAIN ids : i < j => pos[ids[i]] <= pos[ids[j]]
  BY ListedRead
<1>6. PICK more : more = Added(ids, e, End)  OBVIOUS
<1>7. End \in Int  BY EpisodesFinite, FS_CardinalityType DEF End
<1>8. more \in Seq(Episodes) /\ IsInjective(more) /\ ToSet(more) = DOMAIN new
  BY <1>5, <1>6, <1>7, AddedCovers
<1>9. Len(more) = Len(ids) + 1 /\ \A i \in 1..(Len(ids) + 1) : more[i] = IF i <= Len(ids) THEN ids[i] ELSE e
  BY <1>5, <1>6, AddedLast
<1>10. Len(ids) \in Nat /\ DOMAIN ids = 1..Len(ids) /\ DOMAIN more = 1..(Len(ids) + 1)
  BY <1>5, <1>8, <1>9, LenProperties
<1>11. ASSUME NEW i \in DOMAIN more, NEW j \in DOMAIN more, i < j
       PROVE  new[more[i]] <= new[more[j]]
  <2>1. i \in DOMAIN ids /\ more[i] = ids[i]  BY <1>9, <1>10, <1>11
  <2>2. ids[i] \in DOMAIN pos  BY <1>5, <2>1 DEF ToSet
  <2>3. CASE j = Len(ids) + 1
    <3>1. more[j] = e  BY <1>9, <1>10, <2>3
    <3> QED BY <1>2, <2>1, <2>2, <3>1
  <2>4. CASE j # Len(ids) + 1
    <3>1. j \in DOMAIN ids /\ more[j] = ids[j]  BY <1>9, <1>10, <2>4
    <3>2. ids[j] \in DOMAIN pos  BY <1>5, <3>1 DEF ToSet
    <3>3. pos[ids[i]] <= pos[ids[j]]  BY <1>5, <1>11, <2>1, <3>1
    <3> QED BY <2>1, <2>2, <3>1, <3>2, <3>3
  <2> QED BY <2>3, <2>4
<1>12. more \in Listed(new)  BY <1>8, <1>11, ListedMade
<1> QED BY <1>4, <1>6, <1>12

\* Rows but one are read in their order.
LEMMA RowGone ==
    ASSUME NEW pos, Rows(pos), Distinct(pos), NEW ids \in Listed(pos), NEW e \in DOMAIN pos
    PROVE  /\ Rows(Without(pos, e)) /\ Distinct(Without(pos, e))
           /\ RemoveAt(ids, Index(ids, e)) \in Listed(Without(pos, e))
<1>1. Rows(Without(pos, e)) /\ Distinct(Without(pos, e))  BY WithoutKeeps
<1>2. /\ ids \in Seq(Episodes) /\ IsInjective(ids) /\ ToSet(ids) = DOMAIN pos
      /\ \A i, j \in DOMAIN ids : i < j => pos[ids[i]] <= pos[ids[j]]
  BY ListedRead
<1>3. PICK at : at = Index(ids, e)  OBVIOUS
<1>4. at \in 1..Len(ids) /\ ids[at] = e  BY <1>2, <1>3, IndexFound
<1>5. PICK less : less = RemoveAt(ids, at)  OBVIOUS
<1>6. less \in Seq(Episodes) /\ IsInjective(less) /\ Len(less) = Len(ids) - 1 /\ ToSet(less) = DOMAIN pos \ {e}
  BY <1>2, <1>4, <1>5, RemoveKeepsOrder
<1>7. \A i \in 1..(Len(ids) - 1) : less[i] = IF i < at THEN ids[i] ELSE ids[i + 1]
  BY <1>2, <1>4, <1>5, RemovedAt
<1>8. Len(ids) \in Nat /\ DOMAIN ids = 1..Len(ids) /\ DOMAIN less = 1..(Len(ids) - 1)
  BY <1>2, <1>6, LenProperties
<1>9. ASSUME NEW i \in DOMAIN less, NEW j \in DOMAIN less, i < j
      PROVE  Without(pos, e)[less[i]] <= Without(pos, e)[less[j]]
  <2>1. PICK a : a = IF i < at THEN i ELSE i + 1  OBVIOUS
  <2>2. PICK b : b = IF j < at THEN j ELSE j + 1  OBVIOUS
  <2>3. a \in DOMAIN ids /\ b \in DOMAIN ids /\ a < b  BY <1>4, <1>8, <1>9, <2>1, <2>2
  <2>4. less[i] = ids[a] /\ less[j] = ids[b]  BY <1>7, <1>8, <2>1, <2>2
  <2>5. pos[less[i]] <= pos[less[j]]  BY <1>2, <2>3, <2>4
  <2>6. less[i] \in DOMAIN pos \ {e} /\ less[j] \in DOMAIN pos \ {e}  BY <1>6 DEF ToSet
  <2> QED BY <2>5, <2>6 DEF Without
<1>10. DOMAIN Without(pos, e) = DOMAIN pos \ {e}  BY DEF Without
<1>11. less \in Listed(Without(pos, e))  BY <1>1, <1>6, <1>9, <1>10, ListedMade
<1> QED BY <1>1, <1>3, <1>5, <1>11

\* Of what it has loaded the client knows when it was published.
LEMMA SortsAlike ==
    ASSUME NEW E \in SUBSET Known, NEW by, by # "added", NEW order \in Sorted(Published, E)
    PROVE  SortedBy(LocalKey(by), E) = order
<1>1. E \in SUBSET Episodes /\ Published \in [Episodes -> Nat]  BY OrderAssumption
<1>2. LocalKey(by) \in [Episodes -> Nat] /\ \A e \in E : LocalKey(by)[e] = Published[e]
  BY <1>1 DEF LocalKey
<1>3. IsFiniteSet(E)  BY <1>1, EpisodesFinite, FS_Subset
<1>4. order \in SetToSeqs(E) /\ \A i, j \in DOMAIN order : i < j => Before(Published, order[i], order[j])
  BY DEF Sorted
<1>5. \A i \in DOMAIN order : order[i] \in E
  <2>1. ToSet(order) = E  BY <1>3, <1>4, OrdersOf
  <2> QED BY <2>1 DEF ToSet
<1>6. order \in Sorted(LocalKey(by), E)
  BY <1>2, <1>4, <1>5 DEF Sorted, Before
<1>7. SortedBy(LocalKey(by), E) \in Sorted(LocalKey(by), E)  BY <1>6 DEF SortedBy
<1> QED BY <1>1, <1>2, <1>6, <1>7, SortedOnce

-----------------------------------------------------------------------------
(* What an operation does again to a list it has changed is nothing.       *)

LEMMA ReorderedIsTarget ==
    ASSUME NEW ids \in Seq(Episodes), NEW e \in ToSet(ids), NEW to \in Int
    PROVE  Reordered(ids, e, to) = Target(ids, e, to)
<1>1. PICK n : n = Len(ids)  OBVIOUS
<1>2. n \in Nat /\ n >= 1
  <2>1. Len(ids) \in Nat /\ Index(ids, e) \in 1..Len(ids)  BY LenProperties, IndexFound
  <2> QED BY <1>1, <2>1
<1>3. Lesser(Greater(to, 0), n - 1) = Clamped(to, n - 1)  BY <1>2 DEF Lesser, Greater, Clamped
<1> QED BY <1>1, <1>3 DEF Reordered, Target

LEMMA RemoveInserted ==
    ASSUME NEW S, NEW ids \in Seq(S), NEW e \in S, NEW at \in 1..(Len(ids) + 1)
    PROVE  RemoveAt(InsertAt(ids, at, e), at) = ids
<1>1. PICK more : more = InsertAt(ids, at, e)  OBVIOUS
<1>2. /\ more \in Seq(S) /\ Len(more) = Len(ids) + 1
      /\ \A i \in 1..(Len(ids) + 1) : more[i] = IF i < at THEN ids[i] ELSE IF i = at THEN e ELSE ids[i - 1]
  <2>1. InsertAt(ids, at, e) \in Seq(S) /\ Inserted(InsertAt(ids, at, e), ids, at, e)  BY InsertedAt
  <2> QED BY <1>1, <2>1 DEF Inserted
<1>3. PICK less : less = RemoveAt(more, at)  OBVIOUS
<1>4. Len(ids) \in Nat  BY LenProperties
<1>5. /\ less \in Seq(S) /\ Len(less) = Len(more) - 1
      /\ \A i \in 1..(Len(more) - 1) : less[i] = IF i < at THEN more[i] ELSE more[i + 1]
  BY <1>2, <1>3, RemovedAt
<1>6. Len(less) = Len(ids)  BY <1>2, <1>4, <1>5
<1>7. ASSUME NEW i \in 1..Len(ids) PROVE less[i] = ids[i]
  <2>1. CASE i < at  BY <1>2, <1>4, <1>5, <2>1
  <2>2. CASE i >= at
    <3>1. less[i] = more[i + 1]  BY <1>2, <1>4, <1>5, <2>2
    <3>2. more[i + 1] = ids[(i + 1) - 1]  BY <1>2, <1>4, <2>2
    <3> QED BY <1>4, <3>1, <3>2
  <2> QED BY <1>4, <2>1, <2>2
<1>8. less = ids  BY <1>5, <1>6, <1>7, SeqEqual
<1> QED BY <1>1, <1>3, <1>8

LEMMA TargetAgain ==
    ASSUME NEW ids \in Seq(Episodes), IsInjective(ids), NEW e \in ToSet(ids), NEW to \in Int
    PROVE  Target(Target(ids, e, to), e, to) = Target(ids, e, to)
<1>1. Len(ids) \in Nat /\ Index(ids, e) \in 1..Len(ids) /\ ids[Index(ids, e)] = e
  BY LenProperties, IndexFound
<1>2. e \in Episodes  BY <1>1, ElementOfSeq
<1>3. PICK rest : rest = RemoveAt(ids, Index(ids, e))  OBVIOUS
<1>4. rest \in Seq(Episodes) /\ IsInjective(rest) /\ Len(rest) = Len(ids) - 1 /\ ToSet(rest) = ToSet(ids) \ {e}
  BY <1>1, <1>3, RemoveKeepsOrder
<1>5. PICK at : at = Clamped(to, Len(ids) - 1) + 1  OBVIOUS
<1>6. at \in 1..(Len(rest) + 1)
  <2>1. PICK n \in Nat : n = Len(ids)  BY <1>1
  <2>2. n >= 1  BY <1>1, <2>1
  <2>3. Clamped(to, n - 1) \in 0..(n - 1)  BY <2>2 DEF Clamped
  <2> QED BY <1>4, <1>5, <2>1, <2>2, <2>3
<1>7. PICK new : new = InsertAt(rest, at, e)  OBVIOUS
<1>8. Target(ids, e, to) = new  BY <1>3, <1>5, <1>7 DEF Target
<1>9. new \in Seq(Episodes) /\ IsInjective(new)
  BY <1>2, <1>4, <1>6, <1>7, InsertKeepsOrder
<1>10. Len(new) = Len(ids) /\ new[at] = e
  <2>1. Inserted(InsertAt(rest, at, e), rest, at, e)  BY <1>2, <1>4, <1>6, InsertedAt
  <2> QED BY <1>1, <1>4, <1>6, <1>7, <2>1 DEF Inserted
<1>11. Index(new, e) = at
  <2>1. at \in 1..Len(new)  BY <1>1, <1>4, <1>6, <1>10
  <2> QED BY <1>9, <1>10, <2>1, IndexOf
<1>12. RemoveAt(new, at) = rest  BY <1>2, <1>4, <1>6, <1>7, RemoveInserted
<1>13. Target(new, e, to) = new  BY <1>5, <1>7, <1>10, <1>11, <1>12 DEF Target
<1> QED BY <1>8, <1>13

\* One added after another, up to the m-th.
Adding(f, op, ids, m) ==
    f = [n \in 0..m |-> IF n = 0 THEN ids ELSE Added(f[n - 1], op.ids[n], op.at)]

LEMMA AddingMeans ==
    ASSUME NEW f, NEW op, NEW ids, NEW m \in Nat, Adding(f, op, ids, m)
    PROVE  f[0] = ids /\ \A n \in 1..m : f[n] = Added(f[n - 1], op.ids[n], op.at)
<1> DEFINE rhs == [n \in 0..m |-> IF n = 0 THEN ids ELSE Added(f[n - 1], op.ids[n], op.at)]
<1>1. f = rhs  BY DEF Adding
<1>2. rhs[0] = ids /\ \A n \in 1..m : rhs[n] = Added(f[n - 1], op.ids[n], op.at)  OBVIOUS
<1> QED BY <1>1, <1>2

LEMMA AddingExists ==
    ASSUME NEW op, NEW ids, NEW m \in Nat
    PROVE  \E f : Adding(f, op, ids, m)
<1> DEFINE S == {n \in Nat : \E f : Adding(f, op, ids, n)}
<1>1. 0 \in S
  <2> DEFINE f == [n \in 0..0 |-> ids]
  <2>1. Adding(f, op, ids, 0)  BY DEF Adding
  <2> QED BY <2>1
<1>2. ASSUME NEW n \in Nat, n \in S PROVE n + 1 \in S
  <2>1. PICK f : Adding(f, op, ids, n)  BY <1>2
  <2> DEFINE g == [k \in 0..(n + 1) |-> IF k = n + 1 THEN Added(f[n], op.ids[k], op.at) ELSE f[k]]
             h == [k \in 0..(n + 1) |-> IF k = 0 THEN ids ELSE Added(g[k - 1], op.ids[k], op.at)]
  <2>2. ASSUME NEW k \in 0..(n + 1) PROVE g[k] = h[k]
    <3>1. CASE k = n + 1
      <4>1. g[k] = Added(f[n], op.ids[k], op.at) /\ g[k - 1] = f[n]  BY <3>1
      <4> QED BY <3>1, <4>1
    <3>2. CASE k # n + 1 /\ k # 0
      <4>1. k \in 1..n /\ g[k] = f[k] /\ g[k - 1] = f[k - 1]  BY <3>2
      <4>2. f[k] = Added(f[k - 1], op.ids[k], op.at)  BY <2>1, <4>1, AddingMeans
      <4> QED BY <3>2, <4>1, <4>2
    <3>3. CASE k = 0  BY <2>1, <3>3, AddingMeans
    <3> QED BY <3>1, <3>2, <3>3
  <2>3. g = h  BY <2>2
  <2>4. Adding(g, op, ids, n + 1)  BY <2>3 DEF Adding
  <2> QED BY <2>4
<1> HIDE DEF S
<1>3. m \in S  BY <1>1, <1>2, InductiveSet
<1> QED BY <1>3 DEF S

LEMMA AddingOnce ==
    ASSUME NEW op, NEW ids, NEW m \in Nat, NEW f, Adding(f, op, ids, m), NEW g, Adding(g, op, ids, m)
    PROVE  f[m] = g[m]
<1> DEFINE S == {k \in Nat : k <= m => f[k] = g[k]}
<1>1. 0 \in S  BY AddingMeans
<1>2. ASSUME NEW k \in Nat, k \in S PROVE k + 1 \in S
  <2>1. SUFFICES ASSUME k + 1 <= m PROVE f[k + 1] = g[k + 1]  OBVIOUS
  <2>2. f[k] = g[k] /\ k + 1 \in 1..m /\ (k + 1) - 1 = k  BY <1>2, <2>1
  <2>3. f[k + 1] = Added(f[k], op.ids[k + 1], op.at) /\ g[k + 1] = Added(g[k], op.ids[k + 1], op.at)
    BY <2>2, AddingMeans
  <2> QED BY <2>2, <2>3
<1> HIDE DEF S
<1>3. m \in S  BY <1>1, <1>2, InductiveSet
<1> QED BY <1>3 DEF S

LEMMA AllAddedIs ==
    ASSUME NEW op, NEW ids, Len(op.ids) \in Nat, NEW f, Adding(f, op, ids, Len(op.ids))
    PROVE  AllAdded(op, ids) = f[Len(op.ids)]
<1> DEFINE g == CHOOSE h : Adding(h, op, ids, Len(op.ids))
<1>1. Adding(g, op, ids, Len(op.ids))  BY AddingExists
<1>2. AllAdded(op, ids) = g[Len(op.ids)]  BY DEF AllAdded, Adding
<1> HIDE DEF g
<1> QED BY <1>1, <1>2, AddingOnce

LEMMA OneAdded ==
    ASSUME NEW op, NEW ids, Len(op.ids) = 1
    PROVE  AllAdded(op, ids) = Added(ids, op.ids[1], op.at)
<1>1. Len(op.ids) \in Nat  OBVIOUS
<1>2. PICK f : Adding(f, op, ids, Len(op.ids))  BY <1>1, AddingExists
<1>3. f[0] = ids /\ \A n \in 1..Len(op.ids) : f[n] = Added(f[n - 1], op.ids[n], op.at)
  BY <1>1, <1>2, AddingMeans
<1>4. f[1] = Added(f[0], op.ids[1], op.at)
  <2>1. 1 \in 1..Len(op.ids) /\ 1 - 1 = 0  OBVIOUS
  <2> QED BY <1>3, <2>1
<1>5. AllAdded(op, ids) = f[Len(op.ids)]  BY <1>1, <1>2, AllAddedIs
<1> QED BY <1>3, <1>4, <1>5

\* Members are left where they are.
LEMMA NoneAdded ==
    ASSUME NEW op, NEW ids, Len(op.ids) \in Nat, \A i \in 1..Len(op.ids) : op.ids[i] \in ToSet(ids)
    PROVE  AllAdded(op, ids) = ids
<1>1. PICK n \in Nat : n = Len(op.ids)  OBVIOUS
<1>2. PICK f : f = [i \in 0..n |-> ids]  OBVIOUS
<1>3. \A i \in 1..n : Added(ids, op.ids[i], op.at) = ids  BY <1>1 DEF Added
<1>4. \A i \in 0..n : f[i] = IF i = 0 THEN ids ELSE Added(f[i - 1], op.ids[i], op.at)
  BY <1>2, <1>3
<1>5. Adding(f, op, ids, n)  BY <1>2, <1>4 DEF Adding
<1> QED BY <1>1, <1>2, <1>5, AllAddedIs

\* Once the first that is no member has been added, all are added as before.
LEMMA FirstAdded ==
    ASSUME NEW op, NEW ids, Len(op.ids) \in Nat, NEW k \in 1..Len(op.ids),
           \A i \in 1..(k - 1) : op.ids[i] \in ToSet(ids),
           NEW more, more = Added(ids, op.ids[k], op.at), \A i \in 1..k : op.ids[i] \in ToSet(more)
    PROVE  AllAdded(op, more) = AllAdded(op, ids)
<1>1. PICK n \in Nat : n = Len(op.ids)  OBVIOUS
<1>2. PICK f : Adding(f, op, ids, n)  BY AddingExists
<1>3. f[0] = ids /\ \A i \in 1..n : f[i] = Added(f[i - 1], op.ids[i], op.at)  BY <1>2, AddingMeans
<1> DEFINE S == {i \in Nat : i < k => f[i] = ids}
<1>4. 0 \in S  BY <1>3
<1>5. ASSUME NEW i \in Nat, i \in S PROVE i + 1 \in S
  <2>1. SUFFICES ASSUME i + 1 < k PROVE f[i + 1] = ids  OBVIOUS
  <2>2. f[i] = ids /\ i + 1 \in 1..n /\ i + 1 \in 1..(k - 1) /\ (i + 1) - 1 = i  BY <1>1, <1>5, <2>1
  <2>3. f[i + 1] = Added(ids, op.ids[i + 1], op.at)  BY <1>3, <2>2
  <2>4. op.ids[i + 1] \in ToSet(ids)  BY <2>2
  <2> QED BY <2>3, <2>4 DEF Added
<1> HIDE DEF S
<1>6. k - 1 \in S
  <2>1. Nat \subseteq S  BY <1>4, <1>5, InductiveSet
  <2>2. k - 1 \in Nat  OBVIOUS
  <2> QED BY <2>1, <2>2
<1>7. f[k - 1] = ids  BY <1>6 DEF S
<1>8. f[k] = more  BY <1>1, <1>3, <1>7
<1>9. PICK g : g = [i \in 0..n |-> IF i <= k THEN more ELSE f[i]]  OBVIOUS
<1>10. ASSUME NEW i \in 1..n PROVE g[i] = Added(g[i - 1], op.ids[i], op.at)
  <2>1. CASE i <= k
    <3>1. g[i] = more /\ g[i - 1] = more  BY <1>9, <2>1
    <3>2. op.ids[i] \in ToSet(more)  BY <2>1
    <3> QED BY <3>1, <3>2 DEF Added
  <2>2. CASE i > k
    <3>1. g[i] = f[i] /\ g[i - 1] = f[i - 1]
      <4>1. CASE i - 1 = k  BY <1>8, <1>9, <2>2, <4>1
      <4>2. CASE i - 1 # k  BY <1>9, <2>2, <4>2
      <4> QED BY <4>1, <4>2
    <3> QED BY <1>3, <3>1
  <2> QED BY <2>1, <2>2
<1>11. g[0] = more  BY <1>9
<1>12. Adding(g, op, more, n)
  <2>1. \A i \in 0..n : g[i] = IF i = 0 THEN more ELSE Added(g[i - 1], op.ids[i], op.at)
    BY <1>10, <1>11
  <2>2. g = [i \in 0..n |-> g[i]]  BY <1>9
  <2> QED BY <2>1, <2>2 DEF Adding
<1>13. g[n] = f[n]  BY <1>1, <1>8, <1>9
<1> QED BY <1>1, <1>2, <1>12, <1>13, AllAddedIs

\* What is not in the list cannot be taken out.
LEMMA NoneLeave ==
    ASSUME NEW ids \in Seq(Episodes), IsInjective(ids), NEW gone, ToSet(ids) \cap gone = {}
    PROVE  Left(ids, gone) = ids
<1>1. PICK E : E = ToSet(ids)  OBVIOUS
<1>2. ToSet(ids) \ gone = E  BY <1>1
<1>3. Len(ids) \in Nat /\ DOMAIN ids = 1..Len(ids)  BY LenProperties
<1>4. E \subseteq Episodes  BY <1>1, <1>3, ElementOfSeq DEF ToSet
<1>5. IsFiniteSet(E)  BY <1>4, EpisodesFinite, FS_Subset
<1>6. ids \in SetToSeqs(E)  BY <1>1, <1>5, OrderMade
<1>7. \A i \in DOMAIN ids : Index(ids, ids[i]) = i  BY <1>3, IndexOf
<1>8. ids \in InTurn(ids, E)  BY <1>6, <1>7 DEF InTurn
<1>9. PICK part \in InTurn(ids, E) : Left(ids, gone) = part  BY <1>2, <1>8 DEF Left
<1>10. PICK R : R = {xy \in E \X E : Index(ids, xy[1]) < Index(ids, xy[2])}  OBVIOUS
<1>11. \A x \in E : Index(ids, x) \in Int  BY <1>1, <1>3, IndexFound
<1>12. \A x, y \in E : <<x, y>> \in R => <<y, x>> \notin R  BY <1>10, <1>11
<1>13. ASSUME NEW l \in InTurn(ids, E), NEW i \in DOMAIN l, NEW j \in DOMAIN l, i < j
       PROVE  <<l[i], l[j]>> \in R
  <2>1. l \in SetToSeqs(E) /\ Index(ids, l[i]) < Index(ids, l[j])  BY <1>13 DEF InTurn
  <2>2. ToSet(l) = E  BY <1>5, <2>1, OrdersOf
  <2>3. l[i] \in E /\ l[j] \in E  BY <2>2 DEF ToSet
  <2> QED BY <1>10, <2>1, <2>3
<1>14. part \in SetToSeqs(E)  BY DEF InTurn
<1>15. part = ids  BY <1>5, <1>6, <1>8, <1>12, <1>13, <1>14, OneOrder
<1> QED BY <1>9, <1>15

\* One that leaves first does not change who is left.
LEMMA FirstLeaves ==
    ASSUME NEW ids \in Seq(Episodes), IsInjective(ids), NEW e \in ToSet(ids), NEW gone, e \in gone
    PROVE  Left(RemoveAt(ids, Index(ids, e)), gone) = Left(ids, gone)
<1>1. PICK at : at = Index(ids, e)  OBVIOUS
<1>2. at \in 1..Len(ids) /\ ids[at] = e  BY <1>1, IndexFound
<1>3. PICK less : less = RemoveAt(ids, at)  OBVIOUS
<1>4. less \in Seq(Episodes) /\ IsInjective(less) /\ Len(less) = Len(ids) - 1 /\ ToSet(less) = ToSet(ids) \ {e}
  BY <1>2, <1>3, RemoveKeepsOrder
<1>5. \A i \in 1..(Len(ids) - 1) : less[i] = IF i < at THEN ids[i] ELSE ids[i + 1]
  BY <1>2, <1>3, RemovedAt
<1>6. PICK E : E = ToSet(ids) \ gone  OBVIOUS
<1>7. ToSet(less) \ gone = E  BY <1>4, <1>6
<1>8. Len(ids) \in Nat  BY LenProperties
<1>9. ASSUME NEW x \in E
      PROVE  /\ Index(ids, x) \in 1..Len(ids)
             /\ Index(less, x) = IF Index(ids, x) < at THEN Index(ids, x) ELSE Index(ids, x) - 1
             /\ Index(ids, x) # at
  <2>1. x \in ToSet(ids) /\ x # e  BY <1>6
  <2>2. PICK i : i = Index(ids, x)  OBVIOUS
  <2>3. i \in 1..Len(ids) /\ ids[i] = x  BY <2>1, <2>2, IndexFound
  <2>4. i # at  BY <1>2, <2>1, <2>3
  <2>5. PICK j : j = IF i < at THEN i ELSE i - 1  OBVIOUS
  <2>6. j \in 1..(Len(ids) - 1) /\ less[j] = x  BY <1>2, <1>5, <1>8, <2>3, <2>4, <2>5
  <2>7. Index(less, x) = j  BY <1>4, <2>6, IndexOf
  <2> QED BY <2>2, <2>3, <2>4, <2>5, <2>7
<1>10. \A x, y \in E : Index(less, x) < Index(less, y) <=> Index(ids, x) < Index(ids, y)
  <2> SUFFICES ASSUME NEW x \in E, NEW y \in E
               PROVE  Index(less, x) < Index(less, y) <=> Index(ids, x) < Index(ids, y)
    OBVIOUS
  <2>1. PICK i \in Nat, j \in Nat : i = Index(ids, x) /\ j = Index(ids, y)  BY <1>8, <1>9
  <2>2. i # at /\ j # at /\ at \in Nat  BY <1>2, <1>8, <1>9, <2>1
  <2>3. Index(less, x) = (IF i < at THEN i ELSE i - 1) /\ Index(less, y) = (IF j < at THEN j ELSE j - 1)
    BY <1>9, <2>1
  <2>4. (IF i < at THEN i ELSE i - 1) < (IF j < at THEN j ELSE j - 1) <=> i < j  BY <2>2
  <2> QED BY <2>1, <2>3, <2>4
<1>11. \A part \in SetToSeqs(E) : \A i \in DOMAIN part : part[i] \in E
  BY DEF SetToSeqs
<1>12. InTurn(less, E) = InTurn(ids, E)
  BY <1>10, <1>11 DEF InTurn
<1>13. Left(less, gone) = Left(ids, gone)  BY <1>6, <1>7, <1>12 DEF Left
<1> QED BY <1>1, <1>3, <1>13

-----------------------------------------------------------------------------
(* The client's operations, replayed.                                      *)

\* What the operations make of a list, one after another, is what the client shows; it
\* could do what it sorted by itself.
Led(ids) == \E states :
    /\ states[0] = ids /\ states[Len(outbox)] = list
    /\ \A k \in 1..Len(outbox) :
          /\ states[k] = Locally(outbox[k], states[k - 1])
          /\ outbox[k].kind = "sort" => outbox[k].by # "added" /\ ToSet(states[k - 1]) \subseteq Known

\* How far a handler has come: what it has dealt with is in the playlist, or out of it.
Through(r) == \E k \in 0..Len(r.op.ids) :
    /\ r.todo = SubSeq(r.op.ids, k + 1, Len(r.op.ids))
    /\ ~Bulk(r.op) => k = 0
    /\ \A i \in 1..k : r.op.ids[i] \in DOMAIN position <=> r.op.kind = "add"

\* What a handler is about to write is what the operation makes of the list.
About(r, ids) ==
    /\ r.op.kind # "remove"
    /\ r.op.kind = "add" /\ Bulk(r.op) => Above(r.free, position)
    /\ r.op.kind = "add" /\ ~Bulk(r.op) => r.seen = Added(ids, r.op.ids[1], r.op.at)
    /\ r.op.kind = "move" => r.op.ids[1] \in ToSet(ids) /\ r.seen = Target(ids, r.op.ids[1], r.op.at)
    /\ r.op.kind = "sort" => r.seen \in Sorted(Published, DOMAIN position)

\* An answered request has been carried out, or is sent again.
Holds(r, ids) ==
    /\ r.op = Head(outbox)
    /\ r.phase # "done" /\ r.op.kind \in {"add", "remove"} => Through(r)
    /\ r.phase = "write" => About(r, ids)
    /\ r.phase = "done" /\ r.reply # "error" => Locally(r.op, ids) = ids

InHand(ids) == "app" \in DOMAIN handling => Holds(handling["app"], ids)

ReplayInv ==
    /\ "app" \in DOMAIN handling => waiting
    /\ ~strayed => /\ Distinct(position)
                   /\ \E ids \in Listed(position) : Led(ids) /\ InHand(ids)

\* The list before the first operation may be another, from which it makes the same.
LEMMA LedByAnother ==
    ASSUME outbox \in Seq(Operation), outbox # <<>>, NEW ids, Led(ids), NEW more,
           Locally(outbox[1], more) = Locally(outbox[1], ids),
           outbox[1].kind = "sort" => ToSet(more) \subseteq ToSet(ids),
           UNCHANGED <<list, outbox>>
    PROVE  Led(more)'
<1>1. PICK states :
        /\ states[0] = ids /\ states[Len(outbox)] = list
        /\ \A k \in 1..Len(outbox) :
              /\ states[k] = Locally(outbox[k], states[k - 1])
              /\ outbox[k].kind = "sort" => outbox[k].by # "added" /\ ToSet(states[k - 1]) \subseteq Known
  BY DEF Led
<1>2. PICK n \in Nat \ {0} : n = Len(outbox)  BY EmptySeq
<1>3. PICK new : new = [k \in 0..n |-> IF k = 0 THEN more ELSE states[k]]  OBVIOUS
<1>4. new[0] = more /\ new[n] = list /\ \A k \in 1..n : new[k] = states[k]  BY <1>1, <1>2, <1>3
<1>5. ASSUME NEW k \in 1..n
      PROVE  /\ new[k] = Locally(outbox[k], new[k - 1])
             /\ outbox[k].kind = "sort" => outbox[k].by # "added" /\ ToSet(new[k - 1]) \subseteq Known
  <2>1. CASE k = 1
    <3>1. new[k] = states[1] /\ new[k - 1] = more /\ states[1] = Locally(outbox[1], ids)
      <4>1. 1 \in 1..n /\ 1 - 1 = 0  OBVIOUS
      <4> QED BY <1>1, <1>2, <1>4, <2>1, <4>1
    <3>2. outbox[1].kind = "sort" => outbox[1].by # "added" /\ ToSet(ids) \subseteq Known
      <4>1. 1 \in 1..n /\ 1 - 1 = 0  OBVIOUS
      <4> QED BY <1>1, <1>2, <4>1
    <3> QED BY <2>1, <3>1, <3>2
  <2>2. CASE k # 1
    <3>1. k - 1 \in 1..n  BY <2>2
    <3>2. new[k] = states[k] /\ new[k - 1] = states[k - 1]  BY <1>4, <3>1
    <3> QED BY <1>1, <1>2, <3>2
  <2> QED BY <2>1, <2>2
<1> QED BY <1>2, <1>4, <1>5 DEF Led

LEMMA LedStill ==
    ASSUME NEW ids, Led(ids), UNCHANGED <<list, outbox>> PROVE Led(ids)'
BY DEF Led

\* Steps that leave the client's request alone.
Aside == "app" \in DOMAIN handling' => "app" \in DOMAIN handling /\ handling'["app"] = handling["app"]

LEMMA QuietKeeps ==
    ASSUME ReplayInv, UNCHANGED <<position, list, outbox>>, "app" \in DOMAIN handling' => waiting',
           Aside, strayed => strayed'
    PROVE  ReplayInv'
<1> SUFFICES ASSUME ~strayed' PROVE (Distinct(position) /\ \E ids \in Listed(position) : Led(ids) /\ InHand(ids))'
  BY DEF ReplayInv
<1>1. PICK ids \in Listed(position) : Distinct(position) /\ Led(ids) /\ InHand(ids)  BY DEF ReplayInv
<1>2. Led(ids)'  BY <1>1, LedStill
<1>3. InHand(ids)'  BY <1>1 DEF InHand, Aside, Holds, Through, About, Above
<1>4. Distinct(position)' /\ ids \in Listed(position')  BY <1>1 DEF Distinct
<1> QED BY <1>2, <1>3, <1>4

LEMMA StrayKeeps ==
    ASSUME strayed', "app" \in DOMAIN handling' => waiting' PROVE ReplayInv'
BY DEF ReplayInv

\* What is known when the client's request is handled.
LEMMA AppHas ==
    ASSUME OrderInv, ReplayInv, ~strayed, "app" \in DOMAIN handling, NEW r, r = handling["app"]
    PROVE  /\ r \in Handler /\ r.op \in Operation /\ r.op = outbox[1] /\ waiting
           /\ outbox \in Seq(Operation) /\ outbox # <<>>
           /\ Rows(position) /\ Distinct(position) /\ handling \in [DOMAIN handling -> Handler]
           /\ \E ids \in Listed(position) :
                /\ Led(ids) /\ Holds(r, ids)
                /\ r.op.kind = "sort" => r.op.by # "added" /\ ToSet(ids) \subseteq Known
<1>1. r \in Handler /\ handling \in [DOMAIN handling -> Handler] /\ Rows(position) /\ waiting
  BY DEF OrderInv, OrderTypes, Rows, ReplayInv
<1>2. outbox \in Seq(Operation) /\ outbox # <<>>  BY <1>1 DEF OrderInv, OrderTypes
<1>3. PICK ids \in Listed(position) : Distinct(position) /\ Led(ids) /\ InHand(ids)  BY DEF ReplayInv
<1>4. Holds(r, ids)  BY <1>3 DEF InHand
<1>5. r.op = outbox[1]  BY <1>2, <1>4 DEF Holds
<1>6. outbox[1].kind = "sort" => outbox[1].by # "added" /\ ToSet(ids) \subseteq Known
  <2>1. 1 \in 1..Len(outbox) /\ 1 - 1 = 0  BY <1>2, EmptySeq
  <2> QED BY <1>3, <2>1 DEF Led
<1> QED BY <1>1, <1>2, <1>3, <1>4, <1>5, <1>6 DEF Handler

\* The request goes on, and the operation makes the same of the rows as they are now.
LEMMA AppKeeps ==
    ASSUME outbox \in Seq(Operation), outbox # <<>>, waiting, UNCHANGED <<waiting, list, outbox>>,
           Distinct(position)', NEW ids, Led(ids), NEW more \in Listed(position'),
           Locally(outbox[1], more) = Locally(outbox[1], ids),
           outbox[1].kind = "sort" => ToSet(more) \subseteq ToSet(ids),
           Holds(handling["app"], more)'
    PROVE  ReplayInv'
<1>1. Led(more)'  BY LedByAnother
<1> QED BY <1>1 DEF ReplayInv, InHand

\* It is answered, having done what the operation does.
LEMMA AppDone ==
    ASSUME OrderInv, ReplayInv, ~strayed, "app" \in DOMAIN handling,
           UNCHANGED <<waiting, list, outbox>>, Distinct(position)',
           NEW ids, Led(ids), NEW more \in Listed(position'),
           Locally(outbox[1], more) = Locally(outbox[1], ids),
           outbox[1].kind = "sort" => ToSet(more) \subseteq ToSet(ids),
           NEW reply, Done("app", reply), reply = "error" \/ Locally(outbox[1], more) = more
    PROVE  ReplayInv'
<1>1. PICK r : r = handling["app"]  OBVIOUS
<1>2. /\ r \in Handler /\ r.op = outbox[1] /\ waiting /\ outbox \in Seq(Operation) /\ outbox # <<>>
      /\ handling \in [DOMAIN handling -> Handler]
  BY <1>1, AppHas
<1>3. handling' = [handling EXCEPT !["app"].phase = "done", !["app"].reply = reply]  BY DEF Done
<1>4. handling'["app"] = [r EXCEPT !.phase = "done", !.reply = reply]  BY <1>1, <1>2, <1>3
<1>5. handling'["app"].op = r.op /\ handling'["app"].phase = "done" /\ handling'["app"].reply = reply
  BY <1>2, <1>4 DEF Handler
<1>6. Holds(handling["app"], more)'  BY <1>2, <1>5 DEF Holds, About
<1> QED BY <1>2, <1>6, AppKeeps

LEMMA OneFewer ==
    ASSUME NEW S, NEW ids \in Seq(S), NEW from \in 1..Len(ids)
    PROVE  Tail(SubSeq(ids, from, Len(ids))) = SubSeq(ids, from + 1, Len(ids))
<1>1. Len(ids) \in from..Len(ids)  BY LenProperties
<1>2. Len(ids) \in from..Len(ids) => Tail(SubSeq(ids, from, Len(ids))) = SubSeq(ids, from + 1, Len(ids))
  BY HeadTailOfSubSeq, Zenon
<1> QED BY <1>1, <1>2

\* A bulk request is through with one more.
LEMMA AppNext ==
    ASSUME OrderInv, ReplayInv, ~strayed, "app" \in DOMAIN handling,
           UNCHANGED <<waiting, list, outbox>>, Distinct(position)',
           NEW ids, Led(ids), NEW more \in Listed(position'),
           NEW r, r = handling["app"], NEW k \in 0..Len(r.op.ids), r.todo # <<>>,
           r.todo = SubSeq(r.op.ids, k + 1, Len(r.op.ids)), Bulk(r.op),
           \A i \in 1..(k + 1) : r.op.ids[i] \in DOMAIN position' <=> r.op.kind = "add",
           Locally(r.op, more) = Locally(r.op, ids),
           handling'["app"].op = r.op, handling'["app"].todo = Tail(r.todo), handling'["app"].phase = "read"
    PROVE  ReplayInv'
<1>1. r \in Handler /\ r.op = outbox[1] /\ waiting /\ outbox \in Seq(Operation) /\ outbox # <<>>  BY AppHas
<1>2. handling'["app"].op = r.op /\ handling'["app"].phase = "read" /\ handling'["app"].todo = Tail(r.todo)
  OBVIOUS
<1>3. r.op.ids \in Seq(Episodes) /\ Len(r.op.ids) \in Nat  BY <1>1, LenProperties DEF Handler, Operation
<1>4. PICK n \in Nat : n = Len(r.op.ids)  BY <1>3
<1>5. k + 1 \in 1..n /\ n \in (k + 1)..n
  <2>1. k # n
    <3>1. k = n => SubSeq(r.op.ids, k + 1, n) = <<>>  BY <1>4, SubSeqEmpty
    <3> QED BY <1>4, <3>1
  <2> QED BY <1>4, <2>1
<1>6. Tail(r.todo) = SubSeq(r.op.ids, (k + 1) + 1, n)
  <2>1. \A all \in Seq(Episodes) : \A from \in 1..Len(all) :
           Tail(SubSeq(all, from, Len(all))) = SubSeq(all, from + 1, Len(all))
    BY OneFewer
  <2> QED BY <1>3, <1>4, <1>5, <2>1
<1>7. Through(handling["app"])'
  <2>1. PICK m : m = k + 1  OBVIOUS
  <2>2. m \in 0..Len(r.op.ids)  BY <1>4, <1>5, <2>1
  <2>3. handling'["app"].todo = SubSeq(r.op.ids, m + 1, Len(r.op.ids))  BY <1>2, <1>4, <1>6, <2>1
  <2>4. \A i \in 1..m : r.op.ids[i] \in DOMAIN position' <=> r.op.kind = "add"  BY <2>1
  <2> QED BY <1>2, <2>2, <2>3, <2>4 DEF Through
<1>8. Holds(handling["app"], more)'  BY <1>1, <1>2, <1>7 DEF Holds, About
<1>9. outbox[1].kind # "sort"  BY <1>1 DEF Bulk
<1> QED BY <1>1, <1>8, <1>9, AppKeeps

\* The rows are read.
LEMMA AppFound ==
    ASSUME OrderInv, ReplayInv, ~strayed, "app" \in DOMAIN handling,
           UNCHANGED <<position, waiting, list, outbox>>,
           NEW ids \in Listed(position), Led(ids), NEW r, r = handling["app"], r.phase = "read", Holds(r, ids),
           NEW seen, NEW free, Found("app", seen, free), r.op.kind # "remove",
           r.op.kind = "add" /\ Bulk(r.op) => Above(free, position),
           r.op.kind = "add" /\ ~Bulk(r.op) => seen = Added(ids, r.op.ids[1], r.op.at),
           r.op.kind = "move" => r.op.ids[1] \in ToSet(ids) /\ seen = Target(ids, r.op.ids[1], r.op.at),
           r.op.kind = "sort" => seen \in Sorted(Published, DOMAIN position)
    PROVE  ReplayInv'
<1>1. /\ r \in Handler /\ r.op = outbox[1] /\ waiting /\ outbox \in Seq(Operation) /\ outbox # <<>>
      /\ handling \in [DOMAIN handling -> Handler] /\ Distinct(position)
  BY AppHas
<1>2. handling' = [handling EXCEPT !["app"].seen = seen, !["app"].free = free, !["app"].phase = "write"]
  BY DEF Found
<1>3. handling'["app"] = [r EXCEPT !.seen = seen, !.free = free, !.phase = "write"]  BY <1>1, <1>2
<1>4. /\ handling'["app"].op = r.op /\ handling'["app"].todo = r.todo /\ handling'["app"].phase = "write"
      /\ handling'["app"].seen = seen /\ handling'["app"].free = free
  BY <1>1, <1>3 DEF Handler
<1>5. r.op.kind \in {"add", "remove"} => Through(r)  BY DEF Holds
<1>6. handling'["app"].op.kind \in {"add", "remove"} => Through(handling["app"])'
  BY <1>4, <1>5 DEF Through
<1>7. About(handling["app"], ids)'  BY <1>4 DEF About, Above
<1>8. Holds(handling["app"], ids)'  BY <1>4, <1>6, <1>7 DEF Holds
<1>9. Distinct(position)' /\ ids \in Listed(position')  BY <1>1 DEF Distinct
<1> QED BY <1>1, <1>8, <1>9, AppKeeps

-----------------------------------------------------------------------------
(* Each step of the client's request.                                      *)

\* Where a request stands that adds or removes.
LEMMA AppAt ==
    ASSUME NEW r \in Handler, Through(r), r.todo # <<>>
    PROVE  \E k \in 0..Len(r.op.ids) :
             /\ r.todo = SubSeq(r.op.ids, k + 1, Len(r.op.ids)) /\ (~Bulk(r.op) => k = 0)
             /\ \A i \in 1..k : r.op.ids[i] \in DOMAIN position <=> r.op.kind = "add"
             /\ k + 1 \in 1..Len(r.op.ids) /\ Head(r.todo) = r.op.ids[k + 1]
             /\ Head(r.todo) \in Episodes
<1>1. r.op.ids \in Seq(Episodes)  BY DEF Handler, Operation
<1>2. PICK n \in Nat : n = Len(r.op.ids)  BY <1>1, LenProperties
<1>3. PICK k \in 0..n :
        /\ r.todo = SubSeq(r.op.ids, k + 1, n) /\ (~Bulk(r.op) => k = 0)
        /\ \A i \in 1..k : r.op.ids[i] \in DOMAIN position <=> r.op.kind = "add"
  BY <1>2 DEF Through
<1>4. k # n
  <2>1. k = n => SubSeq(r.op.ids, k + 1, n) = <<>>  BY <1>2, SubSeqEmpty
  <2> QED BY <1>3, <2>1
<1>5. k + 1 \in 1..n /\ n \in (k + 1)..n  BY <1>4
<1>6. Head(SubSeq(r.op.ids, k + 1, n)) = r.op.ids[k + 1]
  <2>1. PICK all, from : all = r.op.ids /\ from = k + 1  OBVIOUS
  <2>2. all \in Seq(Episodes) /\ from \in 1..Len(all) /\ Len(all) \in from..Len(all)
    BY <1>1, <1>2, <1>5, <2>1
  <2>3. Head(SubSeq(all, from, Len(all))) = all[from]  BY <2>2, HeadTailOfSubSeq
  <2> QED BY <1>2, <2>1, <2>3
<1>7. r.op.ids[k + 1] \in Episodes  BY <1>1, <1>2, <1>5, ElementOfSeq
<1> QED BY <1>2, <1>3, <1>5, <1>6, <1>7

LEMMA AppEndBulk ==
    ASSUME OrderInv, ReplayInv, ~strayed, EndBulk("app") PROVE ReplayInv'
<1>1. PICK r : r = handling["app"]  OBVIOUS
<1>2. /\ "app" \in DOMAIN handling /\ r.phase = "read" /\ Bulk(r.op) /\ r.todo = <<>> /\ Done("app", "ok")
      /\ UNCHANGED <<position, waiting, list, outbox>>
  BY <1>1 DEF EndBulk, serverVars, clientVars
<1>3. /\ r \in Handler /\ r.op \in Operation /\ r.op = outbox[1] /\ Rows(position) /\ Distinct(position)
  BY <1>1, <1>2, AppHas
<1>4. PICK ids \in Listed(position) : Led(ids) /\ Holds(r, ids)  BY <1>1, <1>2, AppHas
<1>5. ids \in Seq(Episodes) /\ IsInjective(ids) /\ ToSet(ids) = DOMAIN position  BY <1>3, ListedRead
<1>6. r.op.ids \in Seq(Episodes)  BY <1>3 DEF Operation
<1>7. PICK n \in Nat : n = Len(r.op.ids) /\ DOMAIN r.op.ids = 1..n  BY <1>6, LenProperties
<1>8. \A i \in 1..n : r.op.ids[i] \in DOMAIN position <=> r.op.kind = "add"
  <2>1. Through(r)  BY <1>2, <1>4 DEF Holds, Bulk
  <2>2. PICK k \in 0..n : /\ r.todo = SubSeq(r.op.ids, k + 1, n)
                          /\ \A i \in 1..k : r.op.ids[i] \in DOMAIN position <=> r.op.kind = "add"
    BY <1>7, <2>1 DEF Through
  <2>3. k = n
    <3> SUFFICES ASSUME k # n PROVE FALSE  OBVIOUS
    <3>1. k + 1 \in Int /\ n \in Int /\ \A i \in (k + 1)..n : r.op.ids[i] \in Episodes
      BY <1>6, <1>7, ElementOfSeq
    <3>2. Len(SubSeq(r.op.ids, k + 1, n)) = IF k + 1 <= n THEN n - (k + 1) + 1 ELSE 0
      BY <3>1, SubSeqProperties
    <3>3. Len(r.todo) = 0  BY <1>2
    <3> QED BY <2>2, <3>2, <3>3
  <2> QED BY <2>2, <2>3
<1>9. Locally(r.op, ids) = ids
  <2>1. CASE r.op.kind = "remove"
    <3>1. ToSet(ids) \cap ToSet(r.op.ids) = {}  BY <1>5, <1>7, <1>8, <2>1 DEF ToSet
    <3> QED BY <1>5, <2>1, <3>1, NoneLeave DEF Locally
  <2>2. CASE r.op.kind = "add"
    <3>1. \A i \in 1..Len(r.op.ids) : r.op.ids[i] \in ToSet(ids)  BY <1>5, <1>7, <1>8, <2>2
    <3>2. AllAdded(r.op, ids) = ids  BY <1>7, <3>1, NoneAdded
    <3> QED BY <2>2, <3>2 DEF Locally
  <2> QED BY <1>2, <2>1, <2>2 DEF Bulk
<1>10. Distinct(position)' /\ ids \in Listed(position')  BY <1>2, <1>3 DEF Distinct
<1> QED BY <1>2, <1>3, <1>4, <1>9, <1>10, AppDone

LEMMA AppReadAdd ==
    ASSUME OrderInv, ReplayInv, ~strayed, ReadAdd("app") PROVE ReplayInv'
<1>1. PICK r : r = handling["app"]  OBVIOUS
<1>2. PICK e : e = Head(r.todo)  OBVIOUS
<1>3. /\ "app" \in DOMAIN handling /\ r.phase = "read" /\ r.op.kind = "add" /\ r.todo # <<>>
      /\ UNCHANGED <<position, waiting, list, outbox>>
  BY <1>1 DEF ReadAdd, Reads, serverVars, clientVars
<1>4. /\ r \in Handler /\ r.op \in Operation /\ r.op = outbox[1] /\ Rows(position) /\ Distinct(position)
      /\ waiting /\ handling \in [DOMAIN handling -> Handler]
  BY <1>1, <1>3, AppHas
<1>5. PICK ids \in Listed(position) : Led(ids) /\ Holds(r, ids)  BY <1>1, <1>3, AppHas
<1>6. ids \in Seq(Episodes) /\ IsInjective(ids) /\ ToSet(ids) = DOMAIN position  BY <1>4, ListedRead
<1>7. PICK k \in 0..Len(r.op.ids) :
        /\ r.todo = SubSeq(r.op.ids, k + 1, Len(r.op.ids)) /\ (~Bulk(r.op) => k = 0)
        /\ \A i \in 1..k : r.op.ids[i] \in DOMAIN position <=> r.op.kind = "add"
        /\ k + 1 \in 1..Len(r.op.ids) /\ e = r.op.ids[k + 1] /\ e \in Episodes
  <2>1. Through(r)  BY <1>3, <1>5 DEF Holds
  <2> QED BY <1>2, <1>3, <1>4, <2>1, AppAt
<1>8. Distinct(position)' /\ ids \in Listed(position')  BY <1>3, <1>4 DEF Distinct
<1>9. CASE strayed'
  BY <1>3, <1>4, <1>9, StrayKeeps
<1>10. CASE e \in DOMAIN position /\ Advance("app", "ok")
  <2>1. CASE Bulk(r.op)
    <3>1. handling' = [handling EXCEPT !["app"].todo = Tail(@), !["app"].phase = "read"]
      BY <1>1, <1>10, <2>1 DEF Advance
    <3>2. /\ handling'["app"].op = r.op /\ handling'["app"].todo = Tail(r.todo)
          /\ handling'["app"].phase = "read"
      <4>1. handling'["app"] = [r EXCEPT !.todo = Tail(r.todo), !.phase = "read"]
        BY <1>1, <1>3, <1>4, <3>1
      <4> QED BY <1>4, <4>1 DEF Handler
    <3>3. \A i \in 1..(k + 1) : r.op.ids[i] \in DOMAIN position' <=> r.op.kind = "add"
      <4>1. \A i \in 1..(k + 1) : i \in 1..k \/ i = k + 1  OBVIOUS
      <4> QED BY <1>3, <1>7, <1>10, <4>1
    <3> QED BY <1>1, <1>3, <1>5, <1>7, <1>8, <2>1, <3>2, <3>3, AppNext
  <2>2. CASE ~Bulk(r.op)
    <3>1. Done("app", "ok")  BY <1>1, <1>10, <2>2 DEF Advance
    <3>2. Len(r.op.ids) = 1  BY <1>3, <1>4, <2>2 DEF Bulk, Operation
    <3>3. AllAdded(r.op, ids) = Added(ids, e, r.op.at)
      <4>1. k + 1 = 1  BY <1>7, <2>2
      <4> QED BY <1>7, <3>2, <4>1, OneAdded
    <3>4. Locally(r.op, ids) = ids  BY <1>3, <1>6, <1>10, <3>3 DEF Locally, Added
    <3> QED BY <1>3, <1>4, <1>5, <1>8, <3>1, <3>4, AppDone
  <2> QED BY <2>1, <2>2
<1>11. ASSUME NEW order \in Listed(position), Found("app", Added(order, e, r.op.at), Free(position))
       PROVE  ReplayInv'
  <2>1. order = ids  BY <1>4, ListedOnce
  <2>2. Above(Free(position), position)  BY <1>4, FreeIsAbove
  <2>3. ~Bulk(r.op) => e = r.op.ids[1]
    <3>1. ~Bulk(r.op) => k + 1 = 1  BY <1>7
    <3> QED BY <1>7, <3>1
  <2>4. Found("app", Added(ids, e, r.op.at), Free(position))  BY <1>11, <2>1
  <2>5. ~Bulk(r.op) => Added(ids, e, r.op.at) = Added(ids, r.op.ids[1], r.op.at)  BY <2>3
  <2> QED BY <1>1, <1>3, <1>5, <2>2, <2>4, <2>5, AppFound
<1> QED BY <1>1, <1>2, <1>9, <1>10, <1>11 DEF ReadAdd

LEMMA AppWriteAdd ==
    ASSUME OrderInv, ReplayInv, ~strayed, WriteAdd("app") PROVE ReplayInv'
<1>1. PICK r : r = handling["app"]  OBVIOUS
<1>2. PICK e : e = Head(r.todo)  OBVIOUS
<1>3. /\ "app" \in DOMAIN handling /\ r.phase = "write" /\ r.op.kind = "add" /\ r.todo # <<>>
      /\ UNCHANGED <<waiting, list, outbox>>
  BY <1>1 DEF WriteAdd, Writes, clientVars, OrderInv, OrderTypes
<1>4. /\ r \in Handler /\ r.op \in Operation /\ r.op = outbox[1] /\ Rows(position) /\ Distinct(position)
      /\ waiting /\ handling \in [DOMAIN handling -> Handler]
  BY <1>1, <1>3, AppHas
<1>5. PICK ids \in Listed(position) : Led(ids) /\ Holds(r, ids)  BY <1>1, <1>3, AppHas
<1>6. ids \in Seq(Episodes) /\ IsInjective(ids) /\ ToSet(ids) = DOMAIN position  BY <1>4, ListedRead
<1>7. PICK k \in 0..Len(r.op.ids) :
        /\ r.todo = SubSeq(r.op.ids, k + 1, Len(r.op.ids)) /\ (~Bulk(r.op) => k = 0)
        /\ \A i \in 1..k : r.op.ids[i] \in DOMAIN position <=> r.op.kind = "add"
        /\ k + 1 \in 1..Len(r.op.ids) /\ e = r.op.ids[k + 1] /\ e \in Episodes
  <2>1. Through(r)  BY <1>3, <1>5 DEF Holds
  <2> QED BY <1>2, <1>3, <1>4, <2>1, AppAt
<1>8. About(r, ids)  BY <1>3, <1>5 DEF Holds
<1>9. CASE strayed'
  <2>1. DOMAIN handling' = DOMAIN handling \/ waiting'  BY <1>3, <1>4
  <2> QED BY <1>3, <1>4, <1>9, StrayKeeps
<1>10. ASSUME e \in alive \ DOMAIN position, Advance("app", "ok"),
              position' = IF Bulk(r.op) THEN Joined(position, [x \in {e} |-> r.free]) ELSE Renumber(r.seen)
       PROVE  ReplayInv'
  <2>1. CASE Bulk(r.op)
    <3>1. r.op.at = End /\ Above(r.free, position) /\ r.free \in Int  BY <1>3, <1>4, <1>8, <2>1 DEF Bulk, About, Handler
    <3>2. position' = Joined(position, [x \in {e} |-> r.free])  BY <1>10, <2>1
    <3>3. PICK more : more = Added(ids, e, End)  OBVIOUS
    <3>4. Distinct(position') /\ more \in Listed(position') /\ DOMAIN position' = DOMAIN position \cup {e}
      <4>1. /\ DOMAIN position' = DOMAIN position \cup {e} /\ position'[e] = r.free
            /\ \A x \in DOMAIN position : position'[x] = position[x]
            /\ position' = [x \in DOMAIN position' |-> position'[x]]
        BY <1>10, <3>2 DEF Joined
      <4>2. Rows(position')  BY <1>4, <1>7, <3>1, <4>1 DEF Rows
      <4>3. PICK new : new = position'  OBVIOUS
      <4>4. /\ Rows(new) /\ DOMAIN new = DOMAIN position \cup {e} /\ Above(new[e], position)
            /\ \A x \in DOMAIN position : new[x] = position[x]
        BY <3>1, <4>1, <4>2, <4>3
      <4>5. e \in Episodes /\ e \notin DOMAIN position  BY <1>7, <1>10
      <4>6. Distinct(new) /\ Added(ids, e, End) \in Listed(new)  BY <1>4, <4>4, <4>5, LastRow
      <4> QED BY <3>3, <4>1, <4>3, <4>6
    <3>5. Distinct(position)'  BY <3>4 DEF Distinct
    <3>6. ToSet(more) = ToSet(ids) \cup {e}
      <4>1. End \in Int  BY EpisodesFinite, FS_CardinalityType DEF End
      <4>2. e \in Episodes /\ e \notin ToSet(ids)  BY <1>6, <1>7, <1>10
      <4> QED BY <1>6, <3>3, <4>1, <4>2, AddedCovers
    <3>7. \A i \in 1..(k + 1) : i \in 1..k \/ i = k + 1  OBVIOUS
    <3>8. \A i \in 1..(k + 1) : r.op.ids[i] \in DOMAIN position' <=> r.op.kind = "add"
      BY <1>3, <1>7, <3>4, <3>7
    <3>9. AllAdded(r.op, more) = AllAdded(r.op, ids)
      <4>1. PICK m : m = k + 1  OBVIOUS
      <4>2. Len(r.op.ids) \in Nat  BY <1>4, LenProperties DEF Operation
      <4>3. m \in 1..Len(r.op.ids) /\ m - 1 = k /\ r.op.ids[m] = e  BY <1>7, <4>1
      <4>4. \A i \in 1..(m - 1) : r.op.ids[i] \in ToSet(ids)  BY <1>3, <1>6, <1>7, <4>3
      <4>5. \A i \in 1..m : r.op.ids[i] \in ToSet(more)  BY <1>3, <1>6, <1>7, <3>6, <3>7, <4>1
      <4> QED BY <3>1, <3>3, <4>2, <4>3, <4>4, <4>5, FirstAdded
    <3>10. Locally(r.op, more) = Locally(r.op, ids)  BY <1>3, <3>9 DEF Locally
    <3>11. /\ handling'["app"].op = r.op /\ handling'["app"].todo = Tail(r.todo)
           /\ handling'["app"].phase = "read"
      <4>1. handling' = [handling EXCEPT !["app"].todo = Tail(@), !["app"].phase = "read"]
        BY <1>1, <1>10, <2>1 DEF Advance
      <4>2. handling'["app"] = [r EXCEPT !.todo = Tail(r.todo), !.phase = "read"]
        BY <1>1, <1>3, <1>4, <4>1
      <4> QED BY <1>4, <4>2 DEF Handler
    <3> QED BY <1>1, <1>3, <1>5, <1>7, <2>1, <3>4, <3>5, <3>8, <3>10, <3>11, AppNext
  <2>2. CASE ~Bulk(r.op)
    <3>1. Done("app", "ok")  BY <1>1, <1>10, <2>2 DEF Advance
    <3>2. PICK at \in Int : at = r.op.at  BY <1>4 DEF Operation
    <3>3. PICK seen : seen = Added(ids, e, at)  OBVIOUS
    <3>4. e = r.op.ids[1]
      <4>1. k + 1 = 1  BY <1>7, <2>2
      <4> QED BY <1>7, <4>1
    <3>5. r.seen = seen  BY <1>3, <1>8, <2>2, <3>2, <3>3, <3>4 DEF About
    <3>6. seen \in Seq(Episodes) /\ IsInjective(seen) /\ ToSet(seen) = DOMAIN position \cup {e}
      <4>1. e \in Episodes /\ e \notin ToSet(ids)  BY <1>6, <1>7, <1>10
      <4> QED BY <1>6, <3>3, <4>1, AddedCovers
    <3>7. Covers(seen, position)  BY <3>6 DEF Covers
    <3>8. position' = Renumber(seen)  BY <1>10, <2>2, <3>5
    <3>9. seen \in Listed(position')  BY <1>4, <3>6, <3>7, <3>8, RenumberLists
    <3>10. Distinct(position)'
      <4>1. Distinct(position')  BY <1>4, <3>6, <3>7, <3>8, RenumberDistinct
      <4> QED BY <4>1 DEF Distinct
    <3>11. \A l : Locally(r.op, l) = Added(l, e, at)
      <4>1. Len(r.op.ids) = 1  BY <1>3, <1>4, <2>2 DEF Bulk, Operation
      <4> QED BY <1>3, <3>2, <3>4, <4>1, OneAdded DEF Locally
    <3>12. Added(seen, e, at) = seen  BY <3>6 DEF Added
    <3>13. Locally(r.op, seen) = seen /\ Locally(r.op, ids) = seen  BY <3>3, <3>11, <3>12
    <3> QED BY <1>3, <1>4, <1>5, <3>1, <3>9, <3>10, <3>13, AppDone
  <2> QED BY <2>1, <2>2
<1> QED BY <1>1, <1>2, <1>9, <1>10 DEF WriteAdd, Wrote

LEMMA AppDelete ==
    ASSUME OrderInv, ReplayInv, ~strayed, Delete("app") PROVE ReplayInv'
<1>1. PICK r : r = handling["app"]  OBVIOUS
<1>2. PICK e : e = Head(r.todo)  OBVIOUS
<1>3. /\ "app" \in DOMAIN handling /\ r.phase = "read" /\ r.op.kind = "remove" /\ r.todo # <<>>
      /\ UNCHANGED <<waiting, list, outbox>> /\ handling' = [handling EXCEPT !["app"].todo = Tail(@)]
      /\ position' = IF e \in DOMAIN position THEN Without(position, e) ELSE position
  BY <1>1, <1>2 DEF Delete, Reads, clientVars, Wrote
<1>4. /\ r \in Handler /\ r.op \in Operation /\ r.op = outbox[1] /\ Rows(position) /\ Distinct(position)
      /\ handling \in [DOMAIN handling -> Handler]
  BY <1>1, <1>3, AppHas
<1>5. PICK ids \in Listed(position) : Led(ids) /\ Holds(r, ids)  BY <1>1, <1>3, AppHas
<1>6. ids \in Seq(Episodes) /\ IsInjective(ids) /\ ToSet(ids) = DOMAIN position  BY <1>4, ListedRead
<1>7. PICK k \in 0..Len(r.op.ids) :
        /\ r.todo = SubSeq(r.op.ids, k + 1, Len(r.op.ids))
        /\ \A i \in 1..k : r.op.ids[i] \in DOMAIN position <=> r.op.kind = "add"
        /\ k + 1 \in 1..Len(r.op.ids) /\ e = r.op.ids[k + 1] /\ e \in Episodes
  <2>1. Through(r)  BY <1>3, <1>5 DEF Holds
  <2> QED BY <1>2, <1>3, <1>4, <2>1, AppAt
<1>8. handling'["app"].op = r.op /\ handling'["app"].todo = Tail(r.todo) /\ handling'["app"].phase = "read"
  <2>1. handling'["app"] = [r EXCEPT !.todo = Tail(r.todo)]  BY <1>1, <1>3, <1>4
  <2> QED BY <1>3, <1>4, <2>1 DEF Handler
<1>9. DOMAIN position' = DOMAIN position \ {e}  BY <1>3 DEF Without
<1>10. \A i \in 1..(k + 1) : r.op.ids[i] \in DOMAIN position' <=> r.op.kind = "add"
  <2>1. \A i \in 1..(k + 1) : i \in 1..k \/ i = k + 1  OBVIOUS
  <2> QED BY <1>3, <1>7, <1>9, <2>1
<1>11. PICK more : more = IF e \in DOMAIN position THEN RemoveAt(ids, Index(ids, e)) ELSE ids  OBVIOUS
<1>12. more \in Listed(position') /\ Distinct(position')
  BY <1>3, <1>4, <1>11, RowGone
<1>13. Locally(r.op, more) = Locally(r.op, ids)
  <2>1. e \in ToSet(r.op.ids)
    <3>1. DOMAIN r.op.ids = 1..Len(r.op.ids)  BY <1>4, LenProperties DEF Operation
    <3> QED BY <1>7, <3>1 DEF ToSet
  <2>2. e \in DOMAIN position => Left(more, ToSet(r.op.ids)) = Left(ids, ToSet(r.op.ids))
    BY <1>6, <1>11, <2>1, FirstLeaves
  <2> QED BY <1>3, <1>11, <2>2 DEF Locally
<1>14. Distinct(position)'  BY <1>12 DEF Distinct
<1>15. Bulk(r.op)  BY <1>3 DEF Bulk
<1> QED BY <1>1, <1>3, <1>5, <1>7, <1>8, <1>10, <1>12, <1>13, <1>14, <1>15, AppNext, ZenonT(30)

\* What a move makes of a list: the client's and the server's index mean the same.
LEMMA MovesAlike ==
    ASSUME NEW op \in Operation, op.kind = "move", NEW ids \in Seq(Episodes)
    PROVE  Locally(op, ids) = IF op.ids[1] \in ToSet(ids) THEN Target(ids, op.ids[1], op.at) ELSE ids
<1>1. Locally(op, ids) = Reordered(ids, op.ids[1], op.at)  BY DEF Locally
<1>2. op.at \in Int  BY DEF Operation
<1>3. CASE op.ids[1] \in ToSet(ids)  BY <1>1, <1>2, <1>3, ReorderedIsTarget
<1>4. CASE op.ids[1] \notin ToSet(ids)  BY <1>1, <1>4 DEF Reordered
<1> QED BY <1>3, <1>4

LEMMA AppReadMove ==
    ASSUME OrderInv, ReplayInv, ~strayed, ReadMove("app") PROVE ReplayInv'
<1>1. PICK r : r = handling["app"]  OBVIOUS
<1>2. PICK e : e = r.op.ids[1]  OBVIOUS
<1>3. /\ "app" \in DOMAIN handling /\ r.phase = "read" /\ r.op.kind = "move"
      /\ UNCHANGED <<position, waiting, list, outbox>>
  BY <1>1 DEF ReadMove, Reads, serverVars, clientVars
<1>4. /\ r \in Handler /\ r.op \in Operation /\ r.op = outbox[1] /\ Rows(position) /\ Distinct(position)
  BY <1>1, <1>3, AppHas
<1>5. PICK ids \in Listed(position) : Led(ids) /\ Holds(r, ids)  BY <1>1, <1>3, AppHas
<1>6. ids \in Seq(Episodes) /\ IsInjective(ids) /\ ToSet(ids) = DOMAIN position  BY <1>4, ListedRead
<1>7. Distinct(position)' /\ ids \in Listed(position')  BY <1>3, <1>4 DEF Distinct
<1>8. Locally(r.op, ids) = IF e \in DOMAIN position THEN Target(ids, e, r.op.at) ELSE ids
  BY <1>2, <1>3, <1>4, <1>6, MovesAlike
<1>9. ASSUME NEW reply, Done("app", reply), Locally(r.op, ids) = ids PROVE ReplayInv'
  BY <1>3, <1>4, <1>5, <1>7, <1>9, AppDone
<1>10. CASE e \notin DOMAIN position /\ Done("app", "refused")  BY <1>8, <1>9, <1>10
<1>11. ASSUME e \in DOMAIN position, NEW order \in Listed(position),
              IF Target(order, e, r.op.at) = order THEN Done("app", "ok")
              ELSE Found("app", Target(order, e, r.op.at), 0)
       PROVE  ReplayInv'
  <2>1. order = ids  BY <1>4, ListedOnce
  <2>2. CASE Target(ids, e, r.op.at) = ids  BY <1>8, <1>9, <1>11, <2>1, <2>2
  <2>3. CASE Found("app", Target(ids, e, r.op.at), 0)
    BY <1>1, <1>2, <1>3, <1>5, <1>6, <1>11, <2>3, AppFound
  <2> QED BY <1>11, <2>1, <2>2, <2>3
<1>12. \/ e \notin DOMAIN position /\ Done("app", "refused")
       \/ /\ e \in DOMAIN position
          /\ \E order \in Listed(position) :
                IF Target(order, e, r.op.at) = order THEN Done("app", "ok")
                ELSE Found("app", Target(order, e, r.op.at), 0)
  BY <1>1, <1>2 DEF ReadMove
<1> QED BY <1>10, <1>11, <1>12

LEMMA AppReadSort ==
    ASSUME OrderInv, ReplayInv, ~strayed, ReadSort("app") PROVE ReplayInv'
<1>1. PICK r : r = handling["app"]  OBVIOUS
<1>2. /\ "app" \in DOMAIN handling /\ r.phase = "read" /\ r.op.kind = "sort"
      /\ UNCHANGED <<position, waiting, list, outbox>>
  BY <1>1 DEF ReadSort, Reads, serverVars, clientVars
<1>3. /\ r \in Handler /\ r.op \in Operation /\ r.op = outbox[1] /\ Rows(position) /\ Distinct(position)
  BY <1>1, <1>2, AppHas
<1>4. PICK ids \in Listed(position) :
        Led(ids) /\ Holds(r, ids) /\ r.op.by # "added" /\ ToSet(ids) \subseteq Known
  BY <1>1, <1>2, AppHas
<1>5. ids \in Seq(Episodes) /\ IsInjective(ids) /\ ToSet(ids) = DOMAIN position  BY <1>3, ListedRead
<1>6. CASE Cardinality(DOMAIN position) < 2 /\ Done("app", "ok")
  <2>1. ids \in SetToSeqs(DOMAIN position)  BY DEF Listed
  <2>2. DOMAIN ids = 1..Cardinality(DOMAIN position)  BY <2>1 DEF SetToSeqs
  <2>3. Cardinality(DOMAIN position) \in Nat  BY <1>3, RowsFinite, FS_CardinalityType
  <2>4. \A i, j \in DOMAIN ids : ~(i < j)  BY <1>6, <2>2, <2>3
  <2>5. ids \in Sorted(Published, DOMAIN position)  BY <2>1, <2>4 DEF Sorted
  <2>6. Locally(r.op, ids) = ids
    <3>1. SortedBy(LocalKey(r.op.by), DOMAIN position) = ids  BY <1>4, <1>5, <2>5, SortsAlike
    <3> QED BY <1>2, <1>5, <3>1 DEF Locally
  <2>7. Distinct(position)' /\ ids \in Listed(position')  BY <1>2, <1>3 DEF Distinct
  <2> QED BY <1>2, <1>3, <1>4, <1>6, <2>6, <2>7, AppDone
<1>7. ASSUME NEW order \in Sorted(Published, DOMAIN position), Found("app", order, 0) PROVE ReplayInv'
  BY <1>1, <1>2, <1>4, <1>7, AppFound
<1> QED BY <1>1, <1>4, <1>6, <1>7 DEF ReadSort

LEMMA AppRewrite ==
    ASSUME OrderInv, ReplayInv, ~strayed, Rewrite("app") PROVE ReplayInv'
<1>1. PICK r : r = handling["app"]  OBVIOUS
<1>2. PICK seen : seen = r.seen  OBVIOUS
<1>3. /\ "app" \in DOMAIN handling /\ r.phase = "write" /\ r.op.kind \in {"move", "sort"}
      /\ UNCHANGED <<waiting, list, outbox>>
  BY <1>1 DEF Rewrite, Writes, clientVars
<1>4. /\ r \in Handler /\ r.op \in Operation /\ r.op = outbox[1] /\ Rows(position) /\ Distinct(position)
  BY <1>1, <1>3, AppHas
<1>5. PICK ids \in Listed(position) :
        /\ Led(ids) /\ Holds(r, ids)
        /\ r.op.kind = "sort" => r.op.by # "added" /\ ToSet(ids) \subseteq Known
  BY <1>1, <1>3, AppHas
<1>6. ids \in Seq(Episodes) /\ IsInjective(ids) /\ ToSet(ids) = DOMAIN position  BY <1>4, ListedRead
<1>7. About(r, ids)  BY <1>3, <1>5 DEF Holds
<1>8. seen \in Seq(Episodes) /\ IsInjective(seen) /\ ToSet(seen) = DOMAIN position
      /\ Locally(r.op, seen) = seen /\ Locally(r.op, ids) = seen
  <2>1. CASE r.op.kind = "move"
    <3>1. PICK e, at : e = r.op.ids[1] /\ at = r.op.at  OBVIOUS
    <3>2. at \in Int /\ e \in ToSet(ids) /\ seen = Target(ids, e, at)
      BY <1>2, <1>4, <1>7, <2>1, <3>1 DEF About, Operation
    <3>3. seen \in Seq(Episodes) /\ IsInjective(seen) /\ ToSet(seen) = ToSet(ids)
      BY <1>6, <3>2, TargetCovers
    <3>4. Target(seen, e, at) = seen  BY <1>6, <3>2, TargetAgain
    <3>5. Locally(r.op, seen) = seen /\ Locally(r.op, ids) = seen
      BY <1>4, <1>6, <2>1, <3>1, <3>2, <3>3, <3>4, MovesAlike
    <3> QED BY <1>6, <3>3, <3>5
  <2>2. CASE r.op.kind = "sort"
    <3>1. seen \in Sorted(Published, DOMAIN position)  BY <1>2, <1>7, <2>2 DEF About
    <3>2. seen \in SetToSeqs(DOMAIN position)  BY <3>1 DEF Sorted
    <3>3. seen \in Seq(Episodes) /\ IsInjective(seen) /\ ToSet(seen) = DOMAIN position
      BY <1>4, <3>2, OrderRead
    <3>4. SortedBy(LocalKey(r.op.by), DOMAIN position) = seen  BY <1>5, <1>6, <2>2, <3>1, SortsAlike
    <3>5. Locally(r.op, seen) = seen /\ Locally(r.op, ids) = seen
      BY <1>6, <2>2, <3>3, <3>4 DEF Locally
    <3> QED BY <3>3, <3>5
  <2> QED BY <1>3, <2>1, <2>2
<1>9. CASE Wrote("app", Renumber(seen)) /\ Done("app", "ok")
  <2>1. Covers(seen, position)  BY <1>8 DEF Covers
  <2>2. position' = Renumber(seen)  BY <1>9 DEF Wrote
  <2>3. seen \in Listed(position')  BY <1>4, <1>8, <2>1, <2>2, RenumberLists
  <2>4. Distinct(position)'
    <3>1. Distinct(position')  BY <1>4, <1>8, <2>1, <2>2, RenumberDistinct
    <3> QED BY <3>1 DEF Distinct
  <2>5. ToSet(seen) \subseteq ToSet(ids)  BY <1>6, <1>8
  <2> QED BY <1>3, <1>4, <1>5, <1>8, <1>9, <2>3, <2>4, <2>5, AppDone
<1>10. CASE Done("app", "error") /\ UNCHANGED position
  <2>1. Distinct(position)' /\ ids \in Listed(position')  BY <1>4, <1>10 DEF Distinct
  <2> QED BY <1>3, <1>4, <1>5, <1>10, <2>1, AppDone
<1> QED BY <1>1, <1>2, <1>9, <1>10 DEF Rewrite

\* A step of a handler leaves the requests of others and the client's list as they are;
\* one of another requester that changes the rows makes the client's list an old one.
OnlyOf(s) ==
    /\ DOMAIN handling' \subseteq DOMAIN handling
    /\ \A t \in DOMAIN handling' \ {s} : handling'[t] = handling[t]

Apart(s) ==
    /\ OnlyOf(s) /\ UNCHANGED <<list, outbox, waiting>>
    /\ strayed => strayed'
    /\ UNCHANGED position \/ s = "app" \/ strayed'

LEMMA DoneOnly ==
    ASSUME handling \in [DOMAIN handling -> Handler], NEW s, NEW reply, Done(s, reply) PROVE OnlyOf(s)
<1>1. CASE s = "app"  BY <1>1 DEF Done, OnlyOf
<1>2. CASE s # "app"  BY <1>2 DEF Done, OnlyOf, Without
<1> QED BY <1>1, <1>2

LEMMA AdvanceOnly ==
    ASSUME handling \in [DOMAIN handling -> Handler], NEW s, NEW reply, Advance(s, reply) PROVE OnlyOf(s)
<1>1. CASE Done(s, reply)  BY <1>1, DoneOnly
<1>2. CASE handling' = [handling EXCEPT ![s].todo = Tail(@), ![s].phase = "read"]  BY <1>2 DEF OnlyOf
<1> QED BY <1>1, <1>2 DEF Advance

LEMMA FoundOnly ==
    ASSUME handling \in [DOMAIN handling -> Handler], NEW s, NEW seen, NEW free, Found(s, seen, free)
    PROVE  OnlyOf(s)
BY DEF Found, OnlyOf

LEMMA HandleApart ==
    ASSUME OrderInv, NEW s \in Requesters, Handle(s) PROVE Apart(s)
<1>1. handling \in [DOMAIN handling -> Handler]  BY DEF OrderInv, OrderTypes
<1>2. CASE EndBulk(s)
  BY <1>1, <1>2, DoneOnly DEF EndBulk, serverVars, clientVars, histVars, Apart
<1>3. CASE ReadAdd(s)
  <2>1. OnlyOf(s)
    <3>1. CASE \E reply : Advance(s, reply)  BY <1>1, <3>1, AdvanceOnly
    <3>2. CASE \E seen, free : Found(s, seen, free)  BY <1>1, <3>2, FoundOnly
    <3> QED BY <1>3, <3>1, <3>2 DEF ReadAdd
  <2>2. UNCHANGED <<position, list, outbox, waiting>>  BY <1>3 DEF ReadAdd, serverVars, clientVars
  <2>3. strayed => strayed'  BY <1>3, Zenon DEF ReadAdd
  <2> QED BY <2>1, <2>2, <2>3 DEF Apart
<1>4. CASE WriteAdd(s)
  <2>1. OnlyOf(s)
    <3>1. \E reply : Advance(s, reply)  BY <1>4 DEF WriteAdd
    <3> QED BY <1>1, <3>1, AdvanceOnly
  <2>2. UNCHANGED <<list, outbox, waiting>>  BY <1>4 DEF WriteAdd, clientVars
  <2>3. (strayed' = (strayed \/ s = "app") /\ UNCHANGED position) \/ strayed' = (strayed \/ s # "app")
    BY <1>4 DEF WriteAdd, Wrote
  <2>4. (strayed => strayed') /\ (UNCHANGED position \/ s = "app" \/ strayed')  BY <2>3, Zenon
  <2> QED BY <2>1, <2>2, <2>4 DEF Apart
<1>5. CASE Delete(s)
  <2>1. OnlyOf(s)  BY <1>1, <1>5 DEF Delete, OnlyOf
  <2>2. UNCHANGED <<list, outbox, waiting>>  BY <1>5 DEF Delete, clientVars
  <2>3. (UNCHANGED position /\ UNCHANGED strayed) \/ strayed' = (strayed \/ s # "app")  BY <1>5 DEF Delete, Wrote
  <2>4. (strayed => strayed') /\ (UNCHANGED position \/ s = "app" \/ strayed')
    <3>1. CASE UNCHANGED position /\ UNCHANGED strayed  BY <3>1
    <3>2. CASE strayed' = (strayed \/ s # "app")  BY <3>2, Zenon
    <3> QED BY <2>3, <3>1, <3>2
  <2> QED BY <2>1, <2>2, <2>4 DEF Apart
<1>6. CASE ReadMove(s)
  <2>1. OnlyOf(s)
    <3>1. CASE \E reply : Done(s, reply)  BY <1>1, <3>1, DoneOnly
    <3>2. CASE \E seen, free : Found(s, seen, free)  BY <1>1, <3>2, FoundOnly
    <3> QED BY <1>6, <3>1, <3>2 DEF ReadMove
  <2> QED BY <1>6, <2>1 DEF ReadMove, serverVars, clientVars, Apart
<1>7. CASE ReadSort(s)
  <2>1. OnlyOf(s)
    <3>1. CASE \E reply : Done(s, reply)  BY <1>1, <3>1, DoneOnly
    <3>2. CASE \E seen, free : Found(s, seen, free)  BY <1>1, <3>2, FoundOnly
    <3> QED BY <1>7, <3>1, <3>2 DEF ReadSort
  <2> QED BY <1>7, <2>1 DEF ReadSort, serverVars, clientVars, Apart
<1>8. CASE Rewrite(s)
  <2>1. OnlyOf(s)
    <3>1. \E reply : Done(s, reply)  BY <1>8 DEF Rewrite
    <3> QED BY <1>1, <3>1, DoneOnly
  <2>2. UNCHANGED <<list, outbox, waiting>>  BY <1>8 DEF Rewrite, clientVars
  <2>3. (UNCHANGED position /\ UNCHANGED strayed) \/ strayed' = (strayed \/ s # "app")  BY <1>8 DEF Rewrite, Wrote
  <2>4. (strayed => strayed') /\ (UNCHANGED position \/ s = "app" \/ strayed')
    <3>1. CASE UNCHANGED position /\ UNCHANGED strayed  BY <3>1
    <3>2. CASE strayed' = (strayed \/ s # "app")  BY <3>2, Zenon
    <3> QED BY <2>3, <3>1, <3>2
  <2> QED BY <2>1, <2>2, <2>4 DEF Apart
<1>9. CASE PassOver(s)
  <2>1. OnlyOf(s)
    <3>1. Advance(s, "refused")  BY <1>9 DEF PassOver
    <3> QED BY <1>1, <3>1, AdvanceOnly
  <2>2. UNCHANGED <<position, list, outbox, waiting>>
    BY <1>9 DEF PassOver, serverVars, clientVars
  <2>3. strayed => strayed'  BY <1>9, Zenon DEF PassOver
  <2> QED BY <2>1, <2>2, <2>3 DEF Apart
<1> QED BY <1>2, <1>3, <1>4, <1>5, <1>6, <1>7, <1>8, <1>9 DEF Handle

LEMMA HandleReplays ==
    ASSUME OrderInv, ReplayInv, NEW s \in Requesters, Handle(s) PROVE ReplayInv'
<1>1. Apart(s)  BY HandleApart
<1>2. "app" \in DOMAIN handling' => waiting'  BY <1>1 DEF Apart, OnlyOf, ReplayInv
<1>3. CASE strayed'  BY <1>2, <1>3, StrayKeeps
<1>4. CASE ~strayed' /\ s = "app"
  <2>1. ~strayed  BY <1>1, <1>4 DEF Apart
  <2>2. ~PassOver("app")  BY <1>4, Zenon DEF PassOver
  <2> QED BY <1>4, <2>1, <2>2, AppEndBulk, AppReadAdd, AppWriteAdd, AppDelete, AppReadMove, AppReadSort,
          AppRewrite DEF Handle
<1>5. CASE ~strayed' /\ s # "app"
  <2>1. UNCHANGED <<position, list, outbox>> /\ (strayed => strayed')  BY <1>1, <1>5 DEF Apart
  <2>2. Aside  BY <1>1, <1>5 DEF Apart, OnlyOf, Aside
  <2> QED BY <1>2, <2>1, <2>2, QuietKeeps
<1> QED BY <1>3, <1>4, <1>5

\* The feed and other clients change the rows only where the list is an old one from then on.
LEMMA OthersReplay ==
    ASSUME ReplayInv,
           \/ \E op \in Theirs : Foreign(op)
           \/ \E toStart \in BOOLEAN : Publish(toStart)
           \/ \E e \in Episodes : Vanish(e)
    PROVE  ReplayInv'
<1>1. CASE \E op \in Theirs : Foreign(op)
  <2>1. /\ UNCHANGED <<position, list, outbox, waiting, strayed>>
        /\ \E op \in Theirs : handling' = Joined(handling, [x \in {"other"} |-> Request(op)])
    BY <1>1 DEF Foreign, serverVars, clientVars, histVars
  <2>2. "app" \in DOMAIN handling' => "app" \in DOMAIN handling /\ handling'["app"] = handling["app"]
    BY <2>1 DEF Joined
  <2> QED BY <2>1, <2>2, QuietKeeps DEF Aside, ReplayInv
<1>2. CASE (\E toStart \in BOOLEAN : Publish(toStart)) \/ \E e \in Episodes : Vanish(e)
  <2>1. UNCHANGED <<handling, list, outbox, waiting>>  BY <1>2 DEF Publish, Vanish, clientVars
  <2>2. (\E pos : Wrote("feed", pos)) \/ UNCHANGED <<position, strayed>>  BY <1>2 DEF Publish, Vanish
  <2>3. CASE \E pos : Wrote("feed", pos)
    <3>1. strayed'  BY <2>3 DEF Wrote
    <3> QED BY <2>1, <3>1, StrayKeeps DEF ReplayInv
  <2>4. CASE UNCHANGED <<position, strayed>>
    BY <2>1, <2>4, QuietKeeps DEF Aside, ReplayInv
  <2> QED BY <2>2, <2>3, <2>4
<1> QED BY <1>1, <1>2

\* The first operation is sent: nothing of it is done, and all of it is left to do.
LEMMA SendReplays ==
    ASSUME OrderInv, ReplayInv, Send PROVE ReplayInv'
<1>1. /\ outbox # <<>> /\ "app" \notin DOMAIN handling /\ waiting' = TRUE
      /\ handling' = Joined(handling, [x \in {"app"} |-> Request(Head(outbox))])
      /\ UNCHANGED <<position, list, outbox, strayed>>
  BY DEF Send, serverVars, histVars
<1>2. SUFFICES ASSUME ~strayed
               PROVE  (Distinct(position) /\ \E ids \in Listed(position) : Led(ids) /\ InHand(ids))'
  BY <1>1 DEF ReplayInv
<1>3. PICK ids \in Listed(position) : Distinct(position) /\ Led(ids)  BY <1>2 DEF ReplayInv
<1>4. Led(ids)' /\ Distinct(position)' /\ ids \in Listed(position')  BY <1>1, <1>3, LedStill DEF Distinct
<1>5. PICK r : r = handling'["app"]  OBVIOUS
<1>6. r = Request(Head(outbox))  BY <1>1, <1>5 DEF Joined
<1>7. r.op = Head(outbox) /\ r.todo = r.op.ids /\ r.phase = "read"  BY <1>6 DEF Request
<1>8. r.op \in Operation
  BY <1>1, <1>7, HeadTailProperties DEF OrderInv, OrderTypes
<1>9. r.op.ids \in Seq(Episodes) /\ Len(r.op.ids) \in Nat  BY <1>8, LenProperties DEF Operation
<1>10. r.todo = SubSeq(r.op.ids, 0 + 1, Len(r.op.ids))  BY <1>7, <1>9, SubSeqFull
<1>11. Through(r)'
  <2>1. 0 \in 0..Len(r.op.ids) /\ \A i \in 1..0 : FALSE  BY <1>9
  <2> QED BY <1>10, <2>1 DEF Through
<1>12. Holds(handling["app"], ids)'
  BY <1>1, <1>5, <1>7, <1>11 DEF Holds
<1> QED BY <1>4, <1>12 DEF InHand

\* An operation that was carried out makes nothing of the list any more.
LEMMA LedWithoutFirst ==
    ASSUME outbox \in Seq(Operation), outbox # <<>>, NEW ids, Led(ids),
           Locally(outbox[1], ids) = ids, UNCHANGED list, outbox' = Tail(outbox)
    PROVE  Led(ids)'
<1>1. PICK states :
        /\ states[0] = ids /\ states[Len(outbox)] = list
        /\ \A k \in 1..Len(outbox) :
              /\ states[k] = Locally(outbox[k], states[k - 1])
              /\ outbox[k].kind = "sort" => outbox[k].by # "added" /\ ToSet(states[k - 1]) \subseteq Known
  BY DEF Led
<1>2. PICK n \in Nat \ {0} : n = Len(outbox)  BY EmptySeq
<1>3. Len(outbox') = n - 1 /\ \A k \in 1..(n - 1) : outbox'[k] = outbox[k + 1]
  BY <1>2, HeadTailProperties
<1>4. PICK new : new = [k \in 0..(n - 1) |-> states[k + 1]]  OBVIOUS
<1>5. states[1] = ids
  <2>1. 1 \in 1..n /\ 1 - 1 = 0  OBVIOUS
  <2> QED BY <1>1, <1>2, <2>1
<1>6. new[0] = ids /\ new[n - 1] = list
  <2>1. 0 \in 0..(n - 1) /\ n - 1 \in 0..(n - 1) /\ 0 + 1 = 1 /\ (n - 1) + 1 = n  OBVIOUS
  <2> QED BY <1>1, <1>2, <1>4, <1>5, <2>1
<1>7. ASSUME NEW k \in 1..(n - 1)
      PROVE  /\ new[k] = Locally(outbox'[k], new[k - 1])
             /\ outbox'[k].kind = "sort" => outbox'[k].by # "added" /\ ToSet(new[k - 1]) \subseteq Known
  <2>1. k \in 0..(n - 1) /\ k - 1 \in 0..(n - 1) /\ (k - 1) + 1 = k /\ k + 1 \in 1..n /\ (k + 1) - 1 = k
    OBVIOUS
  <2>2. new[k] = states[k + 1] /\ new[k - 1] = states[k]  BY <1>4, <2>1
  <2>3. outbox'[k] = outbox[k + 1]  BY <1>3
  <2> QED BY <1>1, <1>2, <2>1, <2>2, <2>3
<1> QED
  <2>1. new[Len(outbox')] = list'  BY <1>3, <1>6
  <2>2. \A k \in 1..Len(outbox') :
             /\ new[k] = Locally(outbox'[k], new[k - 1])
             /\ outbox'[k].kind = "sort" => outbox'[k].by # "added" /\ ToSet(new[k - 1]) \subseteq Known
    BY <1>3, <1>7
  <2> QED BY <1>6, <2>1, <2>2 DEF Led

LEMMA AnswerReplays ==
    ASSUME OrderInv, ReplayInv, Answer PROVE ReplayInv'
<1>1. PICK r : r = handling["app"]  OBVIOUS
<1>2. /\ waiting /\ r.phase = "done" /\ "app" \notin DOMAIN handling'
      /\ UNCHANGED <<position, list, strayed>>
      /\ outbox' = IF r.reply = "error" THEN outbox ELSE Tail(outbox)
  BY <1>1 DEF Answer, serverVars, histVars, Without
<1>3. CASE r.reply = "error"
  BY <1>2, <1>3, QuietKeeps DEF Aside
<1>4. CASE r.reply # "error"
  <2> SUFFICES ASSUME ~strayed
               PROVE  (Distinct(position) /\ \E ids \in Listed(position) : Led(ids) /\ InHand(ids))'
    BY <1>2 DEF ReplayInv
  <2>1. "app" \in DOMAIN handling  BY <1>2 DEF OrderInv, OrderTypes
  <2>2. r.op = outbox[1] /\ outbox \in Seq(Operation) /\ outbox # <<>>  BY <1>1, <2>1, AppHas
  <2>3. PICK ids \in Listed(position) : Distinct(position) /\ Led(ids) /\ Holds(r, ids)
    BY <1>1, <2>1 DEF ReplayInv, InHand
  <2>4. Locally(outbox[1], ids) = ids  BY <1>2, <1>4, <2>2, <2>3 DEF Holds
  <2>5. Led(ids)'  BY <1>2, <1>4, <2>2, <2>3, <2>4, LedWithoutFirst
  <2>6. Distinct(position)' /\ ids \in Listed(position')  BY <1>2, <2>3 DEF Distinct
  <2>7. InHand(ids)'  BY <1>2 DEF InHand
  <2> QED BY <2>5, <2>6, <2>7
<1> QED BY <1>3, <1>4

\* One more operation, on what the others have made.
LEMMA LedByOneMore ==
    ASSUME outbox \in Seq(Operation), NEW ids, Led(ids), NEW op \in Operation, ~Guessed(op),
           outbox' = Append(outbox, op), list' = Locally(op, list)
    PROVE  Led(ids)'
<1>1. PICK states :
        /\ states[0] = ids /\ states[Len(outbox)] = list
        /\ \A k \in 1..Len(outbox) :
              /\ states[k] = Locally(outbox[k], states[k - 1])
              /\ outbox[k].kind = "sort" => outbox[k].by # "added" /\ ToSet(states[k - 1]) \subseteq Known
  BY DEF Led
<1>2. PICK n \in Nat : n = Len(outbox)  BY LenProperties
<1>3. Len(outbox') = n + 1 /\ outbox'[n + 1] = op /\ \A k \in 1..n : outbox'[k] = outbox[k]
  BY <1>2, AppendProperties
<1>4. PICK new : new = [k \in 0..(n + 1) |-> IF k = n + 1 THEN list' ELSE states[k]]  OBVIOUS
<1>5. new[n + 1] = list' /\ \A k \in 0..n : new[k] = states[k]  BY <1>4
<1>6. ASSUME NEW k \in 1..(n + 1)
      PROVE  /\ new[k] = Locally(outbox'[k], new[k - 1])
             /\ outbox'[k].kind = "sort" => outbox'[k].by # "added" /\ ToSet(new[k - 1]) \subseteq Known
  <2>1. CASE k = n + 1
    <3>1. new[k - 1] = list
      <4>1. k - 1 = n /\ n \in 0..n  BY <2>1
      <4> QED BY <1>1, <1>2, <1>5, <4>1
    <3>2. op.kind = "sort" => op.by # "added" /\ ToSet(list) \subseteq Known  BY DEF Guessed
    <3> QED BY <1>3, <1>5, <2>1, <3>1, <3>2
  <2>2. CASE k # n + 1
    <3>1. k \in 1..n /\ k \in 0..n /\ k - 1 \in 0..n  BY <2>2
    <3>2. new[k] = states[k] /\ new[k - 1] = states[k - 1] /\ outbox'[k] = outbox[k]  BY <1>3, <1>5, <3>1
    <3> QED BY <1>1, <1>2, <3>1, <3>2
  <2> QED BY <2>1, <2>2
<1> QED
  <2>1. new[0] = ids
    <3>1. 0 \in 0..n  OBVIOUS
    <3> QED BY <1>1, <1>5, <3>1
  <2>2. new[Len(outbox')] = list'  BY <1>3, <1>5
  <2>3. \A k \in 1..Len(outbox') :
             /\ new[k] = Locally(outbox'[k], new[k - 1])
             /\ outbox'[k].kind = "sort" => outbox'[k].by # "added" /\ ToSet(new[k - 1]) \subseteq Known
    BY <1>3, <1>6
  <2> QED BY <2>1, <2>2, <2>3 DEF Led

LEMMA CommandReplays ==
    ASSUME OrderInv, ReplayInv, NEW op \in Ours, Command(op) PROVE ReplayInv'
<1>1. /\ ~waiting /\ list' = Locally(op, list) /\ outbox' = Append(outbox, op)
      /\ UNCHANGED <<position, handling, waiting>>
  BY DEF Command, serverVars
<1>2. "app" \notin DOMAIN handling'  BY <1>1 DEF ReplayInv
<1>3. op \in Operation /\ outbox \in Seq(Operation)  BY OrderAssumption DEF OrderInv, OrderTypes
<1> SUFFICES ASSUME ~strayed'
             PROVE  (Distinct(position) /\ \E ids \in Listed(position) : Led(ids) /\ InHand(ids))'
  BY <1>2 DEF ReplayInv
<1>4. strayed' = (strayed \/ Guessed(op))  BY DEF Command
<1>5. ~strayed /\ ~Guessed(op)  BY <1>4, Zenon
<1>6. PICK ids \in Listed(position) : Distinct(position) /\ Led(ids)  BY <1>5 DEF ReplayInv
<1>7. Led(ids)'  BY <1>1, <1>3, <1>5, <1>6, LedByOneMore
<1>8. Distinct(position)' /\ ids \in Listed(position')  BY <1>1, <1>6 DEF Distinct
<1>9. InHand(ids)'  BY <1>2 DEF InHand
<1> QED BY <1>7, <1>8, <1>9

\* A list that was read is the server's, unless it was read too early.
LEMMA ShowsReplays ==
    ASSUME ReplayInv, ~waiting, outbox = <<>>, UNCHANGED <<position, handling, outbox, waiting>>,
           NEW ids, Shows(ids)
    PROVE  ReplayInv'
<1>1. "app" \notin DOMAIN handling'  BY DEF ReplayInv
<1> SUFFICES ASSUME ~strayed'
             PROVE  (Distinct(position) /\ \E old \in Listed(position) : Led(old) /\ InHand(old))'
  BY <1>1 DEF ReplayInv
<1>2. ids \in Listed(position) /\ Distinct(position) /\ list' = ids  BY DEF Shows
<1>3. Len(outbox') = 0  OBVIOUS
<1>4. PICK new : new = [k \in 0..0 |-> ids]  OBVIOUS
<1>5. new[0] = ids  BY <1>4
<1>6. Led(ids)'
  <2>1. \A k \in 1..0 : FALSE  OBVIOUS
  <2> QED BY <1>2, <1>3, <1>5, <2>1 DEF Led
<1>7. InHand(ids)'  BY <1>1 DEF InHand
<1>8. Distinct(position)' /\ ids \in Listed(position')  BY <1>2 DEF Distinct
<1> QED BY <1>6, <1>7, <1>8

LEMMA InitReplays == Init => ReplayInv
<1> SUFFICES ASSUME Init PROVE ReplayInv  OBVIOUS
<1>1. /\ position = [e \in ToSet(Members) |-> Index(Members, e) - 1]
      /\ handling = <<>> /\ list = Members /\ outbox = <<>> /\ strayed = FALSE /\ crossed = FALSE
  BY DEF Init
<1>2. "app" \notin DOMAIN handling  BY <1>1
<1>3. OrderInv  BY InitInv
<1>4. Distinct(position) /\ Rows(position)  BY <1>1, <1>3 DEF OrderInv, OrderTypes, Numbered, Rows
<1>5. Members \in Seq(Episodes) /\ IsInjective(Members)  BY OrderAssumption
<1>6. DOMAIN Members = 1..Len(Members) /\ Len(Members) \in Nat  BY <1>5, LenProperties
<1>7. ASSUME NEW i \in DOMAIN Members PROVE position[Members[i]] = i - 1
  BY <1>1, <1>5, <1>6, IndexOf
<1>8. Members \in Listed(position)
  <2>1. ToSet(Members) = DOMAIN position  BY <1>1
  <2>2. \A i, j \in DOMAIN Members : i < j => position[Members[i]] <= position[Members[j]]
    BY <1>6, <1>7
  <2> QED BY <1>4, <1>5, <2>1, <2>2, ListedMade
<1>9. PICK new : new = [k \in 0..0 |-> Members]  OBVIOUS
<1>10. Led(Members)
  <2>1. new[0] = Members /\ Len(outbox) = 0 /\ \A k \in 1..0 : FALSE  BY <1>1, <1>9
  <2> QED BY <1>1, <2>1 DEF Led
<1>11. InHand(Members)  BY <1>2 DEF InHand
<1> QED BY <1>2, <1>4, <1>8, <1>10, <1>11 DEF ReplayInv

LEMMA NextReplays == OrderInv /\ ReplayInv /\ [Next]_vars => ReplayInv'
<1> SUFFICES ASSUME OrderInv, ReplayInv, [Next]_vars PROVE ReplayInv'  OBVIOUS
<1>1. CASE \E s \in Requesters : Handle(s)  BY <1>1, HandleReplays
<1>2. CASE \E op \in Ours : Command(op)  BY <1>2, CommandReplays
<1>3. CASE \/ \E op \in Theirs : Foreign(op)
           \/ \E toStart \in BOOLEAN : Publish(toStart)
           \/ \E e \in Episodes : Vanish(e)
  BY <1>3, OthersReplay
<1>4. CASE Send  BY <1>4, SendReplays
<1>5. CASE Answer  BY <1>5, AnswerReplays
<1>6. CASE Lose
  <2>1. UNCHANGED <<position, list, outbox, strayed>>  BY <1>6 DEF Lose, serverVars
  <2>2. "app" \notin DOMAIN handling'  BY <1>6 DEF Lose, Without, Joined
  <2> QED BY <2>1, <2>2, QuietKeeps DEF Aside
<1>7. CASE Pull \/ Repair
  <2>1. /\ ~waiting /\ outbox = <<>> /\ UNCHANGED <<position, handling, outbox, waiting>>
        /\ \E ids \in Listed(position) : Shows(ids)
    BY <1>7 DEF Pull, Repair, serverVars
  <2> QED BY <2>1, ShowsReplays
<1>8. CASE Fetch
  <2>1. UNCHANGED <<position, handling, list, outbox, waiting, strayed>>
    BY <1>8 DEF Fetch, serverVars, histVars
  <2> QED BY <2>1, QuietKeeps DEF Aside, ReplayInv
<1>9. CASE Cache
  <2>1. ~waiting /\ UNCHANGED <<position, handling, outbox, waiting>>  BY <1>9 DEF Cache, serverVars
  <2>2. CASE outbox = <<>> /\ \E ids \in page : Shows(ids)  BY <2>1, <2>2, ShowsReplays
  <2>3. CASE UNCHANGED <<list, strayed>>
    BY <2>1, <2>3, QuietKeeps DEF Aside, ReplayInv
  <2> QED BY <1>9, <2>2, <2>3 DEF Cache, MembershipPending
<1>10. CASE UNCHANGED vars
  <2>1. UNCHANGED <<position, handling, list, outbox, waiting, strayed>>
    BY <1>10 DEF vars, serverVars, clientVars, histVars
  <2> QED BY <2>1, QuietKeeps DEF Aside, ReplayInv
<1> QED BY <1>1, <1>2, <1>3, <1>4, <1>5, <1>6, <1>7, <1>8, <1>9, <1>10 DEF Next

-----------------------------------------------------------------------------

LEMMA ReplayHolds == Spec => []ReplayInv
<1>1. Init => ReplayInv  BY InitReplays
<1>2. OrderInv /\ ReplayInv /\ [Next]_vars => ReplayInv'  BY NextReplays
<1> QED BY <1>1, <1>2, OrderHolds, PTL DEF Spec

\* The replay of the operations, as a function.
Replaying(f, ids) ==
    f = [n \in 0..Len(outbox) |-> IF n = 0 THEN ids ELSE Locally(outbox[n], f[n - 1])]

LEMMA ReplayedIsLed ==
    ASSUME outbox \in Seq(Operation), NEW ids, Led(ids) PROVE Replayed(ids) = list
<1>1. PICK states :
        /\ states[0] = ids /\ states[Len(outbox)] = list
        /\ \A k \in 1..Len(outbox) : states[k] = Locally(outbox[k], states[k - 1])
  BY DEF Led
<1>2. PICK n \in Nat : n = Len(outbox)  BY LenProperties
<1>3. PICK f : f = [k \in 0..n |-> states[k]]  OBVIOUS
<1>4. ASSUME NEW k \in 0..n PROVE f[k] = IF k = 0 THEN ids ELSE Locally(outbox[k], f[k - 1])
  <2>1. CASE k = 0  BY <1>1, <1>3, <2>1
  <2>2. CASE k # 0
    <3>1. k \in 1..n /\ k - 1 \in 0..n  BY <2>2
    <3> QED BY <1>1, <1>2, <1>3, <2>2, <3>1
  <2> QED BY <2>1, <2>2
<1>5. Replaying(f, ids)  BY <1>2, <1>3, <1>4 DEF Replaying
<1> DEFINE g == CHOOSE h : Replaying(h, ids)
<1>6. Replaying(g, ids)  BY <1>5
<1>7. Replayed(ids) = g[Len(outbox)]  BY DEF Replayed, Replaying
<1> HIDE DEF g
<1>8. g[0] = ids /\ \A k \in 1..n : g[k] = Locally(outbox[k], g[k - 1])
  <2>1. g = [k \in 0..n |-> IF k = 0 THEN ids ELSE Locally(outbox[k], g[k - 1])]
    BY <1>2, <1>6 DEF Replaying
  <2>2. \A k \in 0..n : g[k] = IF k = 0 THEN ids ELSE Locally(outbox[k], g[k - 1])  BY <2>1, Zenon
  <2> QED BY <2>2
<1> DEFINE S == {k \in Nat : k <= n => g[k] = states[k]}
<1>9. 0 \in S  BY <1>1, <1>8
<1>10. ASSUME NEW k \in Nat, k \in S PROVE k + 1 \in S
  <2> SUFFICES ASSUME k + 1 <= n PROVE g[k + 1] = states[k + 1]  OBVIOUS
  <2>1. k + 1 \in 1..n /\ (k + 1) - 1 = k /\ g[k] = states[k]  BY <1>10
  <2> QED BY <1>1, <1>2, <1>8, <2>1
<1>11. Nat \subseteq S
  <2> HIDE DEF S
  <2> QED BY <1>9, <1>10, InductiveSet
<1>12. g[n] = states[n]
  <2>1. n \in S  BY <1>11
  <2> QED BY <2>1
<1> QED BY <1>1, <1>2, <1>7, <1>12

\* What the server has, with the client's queue replayed on it, is what the client shows:
\* after every step of every handler, whatever answers were lost and operations sent again,
\* as long as others have not changed the playlist since the client last read it and it has
\* not sorted by what it does not know.
THEOREM QueueReplays == Spec => []Replays
<1>1. OrderInv /\ ReplayInv => Replays
  <2> SUFFICES ASSUME OrderInv, ReplayInv, ~strayed, NEW ids \in Listed(position)
               PROVE  Replayed(ids) = list
    BY DEF Replays
  <2>1. PICK old \in Listed(position) : Distinct(position) /\ Led(old)  BY DEF ReplayInv
  <2>2. Rows(position) /\ outbox \in Seq(Operation)  BY DEF OrderInv, OrderTypes, Rows
  <2>3. ids = old  BY <2>1, <2>2, ListedOnce
  <2> QED BY <2>1, <2>2, <2>3, ReplayedIsLed
<1> QED BY <1>1, OrderHolds, ReplayHolds, PTL
=============================================================================
