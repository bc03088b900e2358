--------------------------- MODULE Library_proofs ---------------------------
(***************************************************************************)
(* What the server keeps true of the library and its feed: the rows hang   *)
(* together, every event names a row that is there or gone for good, and   *)
(* no write goes by without an event past the head it started from.        *)
(***************************************************************************)
EXTENDS Library, FiniteSetTheorems, WellFoundedInduction, TLAPS

\* Deleted rows stay deleted, episodes have a podcast, playlists hold episodes.
Shape(rows, dead) ==
    /\ \A r \in dead : rows[r] = NoRow
    /\ \A e \in Episodes : rows[e] # NoRow => rows[PodcastOf[e]] # NoRow
    /\ \A pl \in Playlists : rows[pl] # NoRow => \A e \in rows[pl].refs : rows[e] # NoRow

Known(r) == Live(r) \/ r \in gone

EventSound(ev) ==
    /\ ev.seq <= head
    /\ Known(ev.id)
    /\ ev.gone /\ ev.kind # "playbacks" => ev.id \in gone

LibInv ==
    /\ LibTypeOK
    /\ Shape(row, gone)
    /\ Shape(copy.row, copy.gone)
    /\ floor <= head
    /\ \A ev \in feed : EventSound(ev)

\* Within an epoch rows change only under an event past the head.
Moved ==
    /\ epoch' = epoch /\ floor' = floor /\ head' >= head
    /\ feed \subseteq feed' /\ gone \subseteq gone'
    /\ \A r \in Res : row'[r] = row[r] \/ \E ev \in feed' : ev.id = r /\ ev.seq > head

Expired ==
    /\ UNCHANGED <<row, gone, head, epoch>>
    /\ floor' >= floor
    /\ feed' = {ev \in feed : ev.seq > floor'}

-----------------------------------------------------------------------------
LEMMA NatBelow == IsWellFoundedOn({ss \in Nat \X Nat : ss[1] < ss[2]}, Nat)
BY NatLessThanWellFounded DEF OpToRel

\* A bounded set of numbers has a greatest element.
LEMMA NatMax ==
    ASSUME NEW S \in SUBSET Nat, S # {}, NEW b \in Nat, \A s \in S : s <= b
    PROVE  \E m \in S : \A s \in S : s <= m
<1> DEFINE T == {b - s : s \in S}
<1> DEFINE R == {ss \in Nat \X Nat : ss[1] < ss[2]}
<1>1. T \subseteq Nat
  BY SMT
<1>2. T # {}
  <2>1. PICK s \in S : TRUE  OBVIOUS
  <2>2. b - s \in T  OBVIOUS
  <2> QED BY <2>2
<1>3. PICK x \in T : \A y \in T : <<y, x>> \notin R
  <2>1. IsWellFoundedOn(R, Nat)  BY NatBelow
  <2> HIDE DEF T, R
  <2> QED BY <1>1, <1>2, <2>1, WFMin
<1>4. \A y \in T : ~(y < x)
  BY <1>1, <1>3
<1>5. PICK m \in S : x = b - m  OBVIOUS
<1>6. ASSUME NEW s \in S PROVE s <= m
  <2>1. b - s \in T  OBVIOUS
  <2>2. ~(b - s < x)  BY <1>4, <2>1
  <2> HIDE DEF T, R
  <2> QED BY <2>2, <1>5
<1> QED BY <1>6

LEMMA ResFinite == IsFiniteSet(Res)
BY IdAssumption, FS_Union DEF Res

LEMMA KeysFinite ==
    ASSUME NEW keys \in SUBSET (Kinds \X Res)
    PROVE  IsFiniteSet(keys) /\ Cardinality(keys) \in Nat
<1>1. IsFiniteSet(Kinds)
  <2>1. Kinds = (({"podcasts"} \cup {"episodes"}) \cup {"playbacks"}) \cup {"playlists"}
    BY DEF Kinds
  <2> QED BY <2>1, FS_Singleton, FS_Union
<1>2. IsFiniteSet(Kinds \X Res)
  BY <1>1, ResFinite, FS_Product
<1> QED BY <1>2, FS_Subset, FS_CardinalityType

LEMMA RowKeysType ==
    ASSUME NEW R \in SUBSET Res
    PROVE  /\ RowKeys(R) \in SUBSET (Kinds \X Res)
           /\ \A r \in R : \E k \in RowKeys(R) : k[2] = r
           /\ \A k \in RowKeys(R) : k[2] \in R
<1>1. ASSUME NEW r \in R PROVE \E k \in RowKeys(R) : k[2] = r
  <2>1. <<KindOf(r), r>> \in RowKeys(R)  BY DEF RowKeys
  <2> QED BY <2>1
<1>2. RowKeys(R) \in SUBSET (Kinds \X Res)  BY DEF RowKeys, KindOf, Kinds
<1>3. \A k \in RowKeys(R) : k[2] \in R  BY DEF RowKeys
<1> QED BY <1>1, <1>2, <1>3

\* The events of one transaction lie past the head and name its keys.
LEMMA Logged ==
    ASSUME LibTypeOK, NEW keys \in SUBSET (Kinds \X Res), NEW tombs, Log(keys, tombs)
    PROVE  /\ head' \in Nat /\ head' >= head
           /\ feed \subseteq feed' /\ feed' \subseteq Event
           /\ \A ev \in feed' : \/ ev \in feed
                                \/ /\ ev.seq > head /\ ev.seq <= head'
                                   /\ <<ev.kind, ev.id>> \in keys
                                   /\ ev.gone = (<<ev.kind, ev.id>> \in tombs)
           /\ \A k \in keys : \E ev \in feed' : ev.id = k[2] /\ ev.seq > head
<1>1. Cardinality(keys) \in Nat  BY KeysFinite
<1>2. PICK num \in Numberings(keys, tombs # {}) :
         feed' = feed \cup {[seq |-> num[k], kind |-> k[1], id |-> k[2],
                             gone |-> k \in tombs] : k \in keys}
  BY DEF Log
<1>3. head \in Nat /\ head' = head + Cardinality(keys)  BY DEF Log, LibTypeOK
<1>4. ASSUME NEW k \in keys
      PROVE  num[k] \in Nat /\ num[k] > head /\ num[k] <= head'
  <2>1. num \in [keys -> (head + 1)..(head + Cardinality(keys))]  BY <1>2 DEF Numberings
  <2> QED BY <2>1, <1>1, <1>3
<1>5. \A k \in keys : k = <<k[1], k[2]>> /\ k[1] \in Kinds /\ k[2] \in Res  OBVIOUS
<1>6. feed' \subseteq Event
  <2>1. \A k \in keys : [seq |-> num[k], kind |-> k[1], id |-> k[2], gone |-> k \in tombs] \in Event
    BY <1>4, <1>5 DEF Event
  <2> QED BY <1>2, <2>1 DEF LibTypeOK
<1>7. \A ev \in feed' : \/ ev \in feed
                        \/ /\ ev.seq > head /\ ev.seq <= head'
                           /\ <<ev.kind, ev.id>> \in keys
                           /\ ev.gone = (<<ev.kind, ev.id>> \in tombs)
  <2> SUFFICES ASSUME NEW ev \in feed', ev \notin feed
               PROVE  /\ ev.seq > head /\ ev.seq <= head'
                      /\ <<ev.kind, ev.id>> \in keys
                      /\ ev.gone = (<<ev.kind, ev.id>> \in tombs)
    BY Zenon
  <2>1. PICK k \in keys : ev = [seq |-> num[k], kind |-> k[1], id |-> k[2],
                                gone |-> k \in tombs]
    BY <1>2
  <2>2. <<ev.kind, ev.id>> = k  BY <2>1, <1>5
  <2>3. ev.gone = (k \in tombs)  BY <2>1
  <2> QED BY <2>1, <2>2, <2>3, <1>4
<1>8. ASSUME NEW k \in keys
      PROVE  \E ev \in feed' : ev.id = k[2] /\ ev.seq > head
  <2> DEFINE ev == [seq |-> num[k], kind |-> k[1], id |-> k[2], gone |-> k \in tombs]
  <2>1. ev \in feed'  BY <1>2
  <2>2. ev.id = k[2] /\ ev.seq > head  BY <1>4
  <2> QED BY <2>1, <2>2
<1> QED BY <1>1, <1>2, <1>3, <1>6, <1>7, <1>8

\* What a transaction over these keys has to respect for the library to stay sound.
Respects(keys, tombs) ==
    /\ keys \in SUBSET (Kinds \X Res)
    /\ Log(keys, tombs)
    /\ UNCHANGED <<floor, epoch, copy>>
    /\ row' \in [Res -> Row \cup {NoRow}]
    /\ gone' \subseteq Res /\ gone \subseteq gone'
    /\ Shape(row', gone')
    /\ \A r \in Res : row'[r] = row[r] \/ \E k \in keys : k[2] = r
    /\ \A r \in Res : Live(r) => row'[r] # NoRow \/ r \in gone'
    /\ \A k \in keys : /\ row'[k[2]] # NoRow \/ k[2] \in gone'
                       /\ k \in tombs /\ k[1] # "playbacks" => k[2] \in gone'

LEMMA Transaction ==
    ASSUME LibInv, NEW keys, NEW tombs, Respects(keys, tombs)
    PROVE  LibInv' /\ Moved
<1> USE DEF Respects
<1>1. LibTypeOK  BY DEF LibInv
<1>2. LibTypeOK' /\ floor' <= head'
  <2>1. head' \in Nat /\ head' >= head /\ feed' \subseteq Event
    BY <1>1, Logged
  <2>2. floor' = floor /\ epoch' = epoch /\ copy' = copy
    OBVIOUS
  <2>3. floor' <= head'
    BY <1>1, <2>1, <2>2 DEF LibTypeOK, LibInv
  <2> QED BY <1>1, <2>1, <2>2, <2>3 DEF LibTypeOK
<1>3. ASSUME NEW ev \in feed'
      PROVE  EventSound(ev)'
  <2>1. CASE ev \in feed
    <3>1. EventSound(ev) /\ ev \in Event  BY <2>1, <1>1 DEF LibInv, LibTypeOK
    <3>2. ev.seq <= head'  BY <1>1, <3>1, Logged DEF EventSound, Event, LibTypeOK
    <3> QED BY <3>1, <3>2 DEF EventSound, Known, Live, Event
  <2>2. CASE ev \notin feed
    <3>1. /\ ev.seq <= head' /\ <<ev.kind, ev.id>> \in keys
          /\ ev.gone = (<<ev.kind, ev.id>> \in tombs)
      BY <1>1, <2>2, Logged, ZenonT(30)
    <3> QED BY <3>1 DEF EventSound, Known, Live
  <2> QED BY <2>1, <2>2
<1>4. LibInv'
  BY <1>2, <1>3 DEF LibInv, Shape
<1>5. Moved
  <2>1. head' >= head /\ feed \subseteq feed'  BY <1>1, Logged
  <2>2. \A k \in keys : \E ev \in feed' : ev.id = k[2] /\ ev.seq > head
    BY <1>1, Logged
  <2> QED BY <2>1, <2>2 DEF Moved
<1> QED BY <1>4, <1>5

\* The row a transaction writes is a row.
LEMMA WrittenType ==
    ASSUME LibTypeOK, NEW keys \in SUBSET (Kinds \X Res), NEW refs \in SUBSET Episodes
    PROVE  /\ Written(keys, refs) \in Row /\ Written(keys, refs) # NoRow
           /\ Written(keys, refs).refs = refs
BY KeysFinite, NoRowAssumption DEF LibTypeOK, Written, Row

LEMMA RefsType ==
    ASSUME LibTypeOK, NEW r \in Res, Live(r)
    PROVE  row[r] \in Row /\ row[r].refs \in SUBSET Episodes
BY DEF LibTypeOK, Live, Row

\* Writing rows keeps the library sound when the podcasts of its episodes are there.
LEMMA PutStep ==
    ASSUME LibInv, NEW R \in SUBSET Res, R \cap gone = {},
           \A e \in R \cap Episodes : PodcastOf[e] \in R \/ Live(PodcastOf[e]),
           Put(R, RowKeys(R))
    PROVE  LibInv' /\ Moved
<1> DEFINE keys == RowKeys(R)
<1>1. keys \in SUBSET (Kinds \X Res)  BY RowKeysType
<1>2. \A r \in R : \E k \in keys : k[2] = r  BY RowKeysType
<1>3. \A k \in keys : k[2] \in R  BY RowKeysType
<1>4. LibTypeOK  BY DEF LibInv
<1>5. \A r \in Res : (IF Live(r) THEN row[r].refs ELSE {}) \in SUBSET Episodes
  BY <1>4, RefsType
<1> HIDE DEF keys
<1>6. /\ row' = [r \in Res |->
                   IF r \in R THEN Written(keys, IF Live(r) THEN row[r].refs ELSE {})
                   ELSE row[r]]
      /\ Log(keys, {}) /\ UNCHANGED <<gone, floor, epoch, copy>>
  BY DEF Put, keys
<1>7. row' \in [Res -> Row \cup {NoRow}]
  BY <1>1, <1>4, <1>5, <1>6, WrittenType DEF LibTypeOK
<1>8. \A r \in R : /\ row'[r] # NoRow
                   /\ row'[r].refs = IF Live(r) THEN row[r].refs ELSE {}
  BY <1>1, <1>4, <1>5, <1>6, WrittenType DEF LibTypeOK
<1>9. \A r \in Res \ R : row'[r] = row[r]  BY <1>6
<1>10. Shape(row', gone')
  <2>1. \A r \in gone' : row'[r] = NoRow
    BY <1>4, <1>6, <1>9 DEF LibInv, Shape, LibTypeOK
  <2>2. \A e \in Episodes : row'[e] # NoRow => row'[PodcastOf[e]] # NoRow
    BY <1>8, <1>9, OwnerAssumption DEF LibInv, Shape, Res, Live
  <2>3. \A r \in Res : Live(r) => row'[r] # NoRow
    BY <1>8, <1>9 DEF Live
  <2>4. ASSUME NEW pl \in Playlists, row'[pl] # NoRow, NEW e \in row'[pl].refs
        PROVE  row'[e] # NoRow
    <3>1. Live(pl) /\ e \in row[pl].refs  BY <1>8, <1>9, <2>4 DEF Live, Res
    <3>2. Live(e) /\ e \in Res  BY <1>4, <3>1, RefsType DEF LibInv, Shape, Live, Res
    <3> QED BY <2>3, <3>2
  <2> QED BY <2>1, <2>2, <2>4 DEF Shape
<1>11. \A r \in Res : Live(r) => row'[r] # NoRow \/ r \in gone'
  BY <1>8, <1>9 DEF Live
<1>12. \A k \in keys : /\ row'[k[2]] # NoRow \/ k[2] \in gone'
                       /\ k \in {} /\ k[1] # "playbacks" => k[2] \in gone'
  BY <1>3, <1>8
<1>13. \A r \in Res : row'[r] = row[r] \/ \E k \in keys : k[2] = r
  BY <1>2, <1>9
<1>14. gone' \subseteq Res /\ gone \subseteq gone'  BY <1>4, <1>6 DEF LibTypeOK
<1>15. Respects(keys, {})
  BY <1>1, <1>6, <1>7, <1>10, <1>11, <1>12, <1>13, <1>14 DEF Respects
<1> QED BY <1>15, Transaction

\* A playback is written or deleted: its episode stays.
LEMMA SetPlaybackStep ==
    ASSUME LibInv, NEW e \in Episodes, NEW deleted, SetPlayback(e, deleted)
    PROVE  LibInv' /\ Moved
<1> DEFINE keys == {<<"playbacks", e>>}
<1> DEFINE tombs == IF deleted THEN keys ELSE {}
<1>1. keys \in SUBSET (Kinds \X Res)  BY DEF Kinds, Res
<1>2. \A k \in keys : k[1] = "playbacks" /\ k[2] = e  OBVIOUS
<1>3. \E k \in keys : k[2] = e  OBVIOUS
<1>4. LibTypeOK /\ e \in Res  BY DEF LibInv, Res
<1>5. /\ Live(e) /\ row' = [row EXCEPT ![e] = Written(keys, {})]
      /\ Log(keys, tombs) /\ UNCHANGED <<gone, floor, epoch, copy>>
  BY DEF SetPlayback
<1> HIDE DEF keys, tombs
<1>6. Written(keys, {}) \in Row /\ Written(keys, {}) # NoRow
  BY <1>1, <1>4, WrittenType
<1>7. row' \in [Res -> Row \cup {NoRow}]  BY <1>4, <1>5, <1>6 DEF LibTypeOK
<1>8. row'[e] # NoRow /\ \A r \in Res \ {e} : row'[r] = row[r]
  BY <1>4, <1>5, <1>6 DEF LibTypeOK
<1>9. Shape(row', gone')
  <2>1. e \notin Playlists /\ e \notin Podcasts  BY IdAssumption
  <2>2. \A r \in Res : row'[r] # NoRow <=> Live(r)  BY <1>5, <1>8 DEF Live
  <2>3. \A pl \in Playlists : row'[pl] = row[pl]  BY <1>8, <2>1 DEF Res
  <2>4. \A r \in gone' : row'[r] = NoRow
    BY <1>4, <1>5, <2>2 DEF LibInv, Shape, Live, LibTypeOK
  <2>5. \A x \in Episodes : row'[x] # NoRow => row'[PodcastOf[x]] # NoRow
    BY <2>2, OwnerAssumption DEF LibInv, Shape, Live, Res
  <2>6. ASSUME NEW pl \in Playlists, row'[pl] # NoRow, NEW x \in row'[pl].refs
        PROVE  row'[x] # NoRow
    <3>1. Live(pl) /\ x \in row[pl].refs  BY <2>3, <2>6 DEF Live
    <3>2. Live(x) /\ x \in Res  BY <1>4, <3>1, RefsType DEF LibInv, Shape, Live, Res
    <3> QED BY <2>2, <3>2
  <2> QED BY <2>4, <2>5, <2>6 DEF Shape
<1>10. \A r \in Res : Live(r) => row'[r] # NoRow \/ r \in gone'  BY <1>8 DEF Live
<1>11. \A r \in Res : row'[r] = row[r] \/ \E k \in keys : k[2] = r  BY <1>3, <1>8
<1>12. gone' \subseteq Res /\ gone \subseteq gone'  BY <1>4, <1>5 DEF LibTypeOK
<1>13. \A k \in keys : /\ row'[k[2]] # NoRow \/ k[2] \in gone'
                       /\ k \in tombs /\ k[1] # "playbacks" => k[2] \in gone'
  BY <1>2, <1>8
<1>14. Log(keys, tombs) /\ UNCHANGED <<floor, epoch, copy>>  BY <1>5
<1>15. Respects(keys, tombs)
  BY <1>1, <1>7, <1>9, <1>10, <1>11, <1>12, <1>13, <1>14 DEF Respects
<1> QED BY <1>15, Transaction

\* A playlist is given members that exist.
LEMMA SetMembersStep ==
    ASSUME LibInv, NEW pl \in Playlists, NEW E \in SUBSET Episodes, SetMembers(pl, E)
    PROVE  LibInv' /\ Moved
<1> DEFINE keys == RowKeys({pl})
<1>1. pl \in Res /\ LibTypeOK  BY DEF LibInv, Res
<1>2. /\ keys \in SUBSET (Kinds \X Res)
      /\ \E k \in keys : k[2] = pl
      /\ \A k \in keys : k[2] = pl
  <2>1. {pl} \in SUBSET Res  BY <1>1
  <2> QED BY <2>1, RowKeysType
<1>3. /\ Live(pl) /\ \A e \in E : Live(e)
      /\ row' = [row EXCEPT ![pl] = Written(keys, E)]
      /\ Log(keys, {}) /\ UNCHANGED <<gone, floor, epoch, copy>>
  BY DEF SetMembers
<1> HIDE DEF keys
<1>4. Written(keys, E) \in Row /\ Written(keys, E) # NoRow /\ Written(keys, E).refs = E
  BY <1>1, <1>2, WrittenType
<1>5. row' \in [Res -> Row \cup {NoRow}]  BY <1>1, <1>3, <1>4 DEF LibTypeOK
<1>6. row'[pl] # NoRow /\ row'[pl].refs = E /\ \A r \in Res \ {pl} : row'[r] = row[r]
  BY <1>1, <1>3, <1>4 DEF LibTypeOK
<1>7. \A r \in Res : row'[r] # NoRow <=> Live(r)  BY <1>3, <1>6 DEF Live
<1>8. Shape(row', gone')
  <2>1. \A r \in gone' : row'[r] = NoRow
    BY <1>1, <1>3, <1>7 DEF LibInv, Shape, Live, LibTypeOK
  <2>2. \A x \in Episodes : row'[x] # NoRow => row'[PodcastOf[x]] # NoRow
    BY <1>7, OwnerAssumption DEF LibInv, Shape, Live, Res
  <2>3. ASSUME NEW q \in Playlists, row'[q] # NoRow, NEW x \in row'[q].refs
        PROVE  row'[x] # NoRow
    <3>1. CASE q = pl  BY <1>3, <1>6, <1>7, <2>3, <3>1 DEF Res
    <3>2. CASE q # pl
      <4>1. Live(q) /\ x \in row[q].refs  BY <1>6, <2>3, <3>2 DEF Live, Res
      <4>2. Live(x) /\ x \in Res  BY <1>1, <4>1, RefsType DEF LibInv, Shape, Live, Res
      <4> QED BY <1>7, <4>2
    <3> QED BY <3>1, <3>2
  <2> QED BY <2>1, <2>2, <2>3 DEF Shape
<1>9. \A r \in Res : row'[r] = row[r] \/ \E k \in keys : k[2] = r  BY <1>2, <1>6
<1>10. \A k \in keys : /\ row'[k[2]] # NoRow \/ k[2] \in gone'
                       /\ k \in {} /\ k[1] # "playbacks" => k[2] \in gone'
  BY <1>2, <1>6
<1>11. gone' \subseteq Res /\ gone \subseteq gone'  BY <1>1, <1>3 DEF LibTypeOK
<1>12. \A r \in Res : Live(r) => row'[r] # NoRow \/ r \in gone'  BY <1>7
<1>13. Log(keys, {}) /\ UNCHANGED <<floor, epoch, copy>>  BY <1>3
<1>14. keys \in SUBSET (Kinds \X Res)  BY <1>2
<1>15. Respects(keys, {})
  BY <1>5, <1>8, <1>9, <1>10, <1>11, <1>12, <1>13, <1>14 DEF Respects
<1> QED BY <1>15, Transaction

\* Deleting rows, with what hangs off their episodes and the memberships of these.
LEMMA PurgeStep ==
    ASSUME LibInv, NEW D \in SUBSET Res, NEW PB \in SUBSET (D \cap Episodes),
           \A e \in Episodes : Live(e) /\ PodcastOf[e] \in D => e \in D,
           Purge(D, PB)
    PROVE  LibInv' /\ Moved
<1> DEFINE E == D \cap Episodes
<1> DEFINE held == Holders(E) \ D
<1> DEFINE dead == RowKeys(D) \cup {<<"playbacks", e>> : e \in PB}
<1> DEFINE keys == RowKeys(held) \cup dead
<1>1. LibTypeOK /\ held \in SUBSET Res /\ held \subseteq Playlists
      /\ \A pl \in held : Live(pl)
  BY DEF LibInv, Holders, Res
<1>2. /\ row' = [r \in Res |->
                   IF r \in D THEN NoRow
                   ELSE IF r \in held THEN Written(keys, row[r].refs \ E)
                   ELSE row[r]]
      /\ gone' = gone \cup D /\ Log(keys, dead) /\ UNCHANGED <<floor, epoch, copy>>
  BY DEF Purge
<1>3. /\ keys \in SUBSET (Kinds \X Res)
      /\ \A r \in D \cup held : \E k \in keys : k[2] = r
      /\ \A k \in keys : k[2] \in D \cup held
      /\ \A k \in dead : k[2] \in D
  <2>1. {<<"playbacks", e>> : e \in PB} \in SUBSET (Kinds \X Res)
        /\ \A k \in {<<"playbacks", e>> : e \in PB} : k[2] \in D
    BY DEF Kinds, Res
  <2> HIDE DEF held
  <2> QED BY <1>1, <2>1, RowKeysType
<1>4. \A pl \in Playlists : Live(pl) /\ pl \notin D /\ pl \notin held => row[pl].refs \cap D = {}
  BY <1>1, RefsType DEF Holders, Res
<1> HIDE DEF keys, dead, held
<1>5. ASSUME NEW r \in held
      PROVE  /\ Written(keys, row[r].refs \ E) \in Row
             /\ Written(keys, row[r].refs \ E) # NoRow
             /\ Written(keys, row[r].refs \ E).refs = row[r].refs \ E
  <2>1. row[r].refs \ E \in SUBSET Episodes  BY <1>1, RefsType
  <2> QED BY <1>1, <1>3, <2>1, WrittenType
<1>6. row' \in [Res -> Row \cup {NoRow}]  BY <1>1, <1>2, <1>5 DEF LibTypeOK
<1>7. /\ \A r \in D : row'[r] = NoRow
      /\ \A r \in Res \ (D \cup held) : row'[r] = row[r]
  BY <1>2
<1>8. \A r \in held : r \notin D /\ row'[r] # NoRow /\ row'[r].refs = row[r].refs \ E
  <2>1. \A r \in held : r \notin D  BY DEF held
  <2> QED BY <1>1, <1>2, <1>5, <2>1
<1>9. \A r \in Res : row'[r] # NoRow <=> Live(r) /\ r \notin D
  BY <1>1, <1>7, <1>8 DEF Live
<1>10. Shape(row', gone')
  <2>1. \A r \in gone' : row'[r] = NoRow
    BY <1>1, <1>2, <1>9 DEF LibInv, Shape, Live, LibTypeOK
  <2>2. \A x \in Episodes : row'[x] # NoRow => row'[PodcastOf[x]] # NoRow
    BY <1>9, OwnerAssumption DEF LibInv, Shape, Live, Res
  <2>3. ASSUME NEW q \in Playlists, row'[q] # NoRow, NEW x \in row'[q].refs
        PROVE  row'[x] # NoRow
    <3>1. q \in Res /\ Live(q) /\ q \notin D  BY <1>9, <2>3 DEF Res
    <3>2. row[q].refs \in SUBSET Episodes  BY <1>1, <3>1, RefsType
    <3>3. x \in row[q].refs /\ x \notin D
      <4>1. CASE q \in held  BY <1>8, <2>3, <3>2, <4>1
      <4>2. CASE q \notin held  BY <1>4, <1>7, <2>3, <3>1, <4>2
      <4> QED BY <4>1, <4>2
    <3>4. Live(x) /\ x \in Res  BY <3>1, <3>2, <3>3 DEF LibInv, Shape, Live, Res
    <3> QED BY <1>9, <3>3, <3>4
  <2> QED BY <2>1, <2>2, <2>3 DEF Shape
<1>11. \A r \in Res : row'[r] = row[r] \/ \E k \in keys : k[2] = r  BY <1>3, <1>7
<1>12. \A r \in Res : Live(r) => row'[r] # NoRow \/ r \in gone'  BY <1>2, <1>9
<1>13. \A k \in keys : /\ row'[k[2]] # NoRow \/ k[2] \in gone'
                       /\ k \in dead /\ k[1] # "playbacks" => k[2] \in gone'
  BY <1>2, <1>3, <1>8
<1>14. gone' \subseteq Res /\ gone \subseteq gone'  BY <1>1, <1>2 DEF LibTypeOK
<1>15. Log(keys, dead) /\ UNCHANGED <<floor, epoch, copy>>  BY <1>2
<1>16. keys \in SUBSET (Kinds \X Res)  BY <1>3
<1>17. Respects(keys, dead)
  BY <1>6, <1>10, <1>11, <1>12, <1>13, <1>14, <1>15, <1>16 DEF Respects
<1> QED BY <1>17, Transaction

-----------------------------------------------------------------------------
LEMMA LibInitSound ==
    ASSUME LibInit PROVE LibInv
<1>1. PICK L \in SUBSET Res : \E members \in [Playlists -> SUBSET (Episodes \cap L)] :
         /\ \A e \in Episodes \cap L : PodcastOf[e] \in L
         /\ row = [r \in Res |->
                    IF r \notin L THEN NoRow
                    ELSE [epoch |-> 0, ver |-> 0,
                          refs |-> IF r \in Playlists THEN members[r] ELSE {}]]
  BY DEF LibInit
<1>2. PICK members \in [Playlists -> SUBSET (Episodes \cap L)] :
         row = [r \in Res |->
                    IF r \notin L THEN NoRow
                    ELSE [epoch |-> 0, ver |-> 0,
                          refs |-> IF r \in Playlists THEN members[r] ELSE {}]]
  BY <1>1
<1>3. \A r \in L : [epoch |-> 0, ver |-> 0,
                     refs |-> IF r \in Playlists THEN members[r] ELSE {}] \in Row
  BY DEF Row
<1>4. row \in [Res -> Row \cup {NoRow}]  BY <1>2, <1>3
<1>5. \A r \in Res : row[r] # NoRow <=> r \in L  BY <1>2, <1>3, NoRowAssumption
<1>6. LibTypeOK  BY <1>4 DEF LibInit, LibTypeOK
<1>7. Shape(row, {})
  <2>1. \A e \in Episodes : row[e] # NoRow => row[PodcastOf[e]] # NoRow
    BY <1>1, <1>5, OwnerAssumption DEF Res
  <2>2. ASSUME NEW pl \in Playlists, row[pl] # NoRow, NEW e \in row[pl].refs
        PROVE  row[e] # NoRow
    <3>1. pl \in Res /\ pl \in L  BY <1>5, <2>2 DEF Res
    <3>2. row[pl].refs = members[pl]  BY <1>2, <3>1
    <3>3. e \in Episodes \cap L  BY <2>2, <3>2
    <3> QED BY <1>5, <3>3 DEF Res
  <2> QED BY <2>1, <2>2 DEF Shape
<1> QED BY <1>6, <1>7 DEF LibInit, LibInv

LEMMA StutterStep ==
    ASSUME LibInv, UNCHANGED libVars PROVE LibInv' /\ Moved
<1>1. /\ row' = row /\ gone' = gone /\ feed' = feed /\ head' = head
      /\ floor' = floor /\ epoch' = epoch /\ copy' = copy
  BY DEF libVars
<1>2. LibInv'
  BY <1>1 DEF LibInv, LibTypeOK, Shape, EventSound, Known, Live
<1> QED BY <1>1, <1>2 DEF Moved, LibInv, LibTypeOK

LEMMA ReadStep ==
    ASSUME LibInv, NEW f \in floor..head, ReadChanges(f) PROVE LibInv' /\ Expired
<1>1. floor \in Nat /\ head \in Nat  BY DEF LibInv, LibTypeOK
<1>2. f \in Nat /\ f >= floor /\ f <= head  BY <1>1
<1>3. LibInv'
  BY <1>1, <1>2 DEF LibInv, LibTypeOK, ReadChanges, Shape, EventSound, Known, Live
<1> QED BY <1>2, <1>3 DEF Expired, ReadChanges

LEMMA DeletePodcastStep ==
    ASSUME LibInv, NEW p \in Podcasts, NEW PB, DeletePodcast(p, PB)
    PROVE  LibInv' /\ Moved
<1> DEFINE D == {p} \cup LiveEpisodesOf(p)
<1>1. D \in SUBSET Res /\ PB \in SUBSET (D \cap Episodes) /\ Purge(D, PB)
  BY DEF DeletePodcast, LiveEpisodesOf, EpisodesOf, Res
<1>2. \A e \in Episodes : Live(e) /\ PodcastOf[e] \in D => e \in D
  BY IdAssumption, OwnerAssumption DEF LiveEpisodesOf, EpisodesOf
<1> HIDE DEF D
<1> QED BY <1>1, <1>2, PurgeStep

LEMMA FreshPut ==
    ASSUME LibInv, NEW R \in SUBSET Res, \A r \in R : r \notin gone,
           \A e \in R \cap Episodes : PodcastOf[e] \in R \/ Live(PodcastOf[e]),
           Put(R, RowKeys(R))
    PROVE  LibInv' /\ Moved
<1>1. R \cap gone = {}  OBVIOUS
<1> QED BY <1>1, PutStep

\* Whatever happens to the library, it stays sound and announces what it changes.
LEMMA BackgroundStep ==
    ASSUME LibInv, Background PROVE LibInv' /\ (Moved \/ epoch' = epoch + 1)
<1> USE DEF Res
<1>1. ASSUME NEW p \in Podcasts, NEW E \in SUBSET EpisodesOf(p), Subscribe(p, E)
      PROVE  LibInv' /\ Moved
  <2>1. \A e \in ({p} \cup E) \cap Episodes : PodcastOf[e] \in {p} \cup E
    BY IdAssumption DEF EpisodesOf
  <2>2. \A r \in {p} \cup E : r \notin gone  BY <1>1 DEF Subscribe, Fresh
  <2>3. {p} \cup E \in SUBSET Res  BY DEF EpisodesOf
  <2>4. Put({p} \cup E, RowKeys({p} \cup E))  BY <1>1 DEF Subscribe
  <2> QED BY <2>1, <2>2, <2>3, <2>4, FreshPut
<1>2. ASSUME NEW e \in Episodes, AddEpisode(e)
      PROVE  LibInv' /\ Moved
  <2>1. {e} \in SUBSET Res /\ Put({e}, RowKeys({e}))  BY <1>2 DEF AddEpisode
  <2>2. \A r \in {e} : r \notin gone  BY <1>2 DEF AddEpisode, Fresh
  <2>3. \A x \in {e} \cap Episodes : PodcastOf[x] \in {e} \/ Live(PodcastOf[x])
    BY <1>2 DEF AddEpisode
  <2> QED BY <2>1, <2>2, <2>3, FreshPut
<1>3. ASSUME NEW pl \in Playlists, CreatePlaylist(pl)
      PROVE  LibInv' /\ Moved
  <2>1. {pl} \in SUBSET Res /\ Put({pl}, RowKeys({pl}))  BY <1>3 DEF CreatePlaylist
  <2>2. \A r \in {pl} : r \notin gone  BY <1>3 DEF CreatePlaylist, Fresh
  <2>3. \A x \in {pl} \cap Episodes : PodcastOf[x] \in {pl} \/ Live(PodcastOf[x])
    BY IdAssumption
  <2> QED BY <2>1, <2>2, <2>3, FreshPut
<1>4. ASSUME NEW r \in Res, Touch(r)
      PROVE  LibInv' /\ Moved
  <2>1. {r} \in SUBSET Res /\ Put({r}, RowKeys({r}))  BY <1>4 DEF Touch
  <2>2. \A x \in {r} : x \notin gone  BY <1>4 DEF Touch, Live, LibInv, Shape
  <2>3. \A x \in {r} \cap Episodes : PodcastOf[x] \in {r} \/ Live(PodcastOf[x])
    BY <1>4 DEF Touch, Live, LibInv, Shape
  <2> QED BY <2>1, <2>2, <2>3, FreshPut
<1>5. ASSUME NEW e \in Episodes, NEW PB \in SUBSET {e}, DeleteEpisode(e, PB)
      PROVE  LibInv' /\ Moved
  <2>1. Purge({e}, PB)  BY <1>5 DEF DeleteEpisode
  <2>2. \A x \in Episodes : Live(x) /\ PodcastOf[x] \in {e} => x \in {e}
    BY IdAssumption, OwnerAssumption
  <2>3. {e} \in SUBSET Res /\ PB \in SUBSET ({e} \cap Episodes)  OBVIOUS
  <2> QED BY <2>1, <2>2, <2>3, PurgeStep
<1>6. ASSUME NEW pl \in Playlists, DeletePlaylist(pl)
      PROVE  LibInv' /\ Moved
  <2>1. Purge({pl}, {})  BY <1>6 DEF DeletePlaylist
  <2>2. \A x \in Episodes : Live(x) /\ PodcastOf[x] \in {pl} => x \in {pl}
    BY IdAssumption, OwnerAssumption
  <2>3. {pl} \in SUBSET Res /\ {} \in SUBSET ({pl} \cap Episodes)  OBVIOUS
  <2> QED BY <2>1, <2>2, <2>3, PurgeStep
<1>7. ASSUME ForeignWrite PROVE LibInv' /\ Moved
  BY <1>7 DEF ForeignWrite, LibInv, LibTypeOK, Moved, Shape, EventSound, Known, Live, Event
<1>8. ASSUME Export PROVE LibInv' /\ Moved
  BY <1>8 DEF Export, LibInv, LibTypeOK, Moved, Shape, EventSound, Known, Live
<1>9. ASSUME Replace PROVE LibInv' /\ epoch' = epoch + 1
  <2>1. /\ row' = copy.row /\ gone' = copy.gone /\ feed' = {} /\ copy' = copy
        /\ head' = copy.head /\ floor' = copy.head /\ epoch' = epoch + 1
    BY <1>9 DEF Replace
  <2>2. copy.head \in Nat /\ epoch \in Nat  BY DEF LibInv, LibTypeOK
  <2>3. LibTypeOK' /\ floor' <= head'
    BY <2>1, <2>2 DEF LibInv, LibTypeOK
  <2>4. Shape(copy.row, copy.gone)  BY DEF LibInv
  <2>5. Shape(row', gone')  BY <2>1, <2>4
  <2>6. Shape(copy'.row, copy'.gone)  BY <2>1, <2>4
  <2>7. \A ev \in feed' : EventSound(ev)'  BY <2>1
  <2>8. LibInv'  BY <2>3, <2>5, <2>6, <2>7 DEF LibInv, Shape
  <2> QED BY <2>1, <2>8
<1>11. CASE \E p \in Podcasts : \E PB \in SUBSET EpisodesOf(p) : DeletePodcast(p, PB)
  BY <1>11, DeletePodcastStep
<1>12. CASE \E e \in Episodes : \E PB \in SUBSET {e} : DeleteEpisode(e, PB)
  BY <1>5, <1>12
<1>13. CASE \E e \in Episodes, deleted \in BOOLEAN : SetPlayback(e, deleted)
  BY <1>13, SetPlaybackStep
<1>14. CASE \E pl \in Playlists, E \in SUBSET Episodes : SetMembers(pl, E)
  BY <1>14, SetMembersStep
<1> QED BY <1>1, <1>2, <1>3, <1>4, <1>6, <1>7, <1>8, <1>9, <1>11, <1>12, <1>13, <1>14
       DEF Background
=============================================================================
