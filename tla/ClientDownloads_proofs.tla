------------------------ MODULE ClientDownloads_proofs ------------------------
(***************************************************************************)
(* Audio that the client stores is one whole copy, an undisturbed download *)
(* leaves nothing that would fail the next one, and types.  What makes     *)
(* this inductive is who may count the staged bytes: the record, the       *)
(* holder's count and its writer agree, through removals, unless a writer  *)
(* was opened for bytes that are gone.                                     *)
(***************************************************************************)
EXTENDS ClientDownloads, WellFoundedInduction, TLAPS

-----------------------------------------------------------------------------
(* Types.                                                                  *)

Staging == UNION {[S -> Pieces] : S \in SUBSET Nat}
Writers == [down : Nat, total : Nat, next : Nat]
Errors == {"none", "past", "other", "network", "misserved"}
TaskRecords ==
    [pc : Steps, tab : Tabs \cup {NoTask}, mode : {"chunked", "stream", "retry"}, down : Nat, total : Nat,
     writer : Writers, check : BOOLEAN, asked : Nat, inflight : SUBSET Nat, buffer : Staging,
     error : Errors, from : Nat, after : {"off", "first", "read", "request"}, bag : Seq(Pieces)]

Typed ==
    /\ version \in 0..Len(Sizes) /\ copy \in {0, version}
    /\ audio \in Seq(Pieces) /\ chunks \in Staging
    /\ meta \in [down : Nat, total : Nat, next : Nat, staged : BOOLEAN]
    /\ badge \in [Tabs -> Badges] /\ done \in [Tabs -> Seq({"ok", "err"})]
    /\ task \in [Tasks -> TaskRecords] /\ lock \in Tasks \cup {NoTask}
    /\ acts \in 0..MaxActs /\ trouble \in 0..MaxTrouble
    /\ clean \subseteq Tasks /\ orphaned \in BOOLEAN /\ failed \subseteq {"past"}

-----------------------------------------------------------------------------
(* The device and its tasks.                                               *)

IsSize(n) == \E v \in Versions : Sizes[v] = n

\* Without a record nothing is staged, and the record counts the chunks.
DeviceFits ==
    /\ meta.staged \/ (meta = NoMeta /\ chunks = <<>>)
    /\ meta.next = meta.down /\ meta.down <= meta.total /\ (meta.total = 0 \/ IsSize(meta.total))
    /\ DOMAIN chunks \subseteq 0..(meta.next - 1)

\* Nothing is asked for or at hand.
Blank(w) == w.asked = 0 /\ w.inflight = {} /\ w.buffer = <<>> /\ w.error = "none"

\* What is in flight or at hand lies in the window, and as long as no request has failed it
\* is all of the window.
Windowed(w) ==
    /\ w.inflight \cup DOMAIN w.buffer \subseteq w.down..(w.asked - 1)
    /\ w.inflight \cap DOMAIN w.buffer = {}
    /\ w.asked <= w.down + Window /\ w.asked <= w.total
    /\ w.error = "none" => w.down..(w.asked - 1) \subseteq w.inflight \cup DOMAIN w.buffer

\* The task writes through a writer it has opened.
Opened(w) == w.pc \in {"write", "drain", "stop", "stream", "gather"} \/ (w.pc = "first" /\ w.down > 0)

\* What a task holds by itself.
Fits(w) ==
    /\ w.pc # "off" => w.tab \in Tabs
    /\ w.down <= w.total /\ (w.total = 0 \/ IsSize(w.total))
    /\ w.pc \notin {"fresh", "write", "drain", "stop", "gather", "put", "clear"} => Blank(w)
    /\ w.pc \in {"off", "lock", "poll", "read", "discard"} => w.down = 0 /\ w.total = 0 /\ ~w.check
    /\ w.pc = "discard" <=> w.after # "off"
    /\ w.pc \in {"first", "request"} => (w.check <=> w.down > 0) /\ (w.down = 0 => w.total = 0)
    /\ w.pc = "open" => w.down > 0 /\ w.check
    /\ w.pc \in {"fresh", "write", "drain", "stop", "gather", "put", "clear"} => Windowed(w)
    /\ w.pc \in {"fresh", "write"} => w.down \in DOMAIN w.buffer
    /\ w.pc = "fresh" => w.down = 0
    /\ w.pc \in {"drain", "stop"} => /\ w.down \notin DOMAIN w.buffer
                                     /\ w.error = "none" => w.down < w.asked
    /\ (w.pc = "drain" => w.inflight # {}) /\ (w.pc = "stop" => w.inflight = {})
    /\ w.pc \in {"gather", "put", "clear"} => w.total > 0 /\ w.down = w.total
    /\ w.pc \in {"sopen", "stream"} => w.from \in Versions /\ Sizes[w.from] = w.total
    /\ Opened(w) => w.writer.next = w.writer.down /\ w.writer.down <= w.down /\ w.writer.total = w.total

\* What it holds together with the lock, the record and the server: it is the one who
\* counts what is staged.
Holds(k, w) ==
    /\ w.pc \notin {"off", "lock"} => lock = k
    /\ k \in clean => w.pc \notin {"off", "lock"}
    /\ k \in clean /\ w.pc \in {"fresh", "write", "drain", "stop"}
          => copy # 0 /\ w.total = Sizes[copy] /\ w.error # "other"
    /\ w.pc \in {"open", "request", "sopen"} /\ w.down > 0 /\ meta.staged
          => meta.down = w.down /\ meta.total = w.total
    /\ Opened(w) /\ meta.staged => meta.down = w.writer.down /\ meta.total = w.writer.total
    /\ Opened(w) /\ ~orphaned => w.writer.down = w.down

Linked(k) == Holds(k, task[k])

\* Pieces lie where they belong, all of copies of one size.
Laid(f, total) == \A i \in DOMAIN f : \E v \in Versions : Sizes[v] = total /\ f[i] = <<v, i>>
WholeOf(v) == [i \in 1..Sizes[v] |-> <<v, i - 1>>]
Whole(s) == \E v \in Versions : s = WholeOf(v)
Sound(w) == Laid(w.buffer, w.total) /\ (w.pc = "put" => Whole(w.bag))
Stored == Laid(chunks, meta.total) /\ (audio = <<>> \/ Whole(audio))
InPlace == Stored /\ \A k \in Tasks : Sound(task[k])

ClientInv == /\ DeviceFits /\ \A k \in Tasks : Fits(task[k]) /\ Linked(k)
             /\ orphaned \/ InPlace
Inv == Typed /\ ClientInv


-----------------------------------------------------------------------------
(* Sizes, pieces and maps of pieces.                                       *)

LEMMA LeastOf ==
    ASSUME NEW T, T \subseteq Nat, T # {}
    PROVE  \E x \in T : \A y \in T : x <= y
<1> DEFINE R == OpToRel(<, Nat)
<1>1. \A x, y \in Nat : <<y, x>> \in R <=> y < x
  BY DEF OpToRel
<1>2. IsWellFoundedOn(R, Nat)
  BY NatLessThanWellFounded, Zenon
<1> HIDE DEF R
<1>3. PICK x \in T : \A y \in T : ~(<<y, x>> \in R)
  BY <1>2, WFMin
<1>4. \A y \in T : ~(y < x)
  BY <1>1, <1>3
<1> QED
  BY <1>4

\* The versions have a size that is greatest: no first n can be the least without one.
LEMMA GreatestSize == \E v \in Versions : \A u \in Versions : Sizes[u] <= Sizes[v]
<1>1. Versions = 1..Len(Sizes) /\ Len(Sizes) \in Nat \ {0} /\ \A v \in Versions : Sizes[v] \in Nat
  BY ClientAssumption DEF Versions
<1> DEFINE Greatest(n) == \E v \in 1..n : \A u \in 1..n : Sizes[u] <= Sizes[v]
           T == {n \in 1..Len(Sizes) : ~Greatest(n)}
<1>2. Greatest(1)
  <2>1. 1 \in 1..1 /\ \A u \in 1..1 : u = 1
    OBVIOUS
  <2>2. Sizes[1] \in Nat
    BY <1>1
  <2>3. Sizes[1] <= Sizes[1]
    BY <2>2
  <2> QED
    BY <2>1, <2>3
<1>3. \A n \in 2..Len(Sizes) : Greatest(n - 1) => Greatest(n)
  <2>1. SUFFICES ASSUME NEW n \in 2..Len(Sizes), Greatest(n - 1)
                 PROVE  Greatest(n)
    OBVIOUS
  <2>2. PICK v \in 1..(n - 1) : \A u \in 1..(n - 1) : Sizes[u] <= Sizes[v]
    BY <2>1
  <2>3. /\ n \in 1..n /\ v \in 1..n /\ \A u \in 1..n : u = n \/ u \in 1..(n - 1)
        /\ \A u \in 1..n : u \in 1..Len(Sizes)
    BY <1>1, <2>2
  <2>4. Sizes[n] \in Nat /\ Sizes[v] \in Nat /\ \A u \in 1..n : Sizes[u] \in Nat
    BY <1>1, <2>3
  <2>5. CASE Sizes[n] <= Sizes[v]
    <3>1. \A u \in 1..n : Sizes[u] <= Sizes[v]
      BY <2>2, <2>3, <2>5
    <3> QED
      BY <2>3, <3>1
  <2>6. CASE Sizes[v] <= Sizes[n]
    <3>1. \A u \in 1..n : Sizes[u] <= Sizes[n]
      BY <2>2, <2>3, <2>4, <2>6
    <3> QED
      BY <2>3, <3>1
  <2>7. Sizes[n] <= Sizes[v] \/ Sizes[v] <= Sizes[n]
    BY <2>4
  <2> QED
    BY <2>5, <2>6, <2>7
<1> HIDE DEF Greatest
<1>4. T = {}
  <2>1. SUFFICES ASSUME T # {} PROVE FALSE
    OBVIOUS
  <2>7. T \subseteq Nat
    BY <1>1
  <2>2. PICK n \in T : \A m \in T : n <= m
    <3> HIDE DEF T
    <3> QED
      BY <2>1, <2>7, LeastOf
  <2>3. n \in 2..Len(Sizes) /\ ~Greatest(n)
    BY <1>1, <1>2, <2>2
  <2>4. n - 1 \in 1..Len(Sizes) /\ n - 1 \notin T
    BY <1>1, <2>2, <2>3
  <2>5. Greatest(n - 1)
    BY <2>4
  <2> QED
    BY <1>3, <2>3, <2>5
<1>5. Greatest(Len(Sizes))
  BY <1>1, <1>4
<1> QED
  BY <1>1, <1>5 DEF Greatest

LEMMA SizesFit ==
    /\ 0 \in Offsets /\ Offsets \subseteq Nat
    /\ \A v \in Versions : /\ v \in Nat \ {0} /\ Sizes[v] \in Nat \ {0}
                           /\ \A n \in Nat : n <= Sizes[v] => n \in Offsets
    /\ \A v, u \in Versions : Sizes[v] = Sizes[u] => v = u
<1>1. Versions = 1..Len(Sizes) /\ Len(Sizes) \in Nat \ {0} /\ \A v \in Versions : Sizes[v] \in Nat \ {0}
  BY ClientAssumption DEF Versions
<1> DEFINE S == {Sizes[v] : v \in Versions}
<1>2. \E x \in S : \A y \in S : x >= y
  BY <1>1, GreatestSize
<1>3. Max(S) \in S /\ \A y \in S : Max(S) >= y
  BY <1>2 DEF Max
<1>4. Max(S) \in Nat /\ Offsets = 0..Max(S)
  BY <1>1, <1>3 DEF Offsets
<1>5. \A v \in Versions, n \in Nat : n <= Sizes[v] => n \in Offsets
  <2>1. \A v \in Versions : Sizes[v] \in S
    OBVIOUS
  <2> HIDE DEF S
  <2> QED
    BY <1>1, <1>3, <1>4, <2>1
<1>6. \A v, u \in Versions : Sizes[v] = Sizes[u] => v = u
  BY ClientAssumption DEF Versions
<1> QED
  BY <1>1, <1>4, <1>5, <1>6

LEMMA PieceType ==
    ASSUME NEW v \in Versions, NEW i \in Nat, i <= Sizes[v]
    PROVE  <<v, i>> \in Pieces
BY SizesFit DEF Pieces

LEMMA StagingMeans == \A f \in Staging : /\ f \in [DOMAIN f -> Pieces] /\ DOMAIN f \subseteq Nat
                                         /\ \A i \in DOMAIN f : f[i] \in Pieces
BY DEF Staging

LEMMA NoneStaged == <<>> \in Staging /\ DOMAIN <<>> = {}
<1>1. <<>> \in [{} -> Pieces]
  OBVIOUS
<1> QED
  BY <1>1 DEF Staging

LEMMA WithMeans ==
    ASSUME NEW f \in Staging, NEW x \in Nat, NEW y \in Pieces
    PROVE  /\ With(f, x, y) \in Staging /\ DOMAIN With(f, x, y) = DOMAIN f \cup {x}
           /\ With(f, x, y)[x] = y /\ \A z \in DOMAIN f \ {x} : With(f, x, y)[z] = f[z]
<1>1. With(f, x, y) \in [DOMAIN f \cup {x} -> Pieces]
  BY StagingMeans DEF With
<1>2. DOMAIN f \cup {x} \in SUBSET Nat
  BY StagingMeans
<1> QED
  BY <1>1, <1>2 DEF With, Staging

LEMMA DropMeans ==
    ASSUME NEW f \in Staging, NEW x
    PROVE  /\ Drop(f, x) \in Staging /\ DOMAIN Drop(f, x) = DOMAIN f \ {x}
           /\ \A z \in DOMAIN f \ {x} : Drop(f, x)[z] = f[z]
<1>1. Drop(f, x) \in [DOMAIN f \ {x} -> Pieces]
  BY StagingMeans DEF Drop
<1>2. DOMAIN f \ {x} \in SUBSET Nat
  BY StagingMeans
<1> QED
  BY <1>1, <1>2 DEF Drop, Staging

-----------------------------------------------------------------------------
(* One task moves.                                                         *)

LEMMA OffFits == Off \in TaskRecords /\ Fits(Off) /\ Sound(Off)
<1>1. Off \in TaskRecords
  BY NoneStaged DEF Off, NoWriter, TaskRecords, Writers, Errors, Steps
<1>2. Fits(Off)
  BY DEF Off, Fits, Blank, Opened
<1>3. Sound(Off)
  BY NoneStaged DEF Off, Sound, Laid
<1> QED
  BY <1>1, <1>2, <1>3

\* A task that is off or waits for the lock holds nothing.
LEMMA IdleHolds ==
    ASSUME NEW j \in Tasks, Linked(j), task'[j] = task[j], task[j].pc \in {"off", "lock"},
           j \in clean' => j \in clean
    PROVE  Linked(j)'
BY DEF Linked, Holds, Opened

\* Another one keeps what it holds while the record is kept or goes.
LEMMA StillHolds ==
    ASSUME NEW j \in Tasks, Linked(j), task'[j] = task[j],
           lock = j => lock' = j, j \in clean' => j \in clean /\ copy' = copy,
           meta' = meta \/ ~meta'.staged, orphaned => orphaned'
    PROVE  Linked(j)'
BY DEF Linked, Holds, Opened

LEMMA OthersIdle ==
    ASSUME NEW k \in Tasks, NEW j \in Tasks, j # k, Linked(k), Linked(j),
           task[k].pc \notin {"off", "lock"}
    PROVE  task[j].pc \in {"off", "lock"}
BY DEF Linked, Holds

LEMMA Moves ==
    ASSUME Inv, NEW k \in Tasks, NEW new \in TaskRecords, task' = [task EXCEPT ![k] = new],
           Fits(new), Holds(k, new)', DeviceFits', \A j \in Tasks \ {k} : Linked(j)',
           orphaned => orphaned', orphaned' \/ (Stored' /\ Sound(new))
    PROVE  ClientInv' /\ task' \in [Tasks -> TaskRecords]
<1>1. task \in [Tasks -> TaskRecords]
  BY DEF Inv, Typed
<1>2. task'[k] = new /\ \A j \in Tasks \ {k} : task'[j] = task[j]
  BY <1>1
<1>3. task' \in [Tasks -> TaskRecords]
  BY <1>1
<1>4. \A j \in Tasks : Fits(task'[j])
  <2>1. \A j \in Tasks : Fits(task[j])
    BY DEF Inv, ClientInv
  <2> QED
    BY <1>2, <2>1
<1>5. \A j \in Tasks : Linked(j)'
  <2>1. Linked(k)'
    BY <1>2 DEF Linked
  <2> QED
    BY <2>1
<1>6. orphaned' \/ InPlace'
  <2>1. CASE ~orphaned'
    <3>1. \A j \in Tasks : Sound(task[j])
      BY <2>1 DEF Inv, ClientInv, InPlace
    <3>2. \A j \in Tasks : Sound(task'[j])
      BY <1>2, <2>1, <3>1
    <3>3. (\A j \in Tasks : Sound(task[j]))'
      BY <3>2 DEF Sound, Laid
    <3> QED
      BY <2>1, <3>3 DEF InPlace
  <2> QED
    BY <2>1
<1>7. (\A j \in Tasks : Fits(task[j]))'
  BY <1>4 DEF Fits, Blank, Windowed, Opened, IsSize
<1> QED
  BY <1>3, <1>5, <1>6, <1>7 DEF ClientInv

\* The holder of the lock goes on.
LEMMA GoesOn ==
    ASSUME Inv, NEW k \in Tasks, NEW new \in TaskRecords, task' = [task EXCEPT ![k] = new],
           task[k].pc \notin {"off", "lock"},
           UNCHANGED <<version, copy, badge, done, lock, acts, failed>>, clean' \in {clean, clean \ {k}},
           audio' \in Seq(Pieces), chunks' \in Staging,
           meta' \in [down : Nat, total : Nat, next : Nat, staged : BOOLEAN],
           trouble' \in 0..MaxTrouble, orphaned' \in BOOLEAN, orphaned => orphaned',
           Fits(new), Holds(k, new)', DeviceFits', orphaned' \/ (Stored' /\ Sound(new))
    PROVE  Inv'
<1>1. \A j \in Tasks \ {k} : Linked(j)'
  <2>1. SUFFICES ASSUME NEW j \in Tasks \ {k} PROVE Linked(j)'
    OBVIOUS
  <2>2. Linked(j) /\ Linked(k) /\ task \in [Tasks -> TaskRecords]
    BY DEF Inv, ClientInv, Typed
  <2>3. task[j].pc \in {"off", "lock"}
    BY <2>2, OthersIdle
  <2>4. task'[j] = task[j]
    BY <2>2
  <2> QED
    BY <2>2, <2>3, <2>4, IdleHolds
<1>2. ClientInv' /\ task' \in [Tasks -> TaskRecords]
  BY <1>1, Moves
<1>3. Typed'
  BY <1>2 DEF Inv, Typed
<1> QED
  BY <1>2, <1>3 DEF Inv

LEMMA DeviceKept ==
    ASSUME Inv, UNCHANGED <<deviceVars, orphaned>>
    PROVE  /\ DeviceFits' /\ (orphaned' \/ Stored') /\ audio' \in Seq(Pieces) /\ chunks' \in Staging
           /\ meta' \in [down : Nat, total : Nat, next : Nat, staged : BOOLEAN]
           /\ orphaned' \in BOOLEAN /\ (orphaned => orphaned')
<1>1. DeviceFits'
  BY DEF Inv, ClientInv, DeviceFits, IsSize, deviceVars, NoMeta
<1>2. orphaned' \/ Stored'
  BY DEF Inv, ClientInv, InPlace, Stored, Laid, Whole, WholeOf, deviceVars
<1> QED
  BY <1>1, <1>2 DEF Inv, Typed, deviceVars

\* ... and leaves the device as it is.
LEMMA GoesOnCalmly ==
    ASSUME Inv, NEW k \in Tasks, NEW new \in TaskRecords, task' = [task EXCEPT ![k] = new],
           task[k].pc \notin {"off", "lock"},
           UNCHANGED <<version, copy, badge, done, lock, acts, failed>>, clean' \in {clean, clean \ {k}},
           UNCHANGED <<deviceVars, orphaned>>, trouble' \in 0..MaxTrouble,
           Fits(new), Holds(k, new)', orphaned \/ Sound(new)
    PROVE  Inv'
<1>1. DeviceFits' /\ (orphaned' \/ Stored') /\ audio' \in Seq(Pieces) /\ chunks' \in Staging
      /\ meta' \in [down : Nat, total : Nat, next : Nat, staged : BOOLEAN]
      /\ orphaned' \in BOOLEAN /\ (orphaned => orphaned')
  BY DeviceKept
<1>2. orphaned' \/ (Stored' /\ Sound(new))
  BY <1>1
<1> QED
  BY <1>1, <1>2, GoesOn

LEMMA OffHolds == ASSUME NEW k \in Tasks, k \notin clean' PROVE Holds(k, Off)'
BY DEF Off, Holds, Opened

\* A task ends, with the device as it leaves it.
LEMMA Ends ==
    ASSUME Inv, NEW k \in Tasks, task[k].pc # "off", NEW result \in {"ok", "err"}, NEW cause,
           End(k, result, cause),
           result = "err" /\ k \in clean /\ copy # 0 /\ meta'.staged => cause \in {"past", "network"},
           task[k].pc = "lock" => UNCHANGED meta,
           audio' \in Seq(Pieces), chunks' \in Staging,
           meta' \in [down : Nat, total : Nat, next : Nat, staged : BOOLEAN],
           trouble' \in 0..MaxTrouble, orphaned' \in BOOLEAN, orphaned => orphaned',
           DeviceFits', orphaned' \/ Stored'
    PROVE  Inv'
<1>1. /\ task' = [task EXCEPT ![k] = Off] /\ lock' = (IF lock = k THEN NoTask ELSE lock)
      /\ clean' = clean \ {k} /\ UNCHANGED <<version, copy, badge, acts>>
      /\ done' = [done EXCEPT ![task[k].tab] = Append(@, result)]
  BY DEF End, Become
<1>2. /\ task \in [Tasks -> TaskRecords] /\ lock \in Tasks \cup {NoTask}
      /\ \A j \in Tasks : Linked(j) /\ Fits(task[j])
  BY DEF Inv, Typed, ClientInv
<1>3. \A j \in Tasks \ {k} : Linked(j)'
  <2>1. SUFFICES ASSUME NEW j \in Tasks \ {k} PROVE Linked(j)'
    OBVIOUS
  <2>2. task'[j] = task[j] /\ Linked(j) /\ Linked(k)
    BY <1>1, <1>2
  <2>3. CASE task[j].pc \in {"off", "lock"}
    BY <1>1, <2>2, <2>3, IdleHolds
  <2>4. CASE task[j].pc \notin {"off", "lock"}
    <3>1. task[k].pc = "lock"
      BY <2>2, <2>4, OthersIdle
    <3>2. lock = j => lock' = j
      BY <1>1
    <3>3. j \in clean' => j \in clean /\ copy' = copy
      BY <1>1
    <3> QED
      BY <2>2, <3>1, <3>2, <3>3, StillHolds
  <2> QED
    BY <2>3, <2>4
<1>4. Off \in TaskRecords /\ Fits(Off) /\ Sound(Off)
  BY OffFits
<1>5. Holds(k, Off)'
  BY <1>1, OffHolds
<1>6. ClientInv' /\ task' \in [Tasks -> TaskRecords]
  BY <1>1, <1>3, <1>4, <1>5, Moves
<1>7. done' \in [Tabs -> Seq({"ok", "err"})]
  <2>1. task[k].tab \in Tabs /\ done \in [Tabs -> Seq({"ok", "err"})]
    BY <1>2 DEF Fits, Inv, Typed
  <2>2. Append(done[task[k].tab], result) \in Seq({"ok", "err"})
    BY <2>1
  <2> QED
    BY <1>1, <2>1, <2>2
<1>8. failed' \subseteq {"past"}
  <2>1. failed \subseteq {"past"}
    BY DEF Inv, Typed
  <2>2. CASE result = "err" /\ k \in clean /\ copy # 0 /\ meta'.staged
    <3>1. failed' = failed \cup ({cause} \ {"network"}) /\ cause \in {"past", "network"}
      BY <2>2 DEF End
    <3> QED
      BY <2>1, <3>1
  <2>3. CASE ~(result = "err" /\ k \in clean /\ copy # 0 /\ meta'.staged)
    <3>1. failed' = failed
      BY <2>3 DEF End
    <3> QED
      BY <2>1, <3>1
  <2> QED
    BY <2>2, <2>3
<1>9. lock' \in Tasks \cup {NoTask} /\ clean' \subseteq Tasks
  BY <1>1, <1>2 DEF Inv, Typed
<1>10. Typed'
  BY <1>1, <1>6, <1>7, <1>8, <1>9 DEF Inv, Typed
<1> QED
  BY <1>6, <1>10 DEF Inv

\* ... when it leaves the device alone.
LEMMA EndsCalmly ==
    ASSUME Inv, NEW k \in Tasks, task[k].pc # "off", NEW result \in {"ok", "err"}, NEW cause,
           End(k, result, cause), result = "err" /\ k \in clean /\ copy # 0 => cause \in {"past", "network"},
           UNCHANGED <<deviceVars, orphaned>>, trouble' \in 0..MaxTrouble
    PROVE  Inv'
<1>1. DeviceFits' /\ (orphaned' \/ Stored') /\ audio' \in Seq(Pieces) /\ chunks' \in Staging
      /\ meta' \in [down : Nat, total : Nat, next : Nat, staged : BOOLEAN]
      /\ orphaned' \in BOOLEAN /\ (orphaned => orphaned')
  BY DeviceKept
<1>2. UNCHANGED meta
  BY DEF deviceVars
<1> QED
  BY <1>1, <1>2, Ends

LEMMA TroubleType == Inv /\ (Trouble \/ UNCHANGED trouble) => trouble' \in 0..MaxTrouble
BY ClientAssumption DEF Inv, Typed, Trouble

LEMMA ActType == Inv /\ (Act \/ UNCHANGED acts) => acts' \in 0..MaxActs
BY ClientAssumption DEF Inv, Typed, Act

\* Nothing staged is as good as new.
LEMMA DiscardedFits ==
    ASSUME Discarded
    PROVE  /\ DeviceFits' /\ chunks' \in Staging /\ ~meta'.staged /\ Laid(chunks', meta'.total)
           /\ meta' \in [down : Nat, total : Nat, next : Nat, staged : BOOLEAN]
<1>1. chunks' = <<>> /\ meta' = NoMeta /\ <<>> \in Staging /\ DOMAIN <<>> = {}
  BY NoneStaged DEF Discarded
<1> QED
  BY <1>1 DEF DeviceFits, NoMeta, Laid

LEMMA StoredMeans == Stored <=> Laid(chunks, meta.total) /\ (audio = <<>> \/ Whole(audio))
BY DEF Stored

-----------------------------------------------------------------------------
(* The server and the workers.                                             *)

LEMMA InitHolds == Init => Inv
<1> SUFFICES ASSUME Init PROVE Inv
  OBVIOUS
<1>1. Off \in TaskRecords /\ Fits(Off) /\ Sound(Off) /\ <<>> \in Staging /\ DOMAIN <<>> = {}
  BY OffFits, NoneStaged
<1>2. \A k \in Tasks : task[k] = Off
  BY DEF Init
<1>3. Typed
  <2>1. version \in 0..Len(Sizes) /\ copy \in {0, version} /\ acts \in 0..MaxActs /\ trouble \in 0..MaxTrouble
    BY ClientAssumption DEF Init
  <2>2. task \in [Tasks -> TaskRecords] /\ meta \in [down : Nat, total : Nat, next : Nat, staged : BOOLEAN]
    BY <1>1 DEF Init, NoMeta
  <2>3. badge \in [Tabs -> Badges] /\ done \in [Tabs -> Seq({"ok", "err"})] /\ audio \in Seq(Pieces)
    BY DEF Init, Badges
  <2> QED
    BY <1>1, <2>1, <2>2, <2>3 DEF Init, Typed
<1>4. DeviceFits
  BY <1>1 DEF Init, DeviceFits, NoMeta
<1>5. \A k \in Tasks : Linked(k)
  BY <1>2 DEF Init, Linked, Holds, Off, Opened
<1>6. InPlace
  BY <1>1, <1>2 DEF Init, InPlace, Stored, Laid
<1> QED
  BY <1>1, <1>2, <1>3, <1>4, <1>5, <1>6 DEF Inv, ClientInv

\* No task moves.
LEMMA TasksKept ==
    ASSUME Inv, Typed', UNCHANGED task, DeviceFits', \A j \in Tasks : Linked(j)',
           orphaned => orphaned', orphaned' \/ Stored'
    PROVE  Inv'
<1>1. (\A j \in Tasks : Fits(task[j]))'
  BY DEF Inv, ClientInv, Fits, Blank, Windowed, Opened, IsSize
<1>2. orphaned' \/ InPlace'
  BY DEF Inv, ClientInv, InPlace, Sound, Laid, Whole
<1> QED
  BY <1>1, <1>2 DEF Inv, ClientInv

\* What may go on around the tasks: the server, and removals.
LEMMA Disturbs ==
    ASSUME Inv, Typed', UNCHANGED <<task, lock, orphaned>>, clean' = {}, UNCHANGED deviceVars \/ RemoveAudio
    PROVE  Inv'
<1>1. \A j \in Tasks : Linked(j)'
  <2>1. SUFFICES ASSUME NEW j \in Tasks PROVE Linked(j)'
    OBVIOUS
  <2>2. meta' = meta \/ ~meta'.staged
    BY DEF RemoveAudio, Discarded, NoMeta, deviceVars
  <2>3. Linked(j)
    BY DEF Inv, ClientInv
  <2> QED
    BY <2>2, <2>3, StillHolds
<1>2. DeviceFits' /\ (orphaned' \/ Stored')
  <2>1. CASE UNCHANGED deviceVars
    BY <2>1, DeviceKept
  <2>2. CASE RemoveAudio
    BY <2>2, DiscardedFits DEF RemoveAudio, Stored
  <2> QED
    BY <2>1, <2>2
<1> QED
  BY <1>1, <1>2, TasksKept

LEMMA ServeHolds == Inv /\ (Serve \/ Lose) => Inv'
<1> SUFFICES ASSUME Inv, Serve \/ Lose PROVE Inv'
  OBVIOUS
<1>1. Typed'
  <2>1. CASE Serve
    <3>1. version' \in 0..Len(Sizes) /\ copy' \in {0, version'}
      BY <2>1, ClientAssumption DEF Serve, Inv, Typed
    <3> QED
      BY <2>1, <3>1 DEF Serve, Inv, Typed, Disturbed, deviceVars
  <2>2. CASE Lose
    BY <2>2, TroubleType DEF Lose, Inv, Typed, Disturbed, deviceVars
  <2> QED
    BY <2>1, <2>2
<1>2. UNCHANGED <<task, lock, orphaned>> /\ clean' = {} /\ UNCHANGED deviceVars
  BY DEF Serve, Lose, Disturbed
<1> QED
  BY <1>1, <1>2, Disturbs

LEMMA RemoveHolds == ASSUME Inv, NEW t \in Tabs, Remove(t) PROVE Inv'
<1>1. /\ chunks' \in Staging /\ meta' \in [down : Nat, total : Nat, next : Nat, staged : BOOLEAN]
      /\ audio' \in Seq(Pieces)
  BY DiscardedFits DEF Remove, RemoveAudio
<1>2. badge' \in [Tabs -> Badges] /\ acts' \in 0..MaxActs
  BY ActType DEF Remove, Inv, Typed, Badges
<1>3. Typed'
  BY <1>1, <1>2 DEF Remove, Inv, Typed, Disturbed
<1> QED
  BY <1>3, Disturbs DEF Remove, Disturbed

LEMMA CompleteHolds == ASSUME Inv, NEW t \in Tabs, Complete(t) PROVE Inv'
<1>1. done \in [Tabs -> Seq({"ok", "err"})] /\ done[t] # <<>>
  BY DEF Inv, Typed, Complete
<1>2. Head(done[t]) \in {"ok", "err"} /\ Tail(done[t]) \in Seq({"ok", "err"})
  BY <1>1
<1>3. badge' \in [Tabs -> Badges] /\ done' \in [Tabs -> Seq({"ok", "err"})]
  BY <1>1, <1>2 DEF Complete, Inv, Typed, Outcome, Badges
<1>4. Typed'
  BY <1>3 DEF Complete, Inv, Typed, deviceVars, histVars
<1>5. \A j \in Tasks : Linked(j)'
  BY StillHolds DEF Complete, Inv, ClientInv, deviceVars, histVars
<1>6. DeviceFits' /\ (orphaned' \/ Stored')
  BY DeviceKept DEF Complete, histVars
<1> QED
  BY <1>4, <1>5, <1>6, TasksKept DEF Complete, histVars

\* A new task waits for the lock.
LEMMA Spawns ==
    ASSUME Inv, NEW t \in Tabs, Spawn(t), UNCHANGED <<lock, orphaned, copy>>,
           (UNCHANGED deviceVars /\ clean' = clean) \/ (RemoveAudio /\ clean' = {})
    PROVE  ClientInv' /\ task' \in [Tasks -> TaskRecords]
<1>1. PICK k \in Tasks, mode \in Modes :
        task[k].pc = "off" /\ task' = [task EXCEPT ![k] = [Off EXCEPT !.pc = "lock", !.tab = t, !.mode = mode]]
  BY Zenon DEF Spawn
<1>2. PICK new : new = [Off EXCEPT !.pc = "lock", !.tab = t, !.mode = mode]
  OBVIOUS
<1>3. new \in TaskRecords /\ Fits(new) /\ Sound(new)
  <2>1. Off \in TaskRecords /\ DOMAIN <<>> = {}
    BY OffFits, NoneStaged
  <2>2. new \in TaskRecords
    BY <1>2, <2>1, ClientAssumption DEF TaskRecords, Steps
  <2>3. Fits(new)
    BY <1>2 DEF Off, Fits, Blank, Opened
  <2>4. Sound(new)
    BY <1>2, <2>1 DEF Off, Sound, Laid
  <2> QED
    BY <2>2, <2>3, <2>4
<1>4. \A j \in Tasks : Linked(j) /\ (j \in clean' => j \in clean) /\ (meta' = meta \/ ~meta'.staged)
  BY DEF RemoveAudio, Discarded, NoMeta, deviceVars, Inv, ClientInv
<1>5. Holds(k, new)'
  <2>1. k \notin clean'
    BY <1>1, <1>4 DEF Linked, Holds
  <2>2. new.pc = "lock"
    BY <1>2 DEF Off
  <2> QED
    BY <2>1, <2>2 DEF Holds, Opened
<1>6. \A j \in Tasks \ {k} : Linked(j)'
  <2>1. \A j \in Tasks \ {k} : task'[j] = task[j]
    BY <1>1 DEF Inv, Typed
  <2> QED
    BY <1>4, <2>1, StillHolds
<1>7. DeviceFits' /\ (orphaned' \/ Stored')
  <2>1. CASE UNCHANGED deviceVars
    BY <2>1, DeviceKept
  <2>2. CASE RemoveAudio
    BY <2>2, DiscardedFits DEF RemoveAudio, Stored
  <2> QED
    BY <2>1, <2>2
<1> QED
  <2>1. task' = [task EXCEPT ![k] = new]
    BY <1>1, <1>2
  <2> QED
    BY <1>3, <1>5, <1>6, <1>7, <2>1, Moves

LEMMA StartHolds == ASSUME Inv, NEW t \in Tabs, Start(t) \/ Resume(t) PROVE Inv'
<1>1. UNCHANGED <<version, copy, deviceVars, done, lock, trouble, histVars>> /\ Spawn(t) /\ Act
      /\ badge' = [badge EXCEPT ![t] = "downloading"]
  BY DEF Start, Resume
<1>2. ClientInv' /\ task' \in [Tasks -> TaskRecords]
  BY <1>1, Spawns DEF histVars
<1>3. badge' \in [Tabs -> Badges] /\ acts' \in 0..MaxActs
  BY <1>1, ActType DEF Inv, Typed, Badges
<1>4. Typed'
  BY <1>1, <1>2, <1>3 DEF Inv, Typed, deviceVars, histVars
<1> QED
  BY <1>2, <1>4 DEF Inv

LEMMA RedownloadHolds == ASSUME Inv, NEW t \in Tabs, Redownload(t) PROVE Inv'
<1>1. ClientInv' /\ task' \in [Tasks -> TaskRecords]
  BY Spawns DEF Redownload, Disturbed
<1>2. badge' \in [Tabs -> Badges] /\ acts' \in 0..MaxActs
  BY ActType DEF Redownload, Inv, Typed, Badges
<1>3. /\ chunks' \in Staging /\ meta' \in [down : Nat, total : Nat, next : Nat, staged : BOOLEAN]
      /\ audio' \in Seq(Pieces)
  BY DiscardedFits DEF Redownload, RemoveAudio
<1>4. Typed'
  BY <1>1, <1>2, <1>3 DEF Redownload, Inv, Typed, Disturbed
<1> QED
  BY <1>1, <1>4 DEF Inv

\* The tasks of a tab that goes take what they hold with them.
LEMMA ReloadHolds == ASSUME Inv, NEW t \in Tabs, Reload(t) PROVE Inv'
<1>1. PICK dead : dead = {k \in Tasks : task[k].tab = t}
  OBVIOUS
<1>2. /\ task' = [k \in Tasks |-> IF k \in dead THEN Off ELSE task[k]]
      /\ lock' = (IF lock \in dead THEN NoTask ELSE lock) /\ clean' = clean \ dead
      /\ done' = [done EXCEPT ![t] = <<>>]
      /\ badge' = [badge EXCEPT ![t] = IF audio # <<>> THEN "downloaded" ELSE "none"]
  BY <1>1 DEF Reload
<1>3. Off \in TaskRecords /\ Fits(Off) /\ Sound(Off) /\ task \in [Tasks -> TaskRecords]
  BY OffFits DEF Inv, Typed
<1>4. task' \in [Tasks -> TaskRecords] /\ badge' \in [Tabs -> Badges] /\ done' \in [Tabs -> Seq({"ok", "err"})]
  BY <1>2, <1>3 DEF Inv, Typed, Badges
<1>5. Typed'
  <2>1. trouble' \in 0..MaxTrouble /\ lock' \in Tasks \cup {NoTask} /\ clean' \subseteq Tasks
    BY <1>2, TroubleType DEF Reload, Inv, Typed
  <2> QED
    BY <1>4, <2>1 DEF Reload, Inv, Typed, deviceVars
<1>6. \A j \in Tasks : task'[j] = Off \/ (task'[j] = task[j] /\ j \notin dead)
  BY <1>2
<1>7. \A j \in Tasks : Linked(j)'
  <2>1. SUFFICES ASSUME NEW j \in Tasks PROVE Linked(j)'
    OBVIOUS
  <2>2. CASE j \in dead
    <3>1. j \notin clean' /\ task'[j] = Off
      BY <1>2, <2>2
    <3> QED
      BY <3>1, OffHolds DEF Linked
  <2>3. CASE j \notin dead
    <3>1. task'[j] = task[j] /\ (lock = j => lock' = j) /\ (j \in clean' => j \in clean)
      BY <1>2, <2>3
    <3>2. Linked(j)
      BY DEF Inv, ClientInv
    <3>3. copy' = copy /\ meta' = meta /\ orphaned' = orphaned
      BY DEF Reload, deviceVars
    <3> QED
      BY <3>1, <3>2, <3>3, StillHolds
  <2> QED
    BY <2>2, <2>3
<1>8. DeviceFits' /\ (orphaned' \/ Stored') /\ orphaned' = orphaned
  BY DeviceKept DEF Reload
<1>9. \A j \in Tasks : Fits(task'[j]) /\ (orphaned \/ Sound(task'[j]))
  BY <1>3, <1>6 DEF Inv, ClientInv, InPlace
<1>10. (\A j \in Tasks : Fits(task[j]))'
  BY <1>9 DEF Fits, Blank, Windowed, Opened, IsSize
<1>11. orphaned' \/ InPlace'
  BY <1>8, <1>9 DEF InPlace, Sound, Laid, Whole
<1> QED
  BY <1>5, <1>7, <1>8, <1>10, <1>11 DEF Inv, ClientInv

-----------------------------------------------------------------------------
(* A task takes the lock, waits for the copy, and reads what is staged.    *)

LEMMA TaskType == Inv => \A k \in Tasks :
    task[k] \in TaskRecords /\ Fits(task[k]) /\ Holds(k, task[k]) /\ (orphaned \/ Sound(task[k]))
BY DEF Inv, Typed, ClientInv, Linked, InPlace

LEMMA LockHolds == ASSUME Inv, NEW k \in Tasks, Lock(k) PROVE Inv'
<1>1. task[k] \in TaskRecords /\ Fits(task[k]) /\ Holds(k, task[k]) /\ (orphaned \/ Sound(task[k]))
  BY TaskType
<1>2. task[k].pc = "lock" /\ UNCHANGED <<deviceVars, trouble, orphaned>> /\ trouble' \in 0..MaxTrouble
  BY TroubleType DEF Lock, Calm
<1>3. CASE Free
  <2>1. PICK new : new = [task[k] EXCEPT !.pc = "poll"]
    OBVIOUS
  <2>2. /\ task' = [task EXCEPT ![k] = new] /\ lock = NoTask /\ lock' = k /\ clean' = clean \cup {k}
        /\ UNCHANGED <<version, copy, badge, done, acts, failed>>
    BY <1>3, <2>1 DEF Lock, Free, GoTo, Become
  <2>3. new \in TaskRecords /\ Fits(new) /\ (orphaned \/ Sound(new)) /\ Holds(k, new)'
    <3>1. new \in TaskRecords
      BY <1>1, <2>1 DEF TaskRecords, Steps
    <3>2. Fits(new)
      BY <1>1, <1>2, <2>1 DEF Fits, Blank, Opened, TaskRecords
    <3>3. orphaned \/ Sound(new)
      BY <1>1, <2>1 DEF Sound, Laid, TaskRecords
    <3>4. new.pc = "poll"
      BY <1>1, <2>1 DEF TaskRecords
    <3> QED
      BY <2>2, <3>1, <3>2, <3>3, <3>4 DEF Holds, Opened
  <2>4. \A j \in Tasks \ {k} : Linked(j)'
    <3>1. SUFFICES ASSUME NEW j \in Tasks \ {k} PROVE Linked(j)'
      OBVIOUS
    <3>2. Linked(j) /\ task'[j] = task[j] /\ (j \in clean' => j \in clean)
      BY <2>2 DEF Inv, ClientInv, Typed
    <3>3. task[j].pc \in {"off", "lock"}
      BY <2>2, <3>2, ClientAssumption DEF Linked, Holds
    <3> QED
      BY <3>2, <3>3, IdleHolds
  <2>5. DeviceFits' /\ (orphaned' \/ Stored')
    BY <1>2, DeviceKept
  <2>6. ClientInv' /\ task' \in [Tasks -> TaskRecords]
    BY <1>2, <2>2, <2>3, <2>4, <2>5, Moves
  <2>7. Typed'
    BY <1>2, <2>2, <2>6 DEF Inv, Typed, deviceVars
  <2> QED
    BY <2>6, <2>7 DEF Inv
<1>4. CASE ~Free
  <2>1. End(k, "err", "busy")
    BY <1>4 DEF Lock
  <2>2. k \notin clean
    BY <1>1, <1>2 DEF Holds
  <2> QED
    BY <1>2, <2>1, <2>2, EndsCalmly
<1> QED
  BY <1>3, <1>4

LEMMA PollHolds == ASSUME Inv, NEW k \in Tasks, Poll(k) PROVE Inv'
<1>1. task[k] \in TaskRecords /\ Fits(task[k]) /\ Holds(k, task[k]) /\ (orphaned \/ Sound(task[k]))
  BY TaskType
<1>2. task[k].pc = "poll" /\ UNCHANGED <<deviceVars, orphaned>> /\ trouble' \in 0..MaxTrouble
  BY TroubleType DEF Poll
<1>3. CASE GoTo(k, "read") /\ Quiet
  <2>1. PICK new : new = [task[k] EXCEPT !.pc = "read"]
    OBVIOUS
  <2>2. task' = [task EXCEPT ![k] = new] /\ UNCHANGED <<version, copy, badge, done, lock, acts, clean, failed>>
    BY <1>3, <2>1 DEF GoTo, Become, Quiet
  <2>3. new \in TaskRecords
    BY <1>1, <2>1 DEF TaskRecords, Steps
  <2>4. Fits(new)
    BY <1>1, <1>2, <2>1 DEF Fits, Blank, Opened, TaskRecords
  <2>5. orphaned \/ Sound(new)
    BY <1>1, <2>1 DEF Sound, Laid, TaskRecords
  <2>6. Holds(k, new)'
    <3>1. new.pc = "read"
      BY <1>1, <2>1 DEF TaskRecords
    <3> QED
      BY <1>1, <1>2, <2>2, <3>1 DEF Holds, Opened
  <2> QED
    BY <1>2, <2>2, <2>3, <2>4, <2>5, <2>6, GoesOnCalmly
<1>4. CASE copy = 0 /\ End(k, "err", "other")
  BY <1>2, <1>4, EndsCalmly
<1>5. CASE End(k, "err", "network")
  BY <1>2, <1>5, EndsCalmly
<1> QED
  BY <1>3, <1>4, <1>5 DEF Poll

LEMMA ReadHolds == ASSUME Inv, NEW k \in Tasks, Read(k) PROVE Inv'
<1>1. PICK w : w = task[k]
  OBVIOUS
<1>2. w \in TaskRecords /\ Fits(w) /\ Holds(k, w) /\ (orphaned \/ Sound(w)) /\ w.pc = "read"
  BY <1>1, TaskType DEF Read
<1>3. PICK pc : /\ pc = (IF w.mode = "stream" THEN "request" ELSE IF meta.down > 0 THEN "open" ELSE "first")
                /\ pc \in {"request", "open", "first"} /\ (pc = "open" => meta.down > 0)
                /\ (pc = "first" => ~(meta.down > 0))
  OBVIOUS
<1>13. PICK total : total = (IF meta.down > 0 THEN meta.total ELSE 0)
  OBVIOUS
<1>14. PICK check \in BOOLEAN : check = (meta.down > 0)
  <2>1. (meta.down > 0) \in BOOLEAN
    OBVIOUS
  <2> QED
    BY <2>1
<1>15. PICK new : new = [w EXCEPT !.down = meta.down, !.writer = NoWriter, !.total = total, !.check = check,
                           !.pc = pc]
  OBVIOUS
<1>4. task' = [task EXCEPT ![k] = new] /\ UNCHANGED <<version, copy, badge, done, lock, acts, clean, failed>>
      /\ UNCHANGED <<deviceVars, trouble, orphaned>>
  <2>1. new = [[w EXCEPT !.down = meta.down, !.writer = NoWriter, !.total = total] EXCEPT !.check = check, !.pc = pc]
    BY <1>2, <1>15 DEF TaskRecords
  <2>2. /\ [w EXCEPT !.down = meta.down, !.writer = NoWriter, !.total = total].mode = w.mode
        /\ [w EXCEPT !.down = meta.down, !.writer = NoWriter, !.total = total].down = meta.down
    BY <1>2 DEF TaskRecords
  <2> QED
    BY <1>1, <1>3, <1>13, <1>14, <2>1, <2>2 DEF Read, Become, Compared, Quiet, Calm
<1>5. /\ meta.down \in Nat /\ meta.total \in Nat /\ meta.down <= meta.total
      /\ meta.total = 0 \/ IsSize(meta.total)
  BY DEF Inv, Typed, ClientInv, DeviceFits
<1>16. total \in Nat /\ meta.down <= total /\ (total = 0 \/ IsSize(total)) /\ (meta.down > 0 => total = meta.total)
       /\ (~(meta.down > 0) => total = 0) /\ (check <=> meta.down > 0)
  <2>1. check <=> meta.down > 0
    BY <1>14
  <2> QED
    BY <1>5, <1>13, <2>1
<1>6. /\ new.down = meta.down /\ new.total = total /\ new.pc = pc
      /\ new.writer = NoWriter /\ new.check = check /\ new.tab = w.tab /\ new.after = w.after
      /\ new.asked = w.asked /\ new.inflight = w.inflight /\ new.buffer = w.buffer /\ new.error = w.error
  BY <1>2, <1>15 DEF TaskRecords
<1>7. new \in TaskRecords
  <2>1. NoWriter \in Writers
    BY DEF NoWriter, Writers
  <2>2. pc \in Steps
    BY <1>3 DEF Steps
  <2>3. meta.down \in Nat /\ total \in Nat /\ check \in BOOLEAN /\ w \in TaskRecords
    BY <1>2, <1>5, <1>14, <1>16
  <2> QED
    BY <1>15, <2>1, <2>2, <2>3, ZenonT(30) DEF TaskRecords
<1>8. Fits(new)
  BY <1>2, <1>3, <1>5, <1>6, <1>16 DEF Fits, Blank, Opened
<1>9. Blank(w)
  BY <1>2 DEF Fits
<1>10. Sound(new)
  <2>1. new.buffer = <<>> /\ new.pc # "put"
    BY <1>3, <1>6, <1>9 DEF Blank
  <2> QED
    BY <2>1, NoneStaged DEF Sound, Laid
<1>11. Holds(k, new)'
  BY <1>2, <1>3, <1>4, <1>5, <1>6, <1>16 DEF Holds, Opened, deviceVars
<1>12. trouble' \in 0..MaxTrouble
  BY <1>4, TroubleType
<1> QED
  BY <1>1, <1>2, <1>4, <1>7, <1>8, <1>10, <1>11, <1>12, GoesOnCalmly

\* A writer continues where the record is, and the task has counted the same; or it starts at 0.
LEMMA OpenResumedHolds ==
    ASSUME Inv, NEW k \in Tasks, NEW pc,
           <<task[k].pc, pc>> \in {<<"open", "first">>, <<"sopen", "stream">>}, task[k].down > 0,
           OpenResumed(k, pc), Quiet, UNCHANGED <<trouble, audio>>
    PROVE  Inv'
<1>1. PICK w : w = task[k]
  OBVIOUS
<1>2. w \in TaskRecords /\ Fits(w) /\ Holds(k, w) /\ (orphaned \/ Sound(w)) /\ w.down > 0
      /\ w.pc \in {"open", "sopen"} /\ (w.pc = "open" => pc = "first") /\ (w.pc = "sopen" => pc = "stream")
  BY <1>1, TaskType
<1>3. /\ meta.down \in Nat /\ meta.total \in Nat /\ meta.next \in Nat /\ meta.down <= meta.total
      /\ (meta.total = 0 \/ IsSize(meta.total)) /\ meta.next = meta.down /\ audio' \in Seq(Pieces)
      /\ trouble' \in 0..MaxTrouble
  BY TroubleType DEF Inv, Typed, ClientInv, DeviceFits
<1>4. UNCHANGED <<version, copy, badge, done, lock, acts, clean, failed>>
  BY DEF Quiet
<1>5. Blank(w)
  BY <1>2 DEF Fits
<1>6. CASE meta.staged
  <2>1. PICK wr : wr = [down |-> meta.down, next |-> meta.next,
                        total |-> IF meta.total > 0 THEN meta.total ELSE w.total]
    OBVIOUS
  <2>2. PICK new : new = [w EXCEPT !.pc = pc, !.writer = wr]
    OBVIOUS
  <2>3. task' = [task EXCEPT ![k] = new] /\ UNCHANGED <<deviceVars, orphaned>>
    BY <1>1, <1>6, <2>1, <2>2 DEF OpenResumed, Become, deviceVars
  <2>4. meta.down = w.down /\ meta.total = w.total
    BY <1>2, <1>6 DEF Holds
  <2>5. wr \in Writers /\ wr.down = w.down /\ wr.next = w.down /\ wr.total = w.total
    BY <1>2, <1>3, <2>1, <2>4 DEF Writers, TaskRecords
  <2>6. new \in TaskRecords /\ new.pc = pc /\ new.writer = wr
        /\ new.tab = w.tab /\ new.after = w.after /\ new.down = w.down /\ new.total = w.total
        /\ new.check = w.check /\ new.asked = w.asked /\ new.inflight = w.inflight /\ new.buffer = w.buffer
        /\ new.error = w.error /\ new.from = w.from
    BY <1>2, <2>2, <2>5 DEF TaskRecords, Steps
  <2>7. Fits(new)
    BY <1>2, <2>5, <2>6 DEF Fits, Blank, Opened, TaskRecords
  <2>8. Sound(new)
    BY <1>2, <1>5, <2>6, NoneStaged DEF Sound, Laid, Blank
  <2>9. Holds(k, new)'
    BY <1>2, <1>4, <2>3, <2>4, <2>5, <2>6 DEF Holds, Opened, deviceVars
  <2> QED
    BY <1>1, <1>2, <1>3, <1>4, <2>3, <2>6, <2>7, <2>8, <2>9, GoesOnCalmly
<1>7. CASE ~meta.staged
  <2>1. PICK wr : wr = [NoWriter EXCEPT !.total = w.total]
    OBVIOUS
  <2>2. PICK new : new = [w EXCEPT !.pc = pc, !.writer = wr]
    OBVIOUS
  <2>3. task' = [task EXCEPT ![k] = new] /\ Discarded /\ orphaned' = TRUE
    BY <1>1, <1>7, <2>1, <2>2 DEF OpenResumed, Become
  <2>4. wr \in Writers /\ wr.down = 0 /\ wr.next = 0 /\ wr.total = w.total
    BY <1>2, <2>1 DEF Writers, TaskRecords, NoWriter
  <2>5. new \in TaskRecords /\ new.pc = pc /\ new.writer = wr
        /\ new.tab = w.tab /\ new.after = w.after /\ new.down = w.down /\ new.total = w.total
        /\ new.check = w.check /\ new.asked = w.asked /\ new.inflight = w.inflight /\ new.buffer = w.buffer
        /\ new.error = w.error /\ new.from = w.from
    BY <1>2, <2>2, <2>4 DEF TaskRecords, Steps
  <2>6. Fits(new)
    BY <1>2, <2>4, <2>5 DEF Fits, Blank, Opened, TaskRecords
  <2>7. /\ DeviceFits' /\ chunks' \in Staging /\ ~meta'.staged
        /\ meta' \in [down : Nat, total : Nat, next : Nat, staged : BOOLEAN]
    BY <2>3, DiscardedFits
  <2>8. Holds(k, new)'
    BY <1>2, <1>4, <2>3, <2>5, <2>7 DEF Holds, Opened
  <2> QED
    BY <1>1, <1>2, <1>3, <1>4, <2>3, <2>5, <2>6, <2>7, <2>8, GoesOn
<1> QED
  BY <1>6, <1>7

\* From the start, what was staged goes, and the record counts from 0 with the writer.
LEMMA OpenFreshHolds ==
    ASSUME Inv, NEW k \in Tasks, NEW pc,
           <<task[k].pc, pc>> \in {<<"fresh", "write">>, <<"sopen", "stream">>}, task[k].down = 0,
           OpenFresh(k, pc), Quiet, UNCHANGED <<trouble, audio>>
    PROVE  Inv'
<1>1. PICK w : w = task[k]
  OBVIOUS
<1>2. w \in TaskRecords /\ Fits(w) /\ Holds(k, w) /\ (orphaned \/ Sound(w)) /\ w.down = 0
      /\ w.pc \in {"fresh", "sopen"} /\ (w.pc = "fresh" => pc = "write") /\ (w.pc = "sopen" => pc = "stream")
  BY <1>1, TaskType
<1>3. UNCHANGED <<version, copy, badge, done, lock, acts, clean, failed>> /\ trouble' \in 0..MaxTrouble
  BY TroubleType DEF Quiet
<1>4. PICK wr : wr = [NoWriter EXCEPT !.total = w.total]
  OBVIOUS
<1>5. PICK new : new = [w EXCEPT !.pc = pc, !.writer = wr]
  OBVIOUS
<1>6. task' = [task EXCEPT ![k] = new] /\ chunks' = <<>> /\ orphaned' = orphaned
      /\ meta' = [down |-> 0, total |-> w.total, next |-> 0, staged |-> TRUE]
  BY <1>1, <1>4, <1>5 DEF OpenFresh, Become
<1>7. wr \in Writers /\ wr.down = 0 /\ wr.next = 0 /\ wr.total = w.total
  BY <1>2, <1>4 DEF Writers, TaskRecords, NoWriter
<1>8. new \in TaskRecords /\ new.pc = pc /\ new.writer = wr
      /\ new.tab = w.tab /\ new.after = w.after /\ new.down = w.down /\ new.total = w.total
      /\ new.check = w.check /\ new.asked = w.asked /\ new.inflight = w.inflight /\ new.buffer = w.buffer
      /\ new.error = w.error /\ new.from = w.from
  BY <1>2, <1>5, <1>7, ZenonT(30) DEF TaskRecords, Steps
<1>9. Fits(new)
  BY <1>2, <1>7, <1>8 DEF Fits, Blank, Windowed, Opened, TaskRecords
<1>10. w.total \in Nat /\ (w.total = 0 \/ IsSize(w.total))
  BY <1>2 DEF Fits, TaskRecords
<1>11. chunks' \in Staging /\ DOMAIN chunks' = {}
       /\ meta' \in [down : Nat, total : Nat, next : Nat, staged : BOOLEAN]
  BY <1>6, <1>10, NoneStaged
<1>12. DeviceFits'
  <2>1. IsSize(w.total) => IsSize(meta'.total)
    BY <1>6
  <2>2. (IsSize(meta.total))' <=> IsSize(meta'.total)
    BY DEF IsSize
  <2> QED
    BY <1>6, <1>10, <1>11, <2>1, <2>2 DEF DeviceFits
<1>13. orphaned' \/ (Stored' /\ Sound(new))
  <2>1. Sound(w) => Sound(new)
    BY <1>2, <1>8 DEF Sound
  <2>2. Stored => Stored'
    BY <1>11 DEF Stored, Laid, Whole, WholeOf
  <2> QED
    BY <1>2, <1>6, <2>1, <2>2 DEF Inv, ClientInv, InPlace
<1>14. Holds(k, new)'
  BY <1>2, <1>3, <1>6, <1>7, <1>8 DEF Holds, Opened
<1>15. audio' \in Seq(Pieces) /\ orphaned' \in BOOLEAN
  BY <1>6 DEF Inv, Typed
<1> QED
  BY <1>1, <1>2, <1>3, <1>6, <1>8, <1>9, <1>11, <1>12, <1>13, <1>14, <1>15, GoesOn

LEMMA OpenHolds == ASSUME Inv, NEW k \in Tasks, Open(k) \/ Fresh(k) \/ StreamOpen(k) PROVE Inv'
<1>1. task[k] \in TaskRecords /\ Fits(task[k])
  BY TaskType
<1>2. CASE Open(k)
  <2>1. task[k].down > 0
    BY <1>1, <1>2 DEF Open, Fits
  <2> QED
    BY <1>2, <2>1, OpenResumedHolds DEF Open
<1>3. CASE Fresh(k)
  <2>1. task[k].down = 0
    BY <1>1, <1>3 DEF Fresh, Fits
  <2> QED
    BY <1>3, <2>1, OpenFreshHolds DEF Fresh
<1>4. CASE StreamOpen(k)
  <2>1. task[k].down \in Nat
    BY <1>1 DEF TaskRecords
  <2>2. CASE task[k].down > 0
    BY <1>4, <2>2, OpenResumedHolds DEF StreamOpen
  <2>3. CASE task[k].down = 0
    BY <1>4, <2>3, OpenFreshHolds DEF StreamOpen
  <2> QED
    BY <2>1, <2>2, <2>3
<1> QED
  BY <1>2, <1>3, <1>4

-----------------------------------------------------------------------------
(* A task starts over, is refused, or stops.                               *)

LEMMA GoesToDiscard ==
    ASSUME Inv, NEW k \in Tasks, task[k].pc \notin {"off", "lock"}, NEW new \in TaskRecords,
           task' = [task EXCEPT ![k] = new],
           new.pc = "discard", new.tab \in Tabs, new.after # "off", Blank(new), new.down = 0, new.total = 0,
           ~new.check,
           UNCHANGED <<version, copy, badge, done, lock, acts, failed>>, clean' \in {clean, clean \ {k}},
           UNCHANGED <<deviceVars, orphaned>>, trouble' \in 0..MaxTrouble
    PROVE  Inv'
<1>1. Fits(new)
  BY DEF Fits, Opened
<1>2. Sound(new)
  BY NoneStaged DEF Sound, Laid, Blank
<1>3. Holds(k, new)'
  <2>1. Holds(k, task[k])
    BY TaskType
  <2> QED
    BY <2>1 DEF Holds, Opened
<1> QED
  BY <1>1, <1>2, <1>3, GoesOnCalmly

LEMMA StartsOver ==
    ASSUME Inv, NEW k \in Tasks, NEW pc \in {"first", "request"}, task[k].pc \in {"first", "request"},
           StartOver(k, pc),
           UNCHANGED <<version, copy, badge, done, lock, acts, failed>>, clean' \in {clean, clean \ {k}},
           UNCHANGED <<deviceVars, orphaned>>, trouble' \in 0..MaxTrouble
    PROVE  Inv'
<1>1. task[k] \in TaskRecords /\ Fits(task[k])
  BY TaskType
<1>2. PICK new : new = [task[k] EXCEPT !.pc = "discard", !.after = pc, !.down = 0, !.total = 0, !.check = FALSE,
                 !.writer = NoWriter, !.asked = 0, !.inflight = {}, !.buffer = <<>>, !.error = "none"]
  OBVIOUS
<1>3. task' = [task EXCEPT ![k] = new]
  BY <1>2 DEF StartOver, Become
<1>4. new \in TaskRecords
  BY <1>1, <1>2, NoneStaged, ZenonT(30) DEF TaskRecords, Steps, Writers, NoWriter, Errors
<1>5. /\ new.pc = "discard" /\ new.tab = task[k].tab /\ new.after = pc /\ new.down = 0 /\ new.total = 0
      /\ new.check = FALSE /\ Blank(new)
  BY <1>1, <1>2 DEF TaskRecords, Blank
<1>6. new.tab \in Tabs
  BY <1>1, <1>5 DEF Fits
<1> QED
  BY <1>3, <1>4, <1>5, <1>6, GoesToDiscard

LEMMA RetriesFresh ==
    ASSUME Inv, NEW k \in Tasks, task[k].pc \in {"first", "stop"}, Misserved(k),
           UNCHANGED <<version, copy, badge, done, lock, acts, failed>>, clean' \in {clean, clean \ {k}},
           UNCHANGED <<deviceVars, orphaned>>, trouble' \in 0..MaxTrouble
    PROVE  Inv'
<1>1. task[k] \in TaskRecords /\ Fits(task[k])
  BY TaskType
<1>2. PICK mode \in {"retry", "stream"} : mode = IF task[k].mode = "chunked" THEN "retry" ELSE "stream"
  OBVIOUS
<1>3. PICK new : new = [Off EXCEPT !.pc = "discard", !.tab = task[k].tab, !.mode = mode, !.after = "read"]
  OBVIOUS
<1>4. task' = [task EXCEPT ![k] = new]
  BY <1>2, <1>3 DEF Misserved
<1>5. task[k].tab \in Tabs
  BY <1>1 DEF Fits
<1>6. new \in TaskRecords
  BY <1>3, <1>5, OffFits DEF TaskRecords, Steps
<1>7. /\ new.pc = "discard" /\ new.tab = task[k].tab /\ new.after = "read" /\ new.down = 0 /\ new.total = 0
      /\ new.check = FALSE /\ Blank(new)
  BY <1>3 DEF Off, Blank
<1> QED
  BY <1>4, <1>5, <1>6, <1>7, GoesToDiscard

LEMMA RefusedHolds ==
    ASSUME Inv, NEW k \in Tasks, task[k].pc # "off", NEW off, Refused(k, off),
           UNCHANGED <<deviceVars, orphaned>>
    PROVE  Inv'
<1>1. trouble' \in 0..MaxTrouble
  BY TroubleType DEF Refused
<1>2. CASE copy = 0 /\ End(k, "err", "other")
  BY <1>1, <1>2, EndsCalmly
<1>3. CASE copy # 0 /\ End(k, "err", "past")
  BY <1>1, <1>3, EndsCalmly
<1>4. CASE End(k, "err", "network")
  BY <1>1, <1>4, EndsCalmly
<1> QED
  BY <1>2, <1>3, <1>4 DEF Refused

\* A task that has its window and no error cannot stop short of the next chunk.
LEMMA StopsForAReason ==
    ASSUME NEW w \in TaskRecords, Fits(w), w.pc = "stop"
    PROVE  w.error # "none"
<1>1. SUFFICES ASSUME w.error = "none" PROVE FALSE
  OBVIOUS
<1>2. w.down < w.asked /\ w.down \notin DOMAIN w.buffer /\ w.inflight = {}
      /\ w.down..(w.asked - 1) \subseteq w.inflight \cup DOMAIN w.buffer
  BY <1>1 DEF Fits, Windowed
<1>3. w.down \in w.down..(w.asked - 1)
  BY <1>2 DEF TaskRecords
<1> QED
  BY <1>2, <1>3

LEMMA StopHolds == ASSUME Inv, NEW k \in Tasks, Stop(k) PROVE Inv'
<1>1. task[k] \in TaskRecords /\ Fits(task[k]) /\ Holds(k, task[k]) /\ task[k].pc = "stop"
  BY TaskType DEF Stop
<1>2. UNCHANGED <<deviceVars, orphaned, trouble>> /\ trouble' \in 0..MaxTrouble
  BY TroubleType DEF Stop, Calm
<1>3. CASE Misserved(k) /\ Quiet
  BY <1>1, <1>2, <1>3, RetriesFresh DEF Quiet
<1>4. CASE task[k].error # "misserved" /\ End(k, "err", task[k].error)
  <2>1. task[k].error \in Errors /\ task[k].error # "none"
    BY <1>1, StopsForAReason DEF TaskRecords
  <2>2. k \in clean => task[k].error # "other"
    BY <1>1 DEF Holds
  <2>3. k \in clean => task[k].error \in {"past", "network"}
    BY <1>4, <2>1, <2>2 DEF Errors
  <2> QED
    BY <1>1, <1>2, <1>4, <2>3, EndsCalmly
<1> QED
  BY <1>3, <1>4 DEF Stop

LEMMA DiscardHolds == ASSUME Inv, NEW k \in Tasks, Discard(k) PROVE Inv'
<1>1. PICK w : w = task[k]
  OBVIOUS
<1>2. w \in TaskRecords /\ Fits(w) /\ Holds(k, w) /\ w.pc = "discard"
  BY <1>1, TaskType DEF Discard
<1>3. PICK new : new = [w EXCEPT !.pc = w.after, !.after = "off"]
  OBVIOUS
<1>4. task' = [task EXCEPT ![k] = new] /\ UNCHANGED <<version, copy, badge, done, lock, acts, clean, failed>>
      /\ RemoveAudio /\ UNCHANGED <<trouble, orphaned>>
  BY <1>1, <1>3 DEF Discard, Become, Quiet, Calm
<1>5. w.after \in {"first", "read", "request"} /\ w.down = 0 /\ w.total = 0 /\ ~w.check /\ Blank(w) /\ w.tab \in Tabs
  BY <1>2 DEF Fits, TaskRecords
<1>6. /\ new.pc = w.after /\ new.after = "off" /\ new.tab = w.tab /\ new.down = 0 /\ new.total = 0
      /\ ~new.check /\ Blank(new)
  BY <1>2, <1>3, <1>5 DEF TaskRecords, Blank
<1>7. new \in TaskRecords
  BY <1>2, <1>3, <1>5 DEF TaskRecords, Steps
<1>8. Fits(new)
  BY <1>5, <1>6 DEF Fits, Opened
<1>9. Sound(new)
  BY <1>5, <1>6, NoneStaged DEF Sound, Laid, Blank
<1>10. Holds(k, new)'
  BY <1>2, <1>4, <1>5, <1>6 DEF Holds, Opened
<1>11. /\ DeviceFits' /\ chunks' \in Staging /\ Laid(chunks', meta'.total)
       /\ meta' \in [down : Nat, total : Nat, next : Nat, staged : BOOLEAN]
  BY <1>4, DiscardedFits DEF RemoveAudio
<1>12. Stored' /\ audio' \in Seq(Pieces)
  BY <1>4, <1>11 DEF RemoveAudio, Stored
<1>13. trouble' \in 0..MaxTrouble /\ orphaned' \in BOOLEAN
  BY <1>4, TroubleType DEF Inv, Typed
<1> QED
  BY <1>1, <1>2, <1>4, <1>7, <1>8, <1>9, <1>10, <1>11, <1>12, <1>13, GoesOn

-----------------------------------------------------------------------------
(* The first request, and the streamed one.                                *)

LEMMA CopyType == Inv /\ copy # 0 => copy \in Versions /\ Sizes[copy] \in Nat \ {0} /\ IsSize(Sizes[copy])
<1>1. Versions = 1..Len(Sizes)
  BY ClientAssumption DEF Versions
<1> QED
  BY <1>1, SizesFit DEF Inv, Typed, IsSize

LEMMA FirstPiece ==
    ASSUME NEW x \in Nat, NEW y \in Pieces
    PROVE  With(<<>>, x, y) \in Staging /\ DOMAIN With(<<>>, x, y) = {x} /\ With(<<>>, x, y)[x] = y
<1>1. PICK none \in Staging : none = <<>> /\ DOMAIN none = {}
  BY NoneStaged
<1>2. With(none, x, y) \in Staging /\ DOMAIN With(none, x, y) = DOMAIN none \cup {x} /\ With(none, x, y)[x] = y
  BY WithMeans, SMTT(30)
<1>3. With(<<>>, x, y) = With(none, x, y)
  BY <1>1
<1> QED
  BY <1>1, <1>2, <1>3

LEMMA FirstHolds == ASSUME Inv, NEW k \in Tasks, First(k) PROVE Inv'
<1>1. PICK w : w = task[k]
  OBVIOUS
<1>2. w \in TaskRecords /\ Fits(w) /\ Holds(k, w) /\ (orphaned \/ Sound(w)) /\ w.pc = "first"
  BY <1>1, TaskType DEF First
<1>3. UNCHANGED <<deviceVars, orphaned>> /\ trouble' \in 0..MaxTrouble
  <2>1. Trouble \/ UNCHANGED trouble
    BY DEF First, Refused
  <2> QED
    BY <2>1, TroubleType DEF First
<1>4. Blank(w) /\ w.down \in Nat /\ w.total \in Nat /\ w.down <= w.total /\ (w.check <=> w.down > 0)
      /\ (w.down = 0 => w.total = 0) /\ w.tab \in Tabs /\ w.after = "off" /\ (w.total = 0 \/ IsSize(w.total))
  BY <1>2 DEF Fits, TaskRecords
<1>5. CASE w.total > 0 /\ w.down = w.total /\ GoTo(k, "gather") /\ Quiet
  <2>1. PICK new : new = [w EXCEPT !.pc = "gather"]
    OBVIOUS
  <2>2. task' = [task EXCEPT ![k] = new] /\ UNCHANGED <<version, copy, badge, done, lock, acts, clean, failed>>
    BY <1>1, <1>5, <2>1 DEF GoTo, Become, Quiet
  <2>3. new.pc = "gather" /\ new.writer = w.writer
      /\ new.tab = w.tab /\ new.after = w.after /\ new.down = w.down /\ new.total = w.total
      /\ new.check = w.check /\ new.asked = w.asked /\ new.inflight = w.inflight /\ new.buffer = w.buffer
      /\ new.error = w.error
    BY <1>2, <2>1 DEF TaskRecords
  <2>4. new \in TaskRecords
    BY <1>2, <2>1 DEF TaskRecords, Steps
  <2>5. Windowed(new)
    BY <1>4, <1>5, <2>3, NoneStaged, ClientAssumption DEF Blank, Windowed
  <2>6. Opened(w)
    BY <1>2, <1>5 DEF Opened
  <2>7. Fits(new)
    BY <1>2, <1>4, <1>5, <2>3, <2>5, <2>6 DEF Fits, Opened
  <2>8. Sound(new)
    BY <1>4, <2>3, NoneStaged DEF Sound, Laid, Blank
  <2>9. Holds(k, new)'
    BY <1>2, <1>3, <2>2, <2>3, <2>6 DEF Holds, Opened, deviceVars
  <2> QED
    BY <1>1, <1>2, <1>3, <2>2, <2>4, <2>7, <2>8, <2>9, GoesOnCalmly
<1>6. CASE StartOver(k, "first") /\ Quiet
  BY <1>1, <1>2, <1>3, <1>6, StartsOver DEF Quiet
<1>7. CASE Refused(k, w.down)
  BY <1>1, <1>2, <1>3, <1>7, RefusedHolds
<1>8. CASE Misserved(k) /\ clean' = clean \ {k} /\ UNCHANGED <<version, copy, badge, done, lock, acts, failed>>
  BY <1>1, <1>2, <1>3, <1>8, RetriesFresh
<1>9. ASSUME Answers(w.down), Quiet, ~(w.check /\ w.total \notin {0, Sizes[copy]}),
             Become(k, [w EXCEPT !.check = FALSE, !.buffer = With(<<>>, w.down, <<copy, w.down>>),
                          !.asked = w.down + 1, !.pc = IF w.down = 0 THEN "fresh" ELSE "write",
                          !.total = IF w.check \/ w.down = 0 THEN Sizes[copy] ELSE @])
      PROVE  Inv'
  <2>1. copy # 0 /\ w.down < Sizes[copy] /\ copy \in Versions /\ Sizes[copy] \in Nat \ {0} /\ IsSize(Sizes[copy])
    BY <1>9, CopyType DEF Answers
  <2>2. w.down > 0 => w.total = Sizes[copy]
    BY <1>4, <1>9
  <2>3. PICK got : got = With(<<>>, w.down, <<copy, w.down>>)
    OBVIOUS
  <2>4. got \in Staging /\ DOMAIN got = {w.down} /\ got[w.down] = <<copy, w.down>>
    <3>1. <<copy, w.down>> \in Pieces
      BY <1>4, <2>1, PieceType
    <3> QED
      BY <1>4, <2>3, <3>1, FirstPiece
  <2>5. PICK pc : pc = (IF w.down = 0 THEN "fresh" ELSE "write")
    OBVIOUS
  <2>6. PICK new : new = [w EXCEPT !.check = FALSE, !.buffer = got, !.asked = w.down + 1, !.pc = pc,
                                   !.total = Sizes[copy]]
    OBVIOUS
  <2>7. task' = [task EXCEPT ![k] = new] /\ UNCHANGED <<version, copy, badge, done, lock, acts, clean, failed>>
    <3>1. w.check \/ w.down = 0
      BY <1>4
    <3>2. new = [w EXCEPT !.check = FALSE, !.buffer = got, !.asked = w.down + 1, !.pc = pc,
                          !.total = IF w.check \/ w.down = 0 THEN Sizes[copy] ELSE @]
      BY <2>6, <3>1
    <3> QED
      BY <1>1, <1>9, <2>3, <2>5, <3>2 DEF Become, Quiet
  <2>8. /\ new.pc = pc /\ new.writer = w.writer /\ new.check = FALSE
        /\ new.tab = w.tab /\ new.after = w.after /\ new.down = w.down /\ new.total = Sizes[copy]
        /\ new.asked = w.down + 1 /\ new.inflight = {} /\ new.buffer = got /\ new.error = "none"
    BY <1>2, <1>4, <2>6 DEF TaskRecords, Blank
  <2>9. new \in TaskRecords
    <3>1. w.down + 1 \in Nat /\ Sizes[copy] \in Nat /\ pc \in Steps /\ got \in Staging
      BY <1>4, <2>1, <2>4, <2>5 DEF Steps
    <3> QED
      BY <1>2, <2>6, <3>1 DEF TaskRecords
  <2>10. Windowed(new)
    BY <1>4, <2>1, <2>4, <2>8, ClientAssumption, SMTT(30) DEF Windowed
  <2>11. Fits(new)
    BY <1>2, <1>4, <2>1, <2>2, <2>4, <2>5, <2>8, <2>10 DEF Fits, Opened
  <2>12. Sound(new)
    BY <2>1, <2>4, <2>5, <2>8 DEF Sound, Laid
  <2>13. Holds(k, new)'
    <3>1. pc = "fresh" \/ (pc = "write" /\ Opened(w) /\ w.total = Sizes[copy])
      BY <1>2, <1>4, <2>2, <2>5 DEF Opened
    <3>2. lock' = k /\ (k \in clean' => new.total = Sizes[copy'] /\ copy' # 0 /\ new.error # "other")
      BY <1>2, <2>1, <2>7, <2>8 DEF Holds
    <3> QED
      BY <1>2, <1>3, <2>7, <2>8, <3>1, <3>2 DEF Holds, Opened, deviceVars
  <2> QED
    BY <1>1, <1>2, <1>3, <2>7, <2>9, <2>11, <2>12, <2>13, GoesOnCalmly
<1> QED
  BY <1>1, <1>5, <1>6, <1>7, <1>8, <1>9 DEF First

LEMMA RequestHolds == ASSUME Inv, NEW k \in Tasks, Request(k) PROVE Inv'
<1>1. PICK w : w = task[k]
  OBVIOUS
<1>2. w \in TaskRecords /\ Fits(w) /\ Holds(k, w) /\ w.pc = "request"
  BY <1>1, TaskType DEF Request
<1>3. UNCHANGED <<deviceVars, orphaned>> /\ trouble' \in 0..MaxTrouble
  <2>1. Trouble \/ UNCHANGED trouble
    BY DEF Request, Refused
  <2> QED
    BY <2>1, TroubleType DEF Request
<1>4. Blank(w) /\ w.down \in Nat /\ w.total \in Nat /\ w.down <= w.total /\ (w.check <=> w.down > 0)
      /\ w.tab \in Tabs /\ w.after = "off"
  BY <1>2 DEF Fits, TaskRecords
<1>5. CASE StartOver(k, "request") /\ clean' \in {clean, clean \ {k}}
           /\ UNCHANGED <<version, copy, badge, done, lock, acts, failed>>
  BY <1>1, <1>2, <1>3, <1>5, StartsOver
<1>6. CASE Refused(k, w.down)
  BY <1>1, <1>2, <1>3, <1>6, RefusedHolds
<1>7. ASSUME Answers(w.down), Quiet, ~(w.check /\ w.total \notin {0, Sizes[copy]}),
             Become(k, [w EXCEPT !.pc = "sopen", !.from = copy, !.total = Sizes[copy]])
      PROVE  Inv'
  <2>1. copy # 0 /\ w.down < Sizes[copy] /\ copy \in Versions /\ Sizes[copy] \in Nat \ {0} /\ IsSize(Sizes[copy])
        /\ copy \in Nat
    BY <1>7, CopyType, SizesFit DEF Answers
  <2>2. w.down > 0 => w.total = Sizes[copy]
    BY <1>4, <1>7
  <2>3. PICK new : new = [w EXCEPT !.pc = "sopen", !.from = copy, !.total = Sizes[copy]]
    OBVIOUS
  <2>4. task' = [task EXCEPT ![k] = new] /\ UNCHANGED <<version, copy, badge, done, lock, acts, clean, failed>>
    BY <1>1, <1>7, <2>3 DEF Become, Quiet
  <2>5. /\ new.pc = "sopen" /\ new.check = w.check /\ new.from = copy
        /\ new.tab = w.tab /\ new.after = w.after /\ new.down = w.down /\ new.total = Sizes[copy]
        /\ new.asked = w.asked /\ new.inflight = w.inflight /\ new.buffer = w.buffer /\ new.error = w.error
    BY <1>2, <2>3 DEF TaskRecords
  <2>6. new \in TaskRecords
    BY <1>2, <2>1, <2>3 DEF TaskRecords, Steps
  <2>7. Fits(new)
    BY <1>4, <2>1, <2>5 DEF Fits, Blank, Opened
  <2>8. Sound(new)
    BY <1>4, <2>5, NoneStaged DEF Sound, Laid, Blank
  <2>9. Holds(k, new)'
    BY <1>2, <1>3, <1>4, <2>2, <2>4, <2>5 DEF Holds, Opened, deviceVars
  <2> QED
    BY <1>1, <1>2, <1>3, <2>4, <2>6, <2>7, <2>8, <2>9, GoesOnCalmly
<1> QED
  BY <1>1, <1>5, <1>6, <1>7 DEF Request, Quiet

-----------------------------------------------------------------------------
(* Writing.                                                                *)

\* A piece is staged after those that are, by the one who counts them.
LEMMA Stages ==
    ASSUME Inv, NEW k \in Tasks, NEW w, w = task[k], Opened(w), w.down < w.total,
           NEW piece \in Pieces, orphaned \/ \E v \in Versions : Sizes[v] = w.total /\ piece = <<v, w.down>>,
           Stage(w, piece), UNCHANGED <<audio, orphaned>>
    PROVE  /\ DeviceFits' /\ chunks' \in Staging /\ audio' \in Seq(Pieces) /\ (orphaned' \/ Stored')
           /\ meta' \in [down : Nat, total : Nat, next : Nat, staged : BOOLEAN]
           /\ meta'.down = w.writer.down + 1 /\ meta'.total = w.total /\ orphaned' \in BOOLEAN
<1>1. w \in TaskRecords /\ Fits(w) /\ Holds(k, w)
  BY TaskType
<1>2. /\ w.writer \in Writers /\ w.writer.next = w.writer.down /\ w.writer.total = w.total
      /\ w.writer.down <= w.down /\ w.down \in Nat /\ w.total \in Nat /\ IsSize(w.total)
  <2>1. w.writer \in Writers /\ w.down \in Nat /\ w.total \in Nat
    BY <1>1 DEF TaskRecords
  <2>2. w.total # 0
    BY <2>1
  <2> QED
    BY <1>1, <2>1, <2>2 DEF Fits
<1>3. w.writer.down \in Nat /\ w.writer.next \in Nat /\ w.writer.total \in Nat
  BY <1>2 DEF Writers
<1>4. chunks' = With(chunks, w.writer.down, piece)
      /\ meta' = [down |-> w.writer.down + 1, total |-> w.total, next |-> w.writer.down + 1, staged |-> TRUE]
  BY <1>2 DEF Stage
<1>5. chunks \in Staging
  BY DEF Inv, Typed
<1>6. /\ chunks' \in Staging /\ DOMAIN chunks' = DOMAIN chunks \cup {w.writer.down}
      /\ chunks'[w.writer.down] = piece /\ \A z \in DOMAIN chunks \ {w.writer.down} : chunks'[z] = chunks[z]
  <2>1. PICK n \in Nat : n = w.writer.down
    BY <1>3
  <2>2. /\ With(chunks, n, piece) \in Staging
        /\ DOMAIN With(chunks, n, piece) = DOMAIN chunks \cup {n}
        /\ With(chunks, n, piece)[n] = piece
        /\ \A z \in DOMAIN chunks \ {n} : With(chunks, n, piece)[z] = chunks[z]
    <3> HIDE <2>1
    <3> QED
      BY <1>5, WithMeans
  <2>3. chunks' = With(chunks, n, piece)
    BY <1>4, <2>1
  <2> QED
    BY <2>1, <2>2, <2>3
<1>7. meta' \in [down : Nat, total : Nat, next : Nat, staged : BOOLEAN]
      /\ meta'.down = w.writer.down + 1 /\ meta'.total = w.total /\ meta'.next = w.writer.down + 1 /\ meta'.staged
  BY <1>2, <1>3, <1>4
<1>8. \/ meta.staged /\ meta.down = w.writer.down /\ meta.total = w.total /\ meta.next = meta.down
      \/ DOMAIN chunks = {}
  BY <1>1, <1>2, NoneStaged DEF Holds, Inv, ClientInv, DeviceFits
<1>9. DeviceFits'
  <2>1. DOMAIN chunks \subseteq 0..(w.writer.down - 1)
    BY <1>8 DEF Inv, ClientInv, DeviceFits
  <2>2. DOMAIN chunks' \subseteq 0..(meta'.next - 1)
    BY <1>3, <1>6, <1>7, <2>1
  <2>3. meta'.down <= meta'.total
    BY <1>2, <1>3, <1>7
  <2>4. (IsSize(meta.total))'
    BY <1>2, <1>7 DEF IsSize
  <2> QED
    BY <1>7, <2>2, <2>3, <2>4 DEF DeviceFits
<1>10. ASSUME ~orphaned PROVE Stored'
  <2>1. Laid(chunks, meta.total) /\ (audio = <<>> \/ Whole(audio))
    BY <1>10 DEF Inv, ClientInv, InPlace, Stored
  <2>2. w.writer.down = w.down
    BY <1>1, <1>10 DEF Holds
  <2>3. PICK v \in Versions : Sizes[v] = w.total /\ piece = <<v, w.writer.down>>
    BY <1>10, <2>2
  <2>4. \A i \in DOMAIN chunks' : \E u \in Versions : Sizes[u] = w.total /\ chunks'[i] = <<u, i>>
    <3>1. SUFFICES ASSUME NEW i \in DOMAIN chunks'
                   PROVE  \E u \in Versions : Sizes[u] = w.total /\ chunks'[i] = <<u, i>>
      OBVIOUS
    <3>2. CASE i = w.writer.down
      BY <1>6, <2>3, <3>2
    <3>3. CASE i # w.writer.down
      <4>1. i \in DOMAIN chunks /\ chunks'[i] = chunks[i]
        BY <1>6, <3>3
      <4>2. meta.total = w.total
        BY <1>8, <4>1
      <4>3. \E u \in Versions : Sizes[u] = w.total /\ chunks[i] = <<u, i>>
        BY <2>1, <4>1, <4>2 DEF Laid
      <4> QED
        BY <4>1, <4>3
    <3> QED
      BY <3>2, <3>3
  <2>5. Laid(chunks', meta'.total)
    BY <1>7, <2>4 DEF Laid
  <2> QED
    BY <2>1, <2>5 DEF Stored, Whole, WholeOf
<1>11. orphaned' \/ Stored'
  BY <1>10
<1>12. orphaned' \in BOOLEAN /\ audio' \in Seq(Pieces)
  BY DEF Inv, Typed
<1> QED
  BY <1>6, <1>7, <1>9, <1>11, <1>12

LEMMA WrittenMeans ==
    ASSUME NEW w \in TaskRecords
    PROVE  LET x == Written(w) IN
           /\ x \in TaskRecords /\ x.pc = w.pc /\ x.tab = w.tab /\ x.down = w.down + 1 /\ x.total = w.total
           /\ x.check = w.check /\ x.asked = w.asked /\ x.inflight = w.inflight
           /\ x.buffer = Drop(w.buffer, w.down) /\ x.error = w.error /\ x.from = w.from /\ x.after = w.after
           /\ x.writer.down = w.writer.down + 1 /\ x.writer.next = w.writer.next + 1
           /\ x.writer.total = w.writer.total
<1>10. w.writer \in Writers /\ w.down \in Nat /\ w.buffer \in Staging
       /\ w.writer.down \in Nat /\ w.writer.next \in Nat
  BY DEF TaskRecords, Writers
<1>11. PICK d \in Nat, n \in Nat, down \in Nat :
         d = w.writer.down + 1 /\ n = w.writer.next + 1 /\ down = w.down + 1
  BY <1>10
<1>1. PICK wr : wr = [w.writer EXCEPT !.down = d, !.next = n]
  OBVIOUS
<1>2. PICK left : left = Drop(w.buffer, w.down)
  OBVIOUS
<1>3. PICK x : x = [w EXCEPT !.down = down, !.writer = wr, !.buffer = left]
  OBVIOUS
<1>4. w.writer \in Writers /\ w.down \in Nat /\ w.buffer \in Staging
  BY DEF TaskRecords
<1>5. wr \in Writers /\ wr.down = w.writer.down + 1 /\ wr.next = w.writer.next + 1 /\ wr.total = w.writer.total
  BY <1>1, <1>10, <1>11 DEF Writers
<1>6. left \in Staging
  BY <1>2, <1>4, DropMeans
<1>7. x \in TaskRecords
  BY <1>3, <1>5, <1>6, <1>11 DEF TaskRecords
<1>8. /\ x.pc = w.pc /\ x.tab = w.tab /\ x.down = w.down + 1 /\ x.total = w.total
      /\ x.check = w.check /\ x.asked = w.asked /\ x.inflight = w.inflight
      /\ x.buffer = left /\ x.error = w.error /\ x.from = w.from /\ x.after = w.after /\ x.writer = wr
  BY <1>3, <1>11 DEF TaskRecords
<1>9. x = Written(w)
  BY <1>1, <1>2, <1>3, <1>10, <1>11 DEF Written, TaskRecords, Writers
<1> QED
  BY <1>2, <1>5, <1>7, <1>8, <1>9

LEMMA DropNone == ASSUME NEW x PROVE Drop(<<>>, x) = <<>>
<1>1. DOMAIN <<>> = {} /\ <<>> \in [{} -> Pieces]
  BY NoneStaged
<1>2. Drop(<<>>, x) \in [{} -> Pieces]
  BY <1>1 DEF Drop
<1> QED
  BY <1>1, <1>2

LEMMA StreamHolds == ASSUME Inv, NEW k \in Tasks, Stream(k) PROVE Inv'
<1>1. PICK w : w = task[k]
  OBVIOUS
<1>2. w \in TaskRecords /\ Fits(w) /\ Holds(k, w) /\ w.pc = "stream"
  BY <1>1, TaskType DEF Stream
<1>3. UNCHANGED <<audio, orphaned>> /\ trouble' \in 0..MaxTrouble
  <2>1. Trouble \/ UNCHANGED trouble
    BY DEF Stream
  <2> QED
    BY <2>1, TroubleType DEF Stream
<1>4. Blank(w) /\ w.down \in Nat /\ w.total \in Nat /\ w.tab \in Tabs /\ w.after = "off" /\ Opened(w)
      /\ w.from \in Versions /\ Sizes[w.from] = w.total /\ w.total > 0 /\ IsSize(w.total) /\ w.writer \in Writers
  <2>1. Blank(w) /\ w.down \in Nat /\ w.total \in Nat /\ w.tab \in Tabs /\ w.after = "off" /\ Opened(w)
        /\ w.from \in Versions /\ Sizes[w.from] = w.total /\ w.writer \in Writers
    BY <1>2 DEF Fits, TaskRecords, Opened
  <2>2. w.total \in Nat \ {0}
    BY <2>1, SizesFit
  <2> QED
    BY <2>1, <2>2 DEF IsSize
<1>5. CASE w.down = w.total /\ GoTo(k, "gather") /\ Quiet /\ UNCHANGED <<trouble, chunks, meta>>
  <2>1. PICK new : new = [w EXCEPT !.pc = "gather"]
    OBVIOUS
  <2>2. task' = [task EXCEPT ![k] = new] /\ UNCHANGED <<version, copy, badge, done, lock, acts, clean, failed>>
        /\ UNCHANGED deviceVars
    BY <1>1, <1>3, <1>5, <2>1 DEF GoTo, Become, Quiet, deviceVars
  <2>3. new.pc = "gather" /\ new.writer = w.writer
        /\ new.tab = w.tab /\ new.after = w.after /\ new.down = w.down /\ new.total = w.total
        /\ new.check = w.check /\ new.asked = w.asked /\ new.inflight = w.inflight /\ new.buffer = w.buffer
        /\ new.error = w.error
    BY <1>2, <2>1 DEF TaskRecords
  <2>4. new \in TaskRecords
    BY <1>2, <2>1 DEF TaskRecords, Steps
  <2>5. Windowed(new)
    BY <1>4, <1>5, <2>3, NoneStaged, ClientAssumption DEF Blank, Windowed
  <2>6. Fits(new)
    BY <1>2, <1>4, <1>5, <2>3, <2>5 DEF Fits, Opened
  <2>7. Sound(new)
    BY <1>4, <2>3, NoneStaged DEF Sound, Laid, Blank
  <2>8. Holds(k, new)'
    BY <1>2, <1>3, <1>4, <2>2, <2>3 DEF Holds, Opened, deviceVars
  <2> QED
    BY <1>1, <1>2, <1>3, <2>2, <2>4, <2>6, <2>7, <2>8, GoesOnCalmly
<1>6. CASE w.down < w.total /\ Stage(w, <<w.from, w.down>>) /\ Become(k, Written(w)) /\ Quiet
  <2>1. PICK new : new = Written(w)
    OBVIOUS
  <2>2. task' = [task EXCEPT ![k] = new] /\ UNCHANGED <<version, copy, badge, done, lock, acts, clean, failed>>
    BY <1>6, <2>1 DEF Become, Quiet
  <2>3. /\ new \in TaskRecords /\ new.pc = w.pc /\ new.tab = w.tab /\ new.down = w.down + 1 /\ new.total = w.total
        /\ new.asked = w.asked /\ new.inflight = w.inflight
        /\ new.buffer = Drop(w.buffer, w.down) /\ new.error = w.error /\ new.from = w.from /\ new.after = w.after
        /\ new.writer.down = w.writer.down + 1 /\ new.writer.next = w.writer.next + 1
        /\ new.writer.total = w.writer.total
    BY <1>2, <2>1, WrittenMeans
  <2>4. Blank(new)
    BY <1>4, <2>3, DropNone DEF Blank
  <2>5. w.writer.down \in Nat /\ w.writer.next \in Nat
    BY <1>4 DEF Writers
  <2>6. Fits(new)
    BY <1>2, <1>4, <1>6, <2>3, <2>4, <2>5 DEF Fits, Opened
  <2>7. Sound(new)
    BY <1>2, <2>3, <2>4, NoneStaged DEF Sound, Laid, Blank
  <2>8. <<w.from, w.down>> \in Pieces
    BY <1>4, <1>6, PieceType
  <2>9. /\ DeviceFits' /\ chunks' \in Staging /\ audio' \in Seq(Pieces) /\ (orphaned' \/ Stored')
        /\ meta' \in [down : Nat, total : Nat, next : Nat, staged : BOOLEAN]
        /\ meta'.down = w.writer.down + 1 /\ meta'.total = w.total /\ orphaned' \in BOOLEAN
    BY <1>1, <1>3, <1>4, <1>6, <2>8, Stages
  <2>10. Holds(k, new)'
    <3>1. w.writer.total = w.total
      BY <1>2, <1>4 DEF Fits
    <3> QED
      BY <1>2, <1>3, <1>4, <2>2, <2>3, <2>5, <2>9, <3>1 DEF Holds, Opened
  <2> QED
    BY <1>1, <1>2, <1>3, <2>2, <2>3, <2>6, <2>7, <2>9, <2>10, GoesOn
<1>7. CASE UNCHANGED <<chunks, meta>> /\ End(k, "err", "network")
  BY <1>1, <1>2, <1>3, <1>7, EndsCalmly DEF deviceVars
<1> QED
  BY <1>1, <1>5, <1>6, <1>7 DEF Stream

\* The window is refilled behind the chunk that is written.
LEMMA RefilledMeans ==
    ASSUME NEW w \in TaskRecords, Fits(w), w.pc = "write", NEW rest, rest = Refilled(Written(w))
    PROVE  /\ rest \in TaskRecords /\ rest.pc = w.pc /\ rest.tab = w.tab /\ rest.down = w.down + 1
           /\ rest.total = w.total /\ rest.buffer = Drop(w.buffer, w.down) /\ rest.error = w.error
           /\ rest.after = w.after /\ rest.writer.down = w.writer.down + 1 /\ rest.down <= rest.total
           /\ rest.writer.next = w.writer.next + 1 /\ rest.writer.total = w.writer.total
           /\ Windowed(rest) /\ (rest.error = "none" /\ rest.down < rest.total => rest.down < rest.asked)
<1>1. PICK x : x = Written(w)
  OBVIOUS
<1>2. /\ x \in TaskRecords /\ x.pc = w.pc /\ x.tab = w.tab /\ x.down = w.down + 1 /\ x.total = w.total
      /\ x.asked = w.asked /\ x.inflight = w.inflight
      /\ x.buffer = Drop(w.buffer, w.down) /\ x.error = w.error /\ x.after = w.after
      /\ x.writer.down = w.writer.down + 1 /\ x.writer.next = w.writer.next + 1
      /\ x.writer.total = w.writer.total
  BY <1>1, WrittenMeans
<1>3. w.down \in DOMAIN w.buffer /\ Windowed(w) /\ Window \in Nat \ {0}
  BY ClientAssumption DEF Fits
<1>4. w.down \in Nat /\ w.asked \in Nat /\ w.total \in Nat /\ w.inflight \subseteq Nat /\ w.buffer \in Staging
      /\ DOMAIN w.buffer \subseteq Nat
  BY StagingMeans DEF TaskRecords
<1>5. PICK upto : upto = (IF x.error = "none" THEN Least(x.total, x.down + Window) ELSE x.asked)
  OBVIOUS
<1>6. PICK infl : infl = w.inflight \cup (w.asked..(upto - 1))
  OBVIOUS
<1>7. PICK a \in Nat, d \in Nat, t \in Nat, W \in Nat \ {0} :
        a = w.asked /\ d = w.down /\ t = w.total /\ W = Window
  BY <1>3, <1>4
<1>8. PICK B, I : B = DOMAIN w.buffer /\ I = w.inflight
  OBVIOUS
<1>9. /\ I \cup B \subseteq d..(a - 1) /\ I \cap B = {} /\ a <= d + W /\ a <= t /\ d \in B
      /\ w.error = "none" => d..(a - 1) \subseteq I \cup B
  BY <1>3, <1>7, <1>8 DEF Windowed
<1>10. d < a /\ d + 1 <= t
  BY <1>7, <1>9
<1>11. /\ upto \in Nat /\ a <= upto /\ upto <= d + 1 + W /\ upto <= t
       /\ w.error = "none" /\ d + 1 < t => d + 1 < upto
  <2>1. CASE w.error = "none"
    <3>1. upto = IF t < d + 1 + W THEN t ELSE d + 1 + W
      BY <1>2, <1>5, <1>7, <2>1 DEF Least
    <3> QED
      BY <1>7, <1>9, <1>10, <3>1
  <2>2. CASE w.error # "none"
    <3>1. upto = a
      BY <1>2, <1>5, <1>7, <2>2
    <3> QED
      BY <1>7, <1>9, <1>10, <2>2, <3>1
  <2> QED
    BY <2>1, <2>2
<1>12. infl = I \cup a..(upto - 1) /\ infl \subseteq Nat
  BY <1>4, <1>6, <1>7, <1>8, <1>11
<1>13. rest = [x EXCEPT !.asked = upto, !.inflight = infl]
  BY <1>1, <1>2, <1>5, <1>6 DEF Refilled
<1>14. /\ rest \in TaskRecords /\ rest.pc = x.pc /\ rest.tab = x.tab /\ rest.down = x.down /\ rest.total = x.total
       /\ rest.asked = upto /\ rest.inflight = infl /\ rest.buffer = x.buffer /\ rest.error = x.error
       /\ rest.after = x.after /\ rest.writer = x.writer
  BY <1>2, <1>11, <1>12, <1>13, ZenonT(30) DEF TaskRecords
<1>15. DOMAIN rest.buffer = B \ {d}
  <2>1. PICK b \in Staging : b = w.buffer
    BY <1>4
  <2>2. DOMAIN Drop(b, d) = DOMAIN b \ {d}
    BY DropMeans
  <2> QED
    BY <1>2, <1>7, <1>8, <1>14, <2>1, <2>2
<1>16. /\ infl \cup (B \ {d}) \subseteq (d + 1)..(upto - 1)
       /\ infl \cap (B \ {d}) = {}
  <2>1. \A i \in infl : i \in Nat /\ d + 1 <= i /\ i <= upto - 1 /\ i \notin B
    <3>1. \A i \in I : i \in Nat /\ d <= i /\ i <= a - 1 /\ i # d /\ i \notin B
      BY <1>7, <1>9
    <3>2. \A i \in a..(upto - 1) : i \in Nat /\ d + 1 <= i /\ i <= upto - 1 /\ i \notin B
      BY <1>7, <1>9, <1>10, <1>11
    <3> QED
      BY <1>7, <1>11, <1>12, <3>1, <3>2
  <2>2. \A i \in B \ {d} : i \in Nat /\ d + 1 <= i /\ i <= upto - 1
    BY <1>7, <1>9, <1>11
  <2> QED
    BY <1>7, <1>11, <2>1, <2>2
<1>17. w.error = "none" => (d + 1)..(upto - 1) \subseteq infl \cup (B \ {d})
  <2>1. SUFFICES ASSUME w.error = "none", NEW i \in (d + 1)..(upto - 1)
                 PROVE  i \in infl \cup (B \ {d})
    OBVIOUS
  <2>2. CASE i < a
    <3>1. i \in d..(a - 1) /\ i # d
      BY <1>7, <1>11, <2>1, <2>2
    <3> QED
      BY <1>9, <1>12, <2>1, <3>1
  <2>3. CASE ~(i < a)
    <3>1. i \in a..(upto - 1)
      BY <1>7, <1>11, <2>3
    <3> QED
      BY <1>12, <3>1
  <2> QED
    BY <2>2, <2>3
<1>18. /\ rest.down = d + 1 /\ rest.total = t /\ rest.asked = upto /\ rest.inflight = infl
       /\ rest.error = w.error
  BY <1>2, <1>7, <1>14
<1>19. Windowed(rest)
  BY <1>7, <1>11, <1>15, <1>16, <1>17, <1>18 DEF Windowed
<1> QED
  BY <1>2, <1>7, <1>10, <1>11, <1>14, <1>18, <1>19

LEMMA WriteHolds == ASSUME Inv, NEW k \in Tasks, Write(k) PROVE Inv'
<1>1. PICK w : w = task[k]
  OBVIOUS
<1>2. w \in TaskRecords /\ Fits(w) /\ Holds(k, w) /\ (orphaned \/ Sound(w)) /\ w.pc = "write"
  BY <1>1, TaskType DEF Write
<1>3. PICK rest : rest = Refilled(Written(w))
  OBVIOUS
<1>4. /\ rest \in TaskRecords /\ rest.pc = w.pc /\ rest.tab = w.tab /\ rest.down = w.down + 1
      /\ rest.total = w.total /\ rest.buffer = Drop(w.buffer, w.down) /\ rest.error = w.error
      /\ rest.after = w.after /\ rest.writer.down = w.writer.down + 1 /\ rest.down <= rest.total
      /\ rest.writer.next = w.writer.next + 1 /\ rest.writer.total = w.writer.total
      /\ Windowed(rest) /\ (rest.error = "none" /\ rest.down < rest.total => rest.down < rest.asked)
  BY <1>2, <1>3, RefilledMeans
<1>5. /\ Quiet /\ Stage(w, w.buffer[w.down]) /\ UNCHANGED <<audio, orphaned, trouble>>
      /\ \/ rest.down = rest.total /\ Become(k, [rest EXCEPT !.pc = "gather"])
         \/ /\ rest.down < rest.total
            /\ \/ rest.down \in DOMAIN rest.buffer /\ Become(k, rest)
               \/ /\ rest.down \notin DOMAIN rest.buffer /\ rest.inflight # {}
                  /\ Become(k, [rest EXCEPT !.pc = "drain"])
               \/ /\ rest.down \notin DOMAIN rest.buffer /\ rest.inflight = {}
                  /\ Become(k, [rest EXCEPT !.pc = "stop"])
  BY <1>1, <1>3 DEF Write, Calm
<1>6. PICK pc \in {"write", "gather", "drain", "stop"} :
        /\ Become(k, [rest EXCEPT !.pc = pc])
        /\ IF pc = "gather" THEN rest.down = rest.total ELSE rest.down < rest.total
        /\ (pc = "write" => rest.down \in DOMAIN rest.buffer)
        /\ pc \in {"drain", "stop"} => rest.down \notin DOMAIN rest.buffer
        /\ (pc = "drain" => rest.inflight # {}) /\ (pc = "stop" => rest.inflight = {})
  <2>1. rest.pc = "write"
    BY <1>2, <1>4
  <2>2. rest = [rest EXCEPT !.pc = "write"]
    BY <1>4, <2>1 DEF TaskRecords
  <2>3. CASE rest.down = rest.total /\ Become(k, [rest EXCEPT !.pc = "gather"])
    BY <2>3
  <2>4. CASE rest.down < rest.total /\ rest.down \in DOMAIN rest.buffer /\ Become(k, rest)
    BY <2>2, <2>4
  <2>5. CASE /\ rest.down < rest.total /\ rest.down \notin DOMAIN rest.buffer /\ rest.inflight # {}
             /\ Become(k, [rest EXCEPT !.pc = "drain"])
    BY <2>5
  <2>6. CASE /\ rest.down < rest.total /\ rest.down \notin DOMAIN rest.buffer /\ rest.inflight = {}
             /\ Become(k, [rest EXCEPT !.pc = "stop"])
    BY <2>6
  <2> QED
    BY <1>5, <2>3, <2>4, <2>5, <2>6
<1>7. PICK new : new = [rest EXCEPT !.pc = pc]
  OBVIOUS
<1>8. task' = [task EXCEPT ![k] = new] /\ UNCHANGED <<version, copy, badge, done, lock, acts, clean, failed>>
      /\ trouble' \in 0..MaxTrouble
  BY <1>5, <1>6, <1>7, TroubleType DEF Become, Quiet
<1>9. /\ new \in TaskRecords /\ new.pc = pc /\ new.tab = w.tab /\ new.down = w.down + 1 /\ new.total = w.total
      /\ new.asked = rest.asked /\ new.inflight = rest.inflight /\ new.buffer = rest.buffer
      /\ new.error = w.error /\ new.after = w.after /\ new.writer = rest.writer
  <2>1. pc \in Steps
    BY <1>6 DEF Steps
  <2> QED
    BY <1>4, <1>7, <2>1 DEF TaskRecords
<1>10. /\ w.writer \in Writers /\ w.down \in Nat /\ w.total \in Nat /\ w.writer.down \in Nat /\ w.asked \in Nat
       /\ w.down \in DOMAIN w.buffer /\ w.buffer \in Staging /\ Opened(w) /\ w.down < w.total
       /\ w.writer.next = w.writer.down /\ w.writer.down <= w.down /\ w.writer.total = w.total
       /\ w.tab \in Tabs /\ w.after = "off" /\ (w.total = 0 \/ IsSize(w.total))
  <2>1. /\ w.writer \in Writers /\ w.down \in Nat /\ w.total \in Nat /\ w.asked \in Nat /\ w.buffer \in Staging
    BY <1>2 DEF TaskRecords
  <2>2. /\ w.down \in DOMAIN w.buffer /\ Windowed(w) /\ Opened(w)
        /\ w.tab \in Tabs /\ w.after = "off" /\ (w.total = 0 \/ IsSize(w.total))
    BY <1>2, <2>1 DEF Fits, Opened, TaskRecords
  <2>3. w.writer.next = w.writer.down /\ w.writer.down <= w.down /\ w.writer.total = w.total
    BY <1>2, <2>2 DEF Fits
  <2>4. w.down < w.total
    BY <1>4, <2>1
  <2>5. w.writer.down \in Nat
    BY <2>1 DEF Writers
  <2> QED
    BY <2>1, <2>2, <2>3, <2>4, <2>5
<1>11. Windowed(new)
  BY <1>4, <1>9 DEF Windowed
<1>12. Fits(new)
  BY <1>4, <1>6, <1>9, <1>10, <1>11 DEF Fits, Opened
<1>13. Sound(w) => Sound(new)
  <2>1. SUFFICES ASSUME Sound(w) PROVE Sound(new)
    OBVIOUS
  <2>2. new.buffer = Drop(w.buffer, w.down) /\ new.total = w.total /\ new.pc # "put"
    BY <1>4, <1>6, <1>9
  <2>3. \A i \in DOMAIN new.buffer : i \in DOMAIN w.buffer /\ new.buffer[i] = w.buffer[i]
    <3>1. PICK b \in Staging, d \in Nat : b = w.buffer /\ d = w.down
      BY <1>10
    <3>2. DOMAIN Drop(b, d) = DOMAIN b \ {d} /\ \A z \in DOMAIN b \ {d} : Drop(b, d)[z] = b[z]
      BY DropMeans
    <3> QED
      BY <2>2, <3>1, <3>2
  <2> QED
    BY <2>1, <2>2, <2>3 DEF Sound, Laid
<1>14. PICK piece : piece = w.buffer[w.down]
  OBVIOUS
<1>15. piece \in Pieces /\ (orphaned \/ \E v \in Versions : Sizes[v] = w.total /\ piece = <<v, w.down>>)
  BY <1>2, <1>10, <1>14, StagingMeans DEF Sound, Laid
<1>16. /\ DeviceFits' /\ chunks' \in Staging /\ audio' \in Seq(Pieces) /\ (orphaned' \/ Stored')
       /\ meta' \in [down : Nat, total : Nat, next : Nat, staged : BOOLEAN]
       /\ meta'.down = w.writer.down + 1 /\ meta'.total = w.total /\ orphaned' \in BOOLEAN
  BY <1>1, <1>5, <1>10, <1>14, <1>15, Stages
<1>17. Holds(k, new)'
  BY <1>2, <1>4, <1>5, <1>6, <1>8, <1>9, <1>10, <1>16, SMTT(30) DEF Holds, Opened
<1> QED
  BY <1>1, <1>2, <1>5, <1>8, <1>9, <1>12, <1>13, <1>16, <1>17, GoesOn

\* A response settles; the first error is kept.
LEMMA ArriveHolds == ASSUME Inv, NEW k \in Tasks, NEW off, Arrive(k, off) PROVE Inv'
<1>1. PICK w : w = task[k]
  OBVIOUS
<1>2. w \in TaskRecords /\ Fits(w) /\ Holds(k, w) /\ (orphaned \/ Sound(w)) /\ w.pc = "drain" /\ off \in w.inflight
  BY <1>1, TaskType DEF Arrive
<1>3. PICK u : u = [w EXCEPT !.inflight = @ \ {off}]
  OBVIOUS
<1>4. UNCHANGED <<version, copy, badge, done, lock, acts, failed>> /\ UNCHANGED <<deviceVars, orphaned>>
  BY DEF Arrive
<1>5. /\ w.down \in Nat /\ w.total \in Nat /\ w.asked \in Nat /\ w.buffer \in Staging /\ w.error \in Errors
      /\ w.inflight \subseteq Nat /\ Windowed(w) /\ Opened(w) /\ w.tab \in Tabs /\ w.after = "off"
      /\ w.down \notin DOMAIN w.buffer /\ (w.error = "none" => w.down < w.asked)
      /\ w.down <= w.total /\ (w.total = 0 \/ IsSize(w.total)) /\ w.writer.next = w.writer.down
      /\ w.writer.down <= w.down /\ w.writer.total = w.total
  <2>1. /\ w.down \in Nat /\ w.total \in Nat /\ w.asked \in Nat /\ w.buffer \in Staging /\ w.error \in Errors
        /\ w.inflight \subseteq Nat
    BY <1>2 DEF TaskRecords
  <2>2. Opened(w)
    BY <1>2 DEF Opened
  <2> QED
    BY <1>2, <2>1, <2>2 DEF Fits
<1>6. off \in Nat /\ off \in w.down..(w.asked - 1) /\ off < w.total /\ off \notin DOMAIN w.buffer
  <2>1. off \in Nat /\ off \in w.down..(w.asked - 1) /\ off \notin DOMAIN w.buffer /\ w.asked <= w.total
    BY <1>2, <1>5 DEF Windowed
  <2> QED
    BY <1>5, <2>1
<1>7. u \in TaskRecords /\ u.inflight = w.inflight \ {off} /\ u.buffer = w.buffer /\ u.error = w.error
      /\ u.down = w.down /\ u.total = w.total /\ u.asked = w.asked
      /\ u.tab = w.tab /\ u.after = w.after /\ u.writer = w.writer
  BY <1>2, <1>3 DEF TaskRecords
\* With a buffer or an error settled, the task waits on, writes, or stops.
<1>8. ASSUME NEW x \in TaskRecords, x.inflight = w.inflight \ {off},
             x.down = w.down, x.total = w.total, x.asked = w.asked,
             x.tab = w.tab, x.after = w.after, x.writer = w.writer,
             \/ x.error = w.error /\ DOMAIN x.buffer = DOMAIN w.buffer \cup {off}
             \/ x.error # "none" /\ DOMAIN x.buffer = DOMAIN w.buffer,
             orphaned \/ Laid(x.buffer, x.total),
             k \in clean' => k \in clean /\ x.error # "other", clean' \in {clean, clean \ {k}},
             Become(k, [x EXCEPT !.pc = IF x.down \in DOMAIN x.buffer THEN "write"
                                       ELSE IF x.inflight # {} THEN "drain" ELSE "stop"]),
             trouble' \in 0..MaxTrouble
      PROVE  Inv'
  <2>1. PICK pc \in {"write", "drain", "stop"} :
          /\ pc = (IF x.down \in DOMAIN x.buffer THEN "write"
                    ELSE IF x.inflight # {} THEN "drain" ELSE "stop")
          /\ (pc = "write" => x.down \in DOMAIN x.buffer) /\ (pc # "write" => x.down \notin DOMAIN x.buffer)
          /\ (pc = "drain" => x.inflight # {}) /\ (pc = "stop" => x.inflight = {})
    <3>1. CASE x.down \in DOMAIN x.buffer
      BY <3>1
    <3>2. CASE x.down \notin DOMAIN x.buffer /\ x.inflight # {}
      BY <3>2
    <3>3. CASE x.down \notin DOMAIN x.buffer /\ x.inflight = {}
      BY <3>3
    <3> QED
      BY <3>1, <3>2, <3>3
  <2>2. PICK new : new = [x EXCEPT !.pc = pc]
    OBVIOUS
  <2>3. task' = [task EXCEPT ![k] = new]
    BY <1>8, <2>1, <2>2 DEF Become
  <2>4. /\ new \in TaskRecords /\ new.pc = pc /\ new.tab = w.tab /\ new.down = w.down /\ new.total = w.total
        /\ new.asked = w.asked /\ new.inflight = x.inflight /\ new.buffer = x.buffer
        /\ new.error = x.error /\ new.after = w.after /\ new.writer = w.writer
    <3>1. pc \in Steps
      BY <2>1 DEF Steps
    <3> QED
      BY <1>8, <2>2, <3>1 DEF TaskRecords
  <2>5. Windowed(new)
    <3>1. CASE x.error = w.error /\ DOMAIN x.buffer = DOMAIN w.buffer \cup {off}
      <4>1. x.inflight \cup DOMAIN x.buffer = w.inflight \cup DOMAIN w.buffer
        BY <1>2, <1>8, <3>1
      <4>2. x.inflight \cap DOMAIN x.buffer = {}
        BY <1>5, <1>8, <3>1 DEF Windowed
      <4> QED
        BY <1>5, <2>4, <3>1, <4>1, <4>2 DEF Windowed
    <3>2. CASE x.error # "none" /\ DOMAIN x.buffer = DOMAIN w.buffer
      BY <1>5, <1>8, <2>4, <3>2 DEF Windowed
    <3> QED
      BY <1>8, <3>1, <3>2
  <2>6. Fits(new)
    <3>1. new.error = "none" => new.down < new.asked
      BY <1>5, <1>8, <2>4
    <3> QED
      BY <1>5, <1>8, <2>1, <2>4, <2>5, <3>1 DEF Fits, Opened
  <2>7. orphaned \/ Sound(new)
    BY <1>8, <2>1, <2>4 DEF Sound
  <2>8. Holds(k, new)'
    BY <1>2, <1>4, <1>5, <1>8, <2>1, <2>4 DEF Holds, Opened, deviceVars
  <2> QED
    BY <1>1, <1>2, <1>4, <1>8, <2>3, <2>4, <2>6, <2>7, <2>8, GoesOnCalmly
<1>9. trouble' \in 0..MaxTrouble
  <2>1. Trouble \/ UNCHANGED trouble
    BY DEF Arrive
  <2> QED
    BY <2>1, TroubleType
<1>10. ASSUME Answers(off), UNCHANGED clean, SameCopy(u), NEW x, x = [u EXCEPT !.buffer = With(@, off, <<copy, off>>)],
              Become(k, [x EXCEPT !.pc = IF x.down \in DOMAIN x.buffer THEN "write"
                                       ELSE IF x.inflight # {} THEN "drain" ELSE "stop"])
       PROVE  Inv'
  <2>1. copy # 0 /\ copy \in Versions /\ Sizes[copy] = w.total
    BY <1>7, <1>10, CopyType DEF Answers, SameCopy
  <2>2. PICK b \in Staging : b = w.buffer
    BY <1>5
  <2>3. PICK got : got = With(b, off, <<copy, off>>)
    OBVIOUS
  <2>4. <<copy, off>> \in Pieces
    BY <1>5, <1>6, <2>1, PieceType
  <2>5. got \in Staging /\ DOMAIN got = DOMAIN b \cup {off} /\ got[off] = <<copy, off>>
        /\ \A z \in DOMAIN b \ {off} : got[z] = b[z]
    <3>1. PICK y \in Pieces, o \in Nat : y = <<copy, off>> /\ o = off
      BY <1>6, <2>4
    <3>2. With(b, o, y) \in Staging /\ DOMAIN With(b, o, y) = DOMAIN b \cup {o} /\ With(b, o, y)[o] = y
          /\ \A z \in DOMAIN b \ {o} : With(b, o, y)[z] = b[z]
      BY WithMeans
    <3> QED
      BY <2>3, <3>1, <3>2
  <2>6. x = [u EXCEPT !.buffer = got]
    BY <1>7, <1>10, <2>2, <2>3 DEF TaskRecords
  <2>7. /\ x \in TaskRecords /\ x.inflight = w.inflight \ {off} /\ x.buffer = got /\ x.error = w.error
        /\ x.down = w.down /\ x.total = w.total /\ x.asked = w.asked
        /\ x.tab = w.tab /\ x.after = w.after /\ x.writer = w.writer
    BY <1>7, <2>5, <2>6 DEF TaskRecords
  <2>8. orphaned \/ Laid(x.buffer, x.total)
    <3>1. SUFFICES ASSUME Laid(b, w.total) PROVE Laid(got, w.total)
      BY <1>2, <2>2, <2>7 DEF Sound
    <3> QED
      BY <2>1, <2>5, <3>1 DEF Laid
  <2>9. k \in clean' => k \in clean /\ x.error # "other"
    BY <1>2, <1>10, <2>7 DEF Holds
  <2>10. x.error = w.error /\ DOMAIN x.buffer = DOMAIN w.buffer \cup {off}
    BY <2>2, <2>5, <2>7
  <2>11. clean' \in {clean, clean \ {k}}
    BY <1>10
  <2> QED
    BY <1>8, <1>9, <1>10, <2>7, <2>8, <2>9, <2>10, <2>11
<1>11. ASSUME NEW error \in Errors \ {"none"}, clean' \in {clean, clean \ {k}}, k \in clean' => error # "other",
              NEW x, x = [u EXCEPT !.error = IF @ = "none" THEN error ELSE @],
              Become(k, [x EXCEPT !.pc = IF x.down \in DOMAIN x.buffer THEN "write"
                                       ELSE IF x.inflight # {} THEN "drain" ELSE "stop"])
       PROVE  Inv'
  <2>1. PICK kept \in Errors \ {"none"} : kept = (IF w.error = "none" THEN error ELSE w.error)
    BY <1>5, <1>11
  <2>2. x = [u EXCEPT !.error = kept]
    BY <1>7, <1>11, <2>1 DEF TaskRecords
  <2>3. /\ x \in TaskRecords /\ x.inflight = w.inflight \ {off} /\ x.buffer = w.buffer /\ x.error = kept
        /\ x.down = w.down /\ x.total = w.total /\ x.asked = w.asked
        /\ x.tab = w.tab /\ x.after = w.after /\ x.writer = w.writer
    BY <1>7, <2>1, <2>2 DEF TaskRecords
  <2>4. k \in clean' => k \in clean /\ x.error # "other"
    BY <1>2, <1>11, <2>1, <2>3 DEF Holds
  <2>5. orphaned \/ Laid(x.buffer, x.total)
    BY <1>2, <2>3 DEF Sound
  <2>6. x.error # "none" /\ DOMAIN x.buffer = DOMAIN w.buffer
    BY <2>1, <2>3
  <2> QED
    BY <1>8, <1>9, <1>11, <2>3, <2>4, <2>5, <2>6
<1>12. CASE Answers(off) /\ UNCHANGED clean /\ SameCopy(u)
            /\ \E x : /\ x = [u EXCEPT !.buffer = With(@, off, <<copy, off>>)]
                      /\ Become(k, [x EXCEPT !.pc = IF x.down \in DOMAIN x.buffer THEN "write"
                                       ELSE IF x.inflight # {} THEN "drain" ELSE "stop"])
  BY <1>10, <1>12
<1>13. CASE \E error \in {"past", "other", "network", "misserved"} : \E x :
              /\ x = [u EXCEPT !.error = IF @ = "none" THEN error ELSE @]
              /\ Become(k, [x EXCEPT !.pc = IF x.down \in DOMAIN x.buffer THEN "write"
                                       ELSE IF x.inflight # {} THEN "drain" ELSE "stop"])
              /\ \/ error = "other" /\ UNCHANGED clean /\ (copy = 0 \/ ~SameCopy(u))
                 \/ error \in {"past", "network"} /\ UNCHANGED clean
                 \/ error = "misserved" /\ clean' = clean \ {k}
  <2>0. PICK error \in {"past", "other", "network", "misserved"} : \E x :
              /\ x = [u EXCEPT !.error = IF @ = "none" THEN error ELSE @]
              /\ Become(k, [x EXCEPT !.pc = IF x.down \in DOMAIN x.buffer THEN "write"
                                       ELSE IF x.inflight # {} THEN "drain" ELSE "stop"])
              /\ \/ error = "other" /\ UNCHANGED clean /\ (copy = 0 \/ ~SameCopy(u))
                 \/ error \in {"past", "network"} /\ UNCHANGED clean
                 \/ error = "misserved" /\ clean' = clean \ {k}
    BY <1>13
  <2>1. PICK x :
              /\ x = [u EXCEPT !.error = IF @ = "none" THEN error ELSE @]
              /\ Become(k, [x EXCEPT !.pc = IF x.down \in DOMAIN x.buffer THEN "write"
                                       ELSE IF x.inflight # {} THEN "drain" ELSE "stop"])
              /\ \/ error = "other" /\ UNCHANGED clean /\ (copy = 0 \/ ~SameCopy(u))
                 \/ error \in {"past", "network"} /\ UNCHANGED clean
                 \/ error = "misserved" /\ clean' = clean \ {k}
    BY <2>0
  <2>2. error \in Errors \ {"none"} /\ clean' \in {clean, clean \ {k}}
    BY <2>1 DEF Errors
  <2>3. k \in clean' => error # "other"
    <3>1. k \in clean => copy # 0 /\ u.total = Sizes[copy]
      BY <1>2, <1>7 DEF Holds
    <3> QED
      BY <2>1, <3>1 DEF SameCopy
  <2> QED
    BY <1>11, <2>1, <2>2, <2>3
<1> DEFINE Settle(x) ==
             Become(k, [x EXCEPT !.pc = IF x.down \in DOMAIN x.buffer THEN "write"
                                       ELSE IF x.inflight # {} THEN "drain" ELSE "stop"])
           Fail(error) == Settle([u EXCEPT !.error = IF @ = "none" THEN error ELSE @])
<1>14. \/ Answers(off) /\ UNCHANGED clean /\ SameCopy(u) /\ Settle([u EXCEPT !.buffer = With(@, off, <<copy, off>>)])
       \/ UNCHANGED clean /\ ~SameCopy(u) /\ Fail("other")
       \/ UNCHANGED clean /\ Fail("past")
       \/ UNCHANGED clean /\ copy = 0 /\ Fail("other")
       \/ UNCHANGED clean /\ Fail("network")
       \/ clean' = clean \ {k} /\ Fail("misserved")
  BY <1>1, <1>3 DEF Arrive
<1>15. CASE Answers(off) /\ UNCHANGED clean /\ SameCopy(u)
            /\ Settle([u EXCEPT !.buffer = With(@, off, <<copy, off>>)])
  BY <1>12, <1>15
<1>16. CASE \E error \in {"past", "other", "network", "misserved"} :
              /\ Fail(error)
              /\ \/ error = "other" /\ UNCHANGED clean /\ (copy = 0 \/ ~SameCopy(u))
                 \/ error \in {"past", "network"} /\ UNCHANGED clean
                 \/ error = "misserved" /\ clean' = clean \ {k}
  BY <1>13, <1>16
<1> QED
  <2> HIDE DEF Fail, Settle
  <2> QED
    BY <1>14, <1>15, <1>16

-----------------------------------------------------------------------------
(* The audio is stored.                                                    *)

\* All chunks of a download that counted them all are one copy.
LEMMA GatheredWhole ==
    ASSUME Inv, ~orphaned, NEW k \in Tasks, task[k].pc = "gather", NoneMissing(task[k])
    PROVE  /\ task[k].writer.next = task[k].total /\ IsSize(task[k].total)
           /\ \E v \in Versions : /\ Sizes[v] = task[k].total
                                  /\ \A i \in 0..(task[k].total - 1) : chunks[i] = <<v, i>>
<1>1. PICK w : w = task[k]
  OBVIOUS
<1>2. w \in TaskRecords /\ Fits(w) /\ Holds(k, w) /\ w.pc = "gather"
  BY <1>1, TaskType
<1>3. w.total \in Nat /\ w.total > 0 /\ w.down = w.total /\ w.writer.next = w.writer.down /\ IsSize(w.total)
      /\ w.writer.total = w.total /\ w.writer.down = w.down /\ Opened(w)
  BY <1>2 DEF Fits, Holds, Opened, TaskRecords
<1>4. \A i \in 0..(w.total - 1) : i \in DOMAIN chunks
  BY <1>1, <1>3 DEF NoneMissing
<1>5. meta.staged
  <2>1. 0 \in DOMAIN chunks
    BY <1>3, <1>4
  <2> QED
    BY <2>1, NoneStaged DEF Inv, ClientInv, DeviceFits
<1>6. meta.total = w.total
  BY <1>2, <1>3, <1>5 DEF Holds
<1>7. \A i \in 0..(w.total - 1) : \E v \in Versions : Sizes[v] = w.total /\ chunks[i] = <<v, i>>
  BY <1>4, <1>6 DEF Inv, ClientInv, InPlace, Stored, Laid
<1>8. PICK v \in Versions : Sizes[v] = w.total
  BY <1>3 DEF IsSize
<1>9. \A i \in 0..(w.total - 1) : chunks[i] = <<v, i>>
  BY <1>7, <1>8, SizesFit
<1> QED
  BY <1>1, <1>3, <1>8, <1>9

LEMMA GatherHolds == ASSUME Inv, NEW k \in Tasks, Gather(k) PROVE Inv'
<1>1. PICK w : w = task[k]
  OBVIOUS
<1>2. w \in TaskRecords /\ Fits(w) /\ Holds(k, w) /\ w.pc = "gather"
  BY <1>1, TaskType DEF Gather
<1>3. UNCHANGED <<trouble, orphaned>> /\ trouble' \in 0..MaxTrouble
  BY TroubleType DEF Gather, Calm
<1>4. CASE NoneMissing(w)
  <2>1. PICK bag : bag = [i \in 1..w.writer.next |->
                            IF i - 1 \in {seq \in 0..(w.writer.next - 1) : seq \in DOMAIN chunks}
                            THEN chunks[i - 1] ELSE <<0, 0>>]
    OBVIOUS
  <2>2. PICK new : new = [w EXCEPT !.pc = "put", !.buffer = <<>>, !.bag = bag]
    OBVIOUS
  <2>3. task' = [task EXCEPT ![k] = new] /\ UNCHANGED <<version, copy, badge, done, lock, acts, clean, failed>>
        /\ UNCHANGED deviceVars
    BY <1>1, <1>4, <2>1, <2>2 DEF Gather, Become, Quiet
  <2>4. w.writer.next \in Nat
    BY <1>2 DEF TaskRecords, Writers
  <2>5. \A i \in 1..w.writer.next : i - 1 \in 0..(w.writer.next - 1) /\ i - 1 \in DOMAIN chunks
    BY <1>1, <1>4, <2>4 DEF NoneMissing
  <2>6. bag = [i \in 1..w.writer.next |-> chunks[i - 1]]
    BY <2>1, <2>5
  <2>7. bag \in Seq(Pieces)
    <3>1. chunks \in Staging
      BY DEF Inv, Typed
    <3>2. \A i \in 1..w.writer.next : chunks[i - 1] \in Pieces
      BY <2>5, <3>1, StagingMeans
    <3> QED
      BY <2>4, <2>6, <3>2
  <2>8. /\ new.pc = "put" /\ new.buffer = <<>> /\ new.bag = bag /\ new.tab = w.tab /\ new.after = w.after
        /\ new.down = w.down /\ new.total = w.total /\ new.asked = w.asked /\ new.inflight = w.inflight
        /\ new.error = w.error
    BY <1>2, <2>2 DEF TaskRecords
  <2>9. new \in TaskRecords
    BY <1>2, <2>2, <2>7, NoneStaged DEF TaskRecords, Steps
  <2>10. w.down \in Nat /\ w.asked \in Nat /\ w.asked <= w.total /\ w.total > 0 /\ w.down = w.total
         /\ Windowed(w) /\ w.tab \in Tabs /\ w.after = "off" /\ IsSize(w.total)
    BY <1>2 DEF Fits, Windowed, TaskRecords
  <2>11. Windowed(new)
    <3>1. w.down..(w.asked - 1) = {}
      BY <2>10
    <3> QED
      BY <2>8, <2>10, <3>1, NoneStaged DEF Windowed
  <2>12. Fits(new)
    BY <2>8, <2>10, <2>11 DEF Fits, Opened
  <2>13. ASSUME ~orphaned PROVE Sound(new)
    <3>1. /\ w.writer.next = w.total
          /\ \E v \in Versions : Sizes[v] = w.total /\ \A i \in 0..(w.total - 1) : chunks[i] = <<v, i>>
      BY <1>1, <1>2, <1>4, <2>13, GatheredWhole
    <3>2. PICK v \in Versions : Sizes[v] = w.total /\ \A i \in 0..(w.total - 1) : chunks[i] = <<v, i>>
      BY <3>1
    <3>3. \A i \in 1..w.total : i - 1 \in 0..(w.total - 1)
      BY <2>4, <3>1
    <3>4. bag = [i \in 1..w.total |-> <<v, i - 1>>]
      BY <2>6, <3>1, <3>2, <3>3
    <3>5. bag = WholeOf(v)
      BY <3>2, <3>4 DEF WholeOf
    <3> QED
      BY <2>8, <3>5, NoneStaged DEF Sound, Laid, Whole
  <2>14. Holds(k, new)'
    BY <1>2, <2>3, <2>8 DEF Holds, Opened
  <2> QED
    BY <1>1, <1>2, <1>3, <2>3, <2>9, <2>12, <2>13, <2>14, GoesOnCalmly
<1>5. CASE ~NoneMissing(w)
  <2>1. Discarded /\ UNCHANGED audio /\ End(k, "err", "other")
    BY <1>1, <1>5 DEF Gather, Reset
  <2>2. /\ DeviceFits' /\ chunks' \in Staging /\ ~meta'.staged /\ Laid(chunks', meta'.total)
        /\ meta' \in [down : Nat, total : Nat, next : Nat, staged : BOOLEAN]
    BY <2>1, DiscardedFits
  <2>3. orphaned' \/ Stored'
    BY <1>3, <2>1, <2>2 DEF Inv, ClientInv, InPlace, Stored, Whole, WholeOf
  <2>4. audio' \in Seq(Pieces) /\ orphaned' \in BOOLEAN
    BY <1>3, <2>1 DEF Inv, Typed
  <2> QED
    BY <1>1, <1>2, <1>3, <2>1, <2>2, <2>3, <2>4, Ends
<1> QED
  BY <1>4, <1>5

LEMMA PutHolds == ASSUME Inv, NEW k \in Tasks, Put(k) PROVE Inv'
<1>1. PICK w : w = task[k]
  OBVIOUS
<1>2. w \in TaskRecords /\ Fits(w) /\ Holds(k, w) /\ w.pc = "put" /\ (orphaned \/ Sound(w))
  BY <1>1, TaskType DEF Put
<1>3. UNCHANGED <<trouble, orphaned, chunks, meta>> /\ trouble' \in 0..MaxTrouble /\ audio' = w.bag
  BY <1>1, TroubleType DEF Put, Calm
<1>4. PICK new : new = [w EXCEPT !.pc = "clear"]
  OBVIOUS
<1>5. task' = [task EXCEPT ![k] = new] /\ UNCHANGED <<version, copy, badge, done, lock, acts, clean, failed>>
  BY <1>1, <1>4 DEF Put, GoTo, Become, Quiet
<1>6. /\ new.pc = "clear" /\ new.buffer = w.buffer /\ new.tab = w.tab /\ new.after = w.after
      /\ new.down = w.down /\ new.total = w.total /\ new.asked = w.asked /\ new.inflight = w.inflight
      /\ new.error = w.error /\ w.bag \in Seq(Pieces)
  BY <1>2, <1>4 DEF TaskRecords
<1>7. new \in TaskRecords
  BY <1>2, <1>4 DEF TaskRecords, Steps
<1>8. Windowed(new)
  BY <1>2, <1>6 DEF Fits, Windowed
<1>9. Fits(new)
  BY <1>2, <1>6, <1>8 DEF Fits, Opened
<1>10. orphaned' \/ (Stored' /\ Sound(new))
  <2>1. SUFFICES ASSUME ~orphaned PROVE Stored' /\ Sound(new)
    BY <1>3
  <2>2. Sound(w) /\ Whole(w.bag) /\ Laid(chunks, meta.total)
    BY <1>2, <2>1 DEF Sound, Inv, ClientInv, InPlace, Stored
  <2>3. Stored'
    BY <1>3, <2>2 DEF Stored, Laid, Whole, WholeOf
  <2>4. Sound(new)
    BY <1>6, <2>2 DEF Sound
  <2> QED
    BY <2>3, <2>4
<1>11. Holds(k, new)'
  BY <1>2, <1>5, <1>6 DEF Holds, Opened
<1>12. DeviceFits'
  BY <1>3 DEF Inv, ClientInv, DeviceFits, IsSize
<1>13. audio' \in Seq(Pieces) /\ chunks' \in Staging /\ orphaned' \in BOOLEAN
       /\ meta' \in [down : Nat, total : Nat, next : Nat, staged : BOOLEAN]
  BY <1>3, <1>6 DEF Inv, Typed
<1> QED
  BY <1>1, <1>2, <1>3, <1>5, <1>7, <1>9, <1>10, <1>11, <1>12, <1>13, GoesOn

LEMMA ClearHolds == ASSUME Inv, NEW k \in Tasks, Clear(k) PROVE Inv'
<1>1. task[k].pc = "clear" /\ Discarded /\ End(k, "ok", "none") /\ UNCHANGED <<trouble, orphaned, audio>>
      /\ trouble' \in 0..MaxTrouble
  BY TroubleType DEF Clear, Calm
<1>2. /\ DeviceFits' /\ chunks' \in Staging /\ ~meta'.staged /\ Laid(chunks', meta'.total)
      /\ meta' \in [down : Nat, total : Nat, next : Nat, staged : BOOLEAN]
  BY <1>1, DiscardedFits
<1>3. orphaned' \/ Stored'
  BY <1>1, <1>2 DEF Inv, ClientInv, InPlace, Stored, Whole, WholeOf
<1>4. audio' \in Seq(Pieces) /\ orphaned' \in BOOLEAN
  BY <1>1 DEF Inv, Typed
<1> QED
  BY <1>1, <1>2, <1>3, <1>4, Ends

-----------------------------------------------------------------------------
(* Every step.                                                             *)

LEMMA StillHoldsAll == Inv /\ UNCHANGED vars => Inv'
<1> SUFFICES ASSUME Inv, UNCHANGED vars PROVE Inv'
  OBVIOUS
<1>1. UNCHANGED <<version, copy, deviceVars, badge, done, task, lock, acts, trouble, clean, orphaned, failed>>
  BY DEF vars, histVars
<1>2. Typed'
  BY <1>1 DEF Inv, Typed, deviceVars
<1>3. \A j \in Tasks : Linked(j)'
  BY <1>1, StillHolds DEF Inv, ClientInv, deviceVars
<1>4. DeviceFits' /\ (orphaned' \/ Stored')
  BY <1>1, DeviceKept
<1> QED
  BY <1>1, <1>2, <1>3, <1>4, TasksKept

LEMMA StepHolds == ASSUME Inv, NEW k \in Tasks, Step(k) PROVE Inv'
BY LockHolds, PollHolds, ReadHolds, OpenHolds, FirstHolds, WriteHolds, ArriveHolds, StopHolds, DiscardHolds,
   RequestHolds, StreamHolds, GatherHolds, PutHolds, ClearHolds DEF Step

LEMMA NextHolds == Inv /\ [Next]_vars => Inv'
<1> SUFFICES ASSUME Inv, [Next]_vars PROVE Inv'
  OBVIOUS
<1>1. CASE Serve \/ Lose
  BY <1>1, ServeHolds
<1>2. ASSUME NEW t \in Tabs, Start(t) \/ Remove(t) \/ Redownload(t) \/ Resume(t) \/ Complete(t) \/ Reload(t)
      PROVE  Inv'
  BY <1>2, StartHolds, RemoveHolds, RedownloadHolds, CompleteHolds, ReloadHolds
<1>3. ASSUME NEW k \in Tasks, Step(k) PROVE Inv'
  BY <1>3, StepHolds
<1>4. CASE UNCHANGED vars
  BY <1>4, StillHoldsAll
<1> QED
  BY <1>1, <1>2, <1>3, <1>4 DEF Next

\* The invariant of the device, its lock and its tasks.
THEOREM DownloadsHold == Spec => []Inv
BY InitHolds, NextHolds, PTL DEF Spec

\* All state stays well formed: a task past the lock is the one that holds it, counts no more
\* than its copy has, and keeps no more requests in flight than its window.
THEOREM DeviceTypes == Spec => []TypeOK
<1>1. Inv => TypeOK
  <2> SUFFICES ASSUME Inv PROVE TypeOK
    OBVIOUS
  <2>1. \A n \in Nat : (n = 0 \/ IsSize(n)) => \A m \in Nat : m <= n => m \in Offsets
    BY SizesFit DEF IsSize
  <2>2. DOMAIN chunks \subseteq Offsets
    <3>1. SUFFICES ASSUME NEW i \in DOMAIN chunks PROVE i \in Offsets
      OBVIOUS
    <3>2. meta.down \in Nat /\ meta.total \in Nat /\ meta.down <= meta.total /\ i \in 0..(meta.down - 1)
          /\ (meta.total = 0 \/ IsSize(meta.total))
      BY DEF Inv, Typed, ClientInv, DeviceFits
    <3>3. i \in Nat /\ i <= meta.total
      BY <3>2
    <3> QED
      BY <2>1, <3>2, <3>3
  <2>3. ASSUME NEW k \in Tasks
        PROVE  LET w == task[k] IN
               /\ w.pc \in Steps /\ (w.pc # "off" => w.tab \in Tabs)
               /\ w.pc \notin {"off", "lock"} => lock = k
               /\ w.down \in Offsets /\ w.total \in Offsets /\ w.inflight \subseteq w.down..(w.asked - 1)
               /\ w.pc \in {"write", "gather", "put", "clear"} => w.total > 0 /\ w.down <= w.total
               /\ (w.pc = "drain" => w.inflight # {} /\ w.down \notin DOMAIN w.buffer)
               /\ w.asked <= w.down + Window
    <3>1. PICK w : w = task[k]
      OBVIOUS
    <3>2. w \in TaskRecords /\ Fits(w) /\ Holds(k, w)
      BY <3>1, TaskType
    <3>3. w.down \in Nat /\ w.total \in Nat /\ w.asked \in Nat /\ w.pc \in Steps /\ Window \in Nat \ {0}
          /\ w.buffer \in Staging
      BY <3>2, ClientAssumption DEF TaskRecords
    <3>4. w.down \in Offsets /\ w.total \in Offsets
      BY <2>1, <3>2, <3>3 DEF Fits
    <3>5. w.inflight \subseteq w.down..(w.asked - 1) /\ w.asked <= w.down + Window
      <4>1. CASE Blank(w)
        BY <3>3, <4>1 DEF Blank
      <4>2. CASE Windowed(w)
        BY <4>2 DEF Windowed
      <4> QED
        BY <3>2, <4>1, <4>2 DEF Fits
    <3>6. w.pc \in {"write", "gather", "put", "clear"} => w.total > 0 /\ w.down <= w.total
      <4>1. CASE w.pc = "write"
        <5>1. w.down \in w.down..(w.asked - 1) /\ w.asked <= w.total
          BY <3>2, <4>1 DEF Fits, Windowed
        <5> QED
          BY <3>3, <5>1
      <4>2. CASE w.pc \in {"gather", "put", "clear"}
        BY <3>2, <3>3, <4>2 DEF Fits
      <4> QED
        BY <4>1, <4>2
    <3>7. (w.pc # "off" => w.tab \in Tabs) /\ (w.pc = "drain" => w.inflight # {} /\ w.down \notin DOMAIN w.buffer)
      BY <3>2 DEF Fits
    <3>8. w.pc \notin {"off", "lock"} => lock = k
      BY <3>2 DEF Holds
    <3> QED
      BY <3>1, <3>3, <3>4, <3>5, <3>6, <3>7, <3>8
  <2>4. /\ version \in 0..Len(Sizes) /\ copy \in {0, version}
        /\ audio \in Seq(Pieces) /\ meta.staged \in BOOLEAN
        /\ badge \in [Tabs -> Badges] /\ lock \in Tasks \cup {NoTask}
        /\ acts \in 0..MaxActs /\ trouble \in 0..MaxTrouble /\ clean \subseteq Tasks
        /\ failed \subseteq {"past", "other"}
    BY DEF Inv, Typed
  <2> QED
    BY <2>2, <2>3, <2>4 DEF TypeOK
<1> QED
  BY <1>1, DownloadsHold, PTL

\* Stored audio is one copy of the server's, whole and in order, whatever removals, replaced
\* copies, failed or out-of-order requests, reloads and other tabs come between, unless a
\* writer was opened for bytes that a removal had taken away (download.rs).
THEOREM AudioIsWhole == Spec => []WholeAudio
<1>1. Inv => WholeAudio
  BY DEF Inv, ClientInv, InPlace, Stored, Whole, WholeOf, WholeAudio, WholeCopy
<1> QED
  BY <1>1, DownloadsHold, PTL

\* A task nothing disturbs never fails for another reason than a copy that ends before the
\* staged bytes, or the network, and leaves bytes staged (download_audio_chunked).
THEOREM NeverWedged == Spec => []NotWedged
<1>1. Inv => NotWedged
  BY DEF Inv, Typed, NotWedged
<1> QED
  BY <1>1, DownloadsHold, PTL
=============================================================================
