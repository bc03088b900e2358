----------------------- MODULE ServerDownloads_proofs -----------------------
(***************************************************************************)
(* The server's downloads, for any number of episodes and of calls.        *)
(***************************************************************************)
EXTENDS ServerDownloads, FiniteSetTheorems, FunctionTheorems, NaturalsInduction, TLAPS

\* What the first two theorems need of the types; the lists that calls carry come with the
\* cap, which is about them.
Recorded ==
    /\ call = [c \in Calls |-> call[c]]
    /\ \A c \in Calls :
           /\ call[c] = Call(call[c].kind, call[c].pc, call[c].todo, call[c].seen)
           /\ call[c].seen \in Nat

Types ==
    /\ status \in [Episodes -> Status]
    /\ attempts \in [Episodes -> Nat] /\ fetches \in [Episodes -> Nat]
    /\ Recorded

\* The row of a fetch nobody disturbed says so, and the fetch is alone.
Claimed(e) ==
    \A c \in Writers(e) : status[e] = "Downloading" /\ \A d \in Writers(e) : d = c

OneClaim == \A e \in Episodes \ taken : Claimed(e)

\* No count is ahead of the fetches: neither the row's, nor one read and not yet written.
Counted ==
    \A e \in Episodes : /\ attempts[e] <= fetches[e]
                        /\ \A c \in AboutToClaim(e) : call[c].seen <= fetches[e]

IInv == Types /\ OneClaim /\ Counted /\ BudgetSpent

-----------------------------------------------------------------------------
(* A step changes one call.                                                *)

\* Only c may have moved, and it now reads new.
Moved(c, new) == call'[c] = new /\ \A d \in Calls \ {c} : call'[d] = call[d]

LEMMA BecomeMoves ==
    ASSUME Recorded, NEW c \in Calls, NEW kind, NEW pc, NEW todo, NEW seen \in Nat,
           Become(c, Call(kind, pc, todo, seen))
    PROVE  Recorded' /\ Moved(c, Call(kind, pc, todo, seen))
<1> DEFINE new == Call(kind, pc, todo, seen)
<1>1. call' = [call EXCEPT ![c] = new]
  BY DEF Become
<1>2. Moved(c, new) /\ call' = [d \in Calls |-> call'[d]]
  BY <1>1 DEF Moved, Recorded
<1>3. new = Call(new.kind, new.pc, new.todo, new.seen) /\ new.seen \in Nat
  BY DEF Call
<1>4. ASSUME NEW d \in Calls
      PROVE  /\ call'[d] = Call(call'[d].kind, call'[d].pc, call'[d].todo, call'[d].seen)
             /\ call'[d].seen \in Nat
  <2>1. CASE d = c
    BY <1>2, <1>3, <2>1 DEF Moved
  <2>2. CASE d # c
    BY <1>2, <2>2 DEF Moved, Recorded
  <2> QED
    BY <2>1, <2>2
<1> HIDE DEF new
<1>5. Recorded'
  BY <1>2, <1>4 DEF Recorded
<1> QED
  BY <1>2, <1>5 DEF new

LEMMA GoToMoves ==
    ASSUME Recorded, NEW c \in Calls, NEW pc, GoTo(c, pc)
    PROVE  Recorded' /\ Moved(c, Call(call[c].kind, pc, call[c].todo, call[c].seen))
<1>1. call' = [call EXCEPT ![c].pc = pc]
  BY DEF GoTo
<1>2. [call[c] EXCEPT !.pc = pc] = Call(call[c].kind, pc, call[c].todo, call[c].seen)
  <2>1. call[c] = Call(call[c].kind, call[c].pc, call[c].todo, call[c].seen)
    BY DEF Recorded
  <2> QED
    BY <2>1 DEF Call
<1>3. Become(c, Call(call[c].kind, pc, call[c].todo, call[c].seen))
  BY <1>1, <1>2 DEF Become
<1>4. call[c].seen \in Nat
  BY DEF Recorded
<1> QED
  BY <1>3, <1>4, BecomeMoves

\* A call that turns to something other than a fetch or a claim leaves the writers and the
\* claimers of every episode.
Quiet(pc) == pc \notin {"claim", "fetch", "landed", "failed", "refused"}

\* The calls at work on e and those about to be are the same but for c.
Withdraws(c) ==
    \A e \in Episodes : Writers(e)' = Writers(e) \ {c} /\ AboutToClaim(e)' = AboutToClaim(e) \ {c}

LEMMA QuietWithdraws ==
    ASSUME NEW c \in Calls, NEW kind, NEW pc, NEW todo, NEW seen, Quiet(pc),
           Moved(c, Call(kind, pc, todo, seen))
    PROVE  Withdraws(c) /\ \A d \in Calls \ {c} : call'[d] = call[d]
<1>1. call'[c].pc = pc /\ \A d \in Calls \ {c} : call'[d] = call[d]
  BY DEF Moved, Call
<1> QED
  BY <1>1 DEF Withdraws, Quiet, Writers, AboutToClaim, Target

\* Ending, going on to retention, or taking up a list of removals are such turns.
LEMMA DoneWithdraws ==
    ASSUME Recorded, NEW c \in Calls, Become(c, Done)
    PROVE  Recorded' /\ Withdraws(c) /\ \A d \in Calls \ {c} : call'[d] = call[d]
BY BecomeMoves, QuietWithdraws DEF Done, Quiet

LEMMA AfterDownloadWithdraws ==
    ASSUME Recorded, NEW c \in Calls, AfterDownload(c)
    PROVE  Recorded' /\ Withdraws(c) /\ \A d \in Calls \ {c} : call'[d] = call[d]
<1>1. CASE call[c].kind = "request"
  <2>1. GoTo(c, "retain")
    BY <1>1 DEF AfterDownload
  <2> QED
    BY <2>1, GoToMoves, QuietWithdraws DEF Quiet
<1>2. CASE call[c].kind # "request"
  BY <1>2, DoneWithdraws DEF AfterDownload
<1> QED
  BY <1>1, <1>2

-----------------------------------------------------------------------------
(* The first look.                                                         *)

\* A call that begins is no writer, and what it may claim with is the row's own count.
LEMMA BeginLooks ==
    ASSUME Types, NEW c \in Calls, NEW e \in Episodes, NEW kind, Free(c), Begin(c, e, kind)
    PROVE  /\ Recorded'
           /\ \A d \in Calls \ {c} : call'[d] = call[d]
           /\ \A x \in Episodes : Writers(x)' = Writers(x)
           /\ \A x \in Episodes : \A d \in AboutToClaim(x)' :
                  \/ d \in AboutToClaim(x)
                  \/ d = c /\ x = e /\ call'[d].seen = attempts[x]
<1>1. CASE status[e] \notin Busy
  <2> DEFINE new == Call(kind, "claim", <<e>>, attempts[e])
  <2>1. Become(c, new) /\ attempts[e] \in Nat
    BY <1>1 DEF Begin, Types
  <2>2. Recorded' /\ Moved(c, new)
    BY <2>1, BecomeMoves DEF Types
  <2>3. call'[c].pc = "claim" /\ Head(call'[c].todo) = e /\ call'[c].seen = attempts[e]
    BY <2>2 DEF Moved, Call
  <2>4. \A d \in Calls \ {c} : call'[d] = call[d]
    BY <2>2 DEF Moved
  <2>5. call[c].pc = "idle"
    BY DEF Free
  <2>6. \A x \in Episodes : Writers(x)' = Writers(x)
    BY <2>3, <2>4, <2>5 DEF Writers, Target
  <2>7. \A x \in Episodes : \A d \in AboutToClaim(x)' :
            d \in AboutToClaim(x) \/ (d = c /\ x = e /\ call'[d].seen = attempts[x])
    BY <2>3, <2>4 DEF AboutToClaim, Target
  <2> QED
    BY <2>2, <2>4, <2>6, <2>7
<1>2. CASE status[e] \in Busy
  <2>0. \A x \in Episodes : c \notin Writers(x)
    BY DEF Free, Writers
  <2>3. SUFFICES Recorded' /\ Withdraws(c) /\ \A d \in Calls \ {c} : call'[d] = call[d]
    BY <2>0 DEF Withdraws
  <2>1. CASE kind = "request"
    <3>1. Become(c, Call(kind, "retain", <<e>>, 0))
      BY <1>2, <2>1 DEF Begin
    <3> QED
      BY <3>1, BecomeMoves, QuietWithdraws DEF Types, Quiet
  <2>2. CASE kind # "request"
    BY <1>2, <2>2, DoneWithdraws DEF Begin, Types
  <2> QED
    BY <2>1, <2>2
<1> QED
  BY <1>1, <1>2

-----------------------------------------------------------------------------
(* Every step keeps the invariant.                                         *)

\* A call that turns to something else, and leaves the row alone.
LEMMA WithdrawalKeeps ==
    ASSUME IInv, NEW c \in Calls, Recorded', Withdraws(c), \A d \in Calls \ {c} : call'[d] = call[d],
           taken' = taken \/ (Leave(c) /\ \A e \in Episodes : c \in Writers(e) => e = Target(c)),
           UNCHANGED <<status, attempts, fetches>>
    PROVE  IInv'
<1>1. Types' /\ BudgetSpent'
  BY DEF IInv, Types, BudgetSpent
<1>2. OneClaim'
  <2> SUFFICES ASSUME NEW e \in Episodes \ taken', NEW d \in Writers(e)'
               PROVE  status[e] = "Downloading" /\ \A x \in Writers(e)' : x = d
    BY DEF OneClaim, Claimed
  <2>1. d \in Writers(e) \ {c} /\ \A x \in Writers(e)' : x \in Writers(e)
    BY DEF Withdraws
  <2>2. e \notin taken
    BY <2>1 DEF Leave
  <2> QED
    BY <2>1, <2>2 DEF IInv, OneClaim, Claimed
<1>3. Counted'
  <2> SUFFICES ASSUME NEW e \in Episodes, NEW d \in AboutToClaim(e)'
               PROVE  call'[d].seen <= fetches[e]
    BY DEF IInv, Counted
  <2>1. d \in AboutToClaim(e) /\ d \in Calls \ {c}
    BY DEF Withdraws, AboutToClaim
  <2> QED
    BY <2>1 DEF IInv, Counted
<1> QED
  BY <1>1, <1>2, <1>3 DEF IInv

LEMMA BeginKeeps ==
    ASSUME IInv, NEW c \in Calls, NEW e \in Episodes, NEW kind, Free(c), Begin(c, e, kind),
           UNCHANGED <<status, attempts, fetches, taken>>
    PROVE  IInv'
<1>1. /\ Recorded'
      /\ \A d \in Calls \ {c} : call'[d] = call[d]
      /\ \A x \in Episodes : Writers(x)' = Writers(x)
      /\ \A x \in Episodes : \A d \in AboutToClaim(x)' :
             d \in AboutToClaim(x) \/ (d = c /\ x = e /\ call'[d].seen = attempts[x])
  BY BeginLooks DEF IInv
<1>2. Types' /\ BudgetSpent'
  BY <1>1 DEF IInv, Types, BudgetSpent
<1>3. OneClaim'
  BY <1>1 DEF IInv, OneClaim, Claimed
<1>4. Counted'
  <2> SUFFICES ASSUME NEW x \in Episodes, NEW d \in AboutToClaim(x)'
               PROVE  call'[d].seen <= fetches[x]
    BY DEF IInv, Counted
  <2>1. CASE d \in AboutToClaim(x)
    <3>1. d # c
      BY <2>1 DEF Free, AboutToClaim
    <3>2. call'[d] = call[d]
      BY <1>1, <2>1, <3>1 DEF AboutToClaim
    <3> QED
      BY <2>1, <3>2 DEF IInv, Counted
  <2>2. CASE d = c /\ x = e /\ call'[d].seen = attempts[x]
    BY <2>2 DEF IInv, Counted
  <2> QED
    BY <1>1, <2>1, <2>2
<1> QED
  BY <1>2, <1>3, <1>4 DEF IInv

LEMMA ClaimKeeps ==
    ASSUME IInv, NEW c \in Calls, Claim(c)
    PROVE  IInv'
<1> DEFINE e == Target(c)
<1>0. call[c].pc = "claim" /\ call[c].seen \in Nat /\ UNCHANGED taken
  BY DEF Claim, IInv, Types, Recorded
<1>1. CASE ~Claimable(e)
  <2>1. AfterDownload(c) /\ UNCHANGED <<status, attempts, fetches>>
    BY <1>1 DEF Claim
  <2> QED
    BY <1>0, <2>1, AfterDownloadWithdraws, WithdrawalKeeps DEF IInv, Types
<1>2. CASE Claimable(e)
  <2>1. /\ status' = [status EXCEPT ![e] = "Downloading"]
        /\ attempts' = [attempts EXCEPT ![e] = call[c].seen + 1]
        /\ fetches' = [fetches EXCEPT ![e] = @ + 1]
        /\ GoTo(c, "fetch")
    BY <1>2 DEF Claim
  <2>2. Recorded' /\ Moved(c, Call(call[c].kind, "fetch", call[c].todo, call[c].seen))
    BY <2>1, GoToMoves DEF IInv, Types
  <2>3. /\ call'[c].pc = "fetch" /\ Target(c)' = e
        /\ \A d \in Calls \ {c} : call'[d] = call[d]
    BY <2>2 DEF Moved, Call, Target
  <2>4. Types'
    <3>1. status' \in [Episodes -> Status]
      BY <2>1 DEF IInv, Types, Status, Busy
    <3>2. attempts' \in [Episodes -> Nat]
      <4>1. attempts \in [Episodes -> Nat] /\ call[c].seen + 1 \in Nat
        BY <1>0 DEF IInv, Types
      <4> HIDE DEF e
      <4> QED
        BY <2>1, <4>1
    <3>3. fetches' \in [Episodes -> Nat]
      <4>1. fetches \in [Episodes -> Nat]
        BY DEF IInv, Types
      <4>2. fetches' = [x \in Episodes |-> IF x = e THEN fetches[x] + 1 ELSE fetches[x]]
        BY <2>1, <4>1
      <4> QED
        BY <4>1, <4>2
    <3> QED
      BY <2>2, <3>1, <3>2, <3>3 DEF Types
  <2>5. OneClaim'
    <3> SUFFICES ASSUME NEW x \in Episodes \ taken
                 PROVE  Claimed(x)'
      BY <1>0 DEF OneClaim
    <3>1. CASE x = e
      <4>1. Writers(x) = {}
        BY <1>2, <3>1 DEF Claimable, Busy, IInv, OneClaim, Claimed
      <4>2. \A d \in Writers(x)' : d = c
        BY <2>3, <4>1 DEF Writers, Target
      <4>3. status'[x] = "Downloading"
        BY <2>1, <3>1 DEF IInv, Types
      <4> QED
        BY <4>2, <4>3 DEF Claimed
    <3>2. CASE x # e
      <4>1. Writers(x)' = Writers(x)
        BY <1>0, <2>3, <3>2 DEF Writers, Target
      <4>2. status'[x] = status[x]
        BY <2>1, <3>2 DEF IInv, Types
      <4> QED
        BY <4>1, <4>2 DEF IInv, OneClaim, Claimed
    <3> QED
      BY <3>1, <3>2
  <2>6. ASSUME NEW x \in Episodes
        PROVE  /\ fetches'[x] >= fetches[x]
               /\ attempts'[x] <= fetches'[x]
               /\ \A d \in AboutToClaim(x)' : call'[d].seen <= fetches'[x]
    <3>1. /\ fetches[x] \in Nat /\ attempts[x] \in Nat
          /\ fetches'[x] = IF x = e THEN fetches[x] + 1 ELSE fetches[x]
          /\ attempts'[x] = IF x = e THEN call[c].seen + 1 ELSE attempts[x]
      BY <2>1 DEF IInv, Types
    <3>2. x = e => c \in AboutToClaim(x)
      BY <1>0 DEF AboutToClaim
    <3>3. attempts[x] <= fetches[x] /\ (x = e => call[c].seen <= fetches[x])
      BY <3>2 DEF IInv, Counted
    <3>4. ASSUME NEW d \in AboutToClaim(x)'
          PROVE  call'[d].seen <= fetches[x] /\ call'[d].seen \in Nat
      <4>1. d \in Calls \ {c} /\ d \in AboutToClaim(x) /\ call'[d] = call[d]
        BY <2>3 DEF AboutToClaim, Target
      <4> QED
        BY <4>1 DEF IInv, Counted, Types, Recorded
    <3> QED
      BY <1>0, <3>1, <3>3, <3>4
  <2>7. BudgetSpent'
    <3> SUFFICES ASSUME NEW x \in Episodes, status'[x] = "DownloadBroken"
                 PROVE  fetches'[x] >= MaxAttempts
      BY DEF BudgetSpent
    <3>1. status[x] = "DownloadBroken"
      BY <2>1 DEF IInv, Types
    <3>2. fetches[x] >= MaxAttempts /\ fetches[x] \in Nat /\ fetches'[x] \in Nat
      BY <2>4, <3>1 DEF IInv, BudgetSpent, Types
    <3> QED
      BY <2>6, <3>2, DownloadLimitAssumption
  <2> QED
    BY <2>4, <2>5, <2>6, <2>7 DEF IInv, Counted
<1> QED
  BY <1>1, <1>2

LEMMA TransferKeeps ==
    ASSUME IInv, NEW c \in Calls, Transfer(c)
    PROVE  IInv'
<1>1. PICK pc \in {"landed", "failed", "refused"} : GoTo(c, pc)
  BY DEF Transfer
<1>2. Recorded' /\ Moved(c, Call(call[c].kind, pc, call[c].todo, call[c].seen))
  BY <1>1, GoToMoves DEF IInv, Types
<1>3. /\ call'[c].pc = pc /\ Target(c)' = Target(c)
      /\ \A d \in Calls \ {c} : call'[d] = call[d]
  BY <1>2 DEF Moved, Call, Target
<1>4. call[c].pc = "fetch" /\ UNCHANGED <<status, attempts, fetches, taken>>
  BY DEF Transfer, rowVars, histVars
<1>5. ASSUME NEW e \in Episodes
      PROVE  /\ Writers(e)' = Writers(e)
             /\ \A d \in AboutToClaim(e)' : d \in AboutToClaim(e) /\ call'[d] = call[d]
  BY <1>3, <1>4 DEF Writers, AboutToClaim, Target
<1>6. Types' /\ BudgetSpent'
  BY <1>2, <1>4 DEF IInv, Types, BudgetSpent
<1>7. OneClaim'
  BY <1>4, <1>5 DEF IInv, OneClaim, Claimed
<1>8. Counted'
  BY <1>4, <1>5 DEF IInv, Counted
<1> QED
  BY <1>6, <1>7, <1>8 DEF IInv

\* A fetch that ends, with whatever it writes: a fetch that was alone leaves nobody.
LEMMA FetchEnds ==
    ASSUME IInv, NEW c \in Calls, Recorded', Withdraws(c), \A d \in Calls \ {c} : call'[d] = call[d],
           Leave(c), call[c].pc \in {"landed", "failed", "refused"},
           NEW st \in Status \ {"DownloadBroken"},
           status' = [status EXCEPT ![Target(c)] = st], UNCHANGED <<attempts, fetches>>
    PROVE  IInv'
<1> DEFINE t == Target(c)
<1>1. Types'
  <2>1. status \in [Episodes -> Status]
    BY DEF IInv, Types
  <2> HIDE DEF t
  <2>2. status' = [status EXCEPT ![t] = st]
    BY DEF t
  <2>3. status' \in [Episodes -> Status]
    BY <2>1, <2>2
  <2> QED
    BY <2>3 DEF IInv, Types
<1>2. OneClaim'
  <2> SUFFICES ASSUME NEW e \in Episodes \ taken', NEW d \in Writers(e)'
               PROVE  status'[e] = "Downloading" /\ \A x \in Writers(e)' : x = d
    BY DEF OneClaim, Claimed
  <2>1. d \in Writers(e) \ {c} /\ \A x \in Writers(e)' : x \in Writers(e)
    BY DEF Withdraws
  <2>2. e \notin taken
    BY <2>1 DEF Leave
  <2>3. status[e] = "Downloading" /\ \A x \in Writers(e) : x = d
    BY <2>1, <2>2 DEF IInv, OneClaim, Claimed
  <2>4. e # t
    BY <2>1, <2>3 DEF Writers
  <2>5. status'[e] = status[e]
    BY <2>4 DEF IInv, Types
  <2> QED
    BY <2>1, <2>3, <2>5
<1>3. Counted'
  <2> SUFFICES ASSUME NEW e \in Episodes, NEW d \in AboutToClaim(e)'
               PROVE  call'[d].seen <= fetches[e]
    BY DEF IInv, Counted
  <2>1. d \in AboutToClaim(e) /\ d \in Calls \ {c}
    BY DEF Withdraws, AboutToClaim
  <2> QED
    BY <2>1 DEF IInv, Counted
<1>4. BudgetSpent'
  <2> SUFFICES ASSUME NEW e \in Episodes, status'[e] = "DownloadBroken"
               PROVE  fetches[e] >= MaxAttempts
    BY DEF BudgetSpent
  <2>1. status[e] = "DownloadBroken"
    BY DEF IInv, Types
  <2> QED
    BY <2>1 DEF IInv, BudgetSpent
<1> QED
  BY <1>1, <1>2, <1>3, <1>4 DEF IInv

LEMMA RecordKeeps ==
    ASSUME IInv, NEW c \in Calls, Record(c)
    PROVE  IInv'
<1>1. call[c].pc = "landed" /\ Leave(c) /\ UNCHANGED <<attempts, fetches>>
  BY DEF Record
<1>2. \A e \in Episodes : c \in Writers(e) => e = Target(c)
  BY DEF Writers
<1>3. CASE AfterDownload(c) /\ status' = [status EXCEPT ![Target(c)] = "Downloaded"]
  <2>1. "Downloaded" \in Status \ {"DownloadBroken"}
    BY DEF Status, Busy
  <2> QED
    BY <1>1, <1>3, <2>1, AfterDownloadWithdraws, FetchEnds DEF IInv, Types
<1>4. CASE Become(c, Done) /\ UNCHANGED status
  BY <1>1, <1>2, <1>4, DoneWithdraws, WithdrawalKeeps DEF IInv, Types
<1> QED
  BY <1>3, <1>4 DEF Record

LEMMA SetFailedKeeps ==
    ASSUME IInv, NEW c \in Calls, SetFailed(c)
    PROVE  IInv'
<1>1. /\ call[c].pc \in {"failed", "refused"} /\ Leave(c) /\ Become(c, Done)
      /\ UNCHANGED <<attempts, fetches>>
  BY DEF SetFailed
<1>2. \A e \in Episodes : c \in Writers(e) => e = Target(c)
  BY DEF Writers
<1>3. CASE status' = [status EXCEPT ![Target(c)] = Verdict(call[c].pc)]
  <2>1. Verdict(call[c].pc) \in Status \ {"DownloadBroken"}
    BY <1>1 DEF Verdict, Status, Terminal
  <2> QED
    BY <1>1, <1>3, <2>1, DoneWithdraws, FetchEnds DEF IInv, Types
<1>4. CASE UNCHANGED status
  BY <1>1, <1>2, <1>4, DoneWithdraws, WithdrawalKeeps DEF IInv, Types
<1> QED
  BY <1>3, <1>4 DEF SetFailed

\* Retention and removal up to the row: no row is touched.
LEMMA RetainKeeps ==
    ASSUME IInv, NEW c \in Calls, Retain(c)
    PROVE  IInv'
<1>1. UNCHANGED <<status, attempts, fetches, taken>>
  BY DEF Retain, rowVars
<1>2. PICK todo : Become(c, Done) \/ Become(c, Call("request", "read", todo, 0))
  BY DEF Retain
<1>3. Recorded' /\ Withdraws(c) /\ \A d \in Calls \ {c} : call'[d] = call[d]
  <2>1. CASE Become(c, Done)
    BY <2>1, DoneWithdraws DEF IInv, Types
  <2>2. CASE Become(c, Call("request", "read", todo, 0))
    BY <2>2, BecomeMoves, QuietWithdraws DEF IInv, Types, Quiet
  <2> QED
    BY <1>2, <2>1, <2>2
<1> QED
  BY <1>1, <1>3, WithdrawalKeeps

LEMMA LookKeeps ==
    ASSUME IInv, NEW c \in Calls, NEW e,
           Trim(c) \/ AskRemoval(c, e) \/ ReadPath(c) \/ Unlink(c)
    PROVE  IInv'
<1>1. UNCHANGED <<status, attempts, fetches, taken>>
  BY DEF Trim, AskRemoval, ReadPath, Unlink, rowVars, histVars
<1>2. Recorded' /\ Withdraws(c) /\ \A d \in Calls \ {c} : call'[d] = call[d]
  <2>1. CASE Trim(c)
    <3>1. Become(c, Call("request", "retain", <<>>, 0))
      BY <2>1 DEF Trim
    <3> QED
      BY <3>1, BecomeMoves, QuietWithdraws DEF IInv, Types, Quiet
  <2>2. CASE AskRemoval(c, e)
    <3>1. Become(c, Call("removal", "read", <<e>>, 0))
      BY <2>2 DEF AskRemoval
    <3> QED
      BY <3>1, BecomeMoves, QuietWithdraws DEF IInv, Types, Quiet
  <2>3. CASE ReadPath(c) \/ Unlink(c)
    <3>1. GoTo(c, "unlink") \/ GoTo(c, "reset")
      BY <2>3 DEF ReadPath, Unlink
    <3> QED
      BY <3>1, GoToMoves, QuietWithdraws DEF IInv, Types, Quiet
  <2> QED
    BY <2>1, <2>2, <2>3
<1> QED
  BY <1>1, <1>2, WithdrawalKeeps

\* The reset clears the row's count and, if no call has read it, the fetches; a fetch it
\* cuts across is no longer alone.
LEMMA ResetKeeps ==
    ASSUME IInv, NEW c \in Calls, Reset(c)
    PROVE  IInv'
<1> DEFINE e == Target(c)
           rest == Tail(call[c].todo)
<1>0. call[c].pc = "reset"
  BY DEF Reset
<1>1. CASE Become(c, Done) /\ UNCHANGED <<status, attempts, fetches, taken>>
  BY <1>1, DoneWithdraws, WithdrawalKeeps DEF IInv, Types
<1>2. CASE /\ status' = [status EXCEPT ![e] = "NotDownloaded"]
           /\ attempts' = [attempts EXCEPT ![e] = 0]
           /\ fetches' = [fetches EXCEPT ![e] = IF AboutToClaim(e) = {} THEN 0 ELSE @]
           /\ taken' = IF Writers(e) = {} THEN taken ELSE taken \cup {e}
           /\ Become(c, Done) \/ Become(c, Call(call[c].kind, "read", rest, 0))
  <2>1. Recorded' /\ Withdraws(c) /\ \A d \in Calls \ {c} : call'[d] = call[d]
    <3>1. CASE Become(c, Done)
      BY <3>1, DoneWithdraws DEF IInv, Types
    <3>2. CASE Become(c, Call(call[c].kind, "read", rest, 0))
      BY <3>2, BecomeMoves, QuietWithdraws DEF IInv, Types, Quiet
    <3> QED
      BY <1>2, <3>1, <3>2
  <2>2. ASSUME NEW x \in Episodes
        PROVE  /\ Writers(x)' = Writers(x)
               /\ AboutToClaim(x)' = AboutToClaim(x)
               /\ \A d \in AboutToClaim(x) : call'[d] = call[d]
    BY <1>0, <2>1 DEF Withdraws, Writers, AboutToClaim
  <2>3. /\ status \in [Episodes -> Status] /\ attempts \in [Episodes -> Nat]
        /\ fetches \in [Episodes -> Nat] /\ "NotDownloaded" \in Status
    BY DEF IInv, Types, Status
  <2> HIDE DEF e
  <2>4. ASSUME NEW x \in Episodes
        PROVE  /\ status'[x] = IF x = e THEN "NotDownloaded" ELSE status[x]
               /\ attempts'[x] = IF x = e THEN 0 ELSE attempts[x]
               /\ fetches'[x] = IF x = e /\ AboutToClaim(x) = {} THEN 0 ELSE fetches[x]
    BY <1>2, <2>3
  <2>5. Types'
    <3>1. /\ status' = [x \in Episodes |-> status'[x]]
          /\ attempts' = [x \in Episodes |-> attempts'[x]]
          /\ fetches' = [x \in Episodes |-> fetches'[x]]
      BY <1>2, <2>3
    <3>2. \A x \in Episodes : status'[x] \in Status /\ attempts'[x] \in Nat /\ fetches'[x] \in Nat
      BY <2>3, <2>4
    <3> QED
      BY <2>1, <3>1, <3>2 DEF Types
  <2>6. OneClaim'
    <3> SUFFICES ASSUME NEW x \in Episodes \ taken', NEW d \in Writers(x)'
                 PROVE  status'[x] = "Downloading" /\ \A y \in Writers(x)' : y = d
      BY DEF OneClaim, Claimed
    <3>1. d \in Writers(x) /\ Writers(x)' = Writers(x)
      BY <2>2
    <3>2. x \notin taken /\ x # e
      BY <1>2, <3>1
    <3> QED
      BY <2>4, <3>1, <3>2 DEF IInv, OneClaim, Claimed
  <2>7. Counted'
    <3> SUFFICES ASSUME NEW x \in Episodes
                 PROVE  /\ attempts'[x] <= fetches'[x]
                        /\ \A d \in AboutToClaim(x)' : call'[d].seen <= fetches'[x]
      BY DEF Counted
    <3>1. attempts[x] <= fetches[x] /\ \A d \in AboutToClaim(x) : call[d].seen <= fetches[x]
      BY DEF IInv, Counted
    <3> QED
      BY <2>2, <2>3, <2>4, <3>1
  <2>8. BudgetSpent'
    BY <2>4 DEF IInv, BudgetSpent
  <2> QED
    BY <2>5, <2>6, <2>7, <2>8 DEF IInv
<1> QED
  BY <1>1, <1>2 DEF Reset, rowVars

\* The poller's steps, time and a restart.
LEMMA ResetStuckKeeps ==
    ASSUME IInv, ResetStuck
    PROVE  IInv'
<1>1. /\ \A e \in Episodes : status'[e] = IF Stuck(e) THEN "DownloadError" ELSE status[e]
      /\ taken' = taken \cup {e \in Episodes : Stuck(e) /\ Writers(e) # {}}
      /\ UNCHANGED <<attempts, fetches, call>>
  BY DEF ResetStuck
<1>2. Types'
  BY DEF ResetStuck, IInv, Types, Status, Recorded
<1>3. \A e \in Episodes : Writers(e)' = Writers(e) /\ AboutToClaim(e)' = AboutToClaim(e)
  BY <1>1 DEF Writers, AboutToClaim, Target
<1>4. OneClaim'
  BY <1>1, <1>3 DEF IInv, OneClaim, Claimed
<1>5. Counted' /\ BudgetSpent'
  BY <1>1, <1>3 DEF IInv, Counted, BudgetSpent
<1> QED
  BY <1>2, <1>4, <1>5 DEF IInv

LEMMA MarkBrokenKeeps ==
    ASSUME IInv, MarkBroken
    PROVE  IInv'
<1>1. /\ \A e \in Episodes : status'[e] = IF status[e] = "DownloadError" /\ Spent(e)
                                         THEN "DownloadBroken" ELSE status[e]
      /\ UNCHANGED <<attempts, fetches, taken, call>>
  BY DEF MarkBroken, histVars
<1>2. Types'
  BY DEF MarkBroken, histVars, IInv, Types, Status, Terminal, Recorded
<1>3. \A e \in Episodes : Writers(e)' = Writers(e) /\ AboutToClaim(e)' = AboutToClaim(e)
  BY <1>1 DEF Writers, AboutToClaim, Target
<1>4. OneClaim'
  BY <1>1, <1>3 DEF IInv, OneClaim, Claimed
<1>5. Counted'
  BY <1>1, <1>3 DEF IInv, Counted
<1>6. BudgetSpent'
  <2> SUFFICES ASSUME NEW e \in Episodes, status'[e] = "DownloadBroken"
               PROVE  fetches[e] >= MaxAttempts
    BY <1>1 DEF BudgetSpent
  <2>1. CASE Spent(e)
    <3>1. attempts[e] >= MaxAttempts /\ attempts[e] <= fetches[e]
      BY <2>1 DEF Spent, IInv, Counted
    <3> QED
      BY <3>1, DownloadLimitAssumption DEF IInv, Types
  <2>2. CASE ~Spent(e)
    BY <1>1, <2>2 DEF IInv, BudgetSpent
  <2> QED
    BY <2>1, <2>2
<1> QED
  BY <1>2, <1>4, <1>5, <1>6 DEF IInv

LEMMA RestKeeps ==
    ASSUME IInv, UNCHANGED <<status, attempts, fetches, call, taken>>
    PROVE  IInv'
BY DEF IInv, Types, Recorded, OneClaim, Claimed, Counted, BudgetSpent, Writers, AboutToClaim, Target

LEMMA RestartKeeps ==
    ASSUME IInv, Restart
    PROVE  IInv'
<1>1. /\ call' = [c \in Calls |-> Done] /\ UNCHANGED <<attempts, fetches>>
      /\ \A e \in Episodes : status'[e] = IF status[e] = "Downloading" THEN "DownloadError"
                                         ELSE status[e]
  BY DEF Restart
<1>2. Types'
  <2>1. status' \in [Episodes -> Status]
    BY DEF Restart, IInv, Types, Status
  <2>2. Recorded'
    BY <1>1 DEF Recorded, Done, Call
  <2> QED
    BY <1>1, <2>1, <2>2 DEF IInv, Types
<1>3. \A e \in Episodes : Writers(e)' = {} /\ AboutToClaim(e)' = {}
  BY <1>1 DEF Writers, AboutToClaim, Done, Call
<1>4. OneClaim' /\ Counted' /\ BudgetSpent'
  BY <1>1, <1>3 DEF IInv, OneClaim, Claimed, Counted, BudgetSpent
<1> QED
  BY <1>2, <1>4 DEF IInv

-----------------------------------------------------------------------------
(* The theorems.                                                           *)

LEMMA InitIInv == Init => IInv
<1> SUFFICES ASSUME Init PROVE IInv
  OBVIOUS
<1>1. Types
  BY DEF Init, Types, Recorded, Status, Done, Call
<1>2. \A e \in Episodes : Writers(e) = {} /\ AboutToClaim(e) = {}
  BY DEF Init, Writers, AboutToClaim, Done, Call
<1>3. OneClaim /\ Counted /\ BudgetSpent
  BY <1>2 DEF Init, OneClaim, Claimed, Counted, BudgetSpent
<1> QED
  BY <1>1, <1>3 DEF IInv

LEMMA NextIInv == IInv /\ [Next]_vars => IInv'
<1> SUFFICES ASSUME IInv, [Next]_vars PROVE IInv'
  OBVIOUS
<1>1. ASSUME NEW c \in Calls, Work(c)
      PROVE  IInv'
  <2>1. CASE Claim(c)
    BY <2>1, ClaimKeeps
  <2>2. CASE Transfer(c)
    BY <2>2, TransferKeeps
  <2>3. CASE Record(c)
    BY <2>3, RecordKeeps
  <2>4. CASE SetFailed(c)
    BY <2>4, SetFailedKeeps
  <2>5. CASE Retain(c)
    BY <2>5, RetainKeeps
  <2>6. CASE ReadPath(c) \/ Unlink(c)
    BY <2>6, LookKeeps
  <2>7. CASE Reset(c)
    BY <2>7, ResetKeeps
  <2> QED
    BY <1>1, <2>1, <2>2, <2>3, <2>4, <2>5, <2>6, <2>7 DEF Work
<1>2. ASSUME NEW c \in Calls, NEW e \in Episodes, Request(c, e) \/ Retry(c, e)
      PROVE  IInv'
  BY <1>2, BeginKeeps DEF Request, Retry, rowVars, histVars
<1>3. ASSUME NEW c \in Calls, Trim(c)
      PROVE  IInv'
  BY <1>3, LookKeeps
<1>4. ASSUME NEW c \in Calls, NEW e \in Episodes, AskRemoval(c, e)
      PROVE  IInv'
  BY <1>4, LookKeeps
<1>5. CASE ResetStuck
  BY <1>5, ResetStuckKeeps
<1>6. CASE MarkBroken
  BY <1>6, MarkBrokenKeeps
<1>7. CASE Select \/ EndTick \/ (\E e \in Episodes : Age(e)) \/ UNCHANGED vars
  BY <1>7, RestKeeps DEF Select, EndTick, Age, rowVars, tickVars, histVars, vars
<1>8. CASE Restart
  BY <1>8, RestartKeeps
<1> QED
  BY <1>1, <1>2, <1>3, <1>4, <1>5, <1>6, <1>7, <1>8 DEF Next, Recover

LEMMA AlwaysIInv == Spec => []IInv
<1>1. Init => IInv
  BY InitIInv
<1>2. IInv /\ [Next]_vars => IInv'
  BY NextIInv
<1> QED
  BY <1>1, <1>2, PTL DEF Spec

\* One fetch at a time (download_episode's claim): calls that nothing reset under never
\* transfer or record the same episode, for any number of requests, retries, removals,
\* watchdog passes and restarts.
THEOREM FetchesAlone == Spec => []SoleWriter
<1>1. IInv => SoleWriter
  <2> SUFFICES ASSUME IInv, NEW e \in Episodes \ taken
               PROVE  Cardinality(Writers(e)) <= 1
    BY DEF SoleWriter
  <2>1. CASE Writers(e) = {}
    BY <2>1, FS_EmptySet
  <2>2. CASE Writers(e) # {}
    <3>1. PICK c \in Writers(e) : Writers(e) = {c}
      BY <2>2 DEF IInv, OneClaim, Claimed
    <3>2. Cardinality({c}) = 1
      BY FS_Singleton
    <3> QED
      BY <3>1, <3>2
  <2> QED
    BY <2>1, <2>2
<1> QED
  BY <1>1, AlwaysIInv, PTL

\* The server does not give up early (recover_downloads): what it marks broken has had its
\* whole budget of fetches since it was last removed, for any budget.
THEOREM NeverGivenUpEarly == Spec => []BudgetSpent
<1>1. IInv => BudgetSpent
  BY DEF IInv
<1> QED
  BY <1>1, AlwaysIInv, PTL

-----------------------------------------------------------------------------
(* Lists of episodes.                                                      *)

LEMMA LeastOf ==
    ASSUME NEW T, T \subseteq Nat, T # {}
    PROVE  \E x \in T : \A y \in T : x <= y
<1> DEFINE R == OpToRel(<, Nat)
<1>1. \A x, y \in Nat : <<y, x>> \in R <=> y < x
  BY DEF OpToRel
<1>2. IsWellFoundedOn(R, Nat)
  BY NatLessThanWellFounded, Zenon
<1> HIDE DEF R
<1>3. PICK x \in T : \A y \in T : ~(<<y, x>> \in R)
  BY <1>2, WFMin
<1>4. \A y \in T : ~(y < x)
  BY <1>1, <1>3
<1> QED
  BY <1>4

\* What holds of 0 and of the successor of what it holds of holds of every number.
LEMMA InductiveSet ==
    ASSUME NEW S, 0 \in S, \A n \in Nat : n \in S => n + 1 \in S
    PROVE  Nat \subseteq S
<1>1. SUFFICES ASSUME Nat \ S # {} PROVE FALSE
  OBVIOUS
<1>2. PICK x \in Nat \ S : \A y \in Nat \ S : x <= y
  BY <1>1, LeastOf
<1>3. x # 0 /\ x - 1 \in Nat /\ x - 1 \notin Nat \ S
  BY <1>2
<1> QED
  BY <1>2, <1>3

\* Only builds its list from the left: the function that its definition chooses exists.
LEMMA OnlyBuilds ==
    ASSUME NEW E, NEW seq \in Seq(E), NEW S
    PROVE  \E f : /\ \A n \in 1..Len(seq) :
                         f[n] = IF seq[n] \in S THEN Append(f[n - 1], seq[n]) ELSE f[n - 1]
                  /\ f[0] = <<>> /\ Only(seq, S) = f[Len(seq)]
<1> DEFINE After(f, n) == IF n = 0 THEN <<>>
                          ELSE IF seq[n] \in S THEN Append(f[n - 1], seq[n]) ELSE f[n - 1]
           Built(f, m) == f = [n \in 0..m |-> After(f, n)]
           T == {m \in Nat : \E f : Built(f, m)}
<1>1. 0 \in T
  <2> DEFINE f == [n \in 0..0 |-> <<>>]
  <2>1. f = [n \in 0..0 |-> After(f, n)]
    OBVIOUS
  <2>2. Built(f, 0)
    BY <2>1
  <2> QED
    BY <2>2
<1>2. ASSUME NEW m \in Nat, m \in T
      PROVE  m + 1 \in T
  <2>1. PICK f : f = [n \in 0..m |-> After(f, n)]
    BY <1>2
  <2> DEFINE g == [n \in 0..(m + 1) |-> IF n = m + 1 THEN After(f, n) ELSE f[n]]
  <2>2. ASSUME NEW n \in 0..(m + 1)
        PROVE  g[n] = After(g, n)
    <3>1. CASE n = 0
      BY <2>1, <3>1
    <3>2. CASE n # 0
      <4>1. n - 1 \in 0..m /\ n - 1 \in 0..(m + 1) /\ n - 1 # m + 1
        BY <3>2
      <4>2. g[n - 1] = f[n - 1]
        BY <4>1
      <4>3. After(g, n) = After(f, n)
        BY <3>2, <4>2
      <4>4. CASE n = m + 1
        BY <4>3, <4>4
      <4>5. CASE n # m + 1
        <5>1. n \in 0..m
          BY <4>5
        <5>2. f[n] = After(f, n)
          BY <2>1, <5>1, Zenon
        <5> QED
          BY <4>3, <4>5, <5>2
      <4> QED
        BY <4>4, <4>5
    <3> QED
      BY <3>1, <3>2
  <2>3. g = [n \in 0..(m + 1) |-> g[n]]
    OBVIOUS
  <2> HIDE DEF g, After
  <2>4. g = [n \in 0..(m + 1) |-> After(g, n)]
    BY <2>2, <2>3
  <2> QED
    BY <2>4
<1> HIDE DEF T
<1>3. Len(seq) \in T
  BY <1>1, <1>2, InductiveSet
<1>4. \E f : Built(f, Len(seq))
  BY <1>3 DEF T
<1>5. Only(seq, S) = (CHOOSE f : Built(f, Len(seq)))[Len(seq)]
  BY DEF Only
<1>6. PICK f : f = CHOOSE x : Built(x, Len(seq))
  OBVIOUS
<1>7. f = [n \in 0..Len(seq) |-> After(f, n)]
  BY <1>4, <1>6, Zenon
<1>8. Only(seq, S) = f[Len(seq)]
  BY <1>5, <1>6
<1> HIDE DEF Built
<1>9. f[0] = <<>>
  BY <1>7
<1>10. ASSUME NEW n \in 1..Len(seq)
       PROVE  f[n] = IF seq[n] \in S THEN Append(f[n - 1], seq[n]) ELSE f[n - 1]
  <2>1. n \in 0..Len(seq) /\ n # 0
    OBVIOUS
  <2>2. f[n] = After(f, n)
    <3> HIDE DEF After
    <3> QED
      BY <1>7, <2>1
  <2> QED
    BY <2>1, <2>2
<1> QED
  BY <1>8, <1>9, <1>10

Distinct(seq) == \A i, j \in 1..Len(seq) : seq[i] = seq[j] => i = j

LEMMA AppendDistinct ==
    ASSUME NEW E, NEW seq \in Seq(E), NEW e \in E
    PROVE  /\ Append(seq, e) \in Seq(E) /\ ToSet(Append(seq, e)) = ToSet(seq) \cup {e}
           /\ Distinct(seq) /\ e \notin ToSet(seq) => Distinct(Append(seq, e))
<1>1. /\ Append(seq, e) \in Seq(E) /\ Len(Append(seq, e)) = Len(seq) + 1
      /\ \A i \in 1..Len(seq) : Append(seq, e)[i] = seq[i]
      /\ Append(seq, e)[Len(seq) + 1] = e
      /\ DOMAIN seq = 1..Len(seq) /\ DOMAIN Append(seq, e) = 1..(Len(seq) + 1)
  OBVIOUS
<1>2. \A i \in 1..(Len(seq) + 1) : i \in 1..Len(seq) \/ i = Len(seq) + 1
  OBVIOUS
<1>3. ToSet(Append(seq, e)) = ToSet(seq) \cup {e}
  BY <1>1, <1>2 DEF ToSet
<1>4. Distinct(seq) /\ e \notin ToSet(seq) => Distinct(Append(seq, e))
  BY <1>1, <1>2 DEF ToSet, Distinct
<1> QED
  BY <1>1, <1>3, <1>4

\* Only keeps what it should, and no episode twice.
LEMMA OnlyIs ==
    ASSUME NEW E, NEW seq \in Seq(E), NEW S
    PROVE  /\ Only(seq, S) \in Seq(E) /\ ToSet(Only(seq, S)) = ToSet(seq) \cap S
           /\ Distinct(seq) => Distinct(Only(seq, S))
<1>1. PICK f : /\ \A n \in 1..Len(seq) :
                       f[n] = IF seq[n] \in S THEN Append(f[n - 1], seq[n]) ELSE f[n - 1]
               /\ f[0] = <<>> /\ Only(seq, S) = f[Len(seq)]
  BY OnlyBuilds
<1> DEFINE Fits(n) == /\ f[n] \in Seq(E) /\ ToSet(f[n]) = {seq[i] : i \in 1..n} \cap S
                      /\ Distinct(seq) => Distinct(f[n])
           T == {n \in Nat : n <= Len(seq) => Fits(n)}
<1>2. 0 \in T
  <2>1. f[0] \in Seq(E) /\ ToSet(f[0]) = {} /\ Distinct(f[0])
    BY <1>1 DEF ToSet, Distinct
  <2> QED
    BY <2>1
<1>3. ASSUME NEW n \in Nat, n \in T
      PROVE  n + 1 \in T
  <2>1. SUFFICES ASSUME n + 1 <= Len(seq)
                 PROVE  Fits(n + 1)
    OBVIOUS
  <2>2. Fits(n) /\ n + 1 \in 1..Len(seq) /\ seq[n + 1] \in E /\ (n + 1) - 1 = n
    BY <1>3, <2>1
  <2>3. {seq[i] : i \in 1..(n + 1)} = {seq[i] : i \in 1..n} \cup {seq[n + 1]}
    <3>1. \A i \in 1..(n + 1) : i \in 1..n \/ i = n + 1
      OBVIOUS
    <3> QED
      BY <3>1
  <2>4. Distinct(seq) => seq[n + 1] \notin {seq[i] : i \in 1..n}
    BY <2>2 DEF Distinct
  <2>5. CASE seq[n + 1] \in S
    <3>1. f[n + 1] = Append(f[n], seq[n + 1])
      BY <1>1, <2>2, <2>5
    <3>2. f[n] \in Seq(E) /\ ToSet(f[n]) = {seq[i] : i \in 1..n} \cap S
      BY <2>2
    <3>3. /\ f[n + 1] \in Seq(E) /\ ToSet(f[n + 1]) = ToSet(f[n]) \cup {seq[n + 1]}
          /\ Distinct(f[n]) /\ seq[n + 1] \notin ToSet(f[n]) => Distinct(f[n + 1])
      BY <2>2, <3>1, <3>2, AppendDistinct
    <3>4. ToSet(f[n + 1]) = {seq[i] : i \in 1..(n + 1)} \cap S
      BY <2>3, <2>5, <3>2, <3>3
    <3>5. Distinct(seq) => Distinct(f[n + 1])
      BY <2>2, <2>4, <3>2, <3>3
    <3> QED
      BY <3>3, <3>4, <3>5
  <2>6. CASE seq[n + 1] \notin S
    <3>1. f[n + 1] = f[n]
      BY <1>1, <2>2, <2>6
    <3> QED
      BY <2>2, <2>3, <2>6, <3>1
  <2> QED
    BY <2>5, <2>6
<1> HIDE DEF T
<1>4. Len(seq) \in T
  BY <1>2, <1>3, InductiveSet
<1>5. Fits(Len(seq))
  BY <1>4 DEF T
<1>6. ToSet(seq) = {seq[i] : i \in 1..Len(seq)}
  BY DEF ToSet
<1> QED
  BY <1>1, <1>5, <1>6

\* As many episodes as places, when none comes twice; and never more behind a place than there are.
LEMMA DistinctCounts ==
    ASSUME NEW E, NEW seq \in Seq(E), Distinct(seq)
    PROVE  Cardinality(ToSet(seq)) = Len(seq)
<1>1. seq \in [1..Len(seq) -> ToSet(seq)] /\ \A e \in ToSet(seq) : \E i \in 1..Len(seq) : seq[i] = e
  BY DEF ToSet
<1>2. seq \in Bijection(1..Len(seq), ToSet(seq))
  BY <1>1, Fun_IsBij DEF Distinct
<1>3. IsFiniteSet(1..Len(seq)) /\ Cardinality(1..Len(seq)) = Len(seq)
  <2>1. PICK n \in Nat : n = Len(seq)
    OBVIOUS
  <2>2. 1 \in Int /\ n \in Int
    OBVIOUS
  <2>3. IsFiniteSet(1..n) /\ Cardinality(1..n) = (IF 1 > n THEN 0 ELSE n - 1 + 1)
    BY <2>2, FS_Interval
  <2> QED
    BY <2>1, <2>3
<1> QED
  BY <1>2, <1>3, FS_Bijection DEF ExistsBijection

LEMMA FewBehind ==
    ASSUME NEW E, NEW seq \in Seq(E), NEW a \in 0..Len(seq)
    PROVE  /\ IsFiniteSet({seq[i] : i \in (a + 1)..Len(seq)})
           /\ Cardinality({seq[i] : i \in (a + 1)..Len(seq)}) <= Len(seq) - a
<1> DEFINE places == (a + 1)..Len(seq)
           T == {seq[i] : i \in places}
           f == [i \in places |-> seq[i]]
<1>1. f \in Surjection(places, T)
  <2>1. f \in [places -> T] /\ \A e \in T : \E i \in places : f[i] = e
    OBVIOUS
  <2> HIDE DEF f, T, places
  <2> QED
    BY <2>1, Fun_IsSurj
<1>2. IsFiniteSet(places) /\ Cardinality(places) = Len(seq) - a
  <2>1. PICK n \in Nat : n = Len(seq)
    OBVIOUS
  <2>2. PICK b \in Int : b = a + 1
    BY <2>1
  <2>3. IsFiniteSet(b..n) /\ Cardinality(b..n) = (IF b > n THEN 0 ELSE n - b + 1)
    <3>1. b \in Int /\ n \in Int
      BY <2>1
    <3> QED
      BY <3>1, FS_Interval
  <2> QED
    BY <2>1, <2>2, <2>3
<1> HIDE DEF f, T, places
<1>3. IsFiniteSet(T) /\ Cardinality(T) <= Len(seq) - a
  BY <1>1, <1>2, FS_Surjection
<1> QED
  BY <1>3 DEF T, places

-----------------------------------------------------------------------------
(* The cap.  What a retention pass has considered is on the shelf it read, *)
(* and what it keeps is all that may be left once the surplus it handed    *)
(* out is removed; until then the surplus is in the hands of a call.       *)

Kinds == {"none", "request", "recovery", "removal"}
Removing == {"read", "unlink", "reset"}
Targeted == Removing \cup {"claim", "fetch", "landed", "failed", "refused"}
Slot == [kind : Kinds, pc : CallPhases, todo : Seq(Episodes), seen : Nat]

\* A call at work on an episode has one.
Listed ==
    /\ call \in [Calls -> Slot]
    /\ \A c \in Calls : call[c].pc \in Targeted => call[c].todo # <<>>

Marked ==
    /\ started \in [Episodes -> {"none", "recent", "old"}]
    /\ tick \in {"asleep", "cap", "select", "retry"} /\ batch \subseteq Episodes
    /\ asked \in Nat /\ trouble \in Nat
    /\ files \subseteq Episodes
    /\ untrimmed \subseteq Episodes /\ taken \subseteq Episodes

\* No episode is on the shelf twice, and every copy is there.
Shelved ==
    /\ shelf \in Seq(Episodes) /\ Distinct(shelf)
    /\ \A e \in Episodes : status[e] = "Downloaded" => e \in ToSet(shelf)

Considered == {e \in Episodes : status[e] = "Downloaded"} \ untrimmed
Carries(c, e) == call[c].pc \in Removing /\ e \in ToSet(call[c].todo)
InHand == {e \in Episodes : \E c \in Calls : Carries(c, e)}

\* Unless a pass is still to come, the considered copies nobody is removing are within the cap.
Trimmed ==
    Keep > 0 /\ (\A c \in Calls : call[c].pc # "retain") => Cardinality(Considered \ InHand) <= Keep

CapInv == IInv /\ Listed /\ Marked /\ Shelved /\ Trimmed

LEMMA ConsideredFinite == IsFiniteSet(Considered) /\ IsFiniteSet(Considered \ InHand)
<1>1. Considered \subseteq Episodes /\ Considered \ InHand \subseteq Episodes
  BY DEF Considered
<1> QED
  BY <1>1, EpisodeAssumption, FS_Subset

\* A call that was not to make a pass, or still is, does no harm to the cap if nothing new is
\* considered and the call still carries what it carried.
LEMMA TurnTrims ==
    ASSUME Trimmed, NEW c \in Calls, \A d \in Calls \ {c} : call'[d] = call[d],
           call[c].pc # "retain" \/ call'[c].pc = "retain",
           \/ call'[c].pc = "retain"
           \/ \A e \in Considered' : e \in Considered /\ (Carries(c, e) => Carries(c, e)')
    PROVE  Trimmed'
<1>1. SUFFICES ASSUME Keep > 0, \A d \in Calls : call'[d].pc # "retain"
               PROVE  Cardinality(Considered' \ InHand') <= Keep
  BY DEF Trimmed
<1>2. \A d \in Calls : call[d].pc # "retain"
  BY <1>1
<1>3. Considered' \ InHand' \subseteq Considered \ InHand
  <2> SUFFICES ASSUME NEW e \in Considered', e \notin InHand'
               PROVE  e \in Considered /\ e \notin InHand
    OBVIOUS
  <2>1. e \in Considered /\ (Carries(c, e) => Carries(c, e)') /\ e \in Episodes
    BY <1>1 DEF Considered
  <2>2. \A d \in Calls \ {c} : Carries(d, e) => Carries(d, e)'
    BY DEF Carries
  <2>3. \A d \in Calls : ~Carries(d, e)'
    BY <2>1 DEF InHand
  <2> QED
    BY <2>1, <2>2, <2>3 DEF InHand
<1>4. Cardinality(Considered \ InHand) <= Keep
  BY <1>1, <1>2 DEF Trimmed
<1>5. Cardinality(Considered' \ InHand') <= Cardinality(Considered \ InHand)
  BY <1>3, ConsideredFinite, FS_Subset
<1>6. /\ Cardinality(Considered \ InHand) \in Nat /\ Cardinality(Considered' \ InHand') \in Nat
      /\ Keep \in Nat
  <2>1. IsFiniteSet(Considered' \ InHand')
    BY <1>3, ConsideredFinite, FS_Subset
  <2> QED
    BY <2>1, ConsideredFinite, FS_CardinalityType, DownloadLimitAssumption
<1> QED
  BY <1>4, <1>5, <1>6

LEMMA BecomeLists ==
    ASSUME Listed, NEW c \in Calls, NEW kind \in Kinds, NEW pc \in CallPhases,
           NEW todo \in Seq(Episodes), NEW seen \in Nat, pc \in Targeted => todo # <<>>,
           Become(c, Call(kind, pc, todo, seen))
    PROVE  /\ Listed' /\ \A d \in Calls \ {c} : call'[d] = call[d]
           /\ call'[c].pc = pc /\ call'[c].todo = todo
<1> DEFINE new == Call(kind, pc, todo, seen)
<1>1. new \in Slot /\ new.pc = pc /\ new.todo = todo
  BY DEF Call, Slot
<1> HIDE DEF new
<1>2. call' = [call EXCEPT ![c] = new]
  BY DEF Become, new
<1>3. call' \in [Calls -> Slot] /\ call'[c] = new /\ \A d \in Calls \ {c} : call'[d] = call[d]
  BY <1>1, <1>2 DEF Listed
<1> QED
  BY <1>1, <1>3 DEF Listed

LEMMA GoToLists ==
    ASSUME Listed, NEW c \in Calls, NEW pc \in CallPhases,
           pc \in Targeted => call[c].todo # <<>>, GoTo(c, pc)
    PROVE  /\ Listed' /\ \A d \in Calls \ {c} : call'[d] = call[d]
           /\ call'[c].pc = pc /\ call'[c].todo = call[c].todo
<1>1. call[c] \in Slot
  BY DEF Listed
<1>2. PICK new : new = Call(call[c].kind, pc, call[c].todo, call[c].seen)
  OBVIOUS
<1>3. [call[c] EXCEPT !.pc = pc] = new
  BY <1>1, <1>2 DEF Slot, Call
<1>4. Become(c, Call(call[c].kind, pc, call[c].todo, call[c].seen))
  BY <1>2, <1>3 DEF GoTo, Become
<1>5. call[c].kind \in Kinds /\ call[c].todo \in Seq(Episodes) /\ call[c].seen \in Nat
  BY <1>1 DEF Slot
<1> QED
  BY <1>4, <1>5, BecomeLists

LEMMA DoneLists ==
    ASSUME Listed, NEW c \in Calls, Become(c, Done)
    PROVE  /\ Listed' /\ \A d \in Calls \ {c} : call'[d] = call[d]
           /\ call'[c].pc = "idle"
<1>1. "none" \in Kinds /\ "idle" \in CallPhases /\ "idle" \notin Targeted
  BY DEF Kinds, CallPhases, Targeted, Removing
<1>2. <<>> \in Seq(Episodes) /\ 0 \in Nat
  OBVIOUS
<1> QED
  BY <1>1, <1>2, BecomeLists DEF Done

LEMMA AfterDownloadLists ==
    ASSUME Listed, NEW c \in Calls, AfterDownload(c)
    PROVE  /\ Listed' /\ \A d \in Calls \ {c} : call'[d] = call[d]
           /\ call'[c].pc = IF call[c].kind = "request" THEN "retain" ELSE "idle"
<1>1. CASE call[c].kind = "request"
  <2>1. GoTo(c, "retain") /\ "retain" \in CallPhases /\ "retain" \notin Targeted
    BY <1>1 DEF AfterDownload, CallPhases, Targeted, Removing
  <2> QED
    BY <1>1, <2>1, GoToLists
<1>2. CASE call[c].kind # "request"
  BY <1>2, DoneLists DEF AfterDownload
<1> QED
  BY <1>1, <1>2

LEMMA BeginLists ==
    ASSUME Types, Listed, NEW c \in Calls, NEW e \in Episodes, NEW kind \in Kinds, Begin(c, e, kind)
    PROVE  /\ Listed' /\ \A d \in Calls \ {c} : call'[d] = call[d]
           /\ call'[c].pc \in {"claim", "retain", "idle"}
<1>1. attempts[e] \in Nat /\ 0 \in Nat
  BY DEF Types
<1> PICK one : one = <<e>>
  OBVIOUS
<1>6. one \in Seq(Episodes) /\ one # <<>>
  OBVIOUS
<1>2. "claim" \in CallPhases /\ "retain" \in CallPhases
  BY DEF CallPhases
<1>3. CASE status[e] \notin Busy
  <2>1. Become(c, Call(kind, "claim", one, attempts[e]))
    BY <1>3 DEF Begin
  <2>2. PICK seen \in Nat : seen = attempts[e]
    BY <1>1
  <2>3. Become(c, Call(kind, "claim", one, seen))
    BY <2>1, <2>2
  <2> HIDE DEF Listed, CallPhases, Kinds
  <2>4. Listed' /\ (\A d \in Calls \ {c} : call'[d] = call[d]) /\ call'[c].pc = "claim"
    BY <1>2, <1>6, <2>3, BecomeLists
  <2> QED
    BY <2>4
<1>4. CASE status[e] \in Busy /\ kind = "request"
  <2>1. Become(c, Call(kind, "retain", one, 0))
    BY <1>4 DEF Begin
  <2> QED
    BY <1>1, <1>2, <1>6, <2>1, BecomeLists
<1>5. CASE status[e] \in Busy /\ kind # "request"
  BY <1>5, DoneLists DEF Begin
<1> QED
  BY <1>3, <1>4, <1>5

\* The episode a call is at work on.
LEMMA TargetOf ==
    ASSUME Listed, NEW c \in Calls, call[c].pc \in Targeted
    PROVE  Target(c) \in Episodes
<1>1. call[c].todo \in Seq(Episodes) /\ call[c].todo # <<>>
  BY DEF Listed, Slot
<1> QED
  BY <1>1 DEF Target

\* What the first is and what the others are.
LEMMA HeadAndTail ==
    ASSUME NEW E, NEW seq \in Seq(E), seq # <<>>
    PROVE  Tail(seq) \in Seq(E) /\ ToSet(seq) = {Head(seq)} \cup ToSet(Tail(seq))
<1>1. /\ Len(seq) >= 1 /\ Len(seq) \in Nat /\ Tail(seq) \in Seq(E) /\ Len(Tail(seq)) = Len(seq) - 1
      /\ Head(seq) = seq[1] /\ \A i \in 1..(Len(seq) - 1) : Tail(seq)[i] = seq[i + 1]
      /\ DOMAIN seq = 1..Len(seq) /\ DOMAIN Tail(seq) = 1..Len(Tail(seq))
  OBVIOUS
<1>2. \A i \in 1..Len(seq) : i = 1 \/ (i - 1 \in 1..(Len(seq) - 1) /\ (i - 1) + 1 = i)
  BY <1>1
<1>3. \A i \in 1..Len(seq) : seq[i] = Head(seq) \/ \E j \in 1..Len(Tail(seq)) : Tail(seq)[j] = seq[i]
  BY <1>1, <1>2
<1>4. 1 \in 1..Len(seq) /\ \A j \in 1..Len(Tail(seq)) : j + 1 \in 1..Len(seq) /\ Tail(seq)[j] = seq[j + 1]
  BY <1>1
<1>5. PICK rest : rest = Tail(seq)
  OBVIOUS
<1>6. ASSUME NEW x \in ToSet(seq)
      PROVE  x = Head(seq) \/ x \in ToSet(rest)
  <2>1. PICK i \in 1..Len(seq) : x = seq[i]
    BY <1>1 DEF ToSet
  <2>2. CASE \E j \in 1..Len(rest) : rest[j] = seq[i]
    BY <1>1, <1>5, <2>1, <2>2 DEF ToSet
  <2> QED
    BY <1>3, <1>5, <2>1, <2>2
<1>7. Head(seq) \in ToSet(seq) /\ \A x \in ToSet(rest) : x \in ToSet(seq)
  BY <1>1, <1>4, <1>5 DEF ToSet
<1> QED
  BY <1>1, <1>5, <1>6, <1>7

-----------------------------------------------------------------------------
(* One lemma for each operation.                                           *)

Rest == Listed /\ Marked /\ Shelved /\ Trimmed

LEMMA BeginCaps ==
    ASSUME CapInv, NEW c \in Calls, NEW e \in Episodes, Request(c, e) \/ Retry(c, e)
    PROVE  Rest'
<1>1. /\ \E kind \in Kinds : Begin(c, e, kind)
      /\ call[c].pc = "idle" /\ UNCHANGED <<rowVars, files, histVars>>
      /\ tick' = tick /\ batch' \subseteq batch /\ trouble' = trouble
      /\ asked' \in {asked, asked + 1}
  BY DEF Request, Retry, Kinds, Free, Ask, tickVars
<1>2. /\ Listed' /\ \A d \in Calls \ {c} : call'[d] = call[d]
  BY <1>1, BeginLists DEF CapInv, IInv
<1>3. Marked' /\ Shelved'
  BY <1>1 DEF CapInv, Marked, Shelved, rowVars, histVars
<1>4. Trimmed'
  BY <1>1, <1>2, TurnTrims DEF CapInv, Considered, Carries, Removing, rowVars, histVars
<1> QED
  BY <1>2, <1>3, <1>4 DEF Rest

LEMMA ClaimCaps ==
    ASSUME CapInv, NEW c \in Calls, Claim(c)
    PROVE  Rest'
<1>1. call[c].pc = "claim" /\ Target(c) \in Episodes /\ call[c].todo # <<>>
  BY TargetOf DEF Claim, CapInv, Listed, Targeted
<1>2. /\ Listed' /\ \A d \in Calls \ {c} : call'[d] = call[d]
  <2>1. CASE Claimable(Target(c))
    <3>1. GoTo(c, "fetch") /\ "fetch" \in CallPhases
      BY <2>1 DEF Claim, CallPhases
    <3> QED
      BY <1>1, <3>1, GoToLists DEF CapInv
  <2>2. CASE ~Claimable(Target(c))
    <3>1. AfterDownload(c)
      BY <2>2 DEF Claim
    <3> QED
      BY <3>1, AfterDownloadLists DEF CapInv
  <2> QED
    BY <2>1, <2>2
<1>3. /\ \A e \in Episodes : status'[e] = "Downloaded" => status[e] = "Downloaded"
      /\ started' \in [Episodes -> {"none", "recent", "old"}]
      /\ UNCHANGED <<shelf, files, tickVars, asked, trouble, untrimmed, taken>>
  BY <1>1 DEF Claim, CapInv, IInv, Types, Marked
<1>4. Marked' /\ Shelved'
  BY <1>3 DEF CapInv, Marked, Shelved, tickVars
<1>5. Trimmed'
  BY <1>1, <1>2, <1>3, TurnTrims DEF CapInv, Considered, Carries, Removing
<1> QED
  BY <1>2, <1>4, <1>5 DEF Rest

LEMMA TransferCaps ==
    ASSUME CapInv, NEW c \in Calls, Transfer(c)
    PROVE  Rest'
<1>1. call[c].pc = "fetch" /\ Target(c) \in Episodes /\ call[c].todo # <<>>
  BY TargetOf DEF Transfer, CapInv, Listed, Targeted
<1>2. \E pc \in {"landed", "failed", "refused"} : GoTo(c, pc) /\ pc \in CallPhases
  BY DEF Transfer, CallPhases
<1>3. /\ Listed' /\ \A d \in Calls \ {c} : call'[d] = call[d]
  BY <1>1, <1>2, GoToLists DEF CapInv
<1>4. files' \subseteq Episodes /\ UNCHANGED <<rowVars, tickVars, asked, trouble, histVars>>
  BY <1>1 DEF Transfer, CapInv, Marked
<1>5. Marked' /\ Shelved'
  BY <1>4 DEF CapInv, Marked, Shelved, rowVars, tickVars, histVars
<1>6. Trimmed'
  BY <1>1, <1>3, <1>4, TurnTrims DEF CapInv, Considered, Carries, Removing, rowVars, histVars
<1> QED
  BY <1>3, <1>5, <1>6 DEF Rest

LEMMA RecordCaps ==
    ASSUME CapInv, NEW c \in Calls, Record(c)
    PROVE  Rest'
<1>1. PICK e \in Episodes : e = Target(c)
  BY TargetOf DEF Record, CapInv, Targeted
<1>2. /\ call[c].pc = "landed" /\ UNCHANGED <<attempts, started, files, tickVars, asked, fetches>>
      /\ taken' \subseteq Episodes
  BY DEF Record, Leave, CapInv, Marked
<1>3. CASE /\ status' = [status EXCEPT ![e] = "Downloaded"]
           /\ shelf' = Append(Only(shelf, Episodes \ {e}), e)
           /\ untrimmed' = IF call[c].kind = "request" THEN untrimmed \ {e} ELSE untrimmed \cup {e}
           /\ AfterDownload(c)
           /\ UNCHANGED trouble
  <2>1. /\ Listed' /\ \A d \in Calls \ {c} : call'[d] = call[d]
        /\ call'[c].pc = IF call[c].kind = "request" THEN "retain" ELSE "idle"
    BY <1>3, AfterDownloadLists DEF CapInv
  <2>2. /\ Only(shelf, Episodes \ {e}) \in Seq(Episodes) /\ Distinct(Only(shelf, Episodes \ {e}))
        /\ ToSet(Only(shelf, Episodes \ {e})) = ToSet(shelf) \cap (Episodes \ {e})
    BY OnlyIs DEF CapInv, Shelved
  <2>3. /\ shelf' \in Seq(Episodes) /\ Distinct(shelf')
        /\ ToSet(shelf') = ToSet(Only(shelf, Episodes \ {e})) \cup {e}
    <3>1. PICK left \in Seq(Episodes) : left = Only(shelf, Episodes \ {e})
      BY <2>2
    <3>2. e \notin ToSet(left) /\ Distinct(left) /\ shelf' = Append(left, e)
      BY <1>3, <2>2, <3>1
    <3> QED
      BY <3>1, <3>2, AppendDistinct, ZenonT(30)
  <2>4. \A x \in Episodes : status'[x] = "Downloaded" => x = e \/ status[x] = "Downloaded"
    BY <1>3 DEF CapInv, IInv, Types
  <2>5. Shelved'
    BY <2>2, <2>3, <2>4 DEF CapInv, Shelved
  <2>6. Marked'
    BY <1>2, <1>3 DEF CapInv, Marked, tickVars
  <2>7. Trimmed'
    <3>1. call'[c].pc = "retain" \/ \A x \in Considered' : x \in Considered
      BY <1>3, <2>1, <2>4 DEF Considered
    <3>2. \A x : ~Carries(c, x)
      BY <1>2 DEF Carries, Removing
    <3> QED
      BY <1>2, <2>1, <3>1, <3>2, TurnTrims DEF CapInv
  <2> QED
    BY <2>1, <2>5, <2>6, <2>7 DEF Rest
<1>4. CASE Trouble /\ Become(c, Done) /\ UNCHANGED <<status, shelf, untrimmed>>
  <2>1. /\ Listed' /\ \A d \in Calls \ {c} : call'[d] = call[d]
    BY <1>4, DoneLists DEF CapInv
  <2>2. Marked' /\ Shelved'
    BY <1>2, <1>4 DEF CapInv, Marked, Shelved, tickVars, Trouble
  <2>3. Trimmed'
    BY <1>2, <1>4, <2>1, TurnTrims DEF CapInv, Considered, Carries, Removing
  <2> QED
    BY <2>1, <2>2, <2>3 DEF Rest
<1> QED
  BY <1>1, <1>3, <1>4 DEF Record

LEMMA SetFailedCaps ==
    ASSUME CapInv, NEW c \in Calls, SetFailed(c)
    PROVE  Rest'
<1>1. Target(c) \in Episodes /\ call[c].pc \in {"failed", "refused"}
  BY TargetOf DEF SetFailed, CapInv, Targeted
<1>2. /\ Listed' /\ \A d \in Calls \ {c} : call'[d] = call[d]
  BY DoneLists DEF SetFailed, CapInv
<1>3. /\ \A e \in Episodes : status'[e] = "Downloaded" => status[e] = "Downloaded"
      /\ UNCHANGED <<attempts, started, shelf, files, tickVars, asked, fetches, untrimmed>>
      /\ trouble' \in Nat /\ taken' \subseteq Episodes
  BY <1>1 DEF SetFailed, Verdict, Trouble, Leave, CapInv, IInv, Types, Marked
<1>4. Marked' /\ Shelved'
  BY <1>3 DEF CapInv, Marked, Shelved, tickVars
<1>5. Trimmed'
  BY <1>1, <1>2, <1>3, TurnTrims DEF CapInv, Considered, Carries, Removing
<1> QED
  BY <1>2, <1>4, <1>5 DEF Rest

\* What a pass hands out and what it leaves: as many of the copies as the cap allows.
LEMMA SurplusIs ==
    ASSUME NEW E, NEW copies \in Seq(E), NEW k \in Nat, Excess(copies) > 0, k = Excess(copies),
           NEW surplus, surplus = Reverse(SubSeq(copies, 1, k))
    PROVE  /\ surplus \in Seq(E) /\ surplus # <<>>
           /\ ToSet(surplus) = {copies[i] : i \in 1..k}
<1>1. PICK n \in Nat : n = Len(copies)
  OBVIOUS
<1>2. k \in 1..n
  BY <1>1, DownloadLimitAssumption DEF Excess
<1>3. PICK old : old = SubSeq(copies, 1, k)
  OBVIOUS
<1>4. old \in Seq(E) /\ Len(old) = k /\ \A i \in 1..k : old[i] = copies[i]
  BY <1>1, <1>2, <1>3
<1>5. surplus = [i \in 1..k |-> old[(k - i) + 1]]
  BY <1>3, <1>4 DEF Reverse
<1>6. \A i \in 1..k : (k - i) + 1 \in 1..k /\ (k - ((k - i) + 1)) + 1 = i
  OBVIOUS
<1>7. \A i \in 1..k : old[i] \in E
  BY <1>4
<1>8. surplus \in Seq(E) /\ Len(surplus) = k /\ DOMAIN surplus = 1..k
  <2>1. surplus \in [1..k -> E]
    BY <1>5, <1>6, <1>7
  <2> QED
    BY <2>1
<1>9. ToSet(surplus) = {surplus[i] : i \in 1..k}
  BY <1>8 DEF ToSet
<1>10. ToSet(surplus) = {old[i] : i \in 1..k}
  <2>1. \A i \in 1..k : surplus[i] = old[(k - i) + 1]
    BY <1>5
  <2>2. ASSUME NEW i \in 1..k
        PROVE  \E j \in 1..k : surplus[j] = old[i]
    <3>1. PICK j \in 1..k : j = (k - i) + 1 /\ (k - j) + 1 = i
      BY <1>6
    <3> QED
      BY <2>1, <3>1
  <2>3. \A i \in 1..k : \E j \in 1..k : surplus[i] = old[j]
    BY <1>6, <2>1
  <2>4. ToSet(surplus) \subseteq {old[i] : i \in 1..k}
    BY <1>9, <2>3
  <2>5. {old[i] : i \in 1..k} \subseteq ToSet(surplus)
    BY <1>9, <2>2
  <2> QED
    BY <2>4, <2>5
<1> QED
  BY <1>2, <1>4, <1>8, <1>10

\* What is downloaded and no call is removing fits under the cap once c has read the shelf.
LEMMA PassLeavesCap ==
    ASSUME NEW copies \in Seq(Episodes), NEW surplus, Keep > 0,
           surplus = IF Keep = 0 \/ Excess(copies) <= 0 THEN <<>>
                     ELSE Reverse(SubSeq(copies, 1, Excess(copies)))
    PROVE  /\ IsFiniteSet(ToSet(copies) \ ToSet(surplus))
           /\ Cardinality(ToSet(copies) \ ToSet(surplus)) <= Keep
<1>1. PICK n \in Nat : n = Len(copies)
  OBVIOUS
<1>2. ToSet(copies) = {copies[i] : i \in 1..n} /\ Keep \in Nat /\ Excess(copies) = n - Keep
  BY <1>1, DownloadLimitAssumption DEF ToSet, Excess
<1>3. PICK a \in 0..n : /\ a = IF n - Keep <= 0 THEN 0 ELSE n - Keep
                        /\ ToSet(surplus) = {copies[i] : i \in 1..a}
  <2>1. CASE n - Keep <= 0
    <3>1. surplus = <<>> /\ ToSet(<<>>) = {}
      BY <1>2, <2>1 DEF ToSet
    <3> QED
      BY <2>1, <3>1
  <2>2. CASE ~(n - Keep <= 0)
    <3>1. PICK k \in Nat : k = Excess(copies)
      BY <1>2, <2>2
    <3>2. surplus = Reverse(SubSeq(copies, 1, k)) /\ Excess(copies) > 0
      BY <1>2, <2>2, <3>1
    <3>3. ToSet(surplus) = {copies[i] : i \in 1..k}
      BY <3>1, <3>2, SurplusIs
    <3> QED
      BY <1>2, <2>2, <3>1, <3>3
  <2> QED
    BY <2>1, <2>2
<1>4. PICK left : left = {copies[i] : i \in (a + 1)..n}
  OBVIOUS
<1>5. IsFiniteSet(left) /\ Cardinality(left) <= n - a
  BY <1>1, <1>4, FewBehind
<1>6. ToSet(copies) \ ToSet(surplus) \subseteq left
  <2>1. \A i \in 1..n : i \in 1..a \/ i \in (a + 1)..n
    OBVIOUS
  <2> QED
    BY <1>2, <1>3, <1>4, <2>1
<1>7. n - a <= Keep
  BY <1>2, <1>3
<1>8. /\ IsFiniteSet(ToSet(copies) \ ToSet(surplus))
      /\ Cardinality(ToSet(copies) \ ToSet(surplus)) <= Cardinality(left)
  BY <1>5, <1>6, FS_Subset
<1> QED
  BY <1>2, <1>5, <1>7, <1>8, FS_CardinalityType

LEMMA RetainCaps ==
    ASSUME CapInv, NEW c \in Calls, Retain(c)
    PROVE  Rest'
<1>1. PICK copies, surplus :
          /\ copies = Only(shelf, {e \in Episodes : status[e] = "Downloaded"})
          /\ surplus = IF Keep = 0 \/ Excess(copies) <= 0 THEN <<>>
                       ELSE Reverse(SubSeq(copies, 1, Excess(copies)))
          /\ call[c].pc = "retain"
          /\ Become(c, IF surplus = <<>> THEN Done ELSE Call("request", "read", surplus, 0))
          /\ untrimmed' = untrimmed \ ToSet(copies)
          /\ UNCHANGED <<rowVars, files, tickVars, asked, trouble, fetches, taken>>
  BY DEF Retain
<1>2. copies \in Seq(Episodes) /\ ToSet(copies) = {e \in Episodes : status[e] = "Downloaded"}
  <2>1. copies \in Seq(Episodes)
    BY <1>1, OnlyIs DEF CapInv, Shelved
  <2>2. ToSet(copies) = ToSet(shelf) \cap {e \in Episodes : status[e] = "Downloaded"}
    BY <1>1, OnlyIs DEF CapInv, Shelved
  <2> QED
    BY <2>1, <2>2 DEF CapInv, Shelved
<1>3. /\ Listed' /\ \A d \in Calls \ {c} : call'[d] = call[d]
      /\ surplus # <<>> => call'[c].pc = "read" /\ call'[c].todo = surplus
  <2>1. CASE surplus = <<>>
    BY <1>1, <2>1, DoneLists DEF CapInv
  <2>2. CASE surplus # <<>>
    <3>1. PICK n \in Nat : n = Len(copies)
      BY <1>2
    <3>2. Excess(copies) > 0 /\ Excess(copies) = n - Keep /\ Keep \in Nat
      BY <1>1, <2>2, <3>1, DownloadLimitAssumption DEF Excess
    <3>3. PICK k \in Nat : k = Excess(copies)
      BY <3>2
    <3>4. surplus = Reverse(SubSeq(copies, 1, k))
      BY <1>1, <2>2, <3>3
    <3>5. surplus \in Seq(Episodes)
      BY <1>2, <3>2, <3>3, <3>4, SurplusIs
    <3>6. "request" \in Kinds /\ "read" \in CallPhases /\ 0 \in Nat
      BY DEF Kinds, CallPhases
    <3>7. Become(c, Call("request", "read", surplus, 0))
      BY <1>1, <2>2
    <3> QED
      BY <2>2, <3>5, <3>6, <3>7, BecomeLists DEF CapInv
  <2> QED
    BY <2>1, <2>2
<1>4. Marked' /\ Shelved'
  BY <1>1 DEF CapInv, Marked, Shelved, rowVars, tickVars
<1>5. Trimmed'
  <2>1. SUFFICES ASSUME Keep > 0
                 PROVE  Cardinality(Considered' \ InHand') <= Keep
    BY DEF Trimmed
  <2>2. PICK left : left = ToSet(copies) \ ToSet(surplus)
    OBVIOUS
  <2>3. IsFiniteSet(left) /\ Cardinality(left) <= Keep
    BY <1>1, <1>2, <2>1, <2>2, PassLeavesCap
  <2>4. Considered' \ InHand' \subseteq left
    <3> SUFFICES ASSUME NEW e \in Considered', e \notin InHand'
                 PROVE  e \in left
      OBVIOUS
    <3>1. e \in Episodes /\ status[e] = "Downloaded"
      BY <1>1 DEF Considered, rowVars
    <3>2. ~Carries(c, e)'
      BY <3>1 DEF InHand
    <3>3. CASE surplus = <<>>
      <4>1. e \notin ToSet(surplus)
        BY <3>3 DEF ToSet
      <4> QED
        BY <1>2, <2>2, <3>1, <4>1
    <3>4. CASE surplus # <<>>
      <4>1. e \notin ToSet(surplus)
        BY <1>3, <3>2, <3>4 DEF Carries, Removing
      <4> QED
        BY <1>2, <2>2, <3>1, <4>1
    <3> QED
      BY <3>3, <3>4
  <2>5. /\ IsFiniteSet(Considered' \ InHand')
        /\ Cardinality(Considered' \ InHand') <= Cardinality(left)
    BY <2>3, <2>4, FS_Subset
  <2> QED
    BY <2>3, <2>5, FS_CardinalityType, DownloadLimitAssumption
<1> QED
  BY <1>3, <1>4, <1>5 DEF Rest

LEMMA TrimCaps ==
    ASSUME CapInv, NEW c \in Calls, Trim(c)
    PROVE  Rest'
<1>1. /\ call[c].pc = "idle" /\ Become(c, Call("request", "retain", <<>>, 0))
      /\ asked' = asked + 1 /\ UNCHANGED <<rowVars, files, tickVars, trouble, histVars>>
  BY DEF Trim, Free, Ask
<1>2. /\ Listed' /\ \A d \in Calls \ {c} : call'[d] = call[d]
      /\ call'[c].pc = "retain"
  <2>1. "request" \in Kinds /\ "retain" \in CallPhases /\ "retain" \notin Targeted
    BY DEF Kinds, CallPhases, Targeted, Removing
  <2>2. <<>> \in Seq(Episodes) /\ 0 \in Nat
    OBVIOUS
  <2>3. Listed
    BY DEF CapInv
  <2>4. "retain" \in Targeted => <<>> # <<>>
    BY <2>1
  <2>5. Become(c, Call("request", "retain", <<>>, 0))
    BY <1>1
  <2> QED
    BY <2>1, <2>2, <2>3, <2>4, <2>5, BecomeLists
<1>3. Marked' /\ Shelved'
  BY <1>1 DEF CapInv, Marked, Shelved, rowVars, tickVars, histVars
<1>4. Trimmed'
  BY <1>1, <1>2, TurnTrims DEF CapInv
<1> QED
  BY <1>2, <1>3, <1>4 DEF Rest

LEMMA AskRemovalCaps ==
    ASSUME CapInv, NEW c \in Calls, NEW e \in Episodes, AskRemoval(c, e)
    PROVE  Rest'
<1>1. PICK one : one = <<e>>
  OBVIOUS
<1>2. /\ call[c].pc = "idle" /\ Become(c, Call("removal", "read", one, 0))
      /\ asked' = asked + 1 /\ UNCHANGED <<rowVars, files, tickVars, trouble, histVars>>
  BY <1>1 DEF AskRemoval, Free, Ask
<1>3. /\ Listed' /\ \A d \in Calls \ {c} : call'[d] = call[d]
  <2>1. "removal" \in Kinds /\ "read" \in CallPhases /\ 0 \in Nat
    BY DEF Kinds, CallPhases
  <2>2. one \in Seq(Episodes) /\ one # <<>>
    BY <1>1
  <2> QED
    BY <1>2, <2>1, <2>2, BecomeLists DEF CapInv
<1>4. Marked' /\ Shelved'
  BY <1>2 DEF CapInv, Marked, Shelved, rowVars, tickVars, histVars
<1>5. Trimmed'
  BY <1>2, <1>3, TurnTrims DEF CapInv, Considered, Carries, Removing, rowVars, histVars
<1> QED
  BY <1>3, <1>4, <1>5 DEF Rest

LEMMA LookCaps ==
    ASSUME CapInv, NEW c \in Calls, ReadPath(c) \/ Unlink(c)
    PROVE  Rest'
<1>1. /\ call[c].pc \in Removing /\ Target(c) \in Episodes /\ call[c].todo # <<>>
      /\ UNCHANGED <<rowVars, tickVars, asked, trouble, histVars>>
      /\ \E pc \in Removing : GoTo(c, pc)
      /\ files' \subseteq files
  <2>1. call[c].pc \in Removing
    BY DEF ReadPath, Unlink, Removing
  <2> QED
    BY <2>1, TargetOf DEF ReadPath, Unlink, Removing, Targeted, CapInv, Listed
<1>2. PICK pc \in Removing : GoTo(c, pc)
  BY <1>1
<1>3. /\ Listed' /\ \A d \in Calls \ {c} : call'[d] = call[d]
      /\ call'[c].pc = pc /\ call'[c].todo = call[c].todo
  BY <1>1, <1>2, GoToLists DEF CapInv, Removing, CallPhases
<1>4. Marked' /\ Shelved'
  BY <1>1 DEF CapInv, Marked, Shelved, rowVars, tickVars, histVars
<1>5. Trimmed'
  <2>1. \A e \in Considered' : e \in Considered /\ (Carries(c, e) => Carries(c, e)')
    BY <1>1, <1>2, <1>3 DEF Considered, Carries, rowVars, histVars
  <2>2. call[c].pc # "retain"
    BY <1>1 DEF Removing
  <2> QED
    BY <1>3, <2>1, <2>2, TurnTrims DEF CapInv
<1> QED
  BY <1>3, <1>4, <1>5 DEF Rest

LEMMA ResetCaps ==
    ASSUME CapInv, NEW c \in Calls, Reset(c)
    PROVE  Rest'
<1>1. PICK e, rest : e = Target(c) /\ rest = Tail(call[c].todo)
  OBVIOUS
<1>2. /\ call[c].pc = "reset" /\ UNCHANGED <<files, tickVars, asked>>
      /\ e \in Episodes /\ call[c] \in Slot
      /\ rest \in Seq(Episodes) /\ ToSet(call[c].todo) = {e} \cup ToSet(rest)
  <2>1. call[c].pc = "reset" /\ UNCHANGED <<files, tickVars, asked>>
    BY DEF Reset
  <2>2. call[c] \in Slot /\ call[c].todo \in Seq(Episodes) /\ call[c].todo # <<>> /\ e \in Episodes
    BY <1>1, <2>1, TargetOf DEF CapInv, Listed, Slot, Targeted, Removing
  <2> QED
    BY <1>1, <2>1, <2>2, HeadAndTail DEF Target
<1>3. CASE /\ status' = [status EXCEPT ![e] = "NotDownloaded"]
           /\ started' = [started EXCEPT ![e] = "none"]
           /\ shelf' = Only(shelf, Episodes \ {e})
           /\ taken' = IF Writers(e) = {} THEN taken ELSE taken \cup {e}
           /\ Become(c, IF rest = <<>> THEN Done ELSE Call(call[c].kind, "read", rest, 0))
           /\ UNCHANGED <<trouble, untrimmed>>
  <2>1. /\ Listed' /\ \A d \in Calls \ {c} : call'[d] = call[d]
        /\ call'[c].pc # "retain"
        /\ rest # <<>> => call'[c].pc = "read" /\ call'[c].todo = rest
    <3>1. CASE rest = <<>>
      BY <1>3, <3>1, DoneLists DEF CapInv
    <3>2. CASE rest # <<>>
      <4>1. call[c].kind \in Kinds /\ "read" \in CallPhases /\ 0 \in Nat
        BY <1>2 DEF Slot, CallPhases
      <4>2. Become(c, Call(call[c].kind, "read", rest, 0))
        BY <1>3, <3>2
      <4> QED
        BY <1>2, <3>2, <4>1, <4>2, BecomeLists DEF CapInv
    <3> QED
      BY <3>1, <3>2
  <2>2. /\ Only(shelf, Episodes \ {e}) \in Seq(Episodes) /\ Distinct(Only(shelf, Episodes \ {e}))
        /\ ToSet(Only(shelf, Episodes \ {e})) = ToSet(shelf) \cap (Episodes \ {e})
    BY OnlyIs DEF CapInv, Shelved
  <2>3. \A x \in Episodes : status'[x] = "Downloaded" => x # e /\ status[x] = "Downloaded"
    BY <1>2, <1>3 DEF CapInv, IInv, Types
  <2>4. shelf' \in Seq(Episodes) /\ Distinct(shelf') /\ ToSet(shelf') = ToSet(shelf) \cap (Episodes \ {e})
    BY <1>3, <2>2
  <2>5. Shelved'
    BY <2>3, <2>4 DEF CapInv, Shelved
  <2>6. Marked'
    BY <1>2, <1>3 DEF CapInv, Marked, tickVars
  <2>7. Trimmed'
    <3>1. ASSUME NEW x \in Considered'
          PROVE  x \in Considered /\ (Carries(c, x) => Carries(c, x)')
      <4>1. x \in Considered /\ x # e
        BY <1>3, <2>3 DEF Considered
      <4>2. Carries(c, x) => x \in ToSet(rest)
        BY <1>2, <4>1 DEF Carries
      <4>3. x \in ToSet(rest) => rest # <<>>
        BY DEF ToSet
      <4> QED
        BY <2>1, <4>1, <4>2, <4>3 DEF Carries, Removing
    <3> QED
      BY <1>2, <2>1, <3>1, TurnTrims DEF CapInv
  <2> QED
    BY <2>1, <2>5, <2>6, <2>7 DEF Rest
<1>4. CASE /\ Trouble /\ Become(c, Done)
           /\ untrimmed' = untrimmed \cup ToSet(call[c].todo)
           /\ UNCHANGED <<rowVars, fetches, taken>>
  <2>1. /\ Listed' /\ \A d \in Calls \ {c} : call'[d] = call[d]
    BY <1>4, DoneLists DEF CapInv
  <2>2. ToSet(rest) \subseteq Episodes
    BY <1>2 DEF ToSet
  <2>3. Marked' /\ Shelved'
    BY <1>2, <1>4, <2>2 DEF CapInv, Marked, Shelved, tickVars, rowVars, Trouble
  <2>4. Trimmed'
    <3>1. \A x \in Considered' : x \in Considered /\ ~Carries(c, x)
      BY <1>4 DEF Considered, Carries, rowVars
    <3> QED
      BY <1>2, <2>1, <3>1, TurnTrims DEF CapInv
  <2> QED
    BY <2>1, <2>3, <2>4 DEF Rest
<1> QED
  BY <1>1, <1>3, <1>4 DEF Reset

\* The poller's passes and time, which no call feels.
LEMMA PassesCap ==
    ASSUME CapInv, ResetStuck \/ MarkBroken \/ Select \/ EndTick \/ \E e \in Episodes : Age(e)
    PROVE  Rest'
<1>1. /\ \A e \in Episodes : status'[e] = "Downloaded" => status[e] = "Downloaded"
      /\ UNCHANGED <<shelf, files, call, asked, trouble, untrimmed>>
  BY DEF ResetStuck, MarkBroken, Select, EndTick, Age, rowVars, histVars
<1>2. Listed' /\ Shelved'
  BY <1>1 DEF CapInv, Listed, Shelved
<1>3. Marked'
  <2>1. started' \in [Episodes -> {"none", "recent", "old"}]
    BY DEF CapInv, Marked, ResetStuck, MarkBroken, Select, EndTick, Age, rowVars
  <2>2. tick' \in {"asleep", "cap", "select", "retry"} /\ batch' \subseteq Episodes
    BY DEF CapInv, Marked, ResetStuck, MarkBroken, Select, EndTick, Age, tickVars
  <2>3. taken' \subseteq Episodes
    BY DEF CapInv, Marked, ResetStuck, MarkBroken, Select, EndTick, Age, histVars
  <2> QED
    BY <1>1, <2>1, <2>2, <2>3 DEF CapInv, Marked
<1>4. Trimmed'
  <2>1. SUFFICES ASSUME Keep > 0, \A c \in Calls : call[c].pc # "retain"
                 PROVE  Cardinality(Considered' \ InHand') <= Keep
    BY <1>1 DEF Trimmed
  <2>2. Considered' \ InHand' \subseteq Considered \ InHand
    BY <1>1 DEF Considered, InHand, Carries
  <2>3. Cardinality(Considered \ InHand) <= Keep
    BY <2>1 DEF CapInv, Trimmed
  <2>4. /\ IsFiniteSet(Considered' \ InHand')
        /\ Cardinality(Considered' \ InHand') <= Cardinality(Considered \ InHand)
    BY <2>2, ConsideredFinite, FS_Subset
  <2> QED
    BY <2>3, <2>4, ConsideredFinite, FS_CardinalityType, DownloadLimitAssumption
<1> QED
  BY <1>2, <1>3, <1>4 DEF Rest

LEMMA RestartCaps ==
    ASSUME CapInv, Restart
    PROVE  Rest'
<1>1. /\ call' = [c \in Calls |-> Done] /\ tick' = "asleep" /\ batch' = {}
      /\ untrimmed' = Episodes /\ taken' = {} /\ trouble' = trouble + 1
      /\ UNCHANGED <<attempts, started, shelf, files, asked, fetches>>
      /\ \A e \in Episodes : status'[e] = "Downloaded" => status[e] = "Downloaded"
  BY DEF Restart, Trouble
<1>2. Listed'
  <2>1. Done \in Slot /\ Done.pc = "idle" /\ "idle" \notin Targeted
    BY DEF Done, Call, Slot, Kinds, CallPhases, Targeted, Removing
  <2> QED
    BY <1>1, <2>1 DEF Listed
<1>3. Marked' /\ Shelved'
  BY <1>1 DEF CapInv, Marked, Shelved
<1>4. Trimmed'
  <2>1. Considered' \ InHand' = {}
    BY <1>1 DEF Considered
  <2>2. Cardinality({}) = 0 /\ (Keep > 0 => 0 <= Keep)
    BY FS_EmptySet, DownloadLimitAssumption
  <2> QED
    BY <2>1, <2>2 DEF Trimmed
<1> QED
  BY <1>2, <1>3, <1>4 DEF Rest

LEMMA StutterCaps ==
    ASSUME CapInv, UNCHANGED vars
    PROVE  Rest'
BY DEF CapInv, Rest, Listed, Marked, Shelved, Trimmed, Considered, InHand, Carries,
       vars, rowVars, tickVars, histVars

LEMMA InitCapInv == Init => CapInv
<1> SUFFICES ASSUME Init PROVE CapInv
  OBVIOUS
<1>1. Done \in Slot /\ Done.pc = "idle" /\ "idle" \notin Targeted
  BY DEF Done, Call, Slot, Kinds, CallPhases, Targeted, Removing
<1>2. Listed /\ Marked
  BY <1>1 DEF Init, Listed, Marked
<1>3. Shelved
  BY DEF Init, Shelved, Distinct
<1>4. Trimmed
  <2>1. Considered \ InHand = {}
    BY DEF Init, Considered
  <2>2. Cardinality({}) = 0 /\ (Keep > 0 => 0 <= Keep)
    BY FS_EmptySet, DownloadLimitAssumption
  <2> QED
    BY <2>1, <2>2 DEF Trimmed
<1> QED
  BY <1>2, <1>3, <1>4, InitIInv DEF CapInv

LEMMA NextCapInv == CapInv /\ [Next]_vars => CapInv'
<1> SUFFICES ASSUME CapInv, [Next]_vars PROVE CapInv'
  OBVIOUS
<1>1. ASSUME NEW c \in Calls, Work(c)
      PROVE  Rest'
  <2>1. CASE Claim(c)
    BY <2>1, ClaimCaps
  <2>2. CASE Transfer(c)
    BY <2>2, TransferCaps
  <2>3. CASE Record(c)
    BY <2>3, RecordCaps
  <2>4. CASE SetFailed(c)
    BY <2>4, SetFailedCaps
  <2>5. CASE Retain(c)
    BY <2>5, RetainCaps
  <2>6. CASE ReadPath(c) \/ Unlink(c)
    BY <2>6, LookCaps
  <2>7. CASE Reset(c)
    BY <2>7, ResetCaps
  <2> QED
    BY <1>1, <2>1, <2>2, <2>3, <2>4, <2>5, <2>6, <2>7 DEF Work
<1>2. ASSUME NEW c \in Calls, NEW e \in Episodes, Request(c, e) \/ Retry(c, e)
      PROVE  Rest'
  BY <1>2, BeginCaps
<1>3. ASSUME NEW c \in Calls, Trim(c)
      PROVE  Rest'
  BY <1>3, TrimCaps
<1>4. ASSUME NEW c \in Calls, NEW e \in Episodes, AskRemoval(c, e)
      PROVE  Rest'
  BY <1>4, AskRemovalCaps
<1>5. ASSUME ResetStuck \/ MarkBroken \/ Select \/ EndTick \/ \E e \in Episodes : Age(e)
      PROVE  Rest'
  BY <1>5, PassesCap
<1>6. ASSUME Restart
      PROVE  Rest'
  BY <1>6, RestartCaps
<1>7. ASSUME UNCHANGED vars
      PROVE  Rest'
  BY <1>7, StutterCaps
<1>8. Rest'
  BY <1>1, <1>2, <1>3, <1>4, <1>5, <1>6, <1>7 DEF Next, Recover
<1>9. IInv'
  BY NextIInv DEF CapInv
<1> QED
  BY <1>8, <1>9 DEF CapInv, Rest

LEMMA AlwaysCapInv == Spec => []CapInv
<1>1. Init => CapInv
  BY InitCapInv
<1>2. CapInv /\ [Next]_vars => CapInv'
  BY NextCapInv
<1> QED
  BY <1>1, <1>2, PTL DEF Spec

\* Every variable keeps its type: in particular every list a call is to remove is one of
\* episodes, and no episode's path is stored twice.
THEOREM DownloadTypes == Spec => []TypeOK
<1>1. CapInv => TypeOK
  <2> SUFFICES ASSUME CapInv PROVE TypeOK
    OBVIOUS
  <2>1. Cardinality(ToSet(shelf)) = Len(shelf)
    BY DistinctCounts DEF CapInv, Shelved
  <2>2. call \in [Calls -> [kind : {"none", "request", "recovery", "removal"}, pc : CallPhases,
                            todo : Seq(Episodes), seen : Nat]]
    BY DEF CapInv, Listed, Slot, Kinds
  <2> QED
    BY <2>1, <2>2 DEF CapInv, IInv, Types, Marked, Shelved, TypeOK
<1> QED
  BY <1>1, AlwaysCapInv, PTL

\* Retention holds its cap (enforce_retention): once no call is under way, the copies a pass
\* has considered are within it, for any cap, any number of episodes and of passes that run
\* over each other's lists, and whatever removals, restarts and lost writes come between.
THEOREM CapIsHeld == Spec => []CapHolds
<1>1. CapInv => CapHolds
  <2> SUFFICES ASSUME CapInv, \A c \in Calls : Free(c), Keep > 0
               PROVE  Cardinality(Considered) <= Keep
    BY DEF CapHolds, Considered
  <2>1. \A c \in Calls : call[c].pc = "idle"
    BY DEF Free
  <2>2. InHand = {}
    BY <2>1 DEF InHand, Carries, Removing
  <2>3. Considered \ InHand = Considered
    BY <2>2
  <2> QED
    BY <2>1, <2>3 DEF CapInv, Trimmed
<1> QED
  BY <1>1, AlwaysCapInv, PTL
=============================================================================
