----------------------------- MODULE Player_proofs -----------------------------
(***************************************************************************)
(* The player, for any list of episodes, preferences and devices.  Each    *)
(* handler is an operator from player to player: one lemma says what each  *)
(* keeps, and those of the actions follow.                                 *)
(***************************************************************************)
EXTENDS Player, FiniteSetTheorems, TLAPS

NowRows == [ep : Maybe, state : States, at : 0..Length]
ElementRows == [ep : Maybe, local : BOOLEAN, ready : {"empty", "loading", "data", "failed"},
                on : BOOLEAN, held : BOOLEAN, at : 0..Length, seek : {NoSeek} \cup 0..Length]
EventRows == [kind : {"Playing", "Paused", "Error"}, stale : BOOLEAN]
CommandRows == [kind : {"SetCursor", "MarkPlayed", "RemoveDownload", "DownloadToDevice"},
                ep : Episodes, at : 0..Length]
LoadRows == [ep : Episodes, fresh : BOOLEAN, phase : {"spawned", "reading"}, start : 0..Length]
PlayerRows ==
    [now : NowRows, element : ElementRows, events : Seq(EventRows), commands : Seq(CommandRows),
     loads : SUBSET LoadRows, naps : SUBSET Episodes, retries : 0..LocalRetries, retrying : BOOLEAN,
     loadingTicks : 0..(LoadingStallTicks - 1), preparingTicks : 0..(PreparingStallTicks - 1),
     armed : BOOLEAN, autoArmed : BOOLEAN, wanted : Maybe, done : SUBSET Episodes,
     reached : SUBSET (0..Length), misled : BOOLEAN]

\* What the controller keeps about itself: one episode or none on the screen, a retry that
\* sleeps if one is waited for, and one source read at most that is not out of date.
Kept(p) ==
    /\ p \in PlayerRows
    /\ (p.now.state = "None") = (p.now.ep = NoEpisode)
    /\ p.retrying => p.naps # {}
    /\ \A k, l \in p.loads : k.fresh /\ l.fresh => k = l

\* An element that is let go of, or has not heard of its source, is at the start and was not
\* interrupted; none goes on past its end.
Sane(el) ==
    /\ (el.ready = "empty") = (el.ep = NoEpisode)
    /\ el.ready = "empty" => ~el.on
    /\ el.ready \in {"empty", "loading"} => el.at = 0 /\ ~el.held
    /\ AtEnd(el) => ~el.on
    /\ el.held => ~el.on

\* No source that could be heard is playing or will be resumed by the system.
Still(p) == p.element.ready \in {"loading", "data"} => ~p.element.on /\ ~p.element.held

\* What is queued says what the element does: audio that is heard was announced after the last
\* pause, and no error of this attempt waits beside it.
Told(p) ==
    /\ Heard(p.element) =>
          \A i \in DOMAIN p.events : p.events[i].kind = "Paused" =>
              \E j \in DOMAIN p.events : i < j /\ p.events[j].kind = "Playing"
    /\ (\E i \in DOMAIN p.events : p.events[i].kind = "Error" /\ ~p.events[i].stale) => Still(p)

\* The screen and the element.
Agrees(p) ==
    /\ p.now.state \in {"None", "Preparing"} => p.element.ready = "empty"
    /\ p.now.state \in {"Loading", "Playing", "Paused", "Ended"} => p.element.ep = p.now.ep
    /\ p.now.state = "Error" /\ ~p.misled => Still(p)
    /\ p.now.state = "Ended" /\ ~p.misled /\ p.element.ready \in {"loading", "data"} => ~p.element.on
    /\ p.now.state = "Paused" /\ ~p.misled /\ Heard(p.element) =>
          \E i \in DOMAIN p.events : p.events[i].kind = "Playing"
    /\ p.now.state = "Paused" /\ p.retrying => Still(p)

Good(p) == Kept(p) /\ Sane(p.element) /\ Told(p) /\ Agrees(p)

-----------------------------------------------------------------------------
(* What the handlers are made of.                                          *)

\* What the screen, the element and the queue of events agree on is in these fields.
Alike(p, q) ==
    /\ q.now = p.now /\ q.element = p.element /\ q.events = p.events
    /\ q.retrying = p.retrying /\ q.misled = p.misled

LEMMA AlikeAgrees ==
    ASSUME NEW p, NEW q, Good(p), Kept(q), Alike(p, q)
    PROVE  Good(q)
BY DEF Good, Alike, Told, Agrees, Still

LEMMA SendKeeps ==
    ASSUME NEW p, Kept(p), NEW e \in Episodes, NEW at \in 0..Length,
           NEW kind \in {"SetCursor", "MarkPlayed", "RemoveDownload", "DownloadToDevice"}
    PROVE  Kept(Send(p, kind, e, at)) /\ Alike(p, Send(p, kind, e, at))
<1>1. [kind |-> kind, ep |-> e, at |-> at] \in CommandRows
  BY DEF CommandRows
<1>2. p.commands \in Seq(CommandRows)
  BY DEF Kept, PlayerRows
<1>3. Append(p.commands, [kind |-> kind, ep |-> e, at |-> at]) \in Seq(CommandRows)
  BY <1>1, <1>2
<1>4. PICK q : q = Send(p, kind, e, at)
  OBVIOUS
<1>5. q = [p EXCEPT !.commands = Append(@, [kind |-> kind, ep |-> e, at |-> at])]
  BY <1>4 DEF Send
<1>6. q \in PlayerRows /\ Alike(p, q) /\ q.naps = p.naps /\ q.loads = p.loads
  BY <1>3, <1>5 DEF Kept, PlayerRows, Alike
<1>7. Kept(q)
  BY <1>6 DEF Kept, Alike
<1> QED
  BY <1>4, <1>6, <1>7

LEMMA PersistCursorKeeps ==
    ASSUME NEW p, Kept(p)
    PROVE  Kept(PersistCursor(p)) /\ Alike(p, PersistCursor(p))
<1>1. CASE Resumable(p.now.state)
  <2>1. p.now.ep \in Episodes /\ p.now.at \in 0..Length
    BY <1>1 DEF Resumable, Kept, PlayerRows, NowRows, Maybe
  <2> QED
    BY <1>1, <2>1, SendKeeps DEF PersistCursor
<1>2. CASE ~Resumable(p.now.state)
  BY <1>2 DEF PersistCursor, Alike
<1> QED
  BY <1>1, <1>2

LEMMA BumpKeeps ==
    ASSUME NEW p, Kept(p)
    PROVE  /\ Kept(BumpGeneration(p)) /\ ~BumpGeneration(p).retrying
           /\ \A l \in BumpGeneration(p).loads : ~l.fresh
           /\ BumpGeneration(p).now = p.now /\ BumpGeneration(p).element = p.element
           /\ BumpGeneration(p).events = p.events /\ BumpGeneration(p).misled = p.misled
<1>1. PICK stale : stale = {[l EXCEPT !.fresh = FALSE] : l \in p.loads}
  OBVIOUS
<1>2. stale \subseteq LoadRows /\ \A l \in stale : ~l.fresh
  <2>1. p.loads \subseteq LoadRows
    BY DEF Kept, PlayerRows
  <2>2. \A l \in LoadRows : [l EXCEPT !.fresh = FALSE] \in LoadRows /\ ~[l EXCEPT !.fresh = FALSE].fresh
    BY DEF LoadRows
  <2> QED
    BY <1>1, <2>1, <2>2
<1>3. PICK q : q = [p EXCEPT !.retrying = FALSE, !.naps = {}, !.loads = stale]
  OBVIOUS
<1>4. BumpGeneration(p) = q
  BY <1>1, <1>3 DEF BumpGeneration
<1>5. /\ q \in PlayerRows /\ q.now = p.now /\ q.element = p.element /\ q.events = p.events
      /\ q.misled = p.misled /\ ~q.retrying /\ q.loads = stale
  BY <1>2, <1>3 DEF Kept, PlayerRows
<1>6. Kept(q)
  BY <1>2, <1>5 DEF Kept
<1> QED
  BY <1>2, <1>4, <1>5, <1>6

LEMMA BumpGood ==
    ASSUME NEW p, Good(p)
    PROVE  Good(BumpGeneration(p))
<1>1. PICK q : q = BumpGeneration(p)
  OBVIOUS
<1>2. /\ Kept(q) /\ ~q.retrying /\ q.now = p.now /\ q.element = p.element
      /\ q.events = p.events /\ q.misled = p.misled
  BY <1>1, BumpKeeps DEF Good
<1>3. Told(q) /\ Agrees(q) /\ Sane(q.element)
  BY <1>2 DEF Good, Told, Agrees, Still
<1> QED
  BY <1>1, <1>2, <1>3 DEF Good

-----------------------------------------------------------------------------
(* The element's operations.                                               *)

LEMMA EventIs ==
    ASSUME NEW kind \in {"Playing", "Paused", "Error"}
    PROVE  Event(kind) \in EventRows /\ Event(kind).kind = kind /\ ~Event(kind).stale
BY DEF Event, EventRows

LEMMA EmitKeeps ==
    ASSUME NEW p, Kept(p), NEW kind \in {"Playing", "Paused", "Error"}
    PROVE  /\ Kept(Emit(p, kind)) /\ Emit(p, kind).events = Append(p.events, Event(kind))
           /\ Emit(p, kind).now = p.now /\ Emit(p, kind).element = p.element
           /\ Emit(p, kind).retrying = p.retrying /\ Emit(p, kind).misled = p.misled
<1>1. p.events \in Seq(EventRows) /\ Append(p.events, Event(kind)) \in Seq(EventRows)
  BY EventIs DEF Kept, PlayerRows
<1>2. PICK q : q = Emit(p, kind)
  OBVIOUS
<1>3. q = [p EXCEPT !.events = Append(@, Event(kind))]
  BY <1>2 DEF Emit
<1>4. /\ q \in PlayerRows /\ q.events = Append(p.events, Event(kind)) /\ q.now = p.now
      /\ q.element = p.element /\ q.retrying = p.retrying /\ q.misled = p.misled
      /\ q.naps = p.naps /\ q.loads = p.loads
  BY <1>1, <1>3 DEF Kept, PlayerRows
<1>5. Kept(q)
  BY <1>4 DEF Kept
<1> QED
  BY <1>2, <1>4, <1>5

\* The element is replaced, and nothing else.
LEMMA ElementKeeps ==
    ASSUME NEW p, Kept(p), NEW el \in ElementRows, NEW q, q = [p EXCEPT !.element = el]
    PROVE  /\ Kept(q) /\ q.element = el /\ q.now = p.now /\ q.events = p.events
           /\ q.retrying = p.retrying /\ q.misled = p.misled
<1>1. /\ q \in PlayerRows /\ q.element = el /\ q.now = p.now /\ q.events = p.events
      /\ q.retrying = p.retrying /\ q.misled = p.misled /\ q.naps = p.naps /\ q.loads = p.loads
  BY DEF Kept, PlayerRows
<1> QED
  BY <1>1 DEF Kept

LEMMA SilentIs ==
    /\ Silent \in ElementRows /\ Silent.ep = NoEpisode /\ Silent.ready = "empty"
    /\ ~Silent.on /\ ~Silent.held /\ Silent.at = 0
BY PlayerAssumption DEF Silent, ElementRows, Maybe

LEMMA MuteKeeps ==
    ASSUME NEW p, Kept(p)
    PROVE  /\ Kept(Mute(p)) /\ Mute(p).now = p.now /\ Mute(p).retrying = p.retrying
           /\ Mute(p).misled = p.misled
           /\ Mute(p).element = [p.element EXCEPT !.on = FALSE, !.held = FALSE]
           /\ Mute(p).events = IF p.element.on THEN Append(p.events, Event("Paused")) ELSE p.events
<1>1. PICK el : el = [p.element EXCEPT !.on = FALSE, !.held = FALSE]
  OBVIOUS
<1>2. el \in ElementRows
  BY <1>1 DEF Kept, PlayerRows, ElementRows
<1>3. PICK q : q = [p EXCEPT !.element = el]
  OBVIOUS
<1>4. q = [p EXCEPT !.element.on = FALSE, !.element.held = FALSE]
  BY <1>1, <1>3 DEF Kept, PlayerRows, ElementRows
<1>5. Mute(p) = IF p.element.on THEN Emit(q, "Paused") ELSE q
  BY <1>4 DEF Mute
<1>6. /\ Kept(q) /\ q.element = el /\ q.now = p.now /\ q.events = p.events
      /\ q.retrying = p.retrying /\ q.misled = p.misled
  BY <1>2, <1>3, ElementKeeps
<1>7. CASE p.element.on
  <2>1. Mute(p) = Emit(q, "Paused")
    BY <1>5, <1>7
  <2> QED
    BY <1>1, <1>6, <1>7, <2>1, EmitKeeps, SMTT(30)
<1>8. CASE ~p.element.on
  BY <1>1, <1>5, <1>6, <1>8
<1> QED
  BY <1>7, <1>8

\* What has let go of its source, whatever the screen says.
Hushed(p) ==
    /\ p.element = Silent /\ ~p.misled

LEMMA HushKeeps ==
    ASSUME NEW p, Kept(p)
    PROVE  Kept(Hush(p)) /\ Hushed(Hush(p)) /\ Hush(p).now = p.now /\ Hush(p).retrying = p.retrying
<1>1. PICK m : m = Mute(p)
  OBVIOUS
<1>2. Kept(m) /\ m.now = p.now /\ m.retrying = p.retrying
  BY <1>1, MuteKeeps, Zenon
<1>3. PICK q : q = [m EXCEPT !.element = Silent, !.reached = {}, !.misled = FALSE]
  OBVIOUS
<1>4. /\ q \in PlayerRows /\ q.element = Silent /\ ~q.misled /\ q.now = m.now
      /\ q.retrying = m.retrying /\ q.naps = m.naps /\ q.loads = m.loads
  <2>1. m \in PlayerRows /\ Silent \in ElementRows /\ {} \in SUBSET (0..Length) /\ FALSE \in BOOLEAN
    BY <1>2, SilentIs DEF Kept
  <2>2. q \in PlayerRows
    BY <1>3, <2>1, ZenonT(30) DEF PlayerRows
  <2>3. /\ q.element = Silent /\ ~q.misled /\ q.now = m.now
        /\ q.retrying = m.retrying /\ q.naps = m.naps /\ q.loads = m.loads
    BY <1>3, <2>1, ZenonT(30) DEF PlayerRows
  <2> QED
    BY <2>2, <2>3
<1>5. Kept(q)
  BY <1>2, <1>4 DEF Kept
<1> QED
  BY <1>1, <1>2, <1>3, <1>4, <1>5 DEF Hush, Hushed

LEMMA ShowKeeps ==
    ASSUME NEW p, Kept(p), NEW e \in Maybe, NEW state \in States, NEW at \in 0..Length,
           (state = "None") = (e = NoEpisode)
    PROVE  /\ Kept(Show(p, e, state, at)) /\ Show(p, e, state, at).now = [ep |-> e, state |-> state, at |-> at]
           /\ Show(p, e, state, at).element = p.element /\ Show(p, e, state, at).events = p.events
           /\ Show(p, e, state, at).retrying = p.retrying /\ Show(p, e, state, at).misled = p.misled
<1>1. PICK now : now = [ep |-> e, state |-> state, at |-> at]
  OBVIOUS
<1>2. now \in NowRows /\ now.state = state /\ now.ep = e
  BY <1>1 DEF NowRows
<1>3. PICK q : q = [p EXCEPT !.now = now]
  OBVIOUS
<1>4. /\ q \in PlayerRows /\ q.now = now /\ q.element = p.element /\ q.events = p.events
      /\ q.retrying = p.retrying /\ q.misled = p.misled /\ q.naps = p.naps /\ q.loads = p.loads
  BY <1>2, <1>3 DEF Kept, PlayerRows
<1>5. Kept(q)
  BY <1>2, <1>4 DEF Kept
<1> QED
  BY <1>1, <1>3, <1>4, <1>5 DEF Show

\* A player that is silent agrees with a screen that shows no playback.
LEMMA SilentGood ==
    ASSUME NEW p, Kept(p), p.element = Silent, p.now.state \in {"None", "Preparing", "Error"}
    PROVE  Good(p)
BY SilentIs DEF Good, Sane, Still, Told, Agrees, Heard, AtEnd

LEMMA SilencedGood ==
    ASSUME NEW p, Kept(p), NEW e \in Episodes, NEW state \in {"Preparing", "Error"}
    PROVE  Good(Show(Hush(p), e, state, 0)) /\ Show(Hush(p), e, state, 0).now.ep = e
<1>1. PICK h : h = Hush(p)
  OBVIOUS
<1>2. Kept(h) /\ h.element = Silent
  BY <1>1, HushKeeps DEF Hushed
<1>3. e \in Maybe /\ e # NoEpisode /\ state \in States /\ 0 \in 0..Length
  BY PlayerAssumption DEF Maybe, States
<1>4. PICK q : q = Show(h, e, state, 0)
  OBVIOUS
<1>5. Kept(q) /\ q.now = [ep |-> e, state |-> state, at |-> 0] /\ q.element = Silent
  BY <1>2, <1>3, <1>4, ShowKeeps
<1>6. q.now.state = state /\ q.now.ep = e
  BY <1>5
<1> QED
  BY <1>1, <1>4, <1>5, <1>6, SilentGood

LEMMA SetErrorGood ==
    ASSUME NEW p, Kept(p), NEW e \in Episodes
    PROVE  Good(SetError(Hush(p), e)) /\ SetError(Hush(p), e).now.ep = e
BY SilencedGood DEF SetError

LEMMA EnterPreparingGood ==
    ASSUME NEW p, Kept(p), NEW e \in Episodes
    PROVE  Good(EnterPreparing(p, e))
BY BumpKeeps, SilencedGood DEF EnterPreparing

\* What waited in the queue is about an earlier attempt.
LEMMA StaleIs ==
    ASSUME NEW events \in Seq(EventRows), NEW stale,
           stale = [i \in DOMAIN events |-> [events[i] EXCEPT !.stale = TRUE]]
    PROVE  /\ stale \in Seq(EventRows) /\ Len(stale) = Len(events) /\ DOMAIN stale = DOMAIN events
           /\ \A i \in DOMAIN events : stale[i].stale /\ stale[i].kind = events[i].kind
<1>1. DOMAIN events = 1..Len(events) /\ Len(events) \in Nat /\ \A i \in 1..Len(events) : events[i] \in EventRows
  OBVIOUS
<1>2. \A x \in EventRows : /\ [x EXCEPT !.stale = TRUE] \in EventRows
                           /\ [x EXCEPT !.stale = TRUE].stale /\ [x EXCEPT !.stale = TRUE].kind = x.kind
  BY DEF EventRows
<1>3. stale \in [1..Len(events) -> EventRows]
  BY <1>1, <1>2
<1>4. stale \in Seq(EventRows) /\ Len(stale) = Len(events)
  BY <1>1, <1>3
<1> QED
  BY <1>1, <1>2, <1>4

LEMMA SoundKeeps ==
    ASSUME NEW p, Kept(p)
    PROVE  /\ Kept(Sound(p)) /\ Sound(p).now = p.now /\ Sound(p).retrying = p.retrying
           /\ Sound(p).misled = p.misled
           /\ Sound(p).element = [p.element EXCEPT !.on = TRUE, !.held = FALSE,
                                                   !.at = IF AtEnd(p.element) THEN 0 ELSE @]
           /\ \E stale \in Seq(EventRows) :
                 /\ DOMAIN stale = DOMAIN p.events
                 /\ \A i \in DOMAIN stale : stale[i].stale /\ stale[i].kind = p.events[i].kind
                 /\ Sound(p).events = IF p.element.ready = "data" /\ ~p.element.on
                                      THEN Append(stale, Event("Playing")) ELSE stale
<1>1. PICK stale : stale = [i \in DOMAIN p.events |-> [p.events[i] EXCEPT !.stale = TRUE]]
  OBVIOUS
<1>2. /\ stale \in Seq(EventRows) /\ DOMAIN stale = DOMAIN p.events
      /\ \A i \in DOMAIN stale : stale[i].stale /\ stale[i].kind = p.events[i].kind
  <2>1. p.events \in Seq(EventRows)
    BY DEF Kept, PlayerRows
  <2> QED
    BY <1>1, <2>1, StaleIs
<1>3. PICK el : el = [p.element EXCEPT !.on = TRUE, !.held = FALSE,
                                       !.at = IF AtEnd(p.element) THEN 0 ELSE @]
  OBVIOUS
<1>4. el \in ElementRows
  <2>1. p.element \in ElementRows /\ 0 \in 0..Length
    BY PlayerAssumption DEF Kept, PlayerRows
  <2>2. PICK at : at = IF AtEnd(p.element) THEN 0 ELSE p.element.at
    OBVIOUS
  <2>3. at \in 0..Length
    BY <2>1, <2>2 DEF ElementRows
  <2>4. el = [p.element EXCEPT !.on = TRUE, !.held = FALSE, !.at = at]
    BY <1>3, <2>2
  <2> QED
    BY <2>1, <2>3, <2>4 DEF ElementRows
<1>5. PICK reached : reached = IF AtEnd(p.element) THEN p.reached \cup {0} ELSE p.reached
  OBVIOUS
<1>6. PICK q : q = [p EXCEPT !.events = stale, !.element = el, !.reached = reached]
  OBVIOUS
<1>7. q = [p EXCEPT !.events = [i \in DOMAIN @ |-> [@[i] EXCEPT !.stale = TRUE]],
                    !.element.on = TRUE, !.element.held = FALSE,
                    !.element.at = IF AtEnd(p.element) THEN 0 ELSE @,
                    !.reached = IF AtEnd(p.element) THEN @ \cup {0} ELSE @]
  <2>1. p \in PlayerRows
    BY DEF Kept
  <2> QED
    BY <1>1, <1>3, <1>5, <1>6, <2>1 DEF PlayerRows, ElementRows
<1>8. Sound(p) = IF p.element.ready = "data" /\ ~p.element.on THEN Emit(q, "Playing") ELSE q
  BY <1>7 DEF Sound
<1>9. /\ q \in PlayerRows /\ q.events = stale /\ q.element = el /\ q.now = p.now
      /\ q.retrying = p.retrying /\ q.misled = p.misled /\ q.naps = p.naps /\ q.loads = p.loads
  <2>1. reached \in SUBSET (0..Length)
    BY <1>5, PlayerAssumption, SMTT(30) DEF Kept, PlayerRows
  <2> QED
    BY <1>2, <1>4, <1>6, <2>1 DEF Kept, PlayerRows
<1>10. Kept(q)
  BY <1>9 DEF Kept
<1>11. CASE p.element.ready = "data" /\ ~p.element.on
  <2>1. Sound(p) = Emit(q, "Playing")
    BY <1>8, <1>11
  <2>2. /\ Kept(Sound(p)) /\ Sound(p).now = p.now /\ Sound(p).retrying = p.retrying
        /\ Sound(p).misled = p.misled /\ Sound(p).element = el
        /\ Sound(p).events = Append(stale, Event("Playing"))
    BY <1>9, <1>10, <2>1, EmitKeeps
  <2> QED
    BY <1>2, <1>3, <1>11, <2>2
<1>12. CASE ~(p.element.ready = "data" /\ ~p.element.on)
  <2>1. Sound(p) = q
    BY <1>8, <1>12
  <2> QED
    BY <1>2, <1>3, <1>9, <1>10, <1>12, <2>1
<1> QED
  BY <1>11, <1>12

\* Told to play, a player that has a source agrees with a screen that shows it loading or playing.
LEMMA SoundGood ==
    ASSUME NEW p, Kept(p), Sane(p.element), Told(p), p.element.ready # "empty",
           p.element.ep = p.now.ep, NEW q, Kept(q), q.element = Sound(p).element,
           q.events = Sound(p).events, q.now.ep = p.now.ep, q.now.state \in {"Loading", "Playing"}
    PROVE  Good(q)
<1>1. PICK stale \in Seq(EventRows) :
          /\ DOMAIN stale = DOMAIN p.events
          /\ \A i \in DOMAIN stale : stale[i].stale /\ stale[i].kind = p.events[i].kind
          /\ q.events = IF p.element.ready = "data" /\ ~p.element.on
                        THEN Append(stale, Event("Playing")) ELSE stale
  <2>1. \E stale \in Seq(EventRows) :
          /\ DOMAIN stale = DOMAIN p.events
          /\ \A i \in DOMAIN stale : stale[i].stale /\ stale[i].kind = p.events[i].kind
          /\ Sound(p).events = IF p.element.ready = "data" /\ ~p.element.on
                               THEN Append(stale, Event("Playing")) ELSE stale
    BY SoundKeeps, ZenonT(30)
  <2>2. q.events = Sound(p).events
    OBVIOUS
  <2> QED
    BY <2>1, <2>2
<1>2. PICK el : el = [p.element EXCEPT !.on = TRUE, !.held = FALSE,
                                       !.at = IF AtEnd(p.element) THEN 0 ELSE @]
  OBVIOUS
<1>3. q.element = el /\ p.element \in ElementRows
  BY <1>2, SoundKeeps, Zenon DEF Kept, PlayerRows
<1>4. /\ el.on /\ ~el.held /\ el.ready = p.element.ready /\ el.ep = p.element.ep
      /\ el.at = IF AtEnd(p.element) THEN 0 ELSE p.element.at
  BY <1>2, <1>3 DEF ElementRows
<1>5. ~AtEnd(el)
  BY <1>3, <1>4, PlayerAssumption DEF AtEnd, ElementRows
<1>6. Sane(q.element)
  <2>1. el.ready = "loading" => el.at = 0
    BY <1>4 DEF Sane, AtEnd
  <2> QED
    BY <1>3, <1>4, <1>5, <2>1 DEF Sane
<1>7. Told(q)
  <2>1. CASE p.element.ready = "data" /\ ~p.element.on
    <3>1. /\ DOMAIN q.events = 1..(Len(stale) + 1) /\ q.events[Len(stale) + 1] = Event("Playing")
          /\ \A i \in 1..Len(stale) : q.events[i] = stale[i]
          /\ Len(stale) \in Nat /\ DOMAIN stale = 1..Len(stale)
      BY <1>1, <2>1
    <3>2. Event("Playing").kind = "Playing"
      BY DEF Event
    <3>3. \A i \in DOMAIN q.events : q.events[i].kind = "Paused" => i < Len(stale) + 1
      BY <3>1, <3>2
    <3>4. \A i \in DOMAIN q.events : ~(q.events[i].kind = "Error" /\ ~q.events[i].stale)
      BY <1>1, <3>1, <3>2
    <3>5. Len(stale) + 1 \in DOMAIN q.events
      BY <3>1
    <3> QED
      BY <3>1, <3>2, <3>3, <3>4, <3>5 DEF Told
  <2>2. CASE ~(p.element.ready = "data" /\ ~p.element.on)
    <3>1. q.events = stale
      BY <1>1, <2>2
    <3>2. Heard(q.element) => Heard(p.element)
      BY <1>3, <1>4, <2>2 DEF Heard, Kept, PlayerRows, ElementRows
    <3>3. \A i \in DOMAIN q.events : ~(q.events[i].kind = "Error" /\ ~q.events[i].stale)
      BY <1>1, <3>1
    <3>4. ASSUME Heard(q.element), NEW i \in DOMAIN q.events, q.events[i].kind = "Paused"
          PROVE  \E j \in DOMAIN q.events : i < j /\ q.events[j].kind = "Playing"
      <4>1. i \in DOMAIN p.events /\ p.events[i].kind = "Paused" /\ Heard(p.element)
        BY <1>1, <3>1, <3>2, <3>4
      <4>2. PICK j \in DOMAIN p.events : i < j /\ p.events[j].kind = "Playing"
        BY <4>1 DEF Told
      <4> QED
        BY <1>1, <3>1, <4>2
    <3> QED
      BY <3>3, <3>4 DEF Told
  <2> QED
    BY <2>1, <2>2
<1>8. Agrees(q)
  BY <1>3, <1>4 DEF Agrees
<1> QED
  BY <1>6, <1>7, <1>8 DEF Good

LEMMA LoadAndPlayGood ==
    ASSUME NEW p, Kept(p), NEW e \in Episodes, NEW local \in BOOLEAN, NEW start \in 0..Length
    PROVE  Good(LoadAndPlay(p, e, local, start))
<1>1. PICK auto : auto = (SleepByDefault /\ ~p.autoArmed /\ ~p.armed)
  OBVIOUS
<1>2. PICK el : el = [Silent EXCEPT !.ep = e, !.local = local, !.ready = "loading",
                                    !.seek = IF start > 0 THEN start ELSE NoSeek]
  OBVIOUS
<1>3. /\ el \in ElementRows /\ el.ep = e /\ el.ready = "loading" /\ ~el.on /\ ~el.held /\ el.at = 0
  <2>1. PICK seek : seek = IF start > 0 THEN start ELSE NoSeek
    OBVIOUS
  <2>2. seek \in {NoSeek} \cup 0..Length
    BY <2>1
  <2>3. el = [Silent EXCEPT !.ep = e, !.local = local, !.ready = "loading", !.seek = seek]
    BY <1>2, <2>1
  <2>4. el = [ep |-> e, local |-> local, ready |-> "loading", on |-> FALSE, held |-> FALSE,
              at |-> 0, seek |-> seek]
    BY <2>3 DEF Silent
  <2>5. 0 \in 0..Length /\ e \in Maybe
    BY PlayerAssumption DEF Maybe
  <2> QED
    BY <2>2, <2>4, <2>5 DEF ElementRows
<1>4. PICK s : s = Show(p, e, "Loading", start)
  OBVIOUS
<1>5. Kept(s) /\ s.now = [ep |-> e, state |-> "Loading", at |-> start] /\ s.element = p.element /\ s.events = p.events
  <2>1. e \in Maybe /\ e # NoEpisode /\ "Loading" \in States
    BY PlayerAssumption DEF Maybe, States
  <2> QED
    BY <1>4, <2>1, ShowKeeps
<1>6. PICK q : q = [s EXCEPT !.element = el, !.armed = @ \/ auto, !.autoArmed = @ \/ auto,
                             !.done = @ \ {e}, !.reached = {start}, !.misled = FALSE]
  OBVIOUS
<1>7. /\ q \in PlayerRows /\ q.element = el /\ q.now = s.now /\ q.events = p.events
      /\ q.retrying = s.retrying /\ q.naps = s.naps /\ q.loads = s.loads
  <2>1. PICK armed, autoArmed : armed = (s.armed \/ auto) /\ autoArmed = (s.autoArmed \/ auto)
    OBVIOUS
  <2>2. armed \in BOOLEAN /\ autoArmed \in BOOLEAN
    BY <2>1
  <2>3. q = [s EXCEPT !.element = el, !.armed = armed, !.autoArmed = autoArmed,
                      !.done = @ \ {e}, !.reached = {start}, !.misled = FALSE]
    BY <1>6, <2>1
  <2>4. s \in PlayerRows /\ {start} \subseteq 0..Length
    BY <1>5 DEF Kept
  <2>5. PICK done, reached : done = s.done \ {e} /\ reached = {start}
    OBVIOUS
  <2>6. done \in SUBSET Episodes /\ reached \in SUBSET (0..Length)
    BY <2>4, <2>5 DEF PlayerRows
  <2>7. q = [s EXCEPT !.element = el, !.armed = armed, !.autoArmed = autoArmed,
                      !.done = done, !.reached = reached, !.misled = FALSE]
    BY <2>3, <2>5
  <2>8. q \in PlayerRows
    <3>1. el \in ElementRows /\ FALSE \in BOOLEAN /\ s \in PlayerRows
      BY <1>3, <2>4
    <3> QED
      BY <2>2, <2>6, <2>7, <3>1, ZenonT(30) DEF PlayerRows
  <2>9. /\ q.element = el /\ q.now = s.now /\ q.events = s.events
        /\ q.retrying = s.retrying /\ q.naps = s.naps /\ q.loads = s.loads
    BY <2>4, <2>7 DEF PlayerRows
  <2> QED
    BY <1>5, <2>8, <2>9
<1>8. Kept(q)
  BY <1>5, <1>7 DEF Kept
<1>9. LoadAndPlay(p, e, local, start) = Sound(q)
  BY <1>1, <1>2, <1>4, <1>6 DEF LoadAndPlay
<1>10. PICK r : r = Sound(q)
  OBVIOUS
<1>11. PICK stale \in Seq(EventRows) :
          /\ DOMAIN stale = DOMAIN q.events
          /\ \A i \in DOMAIN stale : stale[i].stale
          /\ r.events = IF q.element.ready = "data" /\ ~q.element.on
                        THEN Append(stale, Event("Playing")) ELSE stale
  BY <1>8, <1>10, SoundKeeps, Zenon
<1>12. Kept(r) /\ r.now = q.now /\ r.element = [el EXCEPT !.on = TRUE, !.held = FALSE,
                                                          !.at = IF AtEnd(el) THEN 0 ELSE @]
  BY <1>7, <1>8, <1>10, SoundKeeps, Zenon
<1>13. /\ r.events = stale /\ r.now.ep = e /\ r.now.state = "Loading"
       /\ r.element.ready = "loading" /\ r.element.ep = e /\ r.element.at = 0 /\ ~r.element.held
  <2>1. ~AtEnd(el)
    BY <1>3 DEF AtEnd
  <2>2. r.element = [el EXCEPT !.on = TRUE, !.held = FALSE]
    BY <1>3, <1>12, <2>1 DEF ElementRows
  <2> QED
    BY <1>3, <1>5, <1>7, <1>11, <1>12, <2>2 DEF ElementRows
<1>14. Told(r) /\ Agrees(r) /\ Sane(r.element)
  <2>1. e # NoEpisode
    BY PlayerAssumption
  <2> QED
    BY <1>11, <1>13, <2>1 DEF Told, Agrees, Sane, Heard, AtEnd
<1> QED
  BY <1>9, <1>10, <1>12, <1>14 DEF Good

-----------------------------------------------------------------------------
(* The controller's handlers.                                              *)

LEMMA PlayEpisodeGood ==
    ASSUME NEW p, Good(p), NEW e \in Episodes
    PROVE  Good(PlayEpisode(p, e))
<1>1. PICK b : b = BumpGeneration(p)
  OBVIOUS
<1>2. Good(b) /\ Kept(b) /\ \A l \in b.loads : ~l.fresh
  BY <1>1, BumpKeeps, BumpGood DEF Good
<1>3. PICK load : load = [ep |-> e, fresh |-> TRUE, phase |-> "spawned", start |-> 0]
  OBVIOUS
<1>4. load \in LoadRows
  BY <1>3, PlayerAssumption DEF LoadRows
<1>5. PICK q : q = [b EXCEPT !.loads = @ \cup {load}]
  OBVIOUS
<1>6. q \in PlayerRows /\ q.loads = b.loads \cup {load} /\ Alike(b, q) /\ q.naps = b.naps
  BY <1>2, <1>4, <1>5 DEF Kept, PlayerRows, Alike
<1>7. Kept(q)
  BY <1>2, <1>6 DEF Kept, Alike
<1> QED
  BY <1>1, <1>2, <1>3, <1>5, <1>6, <1>7, AlikeAgrees DEF PlayEpisode

LEMMA RedownloadGood ==
    ASSUME NEW p, Kept(p), NEW e \in Episodes, NEW stale \in BOOLEAN
    PROVE  Good(RedownloadAndPrepare(p, e, stale))
<1>1. 0 \in 0..Length
  BY PlayerAssumption
<1>2. Kept(IF stale THEN Send(p, "RemoveDownload", e, 0) ELSE p)
  BY <1>1, SendKeeps
<1>3. Kept(Send(IF stale THEN Send(p, "RemoveDownload", e, 0) ELSE p, "DownloadToDevice", e, 0))
  BY <1>1, <1>2, SendKeeps
<1> QED
  BY <1>3, EnterPreparingGood DEF RedownloadAndPrepare

LEMMA StreamEpisodeGood ==
    ASSUME NEW p, Kept(p), NEW e \in Episodes, cursor[e] \in 0..Length
    PROVE  Good(StreamEpisode(p, e))
<1>1. CASE preference = "DownloadOnly"
  BY <1>1, RedownloadGood DEF StreamEpisode, OnDevice
<1>2. CASE preference # "DownloadOnly" /\ e \in Served
  BY <1>2, BumpKeeps, LoadAndPlayGood DEF StreamEpisode
<1>3. CASE preference # "DownloadOnly" /\ e \notin Served
  BY <1>3, BumpKeeps, SetErrorGood DEF StreamEpisode
<1> QED
  BY <1>1, <1>2, <1>3

LEMMA DownloadAndPlayGood ==
    ASSUME NEW p, Good(p), NEW e \in Episodes
    PROVE  Good(DownloadAndPlay(p, e))
<1>1. CASE device[e].state = "Downloaded"
  BY <1>1, PlayEpisodeGood DEF DownloadAndPlay
<1>2. CASE device[e].state = "Downloading"
  BY <1>2, EnterPreparingGood DEF DownloadAndPlay, Good
<1>3. CASE device[e].state \notin {"Downloaded", "Downloading"}
  <2>1. Kept(Send(p, "DownloadToDevice", e, 0))
    BY SendKeeps, PlayerAssumption DEF Good
  <2> QED
    BY <1>3, <2>1, EnterPreparingGood DEF DownloadAndPlay
<1> QED
  BY <1>1, <1>2, <1>3

\* Only what the screen, the element and the queue do not depend on.
LEMMA AskedKeeps ==
    ASSUME NEW p, Kept(p), NEW e \in Episodes, NEW q,
           q = [p EXCEPT !.retries = 0, !.wanted = e] \/ q = [p EXCEPT !.wanted = e]
    PROVE  Kept(q) /\ Alike(p, q)
<1>1. 0 \in 0..LocalRetries /\ e \in Maybe
  BY PlayerAssumption DEF Maybe
<1>2. CASE q = [p EXCEPT !.retries = 0, !.wanted = e]
  <2>1. q \in PlayerRows /\ Alike(p, q) /\ q.naps = p.naps /\ q.loads = p.loads
    BY <1>1, <1>2 DEF Kept, PlayerRows, Alike
  <2> QED
    BY <2>1 DEF Kept, Alike
<1>3. CASE q = [p EXCEPT !.wanted = e]
  <2>1. q \in PlayerRows /\ Alike(p, q) /\ q.naps = p.naps /\ q.loads = p.loads
    BY <1>1, <1>3 DEF Kept, PlayerRows, Alike
  <2> QED
    BY <2>1 DEF Kept, Alike
<1> QED
  BY <1>2, <1>3

LEMMA RequestPlayGood ==
    ASSUME NEW p, Good(p), NEW e \in Episodes, cursor[e] \in 0..Length
    PROVE  Good(RequestPlay(p, e))
<1>1. PICK outgoing : outgoing = (p.now.ep # e /\ p.now.state \in {"Playing", "Paused"})
  OBVIOUS
<1>2. PICK r : r = IF outgoing THEN PersistCursor(p) ELSE p
  OBVIOUS
<1>3. Kept(r) /\ Alike(p, r)
  BY <1>2, PersistCursorKeeps DEF Good, Alike
<1>4. PICK q : q = [r EXCEPT !.retries = 0, !.wanted = e]
  OBVIOUS
<1>5. Good(q)
  <2>1. Good(r)
    BY <1>3, AlikeAgrees
  <2>2. Kept(q) /\ Alike(r, q)
    BY <1>3, <1>4, AskedKeeps, Zenon
  <2> QED
    BY <2>1, <2>2, AlikeAgrees
<1>6. Kept(q) /\ Kept(Send(q, "DownloadToDevice", e, 0))
  BY <1>5, SendKeeps, PlayerAssumption DEF Good
<1>7. RequestPlay(p, e) \in {DownloadAndPlay(q, e), PlayEpisode(q, e), StreamEpisode(q, e),
                             StreamEpisode(Send(q, "DownloadToDevice", e, 0), e)}
  <2>1. q = [(IF outgoing THEN PersistCursor(p) ELSE p) EXCEPT !.retries = 0, !.wanted = e]
    BY <1>2, <1>4
  <2> QED
    BY <1>1, <2>1 DEF RequestPlay
<1> QED
  BY <1>5, <1>6, <1>7, DownloadAndPlayGood, PlayEpisodeGood, StreamEpisodeGood

\* Only the state on the screen changes.
Turn(p, state) == [p EXCEPT !.now.state = state]

LEMMA StateKeeps ==
    ASSUME NEW p, Kept(p), p.now.state # "None", NEW state \in States \ {"None"},
           NEW q, q = Turn(p, state)
    PROVE  /\ Kept(q) /\ q.now.state = state /\ q.now.ep = p.now.ep /\ q.element = p.element
           /\ q.events = p.events /\ q.retrying = p.retrying /\ q.misled = p.misled
<1>1. PICK now : now = [p.now EXCEPT !.state = state]
  OBVIOUS
<1>2. now \in NowRows /\ now.state = state /\ now.ep = p.now.ep
  BY <1>1 DEF Kept, PlayerRows, NowRows
<1>3. q = [p EXCEPT !.now = now]
  BY <1>1 DEF Turn, Kept, PlayerRows
<1>4. /\ q \in PlayerRows /\ q.now = now /\ q.element = p.element /\ q.events = p.events
      /\ q.retrying = p.retrying /\ q.misled = p.misled /\ q.naps = p.naps /\ q.loads = p.loads
  BY <1>2, <1>3 DEF Kept, PlayerRows
<1>5. Kept(q)
  BY <1>2, <1>4 DEF Kept
<1> QED
  BY <1>2, <1>4, <1>5

LEMMA ResumeGood ==
    ASSUME NEW p, Good(p)
    PROVE  Good(Resume(p))
<1>1. CASE p.now.state = "Paused"
  <2>1. PICK s : s = Sound(p)
    OBVIOUS
  <2>2. Kept(s) /\ s.now = p.now
    BY <2>1, SoundKeeps, Zenon DEF Good
  <2>3. PICK q : q = [s EXCEPT !.now.state = "Playing"]
    OBVIOUS
  <2>4. Resume(p) = q
    BY <1>1, <2>1, <2>3 DEF Resume
  <2>5. /\ Kept(q) /\ q.now.state = "Playing" /\ q.now.ep = p.now.ep
        /\ q.element = s.element /\ q.events = s.events
    <3>1. s.now.state # "None" /\ "Playing" \in States \ {"None"}
      BY <1>1, <2>2 DEF States
    <3>2. q = Turn(s, "Playing")
      BY <2>3 DEF Turn
    <3> QED
      BY <2>2, <3>1, <3>2, StateKeeps
  <2>6. Kept(p) /\ Sane(p.element) /\ Told(p) /\ p.element.ep = p.now.ep
    BY <1>1 DEF Good, Agrees
  <2>7. p.element.ready # "empty"
    BY <1>1, <2>6 DEF Kept, Sane
  <2> QED
    BY <2>1, <2>4, <2>5, <2>6, <2>7, SoundGood
<1>2. CASE p.now.state # "Paused"
  BY <1>2 DEF Resume
<1> QED
  BY <1>1, <1>2

LEMMA PauseGood ==
    ASSUME NEW p, Good(p)
    PROVE  /\ Good(Pause(p)) /\ Pause(p).now.ep = p.now.ep
           /\ Pause(p).element.ep = p.element.ep
           /\ AtEnd(p.element) => AtEnd(Pause(p).element)
           /\ p.now.state # "None" => Pause(p).now.state # "None"
<1>1. CASE p.now.state \in {"Playing", "Loading"}
  <2>1. PICK m : m = Mute(p)
    OBVIOUS
  <2>2. /\ Kept(m) /\ m.now = p.now
        /\ m.element = [p.element EXCEPT !.on = FALSE, !.held = FALSE]
        /\ m.events = IF p.element.on THEN Append(p.events, Event("Paused")) ELSE p.events
    BY <2>1, MuteKeeps, Zenon DEF Good
  <2>3. PICK q : q = [m EXCEPT !.now.state = "Paused"]
    OBVIOUS
  <2>4. Pause(p) = PersistCursor(q)
    BY <1>1, <2>1, <2>3 DEF Pause
  <2>5. /\ Kept(q) /\ q.now.state = "Paused" /\ q.now.ep = p.now.ep
        /\ q.element = m.element /\ q.events = m.events
    <3>1. m.now.state # "None" /\ "Paused" \in States \ {"None"}
      BY <1>1, <2>2 DEF States
    <3>2. q = Turn(m, "Paused")
      BY <2>3 DEF Turn
    <3> QED
      BY <2>2, <3>1, <3>2, StateKeeps
  <2>6. /\ ~q.element.on /\ ~q.element.held /\ q.element.ep = p.element.ep
        /\ q.element.ready = p.element.ready /\ q.element.at = p.element.at
    <3>1. p.element \in ElementRows
      BY DEF Good, Kept, PlayerRows
    <3> QED
      BY <2>2, <2>5, <3>1 DEF ElementRows
  <2>7. Sane(q.element)
    BY <2>6 DEF Good, Sane, AtEnd
  <2>8. Told(q) /\ Agrees(q)
    <3>1. ~Heard(q.element) /\ Still(q)
      BY <2>6 DEF Heard, Still
    <3>2. q.element.ep = q.now.ep
      BY <1>1, <2>5, <2>6 DEF Good, Agrees
    <3> QED
      BY <2>5, <3>1, <3>2 DEF Told, Agrees
  <2>9. Good(q)
    BY <2>5, <2>7, <2>8 DEF Good
  <2>10. Kept(PersistCursor(q)) /\ Alike(q, PersistCursor(q))
    BY <2>5, PersistCursorKeeps
  <2> QED
    BY <2>4, <2>5, <2>6, <2>9, <2>10, AlikeAgrees DEF Alike, AtEnd
<1>2. CASE p.now.state \notin {"Playing", "Loading"}
  BY <1>2 DEF Pause
<1> QED
  BY <1>1, <1>2

LEMMA PlayGood ==
    ASSUME NEW p, Good(p), p.now.ep \in Episodes => cursor[p.now.ep] \in 0..Length
    PROVE  Good(Play(p))
<1>1. CASE p.now.state \in {"Ended", "Error"}
  <2>1. p.now.ep \in Episodes
    BY <1>1 DEF Good, Kept, PlayerRows, NowRows, Maybe
  <2> QED
    BY <1>1, <2>1, RequestPlayGood DEF Play
<1>2. CASE p.now.state \notin {"Ended", "Error"}
  BY <1>2, ResumeGood DEF Play
<1> QED
  BY <1>1, <1>2

-----------------------------------------------------------------------------
(* The tick.                                                               *)

LEMMA NextUpIs ==
    ASSUME NEW e
    PROVE  NextUp(e) \subseteq Episodes
<1>1. \A i \in DOMAIN Queue : Queue[i] \in Episodes
  <2>1. Queue \in Seq(Episodes)
    BY PlayerAssumption
  <2> QED
    BY <2>1
<1>2. PICK at : at = CHOOSE i \in DOMAIN Queue : Queue[i] = e /\ \A j \in 1..(i - 1) : Queue[j] # e
  OBVIOUS
<1>3. NextUp(e) \in {{Queue[i] : i \in DOMAIN Queue \cap {1}}, {Queue[i] : i \in DOMAIN Queue \cap {at + 1}}}
  BY <1>2 DEF NextUp
<1> QED
  BY <1>1, <1>3

\* What ended is shown as ended, before anything else is played.
LEMMA EndedGood ==
    ASSUME NEW p, Good(p), AtEnd(p.element), p.element.ep = p.now.ep, p.now.state # "None", NEW q,
           q = [Send(p, "MarkPlayed", p.now.ep, 0) EXCEPT !.now.state = "Ended", !.done = @ \cup {p.now.ep}]
    PROVE  /\ Good(q) /\ q.now.state = "Ended" /\ q.now.ep = p.now.ep /\ q.element = p.element
           /\ p.now.ep \in Episodes
<1>1. PICK e : e = p.now.ep
  OBVIOUS
<1>2. e \in Episodes
  BY <1>1 DEF Good, Kept, PlayerRows, NowRows, Maybe
<1>3. PICK s : s = Send(p, "MarkPlayed", e, 0)
  OBVIOUS
<1>4. Kept(s) /\ Alike(p, s)
  <2>1. PICK kind, at : kind = "MarkPlayed" /\ at = 0
    OBVIOUS
  <2>2. /\ Kept(p) /\ at \in 0..Length
        /\ kind \in {"SetCursor", "MarkPlayed", "RemoveDownload", "DownloadToDevice"}
    BY <2>1, PlayerAssumption DEF Good
  <2>3. s = Send(p, kind, e, at)
    BY <1>3, <2>1
  <2> QED
    BY <1>2, <2>2, <2>3, SendKeeps
<1>5. PICK t : t = Turn(s, "Ended")
  OBVIOUS
<1>6. /\ Kept(t) /\ t.now.state = "Ended" /\ t.now.ep = p.now.ep /\ t.element = p.element
      /\ t.events = p.events /\ t.misled = p.misled
  <2>1. s.now.state # "None" /\ "Ended" \in States \ {"None"}
    BY <1>4 DEF States, Alike
  <2>2. /\ Kept(t) /\ t.now.state = "Ended" /\ t.now.ep = s.now.ep /\ t.element = s.element
        /\ t.events = s.events /\ t.misled = s.misled
    BY <1>4, <1>5, <2>1, StateKeeps
  <2> QED
    BY <1>4, <2>2 DEF Alike
<1>7. q = [t EXCEPT !.done = @ \cup {e}]
  BY <1>1, <1>3, <1>5 DEF Turn
<1>8. Kept(q) /\ Alike(t, q)
  <2>1. t.done \cup {e} \in SUBSET Episodes
    BY <1>2, <1>6 DEF Kept, PlayerRows
  <2>2. q \in PlayerRows /\ Alike(t, q) /\ q.naps = t.naps /\ q.loads = t.loads
    BY <1>6, <1>7, <2>1 DEF Kept, PlayerRows, Alike
  <2> QED
    BY <1>6, <2>2 DEF Kept, Alike
<1>9. Good(q)
  <2>1. ~t.element.on /\ ~Heard(t.element)
    BY <1>6 DEF Good, Sane, Heard
  <2>2. Told(t) /\ Agrees(t)
    BY <1>6, <2>1 DEF Good, Told, Agrees, Still
  <2>3. Good(t)
    BY <1>6, <2>2 DEF Good
  <2> QED
    BY <1>8, <2>3, AlikeAgrees
<1> QED
  BY <1>1, <1>2, <1>6, <1>8, <1>9 DEF Alike

LEMMA OnEndedGood ==
    ASSUME NEW p, Good(p), AtEnd(p.element), p.element.ep = p.now.ep, p.now.state # "None",
           NEW allow \in BOOLEAN, cursor \in [Episodes -> 0..Length]
    PROVE  Good(OnEnded(p, allow))
<1>1. PICK e : e = p.now.ep
  OBVIOUS
<1>2. PICK q : q = [Send(p, "MarkPlayed", p.now.ep, 0) EXCEPT !.now.state = "Ended", !.done = @ \cup {p.now.ep}]
  OBVIOUS
<1>3. Good(q)
  BY <1>2, EndedGood, Zenon
<1>4. PICK n : n = CHOOSE m \in NextUp(e) : TRUE
  OBVIOUS
<1>5. OnEnded(p, allow) \in {q} \cup (IF NextUp(e) # {} THEN {RequestPlay(q, n)} ELSE {})
  BY <1>1, <1>2, <1>4 DEF OnEnded
<1>6. CASE OnEnded(p, allow) = q
  BY <1>3, <1>6
<1>7. CASE NextUp(e) # {} /\ OnEnded(p, allow) = RequestPlay(q, n)
  <2>1. n \in Episodes
    BY <1>4, <1>7, NextUpIs
  <2> QED
    BY <1>3, <1>7, <2>1, RequestPlayGood
<1> QED
  BY <1>5, <1>6, <1>7

LEMMA PreparingGood ==
    ASSUME NEW p, Good(p), p.now.state = "Preparing"
    PROVE  Good(Preparing(p))
<1>1. p.now.ep \in Episodes
  BY DEF Good, Kept, PlayerRows, NowRows, Maybe
<1>2. CASE Count(p.preparingTicks) < PreparingStallTicks
  <2>1. PICK ticks : ticks = Count(p.preparingTicks)
    OBVIOUS
  <2>2. ticks \in 0..(PreparingStallTicks - 1)
    BY <1>2, <2>1, PlayerAssumption, SMTT(30) DEF Count, Good, Kept, PlayerRows
  <2>3. PICK q : q = [p EXCEPT !.preparingTicks = ticks]
    OBVIOUS
  <2>4. q \in PlayerRows /\ Alike(p, q) /\ q.naps = p.naps /\ q.loads = p.loads
    BY <2>2, <2>3 DEF Good, Kept, PlayerRows, Alike
  <2>5. Kept(q)
    BY <2>4 DEF Good, Kept, Alike
  <2>6. Preparing(p) = q
    BY <1>2, <2>1, <2>3 DEF Preparing
  <2> QED
    BY <2>4, <2>5, <2>6, AlikeAgrees
<1>3. CASE ~(Count(p.preparingTicks) < PreparingStallTicks)
  <2>1. PICK q : q = [p EXCEPT !.preparingTicks = 0]
    OBVIOUS
  <2>2. q \in PlayerRows /\ Alike(p, q) /\ q.naps = p.naps /\ q.loads = p.loads
    <3>1. 0 \in 0..(PreparingStallTicks - 1)
      BY PlayerAssumption
    <3> QED
      BY <2>1, <3>1 DEF Good, Kept, PlayerRows, Alike
  <2>3. Kept(q)
    BY <2>2 DEF Good, Kept, Alike
  <2>4. Preparing(p) = SetError(Hush(q), p.now.ep)
    BY <1>3, <2>1 DEF Preparing
  <2> QED
    BY <1>1, <2>3, <2>4, SetErrorGood
<1> QED
  BY <1>2, <1>3

\* What the screen may show while events are read.
Shown == {"Loading", "Playing", "Paused", "Error"}

LEMMA TimeUpdateIs ==
    ASSUME NEW p, Kept(p), p.now.state \in Shown
    PROVE  /\ Kept(OnTimeUpdate(p)) /\ OnTimeUpdate(p).element = p.element
           /\ OnTimeUpdate(p).events = p.events /\ OnTimeUpdate(p).retrying = p.retrying
           /\ OnTimeUpdate(p).misled = p.misled /\ OnTimeUpdate(p).now.ep = p.now.ep
           /\ OnTimeUpdate(p).now.state = IF p.now.state = "Loading" THEN "Playing" ELSE p.now.state
<1>1. PICK state, at : state = (IF p.now.state = "Loading" THEN "Playing" ELSE p.now.state) /\ at = p.element.at
  OBVIOUS
<1>2. PICK now : now = [p.now EXCEPT !.at = at, !.state = state]
  OBVIOUS
<1>3. now \in NowRows /\ now.state = state /\ now.ep = p.now.ep
  <2>1. p.now \in NowRows /\ at \in 0..Length /\ state \in States
    BY <1>1 DEF Kept, PlayerRows, ElementRows, States, Shown
  <2> QED
    BY <1>2, <2>1 DEF NowRows
<1>4. PICK retries : retries = IF p.now.state = "Loading" THEN 0 ELSE p.retries
  OBVIOUS
<1>5. PICK q : q = [p EXCEPT !.now = now, !.retries = retries]
  OBVIOUS
<1>6. OnTimeUpdate(p) = q
  <2>1. p \in PlayerRows
    BY DEF Kept
  <2> QED
    BY <1>1, <1>2, <1>4, <1>5, <2>1 DEF OnTimeUpdate, PlayerRows, NowRows
<1>7. /\ q \in PlayerRows /\ q.now = now /\ q.element = p.element /\ q.events = p.events
      /\ q.retrying = p.retrying /\ q.misled = p.misled /\ q.naps = p.naps /\ q.loads = p.loads
  <2>1. retries \in 0..LocalRetries
    BY <1>4, PlayerAssumption DEF Kept, PlayerRows
  <2> QED
    BY <1>3, <1>5, <2>1 DEF Kept, PlayerRows
<1>8. Kept(q)
  <2>1. state # "None" /\ p.now.state # "None"
    BY <1>1 DEF Shown
  <2> QED
    BY <1>3, <1>7, <2>1 DEF Kept
<1> QED
  BY <1>1, <1>3, <1>6, <1>7, <1>8

LEMMA BackendErrorIs ==
    ASSUME NEW p, Kept(p), p.now.state \in Shown, NEW stale \in BOOLEAN
    PROVE  /\ Kept(OnBackendError(p, stale)) /\ OnBackendError(p, stale).element = p.element
           /\ OnBackendError(p, stale).events = p.events /\ OnBackendError(p, stale).now.ep = p.now.ep
           /\ \/ /\ OnBackendError(p, stale).now.state = "Loading"
                 /\ OnBackendError(p, stale).misled = p.misled
              \/ /\ OnBackendError(p, stale).now.state = "Error"
                 /\ OnBackendError(p, stale).misled = (p.misled \/ stale)
                 /\ OnBackendError(p, stale).retrying = p.retrying
<1>1. CASE p.now.state = "Loading" /\ p.element.local /\ MayRetry(p) /\ ~p.retrying
  <2>1. PICK retries, naps : retries = p.retries + 1 /\ naps = p.naps \cup {p.now.ep}
    OBVIOUS
  <2>2. retries \in 0..LocalRetries /\ naps \in SUBSET Episodes /\ naps # {}
    <3>1. p.now.ep \in Episodes
      BY <1>1 DEF Kept, PlayerRows, NowRows, Maybe
    <3>2. p.retries \in Nat /\ p.retries < LocalRetries /\ LocalRetries \in Nat
      BY <1>1, PlayerAssumption DEF MayRetry, Kept, PlayerRows
    <3> QED
      BY <2>1, <3>1, <3>2, SMTT(30) DEF Kept, PlayerRows
  <2>3. PICK q : q = [p EXCEPT !.retries = retries, !.retrying = TRUE, !.naps = naps]
    OBVIOUS
  <2>4. OnBackendError(p, stale) = q
    BY <1>1, <2>1, <2>3 DEF OnBackendError
  <2>5. /\ q \in PlayerRows /\ q.now = p.now /\ q.element = p.element /\ q.events = p.events
        /\ q.misled = p.misled /\ q.naps = naps /\ q.loads = p.loads
    BY <2>2, <2>3 DEF Kept, PlayerRows
  <2>6. Kept(q)
    BY <2>2, <2>5 DEF Kept
  <2> QED
    BY <1>1, <2>4, <2>5, <2>6
<1>2. CASE ~(p.now.state = "Loading" /\ p.element.local /\ MayRetry(p) /\ ~p.retrying)
  <2>1. PICK t : t = Turn(p, "Error")
    OBVIOUS
  <2>2. /\ Kept(t) /\ t.now.state = "Error" /\ t.now.ep = p.now.ep /\ t.element = p.element
        /\ t.events = p.events /\ t.retrying = p.retrying /\ t.misled = p.misled
    <3>1. p.now.state # "None" /\ "Error" \in States \ {"None"}
      BY DEF Shown, States
    <3> QED
      BY <2>1, <3>1, StateKeeps
  <2>3. PICK misled : misled = (p.misled \/ stale)
    OBVIOUS
  <2>4. PICK q : q = [t EXCEPT !.misled = misled]
    OBVIOUS
  <2>5. OnBackendError(p, stale) = q
    BY <1>2, <2>1, <2>3, <2>4 DEF OnBackendError, Turn
  <2>6. /\ q \in PlayerRows /\ q.now = t.now /\ q.element = t.element /\ q.events = t.events
        /\ q.retrying = t.retrying /\ q.misled = misled /\ q.naps = t.naps /\ q.loads = t.loads
    BY <2>2, <2>3, <2>4, ZenonT(30) DEF Kept, PlayerRows
  <2>7. Kept(q)
    BY <2>2, <2>6 DEF Kept
  <2> QED
    BY <2>2, <2>3, <2>5, <2>6, <2>7
<1> QED
  BY <1>1, <1>2

LEMMA ConcatIs ==
    ASSUME NEW S, NEW a \in Seq(S), NEW b \in Seq(S), NEW ab, ab = a \o b
    PROVE  /\ ab \in Seq(S) /\ Len(ab) = Len(a) + Len(b)
           /\ \A i \in 1..Len(a) : ab[i] = a[i]
           /\ \A i \in (Len(a) + 1)..Len(ab) : i - Len(a) \in 1..Len(b) /\ ab[i] = b[i - Len(a)]
<1>1. ab \in Seq(S) /\ Len(ab) = Len(a) + Len(b) /\ Len(a) \in Nat /\ Len(b) \in Nat
  OBVIOUS
<1>2. \A i \in 1..Len(a) : ab[i] = a[i]
  OBVIOUS
<1>3. ASSUME NEW i \in (Len(a) + 1)..Len(ab)
      PROVE  i - Len(a) \in 1..Len(b) /\ ab[i] = b[i - Len(a)]
  BY <1>1
<1> QED
  BY <1>1, <1>2, <1>3

\* What a tick reads: the queue as it is, then what the element is found to be.
PolledRows == [kind : {"Playing", "Paused", "Error", "TimeUpdate", "Ended"}, stale : BOOLEAN]

LEMMA PolledIs ==
    ASSUME NEW p, Kept(p)
    PROVE  /\ Polled(p) \in Seq(PolledRows) /\ Len(p.events) <= Len(Polled(p))
           /\ \A i \in 1..Len(p.events) : Polled(p)[i] = p.events[i]
           /\ \A i \in (Len(p.events) + 1)..Len(Polled(p)) :
                 /\ Polled(p)[i].kind \in {"TimeUpdate", "Error", "Ended"}
                 /\ Polled(p)[i].kind = "Error" => p.element.ready = "failed"
                 /\ Polled(p)[i].kind = "TimeUpdate" => Rendering(p.element)
<1>1. PICK a : a = IF Rendering(p.element) THEN <<Event("TimeUpdate")>> ELSE <<>>
  OBVIOUS
<1>2. PICK b : b = IF p.element.ready = "failed" THEN <<Event("Error")>> ELSE <<>>
  OBVIOUS
<1>3. PICK c : c = IF AtEnd(p.element) THEN <<Event("Ended")>> ELSE <<>>
  OBVIOUS
<1>4. PICK polled : polled = Polled(p)
  OBVIOUS
<1>5. polled = p.events \o a \o b \o c
  BY <1>1, <1>2, <1>3, <1>4 DEF Polled
<1>6. \A kind \in {"Error", "TimeUpdate", "Ended"} : Event(kind) \in PolledRows /\ Event(kind).kind = kind
  BY DEF Event, PolledRows
<1>7. p.events \in Seq(PolledRows)
  <2>1. EventRows \subseteq PolledRows
    BY DEF EventRows, PolledRows
  <2>2. p.events \in Seq(EventRows)
    BY DEF Kept, PlayerRows
  <2> QED
    BY <2>1, <2>2
<1>8. a \in Seq(PolledRows) /\ \A i \in 1..Len(a) : a[i].kind = "TimeUpdate" /\ Rendering(p.element)
  BY <1>1, <1>6
<1>9. b \in Seq(PolledRows) /\ \A i \in 1..Len(b) : b[i].kind = "Error" /\ p.element.ready = "failed"
  BY <1>2, <1>6
<1>10. c \in Seq(PolledRows) /\ \A i \in 1..Len(c) : c[i].kind = "Ended"
  BY <1>3, <1>6
<1>11. PICK ab : ab = p.events \o a
  OBVIOUS
<1>12. /\ ab \in Seq(PolledRows) /\ Len(ab) = Len(p.events) + Len(a)
       /\ \A i \in 1..Len(p.events) : ab[i] = p.events[i]
       /\ \A i \in (Len(p.events) + 1)..Len(ab) : ab[i].kind = "TimeUpdate" /\ Rendering(p.element)
  BY <1>7, <1>8, <1>11, ConcatIs
<1>13. PICK bc : bc = ab \o b
  OBVIOUS
<1>14. /\ bc \in Seq(PolledRows) /\ Len(bc) = Len(ab) + Len(b)
       /\ \A i \in 1..Len(ab) : bc[i] = ab[i]
       /\ \A i \in (Len(ab) + 1)..Len(bc) : bc[i].kind = "Error" /\ p.element.ready = "failed"
  <2>1. bc = ab \o b
    BY <1>13
  <2>2. ab \in Seq(PolledRows) /\ b \in Seq(PolledRows)
    BY <1>9, <1>10, <1>12
  <2>3. /\ bc \in Seq(PolledRows) /\ Len(bc) = Len(ab) + Len(b)
        /\ \A i \in 1..Len(ab) : bc[i] = ab[i]
        /\ \A i \in (Len(ab) + 1)..Len(bc) : i - Len(ab) \in 1..Len(b) /\ bc[i] = b[i - Len(ab)]
    BY <2>1, <2>2, ConcatIs
  <2> QED
    BY <1>9, <1>10, <2>3
<1>15. /\ polled \in Seq(PolledRows) /\ Len(polled) = Len(bc) + Len(c)
       /\ \A i \in 1..Len(bc) : polled[i] = bc[i]
       /\ \A i \in (Len(bc) + 1)..Len(polled) : polled[i].kind = "Ended"
  <2>1. polled = bc \o c
    BY <1>5, <1>11, <1>13
  <2>2. bc \in Seq(PolledRows) /\ c \in Seq(PolledRows)
    BY <1>9, <1>10, <1>12, <1>14
  <2>3. /\ polled \in Seq(PolledRows) /\ Len(polled) = Len(bc) + Len(c)
        /\ \A i \in 1..Len(bc) : polled[i] = bc[i]
        /\ \A i \in (Len(bc) + 1)..Len(polled) : i - Len(bc) \in 1..Len(c) /\ polled[i] = c[i - Len(bc)]
    BY <2>1, <2>2, ConcatIs
  <2> QED
    BY <1>9, <1>10, <2>3
<1>16. Len(p.events) \in Nat /\ Len(a) \in Nat /\ Len(b) \in Nat /\ Len(c) \in Nat
  BY <1>7, <1>8, <1>9, <1>10
<1>17. Len(p.events) <= Len(ab) /\ Len(ab) <= Len(bc) /\ Len(bc) <= Len(polled)
  BY <1>12, <1>14, <1>15, <1>16
<1>18. Len(ab) \in Nat /\ Len(bc) \in Nat /\ Len(polled) \in Nat
  BY <1>12, <1>14, <1>15
<1>19. Len(p.events) <= Len(polled) /\ \A i \in 1..Len(p.events) : polled[i] = p.events[i]
  <2>1. \A i \in 1..Len(p.events) : i \in 1..Len(ab) /\ i \in 1..Len(bc)
    BY <1>16, <1>17, <1>18
  <2> QED
    BY <1>12, <1>14, <1>15, <1>16, <1>17, <1>18, <2>1
<1>20. ASSUME NEW i \in (Len(p.events) + 1)..Len(polled)
       PROVE  /\ polled[i].kind \in {"TimeUpdate", "Error", "Ended"}
              /\ polled[i].kind = "Error" => p.element.ready = "failed"
              /\ polled[i].kind = "TimeUpdate" => Rendering(p.element)
  <2>1. CASE i <= Len(ab)
    <3>1. i \in (Len(p.events) + 1)..Len(ab) /\ i \in 1..Len(ab) /\ i \in 1..Len(bc)
      BY <1>16, <1>17, <1>18, <2>1
    <3>2. ab[i].kind = "TimeUpdate" /\ Rendering(p.element) /\ bc[i] = ab[i] /\ polled[i] = bc[i]
      BY <1>12, <1>14, <1>15, <3>1
    <3> QED
      BY <3>2
  <2>2. CASE i > Len(ab) /\ i <= Len(bc)
    <3>1. i \in (Len(ab) + 1)..Len(bc) /\ i \in 1..Len(bc)
      BY <1>16, <1>17, <1>18, <2>2
    <3> QED
      BY <1>14, <1>15, <3>1
  <2>3. CASE i > Len(bc)
    <3>1. i \in (Len(bc) + 1)..Len(polled)
      BY <1>16, <1>17, <1>18, <2>3
    <3> QED
      BY <1>15, <3>1
  <2> QED
    BY <1>16, <1>17, <1>18, <2>1, <2>2, <2>3
<1> QED
  BY <1>4, <1>15, <1>19, <1>20

LEMMA LeastOf ==
    ASSUME NEW T, T \subseteq Nat, T # {}
    PROVE  \E x \in T : \A y \in T : x <= y
<1> DEFINE R == OpToRel(<, Nat)
<1>1. \A x, y \in Nat : <<y, x>> \in R <=> y < x
  BY DEF OpToRel
<1>2. IsWellFoundedOn(R, Nat)
  BY NatLessThanWellFounded, Zenon
<1> HIDE DEF R
<1>3. PICK x \in T : \A y \in T : ~(<<y, x>> \in R)
  BY <1>2, WFMin
<1>4. \A y \in T : ~(y < x)
  BY <1>1, <1>3
<1> QED
  BY <1>4

\* What holds of 0 and of the successor of what it holds of holds of every number.
LEMMA InductiveSet ==
    ASSUME NEW S, 0 \in S, \A n \in Nat : n \in S => n + 1 \in S
    PROVE  Nat \subseteq S
<1>1. SUFFICES ASSUME Nat \ S # {} PROVE FALSE
  OBVIOUS
<1>2. PICK x \in Nat \ S : \A y \in Nat \ S : x <= y
  BY <1>1, LeastOf
<1>3. x # 0 /\ x - 1 \in Nat /\ x - 1 \notin Nat \ S
  BY <1>2
<1> QED
  BY <1>2, <1>3


\* The queue is read from the left: the function that the drain's definition chooses exists.
LEMMA DrainBuilds ==
    ASSUME NEW p, NEW polled \in Seq(PolledRows), polled = Polled(p)
    PROVE  \E f : /\ \A n \in 1..Len(polled) : f[n] = OnEvent(f[n - 1], polled[n])
                  /\ f[0] = [p EXCEPT !.events = <<>>] /\ DrainEvents(p) = {f[Len(polled)]}
<1> DEFINE After(f, n) == IF n = 0 THEN [p EXCEPT !.events = <<>>] ELSE OnEvent(f[n - 1], polled[n])
           Built(f, m) == f = [n \in 0..m |-> After(f, n)]
           T == {m \in Nat : \E f : Built(f, m)}
<1>1. 0 \in T
  <2> DEFINE f == [n \in 0..0 |-> [p EXCEPT !.events = <<>>]]
  <2>1. f = [n \in 0..0 |-> After(f, n)]
    OBVIOUS
  <2>2. Built(f, 0)
    BY <2>1
  <2> QED
    BY <2>2
<1>2. ASSUME NEW m \in Nat, m \in T
      PROVE  m + 1 \in T
  <2>1. PICK f : f = [n \in 0..m |-> After(f, n)]
    BY <1>2
  <2> DEFINE g == [n \in 0..(m + 1) |-> IF n = m + 1 THEN After(f, n) ELSE f[n]]
  <2>2. ASSUME NEW n \in 0..(m + 1)
        PROVE  g[n] = After(g, n)
    <3>1. CASE n = 0
      BY <2>1, <3>1
    <3>2. CASE n # 0
      <4>1. n - 1 \in 0..m /\ n - 1 \in 0..(m + 1) /\ n - 1 # m + 1
        BY <3>2
      <4>2. g[n - 1] = f[n - 1]
        BY <4>1
      <4>3. After(g, n) = After(f, n)
        BY <3>2, <4>2
      <4>4. CASE n = m + 1
        BY <4>3, <4>4
      <4>5. CASE n # m + 1
        <5>1. n \in 0..m
          BY <4>5
        <5>2. f[n] = After(f, n)
          <6> HIDE DEF After
          <6> QED
            BY <2>1, <5>1
        <5> QED
          BY <4>3, <4>5, <5>2
      <4> QED
        BY <4>4, <4>5
    <3> QED
      BY <3>1, <3>2
  <2>3. g = [n \in 0..(m + 1) |-> g[n]]
    OBVIOUS
  <2> HIDE DEF g, After
  <2>4. g = [n \in 0..(m + 1) |-> After(g, n)]
    BY <2>2, <2>3
  <2> QED
    BY <2>4
<1> HIDE DEF T
<1>3. Len(polled) \in T
  BY <1>1, <1>2, InductiveSet
<1>4. \E f : Built(f, Len(polled))
  BY <1>3 DEF T
<1>5. DrainEvents(p) = {(CHOOSE f : Built(f, Len(polled)))[Len(polled)]}
  BY DEF DrainEvents
<1>6. PICK f : f = CHOOSE x : Built(x, Len(polled))
  OBVIOUS
<1>7. f = [n \in 0..Len(polled) |-> After(f, n)]
  BY <1>4, <1>6
<1>8. DrainEvents(p) = {f[Len(polled)]}
  BY <1>5, <1>6
<1> HIDE DEF Built
<1>9. f[0] = [p EXCEPT !.events = <<>>]
  BY <1>7
<1>10. ASSUME NEW n \in 1..Len(polled)
       PROVE  f[n] = OnEvent(f[n - 1], polled[n])
  <2>1. n \in 0..Len(polled) /\ n # 0
    OBVIOUS
  <2>2. f[n] = After(f, n)
    <3> HIDE DEF After
    <3> QED
      BY <1>7, <2>1
  <2> QED
    BY <2>1, <2>2
<1> QED
  BY <1>8, <1>9, <1>10

\* After n of the events that a tick of p has polled.
Folded(p, n, q) ==
    LET polled == Polled(p) IN
    /\ Kept(q) /\ q.element = p.element /\ q.events = <<>> /\ q.now.ep = p.now.ep
    /\ q.now.state \in Shown
    /\ q.retrying => q.now.state # "Paused" /\ (n <= Len(p.events) => q.now.state # "Playing")
    /\ q.now.state = "Error" /\ ~q.misled => Still(p)
    /\ q.now.state = "Paused" /\ ~q.misled /\ Heard(p.element) =>
          \E j \in (n + 1)..Len(polled) : polled[j].kind = "Playing"

LEMMA FoldStep ==
    ASSUME NEW p, Good(p), NEW n \in Nat, n + 1 <= Len(Polled(p)), NEW q, Folded(p, n, q)
    PROVE  Folded(p, n + 1, OnEvent(q, Polled(p)[n + 1]))
<1>1. PICK polled : polled = Polled(p)
  OBVIOUS
<1>2. PICK event : event = polled[n + 1]
  OBVIOUS
<1>3. PICK r : r = OnEvent(q, event)
  OBVIOUS
<1>4. /\ polled \in Seq(PolledRows) /\ Len(polled) \in Nat /\ Len(p.events) \in Nat
      /\ Len(p.events) <= Len(polled) /\ DOMAIN p.events = 1..Len(p.events)
      /\ \A i \in 1..Len(p.events) : polled[i] = p.events[i]
      /\ \A i \in (Len(p.events) + 1)..Len(polled) :
            /\ polled[i].kind \in {"TimeUpdate", "Error", "Ended"}
            /\ polled[i].kind = "Error" => p.element.ready = "failed"
  <2>1. Kept(p) /\ p.events \in Seq(EventRows)
    BY DEF Good, Kept, PlayerRows
  <2> QED
    BY <1>1, <2>1, PolledIs
<1>5. event \in PolledRows /\ n + 1 \in 1..Len(polled)
  BY <1>1, <1>2, <1>4
<1>6. /\ Kept(q) /\ q.element = p.element /\ q.events = <<>> /\ q.now.ep = p.now.ep
      /\ q.now.state \in Shown
      /\ q.retrying => q.now.state # "Paused" /\ (n <= Len(p.events) => q.now.state # "Playing")
      /\ q.now.state = "Error" /\ ~q.misled => Still(p)
      /\ q.now.state = "Paused" /\ ~q.misled /\ Heard(p.element) =>
            \E j \in (n + 1)..Len(polled) : polled[j].kind = "Playing"
  BY <1>1 DEF Folded
<1>7. event.kind # "Playing" =>
         (q.now.state = "Paused" /\ ~q.misled /\ Heard(p.element) =>
            \E j \in (n + 2)..Len(polled) : polled[j].kind = "Playing")
  <2>1. ASSUME event.kind # "Playing", NEW j \in (n + 1)..Len(polled), polled[j].kind = "Playing"
        PROVE  j \in (n + 2)..Len(polled)
    BY <1>2, <1>4, <2>1
  <2> QED
    BY <1>6, <2>1
<1>8. SUFFICES /\ Kept(r) /\ r.element = p.element /\ r.events = <<>> /\ r.now.ep = p.now.ep
               /\ r.now.state \in Shown
               /\ r.retrying => r.now.state # "Paused" /\ (n + 1 <= Len(p.events) => r.now.state # "Playing")
               /\ r.now.state = "Error" /\ ~r.misled => Still(p)
               /\ r.now.state = "Paused" /\ ~r.misled /\ Heard(p.element) =>
                     \E j \in (n + 2)..Len(polled) : polled[j].kind = "Playing"
  <2>1. (n + 1) + 1 = n + 2
    OBVIOUS
  <2> QED
    BY <1>1, <1>2, <1>3, <2>1 DEF Folded
<1>9. n <= Len(p.events) \/ n > Len(p.events)
  BY <1>4
<1>10. CASE event.kind = "TimeUpdate"
  <2>1. r = OnTimeUpdate(q)
    BY <1>3, <1>10 DEF OnEvent
  <2>2. ~(n + 1 <= Len(p.events))
    <3>1. SUFFICES ASSUME n + 1 <= Len(p.events) PROVE FALSE
      OBVIOUS
    <3>2. n + 1 \in 1..Len(p.events) /\ p.events \in Seq(EventRows)
      BY <1>4, <3>1 DEF Good, Kept, PlayerRows
    <3>3. event \in EventRows
      BY <1>2, <1>4, <3>2
    <3> QED
      BY <1>10, <3>3 DEF EventRows
  <2>3. /\ Kept(r) /\ r.element = q.element /\ r.events = q.events /\ r.now.ep = q.now.ep
        /\ r.retrying = q.retrying /\ r.misled = q.misled
        /\ r.now.state = IF q.now.state = "Loading" THEN "Playing" ELSE q.now.state
    BY <1>6, <2>1, TimeUpdateIs
  <2> QED
    BY <1>6, <1>7, <1>10, <2>2, <2>3 DEF Shown
<1>11. CASE event.kind = "Paused" /\ q.now.state = "Playing"
  <2>1. PICK t : t = Turn(q, "Paused")
    OBVIOUS
  <2>2. r = PersistCursor(t)
    BY <1>3, <1>11, <2>1 DEF OnEvent, Turn
  <2>3. /\ Kept(t) /\ t.now.state = "Paused" /\ t.now.ep = q.now.ep /\ t.element = q.element
        /\ t.events = q.events /\ t.retrying = q.retrying /\ t.misled = q.misled
    <3>1. q.now.state # "None" /\ "Paused" \in States \ {"None"}
      BY <1>11 DEF States
    <3> QED
      BY <1>6, <2>1, <3>1, StateKeeps
  <2>4. /\ Kept(r) /\ r.now = t.now /\ r.element = t.element /\ r.events = t.events
        /\ r.retrying = t.retrying /\ r.misled = t.misled
    BY <2>2, <2>3, PersistCursorKeeps DEF Alike
  <2>5. n + 1 \in DOMAIN p.events /\ p.events[n + 1].kind = "Paused" /\ n <= Len(p.events)
    <3>1. SUFFICES n + 1 <= Len(p.events)
      BY <1>2, <1>4, <1>11
    <3> QED
      BY <1>2, <1>4, <1>5, <1>11
  <2>6. ~q.retrying
    BY <1>6, <1>11, <2>5
  <2>7. Heard(p.element) => \E j \in (n + 2)..Len(polled) : polled[j].kind = "Playing"
    <3>1. ASSUME Heard(p.element)
          PROVE  \E j \in (n + 2)..Len(polled) : polled[j].kind = "Playing"
      <4>1. PICK j \in DOMAIN p.events : n + 1 < j /\ p.events[j].kind = "Playing"
        BY <2>5, <3>1 DEF Good, Told
      <4>2. j \in (n + 2)..Len(polled) /\ polled[j].kind = "Playing"
        BY <1>4, <4>1
      <4> QED
        BY <4>2
    <3> QED
      BY <3>1
  <2> QED
    BY <1>6, <2>3, <2>4, <2>6, <2>7 DEF Shown
<1>12. CASE event.kind = "Playing" /\ q.now.state = "Paused"
  <2>1. r = Turn(q, "Playing")
    BY <1>3, <1>12 DEF OnEvent, Turn
  <2>2. /\ Kept(r) /\ r.now.state = "Playing" /\ r.now.ep = q.now.ep /\ r.element = q.element
        /\ r.events = q.events /\ r.retrying = q.retrying /\ r.misled = q.misled
    <3>1. q.now.state # "None" /\ "Playing" \in States \ {"None"}
      BY <1>12 DEF States
    <3> QED
      BY <1>6, <2>1, <3>1, StateKeeps
  <2> QED
    BY <1>6, <1>12, <2>2 DEF Shown
<1>13. CASE event.kind = "Error"
  <2>1. r = OnBackendError(q, event.stale) /\ event.stale \in BOOLEAN
    BY <1>3, <1>5, <1>13 DEF OnEvent, PolledRows
  <2>2. /\ Kept(r) /\ r.element = q.element /\ r.events = q.events /\ r.now.ep = q.now.ep
        /\ \/ r.now.state = "Loading" /\ r.misled = q.misled
           \/ /\ r.now.state = "Error" /\ r.misled = (q.misled \/ event.stale)
              /\ r.retrying = q.retrying
    BY <1>6, <2>1, BackendErrorIs
  <2>3. ~event.stale => Still(p)
    <3>1. CASE n + 1 <= Len(p.events)
      <4>1. n + 1 \in DOMAIN p.events /\ p.events[n + 1] = event
        BY <1>2, <1>4, <3>1
      <4> QED
        BY <1>13, <4>1 DEF Good, Told
    <3>2. CASE n + 1 > Len(p.events)
      <4>1. n + 1 \in (Len(p.events) + 1)..Len(polled)
        BY <1>4, <1>5, <3>2
      <4>2. p.element.ready = "failed"
        BY <1>2, <1>4, <1>13, <4>1
      <4> QED
        BY <4>2 DEF Still
    <3> QED
      BY <1>4, <3>1, <3>2
  <2> QED
    BY <1>6, <2>2, <2>3 DEF Shown
<1>14. CASE /\ event.kind \notin {"TimeUpdate", "Error"}
            /\ ~(event.kind = "Paused" /\ q.now.state = "Playing")
            /\ ~(event.kind = "Playing" /\ q.now.state = "Paused")
  <2>1. r = q
    BY <1>3, <1>14 DEF OnEvent
  <2>2. q.retrying => (n + 1 <= Len(p.events) => q.now.state # "Playing")
    BY <1>4, <1>6
  <2> QED
    BY <1>6, <1>7, <1>14, <2>1, <2>2
<1> QED
  BY <1>10, <1>11, <1>12, <1>13, <1>14

\* Before the first of them.
LEMMA DrainStart ==
    ASSUME NEW p, Good(p), ~p.retrying, p.now.state \in {"Loading", "Playing", "Paused"},
           NEW q, q = [p EXCEPT !.events = <<>>]
    PROVE  Folded(p, 0, q)
<1>1. PICK polled : polled = Polled(p)
  OBVIOUS
<1>2. Kept(p) /\ p.events \in Seq(EventRows)
  BY DEF Good, Kept, PlayerRows
<1>3. /\ Len(polled) \in Nat /\ Len(p.events) \in Nat /\ Len(p.events) <= Len(polled)
      /\ \A i \in 1..Len(p.events) : polled[i] = p.events[i]
  BY <1>1, <1>2, PolledIs
<1>4. /\ q \in PlayerRows /\ q.now = p.now /\ q.element = p.element /\ q.events = <<>>
      /\ q.retrying = p.retrying /\ q.misled = p.misled /\ q.naps = p.naps /\ q.loads = p.loads
  <2>1. <<>> \in Seq(EventRows)
    OBVIOUS
  <2> QED
    BY <1>2, <2>1 DEF Kept, PlayerRows
<1>5. Kept(q)
  BY <1>2, <1>4 DEF Kept
<1>6. ASSUME p.now.state = "Paused", ~p.misled, Heard(p.element)
      PROVE  \E j \in 1..Len(polled) : polled[j].kind = "Playing"
  <2>1. PICK j \in DOMAIN p.events : p.events[j].kind = "Playing"
    BY <1>6 DEF Good, Agrees
  <2>2. j \in 1..Len(p.events)
    BY <1>2
  <2>3. j \in 1..Len(polled) /\ polled[j] = p.events[j]
    BY <1>3, <2>2
  <2> QED
    BY <2>1, <2>3
<1>7. 0 + 1 = 1
  OBVIOUS
<1> QED
  BY <1>1, <1>4, <1>5, <1>6, <1>7 DEF Folded, Shown

\* After all of them.
LEMMA DrainGood ==
    ASSUME NEW p, Good(p), ~p.retrying, p.now.state \in {"Loading", "Playing", "Paused"},
           NEW q \in DrainEvents(p)
    PROVE  Good(q) /\ q.element = p.element /\ q.now.ep = p.now.ep /\ q.now.state # "None"
<1>1. PICK polled : polled = Polled(p)
  OBVIOUS
<1>2. polled \in Seq(PolledRows) /\ Len(polled) \in Nat /\ Len(p.events) \in Nat /\ Len(p.events) <= Len(polled)
  <2>1. Kept(p) /\ p.events \in Seq(EventRows)
    BY DEF Good, Kept, PlayerRows
  <2> QED
    BY <1>1, <2>1, PolledIs
<1>3. PICK f : /\ \A n \in 1..Len(polled) : f[n] = OnEvent(f[n - 1], polled[n])
               /\ f[0] = [p EXCEPT !.events = <<>>] /\ DrainEvents(p) = {f[Len(polled)]}
  BY <1>1, <1>2, DrainBuilds
<1>4. PICK T : T = {n \in Nat : n <= Len(polled) => Folded(p, n, f[n])}
  OBVIOUS
<1>5. 0 \in T
  <2>1. Folded(p, 0, f[0])
    BY <1>3, DrainStart
  <2> QED
    BY <1>4, <2>1
<1>6. ASSUME NEW n \in Nat, n \in T
      PROVE  n + 1 \in T
  <2>1. SUFFICES ASSUME n + 1 <= Len(polled)
                 PROVE  Folded(p, n + 1, f[n + 1])
    BY <1>4
  <2>2. n <= Len(polled) /\ n + 1 \in 1..Len(polled) /\ (n + 1) - 1 = n
    BY <1>2, <2>1
  <2>3. Folded(p, n, f[n])
    BY <1>4, <1>6, <2>2
  <2>4. f[n + 1] = OnEvent(f[n], polled[n + 1])
    BY <1>3, <2>2
  <2> QED
    BY <1>1, <2>1, <2>3, <2>4, FoldStep
<1>7. Len(polled) \in T
  BY <1>2, <1>5, <1>6, InductiveSet
<1>8. Folded(p, Len(polled), q)
  BY <1>2, <1>3, <1>4, <1>7
<1>9. /\ Kept(q) /\ q.element = p.element /\ q.events = <<>> /\ q.now.ep = p.now.ep
      /\ q.now.state \in Shown /\ (q.retrying => q.now.state # "Paused")
      /\ q.now.state = "Error" /\ ~q.misled => Still(p)
      /\ ~(q.now.state = "Paused" /\ ~q.misled /\ Heard(p.element))
  <2>1. \A j \in (Len(polled) + 1)..Len(polled) : FALSE
    BY <1>2
  <2> QED
    BY <1>1, <1>8, <2>1 DEF Folded
<1>10. p.element.ep = p.now.ep
  BY DEF Good, Agrees
<1>11. Told(q) /\ Agrees(q)
  BY <1>9, <1>10 DEF Told, Agrees, Shown, Still
<1> QED
  BY <1>9, <1>11 DEF Good, Shown

LEMMA MoveToIs ==
    ASSUME NEW el \in ElementRows, Sane(el), el.ready = "data", NEW at \in 0..Length
    PROVE  /\ MoveTo(el, at) \in ElementRows /\ Sane(MoveTo(el, at))
           /\ MoveTo(el, at).ep = el.ep /\ MoveTo(el, at).ready = el.ready
           /\ MoveTo(el, at).held = el.held /\ (MoveTo(el, at).on => el.on)
<1>1. PICK on : on = (el.on /\ at < Length)
  OBVIOUS
<1>2. PICK m : m = [el EXCEPT !.at = at, !.seek = NoSeek, !.on = on]
  OBVIOUS
<1>3. MoveTo(el, at) = m
  BY <1>1, <1>2 DEF MoveTo
<1>4. /\ m \in ElementRows /\ m.ep = el.ep /\ m.ready = el.ready /\ m.held = el.held
      /\ m.on = on /\ m.at = at
  <2>1. on \in BOOLEAN
    BY <1>1
  <2> QED
    BY <1>2, <2>1 DEF ElementRows
<1>5. Sane(m)
  <2>1. at = Length => ~(at < Length)
    BY PlayerAssumption
  <2> QED
    BY <1>1, <1>4, <2>1 DEF Sane, AtEnd
<1> QED
  BY <1>1, <1>3, <1>4, <1>5

\* An element that is moved, and not told to play, agrees with what it agreed with.
LEMMA MovedGood ==
    ASSUME NEW p, Good(p), NEW el \in ElementRows, Sane(el), el.ep = p.element.ep,
           el.ready = p.element.ready, el.held = p.element.held, el.on => p.element.on,
           NEW q, Kept(q), q.element = el, q.now.ep = p.now.ep, q.now.state = p.now.state,
           q.events = p.events, q.retrying = p.retrying, q.misled = p.misled
    PROVE  Good(q)
<1>1. (Heard(q.element) => Heard(p.element)) /\ (Still(p) => Still(q))
  BY DEF Heard, Still
<1>2. Told(q)
  BY <1>1 DEF Good, Told
<1>3. Agrees(q)
  BY <1>1 DEF Good, Agrees
<1> QED
  BY <1>2, <1>3 DEF Good

LEMMA SoughtGood ==
    ASSUME NEW p, Good(p)
    PROVE  Good(Sought(p)) /\ Sought(p).now = p.now /\ Sought(p).retrying = p.retrying
<1>1. CASE p.element.ready = "data" /\ p.element.seek # NoSeek
  <2>1. PICK el : el = MoveTo(p.element, p.element.seek)
    OBVIOUS
  <2>2. p.element \in ElementRows /\ p.element.seek \in 0..Length
    BY <1>1 DEF Good, Kept, PlayerRows, ElementRows
  <2>3. /\ el \in ElementRows /\ Sane(el) /\ el.ep = p.element.ep /\ el.ready = p.element.ready
        /\ el.held = p.element.held /\ (el.on => p.element.on)
    BY <1>1, <2>1, <2>2, MoveToIs DEF Good
  <2>4. PICK q : q = [p EXCEPT !.element = el]
    OBVIOUS
  <2>5. Sought(p) = q
    BY <1>1, <2>1, <2>4 DEF Sought, Good, Kept, PlayerRows
  <2>6. /\ Kept(q) /\ q.element = el /\ q.now = p.now /\ q.events = p.events
        /\ q.retrying = p.retrying /\ q.misled = p.misled
    BY <2>3, <2>4, ElementKeeps DEF Good
  <2> QED
    BY <2>3, <2>5, <2>6, MovedGood
<1>2. CASE ~(p.element.ready = "data" /\ p.element.seek # NoSeek)
  BY <1>2 DEF Sought
<1> QED
  BY <1>1, <1>2

\* The ticks are not counted on while nothing prepares.
LEMMA TickedGood ==
    ASSUME NEW p, Good(p), NEW q, q = [p EXCEPT !.preparingTicks = 0]
    PROVE  Good(q) /\ Alike(p, q)
<1>1. 0 \in 0..(PreparingStallTicks - 1)
  BY PlayerAssumption
<1>2. q \in PlayerRows /\ Alike(p, q) /\ q.naps = p.naps /\ q.loads = p.loads
  BY <1>1 DEF Good, Kept, PlayerRows, Alike
<1>3. Kept(q)
  BY <1>2 DEF Good, Kept, Alike
<1> QED
  BY <1>2, <1>3, AlikeAgrees

\* While a retry sleeps, what the element reports is dropped.
LEMMA DroppedGood ==
    ASSUME NEW p, Good(p), p.retrying, NEW q, q = [p EXCEPT !.events = <<>>]
    PROVE  Good(q)
<1>1. <<>> \in Seq(EventRows)
  OBVIOUS
<1>2. /\ q \in PlayerRows /\ q.now = p.now /\ q.element = p.element /\ q.events = <<>>
      /\ q.retrying = p.retrying /\ q.misled = p.misled /\ q.naps = p.naps /\ q.loads = p.loads
  BY <1>1 DEF Good, Kept, PlayerRows
<1>3. Kept(q)
  BY <1>2 DEF Good, Kept
<1>4. Told(q)
  BY <1>2 DEF Told
<1>5. Agrees(q)
  <2>1. p.now.state = "Paused" => ~Heard(p.element)
    BY DEF Good, Agrees, Still, Heard
  <2> QED
    BY <1>2, <2>1 DEF Good, Agrees, Still
<1> QED
  BY <1>2, <1>3, <1>4, <1>5 DEF Good

LEMMA CountedGood ==
    ASSUME NEW p, Good(p), ~Stalled(p)
    PROVE  Good(Counted(p)) /\ Alike(p, Counted(p))
<1>1. PICK ticks : ticks = IF p.now.state = "Loading" THEN Count(p.loadingTicks) ELSE 0
  OBVIOUS
<1>2. ticks \in 0..(LoadingStallTicks - 1)
  <2>1. p.loadingTicks \in Nat /\ LoadingStallTicks \in Nat \ {0}
    BY PlayerAssumption DEF Good, Kept, PlayerRows
  <2>2. CASE p.now.state = "Loading"
    <3>1. ticks = p.loadingTicks + 1 /\ ~(ticks >= LoadingStallTicks)
      BY <1>1, <2>2 DEF Stalled, Count
    <3> QED
      BY <2>1, <3>1
  <2>3. CASE p.now.state # "Loading"
    BY <1>1, <2>1, <2>3
  <2> QED
    BY <2>2, <2>3
<1>3. PICK q : q = [p EXCEPT !.loadingTicks = ticks]
  OBVIOUS
<1>4. Counted(p) = q
  BY <1>1, <1>3 DEF Counted, Good, Kept, PlayerRows
<1>5. q \in PlayerRows /\ Alike(p, q) /\ q.naps = p.naps /\ q.loads = p.loads
  BY <1>2, <1>3 DEF Good, Kept, PlayerRows, Alike
<1>6. Kept(q)
  BY <1>5 DEF Good, Kept, Alike
<1> QED
  BY <1>4, <1>5, <1>6, AlikeAgrees

\* Arming the sleep timer, or letting it go off, is not about playback.
LEMMA ArmedGood ==
    ASSUME NEW p, Good(p), NEW armed \in BOOLEAN, NEW q, q = [p EXCEPT !.armed = armed]
    PROVE  Good(q) /\ Alike(p, q)
<1>1. q \in PlayerRows /\ Alike(p, q) /\ q.naps = p.naps /\ q.loads = p.loads
  BY DEF Good, Kept, PlayerRows, Alike
<1>2. Kept(q)
  BY <1>1 DEF Good, Kept, Alike
<1> QED
  BY <1>1, <1>2, AlikeAgrees

LEMMA SleptGood ==
    ASSUME NEW p, Good(p), NEW expire
    PROVE  /\ Good(Slept(p, expire)) /\ Slept(p, expire).now.ep = p.now.ep
           /\ Slept(p, expire).element.ep = p.element.ep
           /\ AtEnd(p.element) => AtEnd(Slept(p, expire).element)
           /\ p.now.state # "None" => Slept(p, expire).now.state # "None"
<1>1. CASE expire
  <2>1. PICK q : q = [p EXCEPT !.armed = FALSE]
    OBVIOUS
  <2>2. Good(q) /\ q.now = p.now /\ q.element = p.element
    BY <2>1, ArmedGood DEF Alike
  <2>3. Slept(p, expire) = Pause(q)
    BY <1>1, <2>1 DEF Slept
  <2> QED
    BY <2>2, <2>3, PauseGood
<1>2. CASE ~expire
  BY <1>2 DEF Slept
<1> QED
  BY <1>1, <1>2

LEMMA PersistCursorGood ==
    ASSUME NEW p, Good(p)
    PROVE  Good(PersistCursor(p)) /\ Alike(p, PersistCursor(p))
BY PersistCursorKeeps, AlikeAgrees DEF Good

LEMMA AutosavedGood ==
    ASSUME NEW p, Good(p), NEW save
    PROVE  Good(Autosaved(p, save)) /\ Alike(p, Autosaved(p, save))
<1>1. CASE save
  BY <1>1, PersistCursorGood DEF Autosaved
<1>2. CASE ~save
  BY <1>2 DEF Autosaved, Alike
<1> QED
  BY <1>1, <1>2

LEMMA PollingGood ==
    ASSUME NEW p, Good(p), ~p.retrying, p.now.state \in {"Loading", "Playing", "Paused"},
           NEW expire \in BOOLEAN, NEW save \in BOOLEAN, cursor \in [Episodes -> 0..Length],
           Polling(p, expire, save)
    PROVE  Good(player')
<1>1. PICK q \in DrainEvents(p) :
          \E r \in {Slept(Counted(q), expire /\ q.now.state = "Playing")} :
          \E saved \in {Autosaved(r, save /\ q.now.state = "Playing")} :
            player' = IF Stalled(q) THEN SetError(Hush([q EXCEPT !.loadingTicks = 0]), q.now.ep)
                      ELSE IF AtEnd(p.element)
                           THEN OnEnded(saved, ~(expire /\ q.now.state = "Playing")) ELSE saved
  BY DEF Polling
<1>2. PICK r : r = Slept(Counted(q), expire /\ q.now.state = "Playing")
  OBVIOUS
<1>3. PICK saved : saved = Autosaved(r, save /\ q.now.state = "Playing")
  OBVIOUS
<1>4. PICK allow \in BOOLEAN : allow = ~(expire /\ q.now.state = "Playing")
  OBVIOUS
<1>5. player' = IF Stalled(q) THEN SetError(Hush([q EXCEPT !.loadingTicks = 0]), q.now.ep)
                ELSE IF AtEnd(p.element) THEN OnEnded(saved, allow) ELSE saved
  BY <1>1, <1>2, <1>3, <1>4
<1>6. Good(q) /\ q.element = p.element /\ q.now.ep = p.now.ep /\ q.now.state # "None"
  BY DrainGood
<1>7. CASE Stalled(q)
  <2>1. PICK s : s = [q EXCEPT !.loadingTicks = 0]
    OBVIOUS
  <2>2. s \in PlayerRows /\ Alike(q, s) /\ s.naps = q.naps /\ s.loads = q.loads
    <3>1. 0 \in 0..(LoadingStallTicks - 1)
      BY PlayerAssumption
    <3> QED
      BY <1>6, <2>1, <3>1 DEF Good, Kept, PlayerRows, Alike
  <2>3. Kept(s)
    BY <1>6, <2>2 DEF Good, Kept, Alike
  <2>4. q.now.ep \in Episodes
    BY <1>6 DEF Good, Kept, PlayerRows, NowRows, Maybe
  <2>5. player' = SetError(Hush(s), q.now.ep)
    BY <1>5, <1>7, <2>1
  <2> QED
    BY <2>3, <2>4, <2>5, SetErrorGood
<1>8. CASE ~Stalled(q)
  <2>1. PICK c : c = Counted(q)
    OBVIOUS
  <2>2. Good(c) /\ c.now = q.now /\ c.element = q.element
    BY <1>6, <1>8, <2>1, CountedGood DEF Alike
  <2>3. /\ Good(r) /\ r.now.ep = q.now.ep /\ r.element.ep = q.element.ep
        /\ (AtEnd(q.element) => AtEnd(r.element)) /\ r.now.state # "None"
    BY <1>2, <1>6, <2>1, <2>2, SleptGood
  <2>4. Good(saved) /\ saved.now = r.now /\ saved.element = r.element
    BY <1>3, <2>3, AutosavedGood DEF Alike
  <2>5. CASE AtEnd(p.element)
    <3>1. player' = OnEnded(saved, allow)
      BY <1>5, <1>8, <2>5
    <3>2. p.element.ep = p.now.ep
      BY DEF Good, Agrees
    <3>3. saved.element.ep = saved.now.ep /\ AtEnd(saved.element) /\ saved.now.state # "None"
      BY <1>6, <2>3, <2>4, <2>5, <3>2
    <3> QED
      BY <1>4, <2>4, <3>1, <3>3, OnEndedGood
  <2>6. CASE ~AtEnd(p.element)
    BY <1>5, <1>8, <2>4, <2>6
  <2> QED
    BY <2>5, <2>6
<1> QED
  BY <1>7, <1>8

-----------------------------------------------------------------------------
(* The actions.                                                            *)

DeviceRows == [state : {"None", "Downloading", "Downloaded", "Failed"}, progress : 0..1]

Around == device \in [Episodes -> DeviceRows] /\ bytes \subseteq Episodes /\ cursor \in [Episodes -> 0..Length]

PInv == Good(player) /\ Around

\* What the screen agrees with, and the rows it is made of, are what the runs check.
LEMMA PInvImplies ==
    PInv => TypeOK /\ ShownIsHeard
<1> SUFFICES ASSUME PInv PROVE TypeOK /\ ShownIsHeard
  OBVIOUS
<1>1. Kept(player) /\ Sane(player.element) /\ Agrees(player) /\ Around
  BY DEF PInv, Good
<1>2. player \in PlayerRows
  BY <1>1 DEF Kept
<1>3. Cardinality({l \in player.loads : l.fresh}) <= 1
  <2>1. PICK F : F = {l \in player.loads : l.fresh}
    OBVIOUS
  <2>2. \A k, l \in F : k = l
    BY <1>1, <2>1 DEF Kept
  <2>3. CASE F = {}
    BY <2>1, <2>3, FS_EmptySet
  <2>4. CASE F # {}
    <3>1. PICK l \in F : TRUE
      BY <2>4
    <3>2. F = {l}
      BY <2>2, <3>1
    <3>3. Cardinality({l}) = 1
      BY FS_Singleton
    <3> QED
      BY <2>1, <3>2, <3>3, SMTT(30)
  <2> QED
    BY <2>3, <2>4
<1>4. TypeOK
  <2>1. player.now \in [ep : Maybe, state : States, at : 0..Length]
    BY <1>2 DEF PlayerRows, NowRows
  <2>2. player.element \in [ep : Maybe, local : BOOLEAN, ready : {"empty", "loading", "data", "failed"},
                            on : BOOLEAN, held : BOOLEAN, at : 0..Length, seek : {NoSeek} \cup 0..Length]
    BY <1>2 DEF PlayerRows, ElementRows
  <2>3. /\ player.retries \in 0..LocalRetries /\ player.loadingTicks \in 0..(LoadingStallTicks - 1)
        /\ player.preparingTicks \in 0..(PreparingStallTicks - 1)
    BY <1>2 DEF PlayerRows
  <2>4. (player.now.state = "None") = (player.now.ep = NoEpisode) /\ (player.retrying => player.naps # {})
    BY <1>1 DEF Kept
  <2>5. player.element.ready = "empty" <=> player.element.ep = NoEpisode
    BY <1>1 DEF Sane
  <2>6. /\ device \in [Episodes -> [state : {"None", "Downloading", "Downloaded", "Failed"}, progress : 0..1]]
        /\ bytes \subseteq Episodes /\ cursor \in [Episodes -> 0..Length]
    BY <1>1 DEF Around, DeviceRows
  <2> QED
    BY <1>3, <2>1, <2>2, <2>3, <2>4, <2>5, <2>6 DEF TypeOK
<1>5. ShownIsHeard
  <2>1. SUFFICES ASSUME Heard(player.element), ~player.misled
                 PROVE  /\ player.now.ep = player.element.ep
                        /\ \/ player.now.state \in {"Loading", "Playing"}
                           \/ /\ player.now.state = "Paused"
                              /\ \E i \in DOMAIN player.events : player.events[i].kind = "Playing"
    BY DEF ShownIsHeard
  <2>2. player.now.state \in States
    BY <1>2 DEF PlayerRows, NowRows
  <2>3. player.element.on /\ player.element.ready = "data"
    BY <2>1 DEF Heard
  <2>4. player.now.state \notin {"None", "Preparing", "Error", "Ended"}
    BY <1>1, <2>1, <2>3 DEF Agrees, Still
  <2> QED
    BY <1>1, <2>1, <2>2, <2>4 DEF Agrees, States
<1> QED
  BY <1>4, <1>5

LEMMA InitHolds ==
    Init => PInv
<1> SUFFICES ASSUME Init PROVE PInv
  OBVIOUS
<1>1. 0 \in 0..Length /\ NoEpisode \in Maybe
  BY PlayerAssumption DEF Maybe
<1>2. Nothing \in NowRows
  BY <1>1 DEF Nothing, NowRows, States
<1>3. /\ 0 \in 0..LocalRetries /\ 0 \in 0..(LoadingStallTicks - 1) /\ 0 \in 0..(PreparingStallTicks - 1)
  BY PlayerAssumption
<1>4. <<>> \in Seq(EventRows) /\ <<>> \in Seq(CommandRows)
  OBVIOUS
<1>5. player = Fresh /\ Fresh \in PlayerRows
  BY <1>1, <1>2, <1>3, <1>4, SilentIs DEF Init, Fresh, PlayerRows
<1>6. /\ player.now = Nothing /\ player.element = Silent /\ ~player.retrying /\ player.loads = {}
  BY <1>5 DEF Fresh
<1>7. Nothing.ep = NoEpisode /\ Nothing.state = "None"
  BY DEF Nothing
<1>8. Kept(player)
  BY <1>5, <1>6, <1>7 DEF Kept
<1>9. Good(player)
  BY <1>6, <1>7, <1>8, SilentGood
<1>10. bytes \subseteq Episodes
  BY PlayerAssumption DEF Init
<1>11. device \in [Episodes -> DeviceRows]
  <2>1. \A e \in Episodes : [NoDownload EXCEPT !.state = IF e \in bytes THEN "Downloaded" ELSE "None"] \in DeviceRows
    BY DEF NoDownload, DeviceRows
  <2> QED
    BY <2>1 DEF Init
<1>12. cursor \in [Episodes -> 0..Length]
  BY PlayerAssumption DEF Init
<1> QED
  BY <1>9, <1>10, <1>11, <1>12 DEF PInv, Around

\* Nothing around the player changes.
LEMMA StepHolds ==
    ASSUME PInv, Good(player'), UNCHANGED <<deviceVars, cursor>>
    PROVE  PInv'
BY DEF PInv, Around, deviceVars

LEMMA TickHolds ==
    ASSUME PInv, NEW expire \in BOOLEAN, NEW save \in BOOLEAN, Tick(expire, save)
    PROVE  PInv'
<1>1. PICK p : p = [player EXCEPT !.preparingTicks = 0]
  OBVIOUS
<1>2. Good(player) /\ cursor \in [Episodes -> 0..Length]
  BY DEF PInv, Around
<1>3. Good(p) /\ p.now = player.now /\ p.retrying = player.retrying
  BY <1>1, <1>2, TickedGood DEF Alike
<1>4. PICK s : s = Sought(p)
  OBVIOUS
<1>5. Good(s) /\ s.now = p.now /\ s.retrying = p.retrying
  BY <1>3, <1>4, SoughtGood
<1>6. CASE player.now.state = "Preparing"
  <2>1. player' = Preparing(player)
    BY <1>6 DEF Tick
  <2>2. Good(player')
    BY <1>2, <1>6, <2>1, PreparingGood
  <2> QED
    BY <2>2, StepHolds DEF Tick
<1>7. CASE player.now.state # "Preparing" /\ player.retrying
  <2>1. player' = [s EXCEPT !.events = <<>>]
    BY <1>1, <1>4, <1>7 DEF Tick
  <2>2. Good(player')
    BY <1>3, <1>5, <1>7, <2>1, DroppedGood
  <2> QED
    BY <2>2, StepHolds DEF Tick
<1>8. CASE player.now.state \in {"None", "Ended", "Error"} /\ ~player.retrying
  <2>1. player' = p
    BY <1>1, <1>8 DEF Tick
  <2> QED
    BY <1>3, <2>1, StepHolds DEF Tick
<1>9. CASE player.now.state \notin {"None", "Preparing", "Ended", "Error"} /\ ~player.retrying
  <2>1. Polling(s, expire, save)
    BY <1>1, <1>4, <1>9 DEF Tick
  <2>2. s.now.state \in {"Loading", "Playing", "Paused"} /\ ~s.retrying
    <3>1. s.now.state \in States
      BY <1>5 DEF Good, Kept, PlayerRows, NowRows
    <3> QED
      BY <1>3, <1>5, <1>9, <3>1 DEF States
  <2>3. Good(player')
    BY <1>2, <1>5, <2>1, <2>2, PollingGood
  <2> QED
    BY <2>3, StepHolds DEF Tick
<1> QED
  BY <1>6, <1>7, <1>8, <1>9

\* The reads under way change.
LEMMA LoadsGood ==
    ASSUME NEW p, Good(p), NEW loads \in SUBSET LoadRows,
           \A k, l \in loads : k.fresh /\ l.fresh => k = l, NEW q, q = [p EXCEPT !.loads = loads]
    PROVE  Good(q)
<1>1. q \in PlayerRows /\ Alike(p, q) /\ q.naps = p.naps /\ q.loads = loads
  BY DEF Good, Kept, PlayerRows, Alike
<1>2. Kept(q)
  BY <1>1 DEF Good, Kept, Alike
<1> QED
  BY <1>1, <1>2, AlikeAgrees

LEMMA LoadIs ==
    ASSUME PInv, NEW l \in player.loads
    PROVE  /\ l \in LoadRows /\ l.ep \in Episodes /\ cursor[l.ep] \in 0..Length
           /\ Good([player EXCEPT !.loads = @ \ {l}]) /\ Kept([player EXCEPT !.loads = @ \ {l}])
<1>1. Good(player) /\ player.loads \subseteq LoadRows
  BY DEF PInv, Good, Kept, PlayerRows
<1>2. l \in LoadRows /\ l.ep \in Episodes
  BY <1>1 DEF LoadRows
<1>3. PICK loads : loads = player.loads \ {l}
  OBVIOUS
<1>4. loads \in SUBSET LoadRows /\ \A j, k \in loads : j.fresh /\ k.fresh => j = k
  BY <1>1, <1>3 DEF Good, Kept
<1>5. PICK q : q = [player EXCEPT !.loads = loads]
  OBVIOUS
<1>6. Good(q) /\ Kept(q)
  BY <1>1, <1>4, <1>5, LoadsGood DEF Good
<1>7. q = [player EXCEPT !.loads = @ \ {l}]
  BY <1>3, <1>5
<1> QED
  BY <1>2, <1>6, <1>7 DEF PInv, Around

LEMMA BeginHolds ==
    ASSUME PInv, NEW l \in player.loads, Begin(l)
    PROVE  PInv'
<1>1. PICK p : p = [player EXCEPT !.loads = @ \ {l}]
  OBVIOUS
<1>2. l \in LoadRows /\ l.ep \in Episodes /\ cursor[l.ep] \in 0..Length /\ Good(p) /\ Kept(p)
  BY <1>1, LoadIs
<1>3. CASE OnDevice(l.ep)
  <2>1. PICK k : k = [l EXCEPT !.phase = "reading", !.start = cursor[l.ep]]
    OBVIOUS
  <2>2. k \in LoadRows /\ k.fresh = l.fresh
    BY <1>2, <2>1 DEF LoadRows
  <2>3. PICK loads : loads = p.loads \cup {k}
    OBVIOUS
  <2>4. p.loads = player.loads \ {l} /\ Good(player)
    BY <1>1 DEF PInv, Good, Kept, PlayerRows
  <2>5. loads \in SUBSET LoadRows /\ \A i, j \in loads : i.fresh /\ j.fresh => i = j
    <3>1. player.loads \subseteq LoadRows /\ \A i, j \in player.loads : i.fresh /\ j.fresh => i = j
      BY <2>4 DEF Good, Kept, PlayerRows
    <3> QED
      BY <2>2, <2>3, <2>4, <3>1
  <2>6. player' = [p EXCEPT !.loads = loads]
    BY <1>1, <1>3, <2>1, <2>3 DEF Begin
  <2>7. Good(player')
    BY <1>2, <2>5, <2>6, LoadsGood
  <2> QED
    BY <2>7, StepHolds DEF Begin
<1>4. CASE ~OnDevice(l.ep) /\ IsFresh(l)
  <2>1. player' = StreamEpisode(p, l.ep)
    BY <1>1, <1>4 DEF Begin
  <2> QED
    BY <1>2, <2>1, StreamEpisodeGood, StepHolds DEF Begin
<1>5. CASE ~OnDevice(l.ep) /\ ~IsFresh(l)
  <2>1. player' = p
    BY <1>1, <1>5 DEF Begin
  <2> QED
    BY <1>2, <2>1, StepHolds DEF Begin
<1> QED
  BY <1>3, <1>4, <1>5

LEMMA ResolveHolds ==
    ASSUME PInv, NEW l \in player.loads, Resolve(l)
    PROVE  PInv'
<1>1. PICK p : p = [player EXCEPT !.loads = @ \ {l}]
  OBVIOUS
<1>2. l \in LoadRows /\ l.ep \in Episodes /\ cursor[l.ep] \in 0..Length /\ Good(p) /\ Kept(p)
  BY <1>1, LoadIs
<1>3. l.start \in 0..Length
  BY <1>2 DEF LoadRows
<1>4. player' \in {p, LoadAndPlay(p, l.ep, TRUE, l.start), RedownloadAndPrepare(p, l.ep, TRUE),
                   StreamEpisode(p, l.ep)}
  BY <1>1 DEF Resolve
<1>5. Good(player')
  BY <1>2, <1>3, <1>4, LoadAndPlayGood, RedownloadGood, StreamEpisodeGood
<1> QED
  BY <1>5, StepHolds DEF Resolve

LEMMA WakeHolds ==
    ASSUME PInv, NEW e \in player.naps, Wake(e)
    PROVE  PInv'
<1>1. Good(player) /\ e \in Episodes
  BY DEF PInv, Good, Kept, PlayerRows
<1>2. PICK p : p = [player EXCEPT !.naps = @ \ {e}, !.retrying = FALSE]
  OBVIOUS
<1>3. /\ p \in PlayerRows /\ p.now = player.now /\ p.element = player.element /\ p.events = player.events
      /\ ~p.retrying /\ p.misled = player.misled /\ p.loads = player.loads
  <2>1. player.naps \ {e} \in SUBSET Episodes
    BY <1>1 DEF Good, Kept, PlayerRows
  <2> QED
    BY <1>1, <1>2, <2>1 DEF Good, Kept, PlayerRows
<1>4. Kept(p)
  BY <1>1, <1>3 DEF Good, Kept
<1>5. Good(p)
  <2>1. Told(p) /\ Agrees(p)
    BY <1>1, <1>3 DEF Good, Told, Agrees, Still
  <2> QED
    BY <1>1, <1>3, <1>4, <2>1 DEF Good
<1>6. PICK q : q = [p EXCEPT !.wanted = e]
  OBVIOUS
<1>7. Good(q)
  BY <1>1, <1>4, <1>5, <1>6, AskedKeeps, AlikeAgrees, Zenon
<1>8. player' \in {p, PlayEpisode(q, e)}
  BY <1>2, <1>6 DEF Wake
<1>9. Good(player')
  BY <1>1, <1>5, <1>7, <1>8, PlayEpisodeGood
<1> QED
  BY <1>9, StepHolds DEF Wake

LEMMA WatchHolds ==
    ASSUME PInv, Watch
    PROVE  PInv'
<1>1. Good(player) /\ player' = HandlePreparing(player, player.now.ep)
  BY DEF PInv, Watch
<1>2. PICK e : e = player.now.ep
  OBVIOUS
<1>3. PICK q, s : q = [player EXCEPT !.wanted = e] /\ s = [player EXCEPT !.preparingTicks = 0]
  OBVIOUS
<1>4. ASSUME player.now.state = "Preparing"
      PROVE  Good(player')
  <2>1. e \in Episodes
    BY <1>1, <1>2, <1>4 DEF Good, Kept, PlayerRows, NowRows, Maybe
  <2>2. Good(q)
    BY <1>1, <1>3, <2>1, AskedKeeps, AlikeAgrees, Zenon DEF Good
  <2>3. Good(s)
    BY <1>1, <1>3, TickedGood
  <2>4. player' \in {player, PlayEpisode(q, e), SetError(Hush(player), e), s}
    BY <1>1, <1>2, <1>3 DEF HandlePreparing
  <2>5. Good(SetError(Hush(player), e))
    BY <1>1, <2>1, SetErrorGood DEF Good
  <2> QED
    BY <1>1, <2>1, <2>2, <2>3, <2>4, <2>5, PlayEpisodeGood
<1>5. player.now.state # "Preparing" => player' = player
  BY <1>1 DEF HandlePreparing
<1>6. Good(player')
  BY <1>1, <1>2, <1>4, <1>5
<1> QED
  BY <1>6, StepHolds DEF Watch

LEMMA WorkHolds ==
    ASSUME PInv, Work
    PROVE  PInv'
<1>1. Good(player) /\ Around /\ player.commands \in Seq(CommandRows)
  BY DEF PInv, Good, Kept, PlayerRows
<1>2. PICK c : c = Head(player.commands)
  OBVIOUS
<1>3. player.commands # <<>> /\ player' = [player EXCEPT !.commands = Tail(@)]
  BY DEF Work
<1>4. c \in CommandRows /\ Tail(player.commands) \in Seq(CommandRows)
  BY <1>1, <1>2, <1>3
<1>5. Good(player')
  <2>1. PICK commands : commands = Tail(player.commands)
    OBVIOUS
  <2>2. player' = [player EXCEPT !.commands = commands]
    BY <1>3, <2>1
  <2>3. player' \in PlayerRows /\ Alike(player, player') /\ player'.naps = player.naps /\ player'.loads = player.loads
    BY <1>1, <1>4, <2>1, <2>2 DEF Good, Kept, PlayerRows, Alike
  <2>4. Kept(player')
    BY <1>1, <2>3 DEF Good, Kept, Alike
  <2> QED
    BY <1>1, <2>3, <2>4, AlikeAgrees
<1>6. c.ep \in Episodes /\ c.at \in 0..Length
  BY <1>4 DEF CommandRows
<1>7. /\ \/ cursor' = [cursor EXCEPT ![c.ep] = c.at] \/ cursor' = cursor
      /\ device' = device \/ device' = [device EXCEPT ![c.ep] = NoDownload] \/ device' = Started(c.ep)
      /\ bytes' \subseteq bytes
  BY <1>2 DEF Work, deviceVars
<1>8. cursor' \in [Episodes -> 0..Length] /\ bytes' \subseteq Episodes
  BY <1>1, <1>6, <1>7 DEF Around
<1>9. device' \in [Episodes -> DeviceRows]
  <2>1. NoDownload \in DeviceRows /\ [NoDownload EXCEPT !.state = "Downloading"] \in DeviceRows
    BY DEF NoDownload, DeviceRows
  <2> QED
    BY <1>1, <1>6, <1>7, <2>1 DEF Around, Started
<1> QED
  BY <1>5, <1>8, <1>9 DEF PInv, Around

-----------------------------------------------------------------------------
(* The user.                                                               *)

LEMMA StopGood ==
    ASSUME NEW p, Good(p), NEW q,
           q = [Hush(PersistCursor(p)) EXCEPT !.now = Nothing, !.retrying = FALSE, !.retries = 0,
                                              !.armed = FALSE, !.autoArmed = FALSE]
    PROVE  Good(q)
<1>1. PICK h : h = Hush(PersistCursor(p))
  OBVIOUS
<1>2. Kept(h) /\ h.element = Silent
  BY <1>1, PersistCursorGood, HushKeeps DEF Good, Hushed
<1>3. Nothing \in NowRows /\ Nothing.state = "None" /\ Nothing.ep = NoEpisode /\ 0 \in 0..LocalRetries
  BY PlayerAssumption DEF Nothing, NowRows, States, Maybe
<1>4. q = [h EXCEPT !.now = Nothing, !.retrying = FALSE, !.retries = 0, !.armed = FALSE, !.autoArmed = FALSE]
  BY <1>1
<1>5. q \in PlayerRows /\ q.now = Nothing /\ ~q.retrying /\ q.element = h.element /\ q.loads = h.loads
  BY <1>2, <1>3, <1>4, ZenonT(30) DEF Kept, PlayerRows
<1>6. Kept(q)
  BY <1>2, <1>3, <1>5 DEF Kept
<1> QED
  BY <1>2, <1>3, <1>5, <1>6, SilentGood

LEMMA SeekGood ==
    ASSUME NEW p, Good(p), NEW at \in 0..Length, p.now.state # "None", NEW q,
           q = [p EXCEPT !.element = Seek(@, at), !.now.at = at, !.reached = @ \cup {at}]
    PROVE  Good(q)
<1>1. PICK el : el = Seek(p.element, at)
  OBVIOUS
<1>2. p.element \in ElementRows /\ Sane(p.element) /\ p \in PlayerRows
  BY DEF Good, Kept, PlayerRows
<1>3. /\ el \in ElementRows /\ Sane(el) /\ el.ep = p.element.ep /\ el.ready = p.element.ready
      /\ el.held = p.element.held /\ (el.on => p.element.on)
  <2>1. CASE p.element.ready = "data"
    BY <1>1, <1>2, <2>1, MoveToIs DEF Seek
  <2>2. CASE p.element.ready # "data"
    <3>1. el = [p.element EXCEPT !.seek = at]
      BY <1>1, <2>2 DEF Seek
    <3>2. /\ el \in ElementRows /\ el.ep = p.element.ep /\ el.ready = p.element.ready
          /\ el.held = p.element.held /\ el.on = p.element.on /\ el.at = p.element.at
      BY <1>2, <3>1 DEF ElementRows
    <3> QED
      BY <1>2, <3>2 DEF Sane, AtEnd
  <2> QED
    BY <2>1, <2>2
<1>4. PICK now : now = [p.now EXCEPT !.at = at]
  OBVIOUS
<1>5. now \in NowRows /\ now.ep = p.now.ep /\ now.state = p.now.state
  BY <1>2, <1>4 DEF PlayerRows, NowRows
<1>6. PICK reached : reached = p.reached \cup {at}
  OBVIOUS
<1>7. reached \in SUBSET (0..Length)
  BY <1>2, <1>6 DEF PlayerRows
<1>8. q = [p EXCEPT !.element = el, !.now = now, !.reached = reached]
  BY <1>1, <1>2, <1>4, <1>6 DEF PlayerRows, NowRows
<1>9. /\ q \in PlayerRows /\ q.element = el /\ q.now = now /\ q.events = p.events /\ q.retrying = p.retrying
      /\ q.misled = p.misled /\ q.naps = p.naps /\ q.loads = p.loads
  <2>1. p \in PlayerRows /\ el \in ElementRows /\ now \in NowRows
    BY <1>2, <1>3, <1>5
  <2>2. q \in PlayerRows
    BY <1>7, <1>8, <2>1, ZenonT(30) DEF PlayerRows
  <2>3. /\ q.element = el /\ q.now = now /\ q.events = p.events /\ q.retrying = p.retrying
        /\ q.misled = p.misled /\ q.naps = p.naps /\ q.loads = p.loads
    BY <1>8, <2>1, ZenonT(30) DEF PlayerRows
  <2> QED
    BY <2>2, <2>3
<1>10. Kept(q)
  BY <1>5, <1>9 DEF Good, Kept
<1> QED
  BY <1>3, <1>5, <1>9, <1>10, MovedGood

LEMMA UserHolds ==
    ASSUME PInv, User
    PROVE  PInv'
<1>1. Good(player) /\ Kept(player) /\ \A e \in Episodes : cursor[e] \in 0..Length
  BY DEF PInv, Good, Around
<1>2. ASSUME NEW e \in Episodes, PlayIn(e)
      PROVE  Good(player')
  BY <1>1, <1>2, RequestPlayGood DEF PlayIn
<1>3. ASSUME NEW e \in Episodes, StreamIn(e) \/ DownloadIn(e)
      PROVE  Good(player')
  <2>1. PICK p : p = [player EXCEPT !.wanted = e]
    OBVIOUS
  <2>2. Good(p) /\ Kept(p)
    BY <1>1, <2>1, AskedKeeps, AlikeAgrees, Zenon DEF Good
  <2>3. player' \in {StreamEpisode(p, e), DownloadAndPlay(p, e)}
    BY <1>3, <2>1 DEF StreamIn, DownloadIn
  <2> QED
    BY <1>1, <2>2, <2>3, StreamEpisodeGood, DownloadAndPlayGood
<1>4. PlayKey => Good(player')
  BY <1>1, PlayGood DEF PlayKey
<1>5. PauseKey => Good(player')
  BY <1>1, PauseGood DEF PauseKey
<1>6. Hide => Good(player')
  BY <1>1, PersistCursorGood DEF Hide
<1>7. ToggleSleep => Good(player')
  <2>1. PICK armed : armed = ~player.armed
    OBVIOUS
  <2>2. ToggleSleep => player' = [player EXCEPT !.armed = armed]
    BY <2>1 DEF ToggleSleep
  <2> QED
    BY <1>1, <2>1, <2>2, ArmedGood
<1>8. Stop => Good(player')
  BY <1>1, StopGood, Zenon DEF Stop
<1>9. ASSUME NEW at \in Targets, SeekTo(at)
      PROVE  Good(player')
  <2>1. at \in 0..Length
    BY PlayerAssumption
  <2> QED
    BY <1>1, <1>9, <2>1, SeekGood, Zenon DEF SeekTo
<1>10. Good(player')
  BY <1>2, <1>3, <1>4, <1>5, <1>6, <1>7, <1>8, <1>9 DEF User
<1> QED
  BY <1>10, StepHolds DEF User

-----------------------------------------------------------------------------
(* The element and the device.                                             *)

LEMMA AppendIs ==
    ASSUME NEW s \in Seq(EventRows), NEW kind \in {"Playing", "Paused", "Error"},
           NEW t, t = Append(s, Event(kind))
    PROVE  /\ Len(s) \in Nat /\ DOMAIN s = 1..Len(s) /\ DOMAIN t = 1..(Len(s) + 1)
           /\ \A i \in 1..Len(s) : t[i] = s[i]
           /\ t[Len(s) + 1].kind = kind
           /\ \A i \in DOMAIN t : i \in DOMAIN s \/ i = Len(s) + 1
<1>1. t[Len(s) + 1] = Event(kind)
  OBVIOUS
<1>2. Event(kind).kind = kind
  BY DEF Event
<1>3. Len(s) \in Nat /\ DOMAIN s = 1..Len(s) /\ DOMAIN t = 1..(Len(s) + 1)
  OBVIOUS
<1>4. \A i \in 1..Len(s) : t[i] = s[i]
  OBVIOUS
<1>5. \A i \in DOMAIN t : i \in DOMAIN s \/ i = Len(s) + 1
  BY <1>3
<1> QED
  BY <1>1, <1>2, <1>3, <1>4, <1>5

Troubled(events) == \E i \in DOMAIN events : events[i].kind = "Error" /\ ~events[i].stale

\* After audio is announced: no pause is the last word, and no new error is queued.
LEMMA PlayingLast ==
    ASSUME NEW s \in Seq(EventRows), NEW t, t = Append(s, Event("Playing"))
    PROVE  /\ \A i \in DOMAIN t : t[i].kind = "Paused" => \E j \in DOMAIN t : i < j /\ t[j].kind = "Playing"
           /\ \E i \in DOMAIN t : t[i].kind = "Playing"
           /\ Troubled(t) => Troubled(s)
<1>1. /\ Len(s) \in Nat /\ DOMAIN s = 1..Len(s) /\ DOMAIN t = 1..(Len(s) + 1)
      /\ \A i \in 1..Len(s) : t[i] = s[i]
      /\ t[Len(s) + 1].kind = "Playing"
      /\ \A i \in DOMAIN t : i \in DOMAIN s \/ i = Len(s) + 1
  BY AppendIs
<1>2. Len(s) + 1 \in DOMAIN t /\ \A i \in DOMAIN t : i # Len(s) + 1 => i < Len(s) + 1
  BY <1>1
<1>3. ASSUME NEW i \in DOMAIN t, t[i].kind = "Paused"
      PROVE  \E j \in DOMAIN t : i < j /\ t[j].kind = "Playing"
  BY <1>1, <1>2, <1>3
<1>4. Troubled(t) => Troubled(s)
  BY <1>1 DEF Troubled
<1> QED
  BY <1>1, <1>2, <1>3, <1>4

LEMMA PausedLast ==
    ASSUME NEW s \in Seq(EventRows), NEW t, t = Append(s, Event("Paused"))
    PROVE  Troubled(t) => Troubled(s)
<1>1. /\ DOMAIN s = 1..Len(s) /\ \A i \in 1..Len(s) : t[i] = s[i]
      /\ t[Len(s) + 1].kind = "Paused"
      /\ \A i \in DOMAIN t : i \in DOMAIN s \/ i = Len(s) + 1
  BY AppendIs
<1> QED
  BY <1>1 DEF Troubled

LEMMA GoodIs ==
    ASSUME NEW p, Good(p)
    PROVE  /\ Kept(p) /\ Sane(p.element) /\ p.element \in ElementRows /\ p.events \in Seq(EventRows)
           /\ Heard(p.element) =>
                 \A i \in DOMAIN p.events : p.events[i].kind = "Paused" =>
                     \E j \in DOMAIN p.events : i < j /\ p.events[j].kind = "Playing"
           /\ Troubled(p.events) => Still(p)
BY DEF Good, Kept, PlayerRows, Told, Troubled

LEMMA ArriveGood ==
    ASSUME Good(player), Arrive
    PROVE  Good(player')
<1>1. PICK el : el = [player.element EXCEPT !.ready = "data"]
  OBVIOUS
<1>2. PICK p : p = [player EXCEPT !.element = el]
  OBVIOUS
<1>3. /\ player.element.ready = "loading"
      /\ player' = IF player.element.on THEN Emit(p, "Playing") ELSE p
  <2>1. player \in PlayerRows
    BY DEF Good, Kept
  <2>2. p = [player EXCEPT !.element.ready = "data"]
    BY <1>1, <1>2, <2>1 DEF PlayerRows
  <2>3. p.element.on = player.element.on
    BY <1>1, <1>2, <2>1 DEF PlayerRows, ElementRows
  <2> QED
    BY <2>2, <2>3 DEF Arrive
<1>4. /\ el \in ElementRows /\ el.ready = "data" /\ el.ep = player.element.ep /\ el.on = player.element.on
      /\ el.held = player.element.held /\ el.at = player.element.at
  BY <1>1, GoodIs DEF ElementRows
<1>5. Sane(el) /\ ~el.held
  <2>1. el.at = 0 /\ 0 # Length /\ el.ep # NoEpisode /\ ~el.held
    BY <1>3, <1>4, PlayerAssumption DEF Good, Sane
  <2> QED
    BY <1>4, <2>1 DEF Sane, AtEnd
<1>6. /\ Kept(p) /\ p.element = el /\ p.now = player.now /\ p.events = player.events
      /\ p.retrying = player.retrying /\ p.misled = player.misled
  BY <1>2, <1>4, ElementKeeps DEF Good
<1>7. Still(player) => ~player.element.on
  BY <1>3 DEF Still
<1>8. CASE player.element.on
  <2>1. /\ Kept(player') /\ player'.events = Append(player.events, Event("Playing"))
        /\ player'.now = player.now /\ player'.element = el
        /\ player'.retrying = player.retrying /\ player'.misled = player.misled
    BY <1>3, <1>6, <1>8, EmitKeeps
  <2>2. /\ \A i \in DOMAIN player'.events : player'.events[i].kind = "Paused" =>
              \E j \in DOMAIN player'.events : i < j /\ player'.events[j].kind = "Playing"
        /\ \E i \in DOMAIN player'.events : player'.events[i].kind = "Playing"
        /\ Troubled(player'.events) => Troubled(player.events)
    BY <2>1, GoodIs, PlayingLast
  <2>3. ~Troubled(player'.events)
    BY <1>7, <1>8, <2>2, GoodIs
  <2>4. Told(player')
    BY <2>2, <2>3 DEF Told, Troubled
  <2>5. Agrees(player')
    BY <1>3, <1>4, <1>7, <1>8, <2>1, <2>2 DEF Good, Agrees
  <2> QED
    BY <1>5, <2>1, <2>4, <2>5 DEF Good
<1>9. CASE ~player.element.on
  <2>1. player' = p
    BY <1>3, <1>9
  <2>2. Still(p) /\ ~Heard(p.element)
    BY <1>4, <1>5, <1>6, <1>9 DEF Still, Heard
  <2>3. Told(p)
    BY <2>2 DEF Told
  <2>4. Agrees(p)
    BY <1>3, <1>4, <1>6, <1>9, <2>2 DEF Good, Agrees
  <2> QED
    BY <1>5, <1>6, <2>1, <2>3, <2>4 DEF Good
<1> QED
  BY <1>8, <1>9

LEMMA AdvanceGood ==
    ASSUME Good(player), Advance
    PROVE  Good(player')
<1>1. PICK el : el = MoveTo(player.element, player.element.at + 1)
  OBVIOUS
<1>2. Heard(player.element) /\ player.element.on /\ player.element.ready = "data"
  BY DEF Advance, Heard
<1>3. player.element.at + 1 \in 0..Length
  <2>1. player.element.at \in 0..Length /\ player.element.at # Length
    BY <1>2 DEF Good, Sane, AtEnd, Kept, PlayerRows, ElementRows
  <2> QED
    BY <2>1, PlayerAssumption, SMTT(30)
<1>4. /\ el \in ElementRows /\ Sane(el) /\ el.ep = player.element.ep /\ el.ready = player.element.ready
      /\ el.held = player.element.held /\ (el.on => player.element.on)
  BY <1>1, <1>2, <1>3, GoodIs, MoveToIs
<1>5. PICK reached : reached = player.reached \cup {player.element.at + 1}
  OBVIOUS
<1>6. reached \in SUBSET (0..Length)
  BY <1>3, <1>5 DEF Good, Kept, PlayerRows
<1>7. player' = [player EXCEPT !.element = el, !.reached = reached]
  BY <1>1, <1>5 DEF Advance, Good, Kept, PlayerRows
<1>8. /\ player' \in PlayerRows /\ player'.element = el /\ player'.now = player.now
      /\ player'.events = player.events /\ player'.retrying = player.retrying
      /\ player'.misled = player.misled /\ player'.naps = player.naps /\ player'.loads = player.loads
  BY <1>4, <1>6, <1>7 DEF Good, Kept, PlayerRows
<1>9. Kept(player')
  BY <1>8 DEF Good, Kept
<1> QED
  BY <1>4, <1>8, <1>9, MovedGood

\* The element has nothing to be heard, now or later, with or without an error queued.
LEMMA StillGood ==
    ASSUME NEW p, Good(p), p.element.ready # "empty", NEW q, Kept(q), Sane(q.element), Still(q), ~Heard(q.element),
           q.element.ep = p.element.ep, q.now = p.now, q.misled = p.misled
    PROVE  Good(q)
<1>1. Told(q)
  BY DEF Told
<1>2. Agrees(q)
  BY DEF Good, Agrees, Still
<1> QED
  BY <1>1, <1>2 DEF Good

LEMMA BreakGood ==
    ASSUME Good(player), Break
    PROVE  Good(player')
<1>1. PICK el : el = [player.element EXCEPT !.ready = "failed"]
  OBVIOUS
<1>2. PICK p : p = [player EXCEPT !.element = el]
  OBVIOUS
<1>3. player.element.ready \in {"loading", "data"} /\ player' \in {p, Emit(p, "Error")}
  BY <1>1, <1>2 DEF Break, Good, Kept, PlayerRows
<1>4. /\ el \in ElementRows /\ el.ready = "failed" /\ el.ep = player.element.ep
      /\ el.on = player.element.on /\ el.held = player.element.held
  BY <1>1, GoodIs DEF ElementRows
<1>5. Sane(el) /\ ~Heard(el)
  BY <1>3, <1>4 DEF Good, Sane, AtEnd, Heard
<1>6. Kept(p) /\ p.element = el /\ p.now = player.now /\ p.misled = player.misled
  BY <1>2, <1>4, ElementKeeps DEF Good
<1>7. Kept(player') /\ player'.element = el /\ player'.now = player.now /\ player'.misled = player.misled
  BY <1>3, <1>6, EmitKeeps
<1>8. Still(player')
  BY <1>4, <1>7 DEF Still
<1> QED
  BY <1>3, <1>4, <1>5, <1>7, <1>8, StillGood

LEMMA RejectGood ==
    ASSUME Good(player), Reject
    PROVE  Good(player')
<1>1. PICK el : el = [player.element EXCEPT !.on = FALSE]
  OBVIOUS
<1>2. PICK p : p = [player EXCEPT !.element = el]
  OBVIOUS
<1>3. player.element.ready = "loading" /\ player' = Emit(p, "Error")
  BY <1>1, <1>2 DEF Reject, Good, Kept, PlayerRows
<1>4. /\ el \in ElementRows /\ el.ready = "loading" /\ el.ep = player.element.ep /\ ~el.on
      /\ el.held = player.element.held /\ el.at = player.element.at
  BY <1>1, <1>3, GoodIs DEF ElementRows
<1>5. Sane(el) /\ ~Heard(el) /\ ~el.held
  BY <1>3, <1>4 DEF Good, Sane, AtEnd, Heard
<1>6. Kept(p) /\ p.element = el /\ p.now = player.now /\ p.misled = player.misled
  BY <1>2, <1>4, ElementKeeps DEF Good
<1>7. Kept(player') /\ player'.element = el /\ player'.now = player.now /\ player'.misled = player.misled
  BY <1>3, <1>6, EmitKeeps
<1>8. Still(player')
  BY <1>4, <1>5, <1>7 DEF Still
<1> QED
  BY <1>3, <1>4, <1>5, <1>7, <1>8, StillGood

LEMMA InterruptGood ==
    ASSUME Good(player), Interrupt
    PROVE  Good(player')
<1>1. PICK m : m = Mute(player)
  OBVIOUS
<1>2. player.element.on /\ player.element.ready = "data" /\ Heard(player.element) /\ ~Still(player)
  BY DEF Interrupt, Heard, Still
<1>3. /\ Kept(m) /\ m.now = player.now /\ m.retrying = player.retrying /\ m.misled = player.misled
      /\ m.element = [player.element EXCEPT !.on = FALSE, !.held = FALSE]
      /\ m.events = Append(player.events, Event("Paused"))
  BY <1>1, <1>2, MuteKeeps, Zenon DEF Good
<1>4. PICK el : el = [player.element EXCEPT !.on = FALSE, !.held = TRUE]
  OBVIOUS
<1>5. /\ el \in ElementRows /\ el.ready = "data" /\ el.ep = player.element.ep /\ ~el.on /\ el.held
  BY <1>2, <1>4, GoodIs DEF ElementRows
<1>6. player' = [m EXCEPT !.element = el]
  <2>1. player' = [m EXCEPT !.element.held = TRUE]
    BY <1>1 DEF Interrupt
  <2>2. [m.element EXCEPT !.held = TRUE] = el
    BY <1>3, <1>4, GoodIs DEF ElementRows
  <2> QED
    BY <1>3, <2>1, <2>2 DEF Kept, PlayerRows
<1>7. /\ Kept(player') /\ player'.element = el /\ player'.now = player.now /\ player'.events = m.events
      /\ player'.retrying = player.retrying /\ player'.misled = player.misled
  BY <1>3, <1>5, <1>6, ElementKeeps
<1>8. Sane(el) /\ ~Heard(el)
  BY <1>2, <1>5 DEF Good, Sane, AtEnd, Heard
<1>9. ~Troubled(player'.events)
  BY <1>2, <1>3, <1>7, GoodIs, PausedLast
<1>10. Told(player')
  BY <1>7, <1>8, <1>9 DEF Told, Troubled
<1>11. Agrees(player')
  BY <1>2, <1>5, <1>7, <1>8 DEF Good, Agrees
<1> QED
  BY <1>7, <1>8, <1>10, <1>11 DEF Good

LEMMA ReleaseGood ==
    ASSUME Good(player), Release
    PROVE  Good(player')
<1>1. PICK el : el = [player.element EXCEPT !.held = FALSE, !.on = TRUE]
  OBVIOUS
<1>2. PICK misled : misled = (player.misled \/ player.now.state = "Ended")
  OBVIOUS
<1>3. PICK p : p = [player EXCEPT !.element = el, !.misled = misled]
  OBVIOUS
<1>4. player.element.held /\ player.element.ready = "data" /\ ~AtEnd(player.element) /\ player' = Emit(p, "Playing")
  BY <1>1, <1>2, <1>3 DEF Release, Good, Kept, PlayerRows, ElementRows
<1>5. /\ el \in ElementRows /\ el.ready = "data" /\ el.ep = player.element.ep /\ el.on /\ ~el.held
      /\ el.at = player.element.at
  BY <1>1, <1>4, GoodIs DEF ElementRows
<1>6. Sane(el) /\ ~Still(player)
  BY <1>4, <1>5 DEF Good, Sane, AtEnd, Still
<1>7. /\ p \in PlayerRows /\ p.element = el /\ p.now = player.now /\ p.events = player.events
      /\ p.retrying = player.retrying /\ p.misled = misled /\ p.naps = player.naps /\ p.loads = player.loads
  <2>1. misled \in BOOLEAN
    BY <1>2
  <2> QED
    BY <1>3, <1>5, <2>1 DEF Good, Kept, PlayerRows
<1>8. Kept(p)
  BY <1>7 DEF Good, Kept
<1>9. /\ Kept(player') /\ player'.events = Append(player.events, Event("Playing"))
      /\ player'.now = player.now /\ player'.element = el
      /\ player'.retrying = player.retrying /\ player'.misled = misled
  BY <1>4, <1>7, <1>8, EmitKeeps
<1>10. /\ \A i \in DOMAIN player'.events : player'.events[i].kind = "Paused" =>
             \E j \in DOMAIN player'.events : i < j /\ player'.events[j].kind = "Playing"
       /\ \E i \in DOMAIN player'.events : player'.events[i].kind = "Playing"
       /\ Troubled(player'.events) => Troubled(player.events)
  BY <1>9, GoodIs, PlayingLast
<1>11. Told(player')
  BY <1>6, <1>10, GoodIs DEF Told, Troubled
<1>12. Agrees(player')
  <2>1. ~misled => ~player.misled /\ player.now.state # "Ended"
    BY <1>2
  <2>2. player.now.state \notin {"None", "Preparing"}
    BY <1>4 DEF Good, Agrees
  <2>3. player.now.state = "Error" => misled
    BY <1>6, <2>1 DEF Good, Agrees
  <2>4. ~(player.now.state = "Paused" /\ player.retrying)
    BY <1>6 DEF Good, Agrees
  <2>5. player.now.state \in {"Loading", "Playing", "Paused", "Ended"} => el.ep = player.now.ep
    BY <1>5 DEF Good, Agrees
  <2> QED
    BY <1>9, <1>10, <2>1, <2>2, <2>3, <2>4, <2>5 DEF Agrees
<1> QED
  BY <1>6, <1>9, <1>11, <1>12 DEF Good

LEMMA ElementHolds ==
    ASSUME PInv, Element
    PROVE  PInv'
<1>1. Good(player)
  BY DEF PInv
<1>2. Good(player')
  BY <1>1, ArriveGood, AdvanceGood, BreakGood, RejectGood, InterruptGood, ReleaseGood DEF Element
<1> QED
  BY <1>2, StepHolds DEF Element

LEMMA DeviceHolds ==
    ASSUME PInv, Device
    PROVE  PInv'
<1>1. PICK e \in Episodes : /\ Progress(e) \/ Land(e) \/ Miss(e) \/ Evict(e)
                            /\ UNCHANGED <<player, preference, cursor, seen>>
  BY DEF Device
<1>2. Good(player) /\ Around
  BY DEF PInv
<1>3. \/ device' = [device EXCEPT ![e].progress = 1] \/ device' = [device EXCEPT ![e].state = "Downloaded"]
      \/ device' = [device EXCEPT ![e].state = "Failed"] \/ device' = device
  BY <1>1 DEF Progress, Land, Miss, Evict
<1>4. device' \in [Episodes -> DeviceRows]
  BY <1>2, <1>3 DEF Around, DeviceRows
<1>5. bytes' \subseteq Episodes
  BY <1>1, <1>2 DEF Around, Progress, Land, Miss, Evict
<1> QED
  BY <1>1, <1>2, <1>4, <1>5 DEF PInv, Around

LEMMA NextHolds ==
    ASSUME PInv, [Next]_vars
    PROVE  PInv'
<1>1. CASE User
  BY <1>1, UserHolds
<1>2. CASE Element
  BY <1>2, ElementHolds
<1>3. CASE Device
  BY <1>3, DeviceHolds
<1>4. CASE Watch
  BY <1>4, WatchHolds
<1>5. CASE Work
  BY <1>5, WorkHolds
<1>6. CASE \E expire, save \in BOOLEAN : Tick(expire, save)
  BY <1>6, TickHolds
<1>7. CASE \E l \in player.loads : Begin(l) \/ Resolve(l)
  BY <1>7, BeginHolds, ResolveHolds
<1>8. CASE \E e \in player.naps : Wake(e)
  BY <1>8, WakeHolds
<1>9. CASE UNCHANGED vars
  BY <1>9 DEF vars, deviceVars, PInv, Around
<1> QED
  BY <1>1, <1>2, <1>3, <1>4, <1>5, <1>6, <1>7, <1>8, <1>9 DEF Next

LEMMA PInvHolds ==
    Spec => []PInv
BY InitHolds, NextHolds, PTL DEF Spec

\* The player's state is what its types say, one source read at most is not out of date, and a
\* retry that is waited for sleeps: for any episodes, preference, device and length.
THEOREM PlayerTypes ==
    Spec => []TypeOK
<1>1. PInv => TypeOK
  BY PInvImplies
<1> QED
  BY <1>1, PInvHolds, PTL

\* Whatever the user, the element, the system and the device do, and in any order: what is heard
\* is shown as playing, or an event is queued that will say so (playback.rs, controller.rs).
THEOREM HeardIsShown ==
    Spec => []ShownIsHeard
<1>1. PInv => ShownIsHeard
  BY PInvImplies
<1> QED
  BY <1>1, PInvHolds, PTL

-----------------------------------------------------------------------------
(* What is asked for, what is saved, and where.                            *)

\* A source is read for the episode that was asked for last.
Wants(p) == \A l \in p.loads : l.fresh => l.ep = p.wanted

\* What plays is not done with; the place on the screen, and the one the element is at or is
\* to begin from, are places the user resumed from, sought or heard.
Placed(p) ==
    /\ p.now.state \in {"Loading", "Playing", "Paused"} => p.now.ep \notin p.done /\ p.now.at \in p.reached
    /\ p.element.ep # NoEpisode =>
          /\ p.element.seek = NoSeek => p.element.at \in p.reached
          /\ p.element.seek # NoSeek => p.element.seek \in p.reached

\* The screen and the element turn to nothing but what was asked for last.
Follows(p, q) ==
    /\ q.now.ep \in {p.now.ep, NoEpisode, q.wanted}
    /\ q.element.ep \in {p.element.ep, NoEpisode, q.wanted}

Downloads == {c \in CommandRows : c.kind \in {"RemoveDownload", "DownloadToDevice"}}

\* The positions that may be saved while p is what it is.
Saves(p) ==
    {c \in CommandRows : c.kind = "SetCursor" /\ c.ep = p.element.ep /\ c.ep \notin p.done /\ c.at \in p.reached}

\* The commands of q are those of p and then some of K.
Adds(p, q, K) ==
    /\ p.commands \in Seq(CommandRows) /\ q.commands \in Seq(CommandRows)
    /\ Len(p.commands) <= Len(q.commands)
    /\ \A i \in 1..Len(p.commands) : q.commands[i] = p.commands[i]
    /\ \A i \in (Len(p.commands) + 1)..Len(q.commands) : q.commands[i] \in K

Same(p, q) ==
    q.commands = p.commands /\ q.done = p.done /\ q.reached = p.reached /\ q.wanted = p.wanted /\ q.loads = p.loads

LEMMA AddsNothing ==
    ASSUME NEW p, Kept(p), NEW q, q.commands = p.commands, NEW K
    PROVE  Adds(p, q, K)
<1>1. p.commands \in Seq(CommandRows)
  BY DEF Kept, PlayerRows
<1> QED
  BY <1>1 DEF Adds

LEMMA AddsMore ==
    ASSUME NEW p, NEW q, NEW r, NEW K, Adds(p, q, K), Adds(q, r, K)
    PROVE  Adds(p, r, K)
<1>1. Len(p.commands) \in Nat /\ Len(q.commands) \in Nat /\ Len(r.commands) \in Nat
  BY DEF Adds
<1>2. \A i \in 1..Len(p.commands) : i \in 1..Len(q.commands)
  BY <1>1 DEF Adds
<1>3. \A i \in (Len(p.commands) + 1)..Len(r.commands) :
         i \in 1..Len(q.commands) \/ i \in (Len(q.commands) + 1)..Len(r.commands)
  BY <1>1 DEF Adds
<1>4. ASSUME NEW i \in (Len(p.commands) + 1)..Len(r.commands)
      PROVE  r.commands[i] \in K
  <2>1. CASE i \in 1..Len(q.commands)
    <3>1. r.commands[i] = q.commands[i] /\ i \in (Len(p.commands) + 1)..Len(q.commands)
      BY <1>1, <1>4, <2>1 DEF Adds
    <3> QED
      BY <3>1 DEF Adds
  <2>2. CASE i \in (Len(q.commands) + 1)..Len(r.commands)
    BY <2>2 DEF Adds
  <2> QED
    BY <1>3, <2>1, <2>2
<1> QED
  BY <1>1, <1>2, <1>4 DEF Adds

LEMMA AddsWider ==
    ASSUME NEW p, NEW q, NEW K, NEW L, K \subseteq L, Adds(p, q, K)
    PROVE  Adds(p, q, L)
BY DEF Adds

Command(kind, e, at) == [kind |-> kind, ep |-> e, at |-> at]

Sends(p, q, c) ==
    /\ q.done = p.done /\ q.reached = p.reached /\ q.wanted = p.wanted /\ q.loads = p.loads
    /\ Adds(p, q, {c}) /\ Len(q.commands) = Len(p.commands) + 1

LEMMA SendSame ==
    ASSUME NEW p, Kept(p), NEW e \in Episodes, NEW at \in 0..Length,
           NEW kind \in {"SetCursor", "MarkPlayed", "RemoveDownload", "DownloadToDevice"}
    PROVE  Sends(p, Send(p, kind, e, at), Command(kind, e, at))
<1>0. PICK c, q : c = Command(kind, e, at) /\ q = Send(p, kind, e, at)
  OBVIOUS
<1>1. c \in CommandRows /\ p.commands \in Seq(CommandRows)
  BY <1>0 DEF Kept, PlayerRows, CommandRows, Command
<1>2. q = [p EXCEPT !.commands = Append(@, c)]
  BY <1>0 DEF Send, Command
<1>3. /\ q.commands = Append(p.commands, c) /\ q.done = p.done /\ q.reached = p.reached
      /\ q.wanted = p.wanted /\ q.loads = p.loads
  BY <1>2 DEF Kept, PlayerRows
<1>4. /\ q.commands \in Seq(CommandRows) /\ Len(q.commands) = Len(p.commands) + 1
      /\ \A i \in 1..Len(p.commands) : q.commands[i] = p.commands[i]
      /\ q.commands[Len(p.commands) + 1] = c /\ Len(p.commands) \in Nat
  BY <1>1, <1>3
<1>5. \A i \in (Len(p.commands) + 1)..Len(q.commands) : i = Len(p.commands) + 1
  BY <1>4
<1> QED
  BY <1>0, <1>1, <1>3, <1>4, <1>5 DEF Adds, Sends

LEMMA DownloadSame ==
    ASSUME NEW p, Kept(p), NEW e \in Episodes, NEW kind \in {"RemoveDownload", "DownloadToDevice"},
           NEW q, q = Send(p, kind, e, 0)
    PROVE  /\ Kept(q) /\ Alike(p, q) /\ q.done = p.done /\ q.reached = p.reached /\ q.wanted = p.wanted
           /\ q.loads = p.loads /\ Adds(p, q, Downloads)
<1>1. 0 \in 0..Length
  BY PlayerAssumption
<1>2. PICK c : c = Command(kind, e, 0)
  OBVIOUS
<1>3. {c} \subseteq Downloads
  BY <1>1, <1>2 DEF Downloads, CommandRows, Command
<1>4. /\ q.done = p.done /\ q.reached = p.reached /\ q.wanted = p.wanted /\ q.loads = p.loads
      /\ Adds(p, q, {c})
  <2>1. kind \in {"SetCursor", "MarkPlayed", "RemoveDownload", "DownloadToDevice"}
    OBVIOUS
  <2>2. Sends(p, q, c)
    BY <1>1, <1>2, <2>1, SendSame
  <2> QED
    BY <2>2 DEF Sends
<1> QED
  BY <1>1, <1>3, <1>4, AddsWider, SendKeeps

LEMMA PersistCursorSaves ==
    ASSUME NEW p, Kept(p),
           Resumable(p.now.state) => p.element.ep = p.now.ep /\ p.now.ep \notin p.done /\ p.now.at \in p.reached
    PROVE  /\ PersistCursor(p).done = p.done /\ PersistCursor(p).reached = p.reached
           /\ PersistCursor(p).wanted = p.wanted /\ PersistCursor(p).loads = p.loads
           /\ Adds(p, PersistCursor(p), Saves(p))
<1>1. CASE Resumable(p.now.state)
  <2>1. p.now.ep \in Episodes /\ p.now.at \in 0..Length
    BY <1>1 DEF Resumable, Kept, PlayerRows, NowRows, Maybe
  <2>2. PICK c : c = Command("SetCursor", p.now.ep, p.now.at)
    OBVIOUS
  <2>3. {c} \subseteq Saves(p)
    BY <1>1, <2>1, <2>2 DEF Saves, CommandRows, Command
  <2>4. PICK q : q = Send(p, "SetCursor", p.now.ep, p.now.at)
    OBVIOUS
  <2>5. PersistCursor(p) = q
    BY <1>1, <2>4 DEF PersistCursor
  <2>6. /\ q.done = p.done /\ q.reached = p.reached /\ q.wanted = p.wanted /\ q.loads = p.loads
        /\ Adds(p, q, {c})
    BY <2>1, <2>2, <2>4, SendSame DEF Sends
  <2> QED
    BY <2>3, <2>5, <2>6, AddsWider
<1>2. CASE ~Resumable(p.now.state)
  BY <1>2, AddsNothing DEF PersistCursor
<1> QED
  BY <1>1, <1>2

LEMMA PersistCursorSame ==
    ASSUME NEW p, Good(p), Placed(p)
    PROVE  /\ PersistCursor(p).done = p.done /\ PersistCursor(p).reached = p.reached
           /\ PersistCursor(p).wanted = p.wanted /\ PersistCursor(p).loads = p.loads
           /\ Adds(p, PersistCursor(p), Saves(p))
<1>1. Resumable(p.now.state) => p.now.state \in {"Loading", "Playing", "Paused"}
  BY DEF Resumable, Good, Kept, PlayerRows, NowRows, States
<1>2. Kept(p) /\ (Resumable(p.now.state) =>
                     p.element.ep = p.now.ep /\ p.now.ep \notin p.done /\ p.now.at \in p.reached)
  BY <1>1 DEF Good, Agrees, Placed
<1> QED
  BY <1>2, PersistCursorSaves

LEMMA BumpSame ==
    ASSUME NEW p, Kept(p)
    PROVE  /\ BumpGeneration(p).commands = p.commands /\ BumpGeneration(p).done = p.done
           /\ BumpGeneration(p).reached = p.reached /\ BumpGeneration(p).wanted = p.wanted
<1>1. PICK loads : loads = {[l EXCEPT !.fresh = FALSE] : l \in p.loads}
  OBVIOUS
<1>2. BumpGeneration(p) = [p EXCEPT !.retrying = FALSE, !.naps = {}, !.loads = loads]
  BY <1>1 DEF BumpGeneration
<1> QED
  BY <1>2 DEF Kept, PlayerRows

LEMMA EmitSame ==
    ASSUME NEW p, Kept(p), NEW kind
    PROVE  Same(p, Emit(p, kind))
BY DEF Emit, Same, Kept, PlayerRows

LEMMA MuteSame ==
    ASSUME NEW p, Kept(p)
    PROVE  Same(p, Mute(p))
<1>1. PICK q : q = [p EXCEPT !.element.on = FALSE, !.element.held = FALSE]
  OBVIOUS
<1>2. PICK el : el = [p.element EXCEPT !.on = FALSE, !.held = FALSE]
  OBVIOUS
<1>3. el \in ElementRows /\ q = [p EXCEPT !.element = el]
  BY <1>1, <1>2 DEF Kept, PlayerRows, ElementRows
<1>4. Kept(q) /\ Same(p, q)
  <2>1. Same(p, q)
    BY <1>3 DEF Same, Kept, PlayerRows
  <2> QED
    BY <1>3, <2>1, ElementKeeps
<1>5. Mute(p) \in {q, Emit(q, "Paused")}
  BY <1>1 DEF Mute
<1> QED
  BY <1>4, <1>5, EmitSame DEF Same

LEMMA HushSame ==
    ASSUME NEW p, Kept(p)
    PROVE  /\ Hush(p).commands = p.commands /\ Hush(p).done = p.done
           /\ Hush(p).wanted = p.wanted /\ Hush(p).loads = p.loads
<1>1. PICK m : m = Mute(p)
  OBVIOUS
<1>2. Kept(m) /\ Same(p, m)
  BY <1>1, MuteKeeps, MuteSame, Zenon
<1>3. Hush(p) = [m EXCEPT !.element = Silent, !.reached = {}, !.misled = FALSE]
  BY <1>1 DEF Hush
<1> QED
  BY <1>2, <1>3 DEF Kept, PlayerRows, Same

LEMMA ShowSame ==
    ASSUME NEW p, Kept(p), NEW e, NEW state, NEW at
    PROVE  Same(p, Show(p, e, state, at))
BY DEF Show, Same, Kept, PlayerRows

LEMMA SoundSame ==
    ASSUME NEW p, Kept(p)
    PROVE  /\ Sound(p).commands = p.commands /\ Sound(p).done = p.done
           /\ Sound(p).wanted = p.wanted /\ Sound(p).loads = p.loads
           /\ Sound(p).reached = IF AtEnd(p.element) THEN p.reached \cup {0} ELSE p.reached
<1>1. PICK q : q = [p EXCEPT !.events = [i \in DOMAIN @ |-> [@[i] EXCEPT !.stale = TRUE]],
                    !.element.on = TRUE, !.element.held = FALSE,
                    !.element.at = IF AtEnd(p.element) THEN 0 ELSE @,
                    !.reached = IF AtEnd(p.element) THEN @ \cup {0} ELSE @]
  BY Zenon
<1>2. /\ q.commands = p.commands /\ q.done = p.done /\ q.wanted = p.wanted /\ q.loads = p.loads
      /\ q.reached = IF AtEnd(p.element) THEN p.reached \cup {0} ELSE p.reached
  BY <1>1 DEF Kept, PlayerRows
<1>3. Emit(q, "Playing") = [q EXCEPT !.events = Append(@, Event("Playing"))]
  BY DEF Emit
<1>4. /\ Emit(q, "Playing").commands = q.commands /\ Emit(q, "Playing").done = q.done
      /\ Emit(q, "Playing").wanted = q.wanted /\ Emit(q, "Playing").loads = q.loads
      /\ Emit(q, "Playing").reached = q.reached
  BY <1>1, <1>3, ZenonT(30) DEF Kept, PlayerRows
<1>5. Sound(p) \in {q, Emit(q, "Playing")}
  BY <1>1 DEF Sound
<1> QED
  BY <1>2, <1>4, <1>5

\* What a handler does of all this.
Goes(p, q, K) == Wants(q) /\ Placed(q) /\ Follows(p, q) /\ Adds(p, q, K)

\* A handler that goes on from where p's screen and element are.
LEMMA GoesOn ==
    ASSUME NEW p, NEW m, NEW q, NEW K, m.now.ep = p.now.ep, m.element.ep = p.element.ep,
           Adds(p, m, K), Goes(m, q, K)
    PROVE  Goes(p, q, K)
BY AddsMore DEF Goes, Follows

LEMMA GoesWider ==
    ASSUME NEW p, NEW q, NEW K, NEW L, K \subseteq L, Goes(p, q, K)
    PROVE  Goes(p, q, L)
BY AddsWider DEF Goes

LEMMA LoadAndPlayGoes ==
    ASSUME NEW p, Kept(p), NEW e \in Episodes, NEW local \in BOOLEAN, NEW start \in 0..Length,
           p.wanted = e, Wants(p), NEW K
    PROVE  Goes(p, LoadAndPlay(p, e, local, start), K)
<1>1. PICK auto : auto = (SleepByDefault /\ ~p.autoArmed /\ ~p.armed)
  OBVIOUS
<1>2. PICK seek : seek = IF start > 0 THEN start ELSE NoSeek
  OBVIOUS
<1>3. PICK el : el = [Silent EXCEPT !.ep = e, !.local = local, !.ready = "loading", !.seek = seek]
  OBVIOUS
<1>4. el = [ep |-> e, local |-> local, ready |-> "loading", on |-> FALSE, held |-> FALSE,
            at |-> 0, seek |-> seek]
  BY <1>3 DEF Silent
<1>5. PICK s : s = Show(p, e, "Loading", start)
  OBVIOUS
<1>6. Same(p, s) /\ s.now = [ep |-> e, state |-> "Loading", at |-> start] /\ s \in PlayerRows
  <2>1. e \in Maybe /\ e # NoEpisode /\ "Loading" \in States
    BY PlayerAssumption DEF Maybe, States
  <2>2. Kept(s) /\ s.now = [ep |-> e, state |-> "Loading", at |-> start]
    BY <1>5, <2>1, ShowKeeps
  <2> QED
    BY <1>5, <2>2, ShowSame DEF Kept
<1>7. PICK armed, autoArmed : armed = (s.armed \/ auto) /\ autoArmed = (s.autoArmed \/ auto)
  OBVIOUS
<1>8. PICK q : q = [s EXCEPT !.element = el, !.armed = armed, !.autoArmed = autoArmed,
                             !.done = @ \ {e}, !.reached = {start}, !.misled = FALSE]
  OBVIOUS
<1>9. LoadAndPlay(p, e, local, start) = Sound(q)
  BY <1>1, <1>2, <1>3, <1>5, <1>7, <1>8 DEF LoadAndPlay
<1>10. /\ q.element = el /\ q.now = s.now /\ q.commands = s.commands /\ q.wanted = s.wanted
       /\ q.loads = s.loads /\ q.done = s.done \ {e} /\ q.reached = {start}
  BY <1>6, <1>8 DEF PlayerRows
<1>11. Kept(q)
  <2>1. /\ armed \in BOOLEAN /\ autoArmed \in BOOLEAN /\ seek \in {NoSeek} \cup 0..Length
        /\ e \in Maybe /\ 0 \in 0..Length
    BY <1>2, <1>7, PlayerAssumption DEF Maybe
  <2>2. el \in ElementRows
    BY <1>4, <2>1 DEF ElementRows
  <2>3. PICK done, reached : done = s.done \ {e} /\ reached = {start}
    OBVIOUS
  <2>4. done \in SUBSET Episodes /\ reached \in SUBSET (0..Length)
    BY <1>6, <2>3 DEF PlayerRows
  <2>5. q = [s EXCEPT !.element = el, !.armed = armed, !.autoArmed = autoArmed,
                      !.done = done, !.reached = reached, !.misled = FALSE]
    BY <1>8, <2>3
  <2>6. q \in PlayerRows /\ q.retrying = s.retrying /\ q.naps = s.naps
    BY <1>6, <2>1, <2>2, <2>4, <2>5, ZenonT(30) DEF PlayerRows
  <2>7. s.retrying = p.retrying /\ s.naps = p.naps
    BY <1>5 DEF Show, Kept, PlayerRows
  <2>8. e # NoEpisode
    BY PlayerAssumption
  <2> QED
    BY <1>6, <1>10, <2>6, <2>7, <2>8 DEF Kept, Same
<1>12. PICK r : r = Sound(q)
  OBVIOUS
<1>13. /\ r.commands = q.commands /\ r.done = q.done /\ r.wanted = q.wanted /\ r.loads = q.loads
       /\ r.reached = IF AtEnd(el) THEN q.reached \cup {0} ELSE q.reached
  BY <1>10, <1>11, <1>12, SoundSame
<1>14. r.now = q.now /\ r.element = [el EXCEPT !.on = TRUE, !.held = FALSE, !.at = IF AtEnd(el) THEN 0 ELSE @]
  BY <1>10, <1>11, <1>12, SoundKeeps, Zenon
<1>15. ~AtEnd(el)
  BY <1>4 DEF AtEnd
<1>16. r.element.ep = e /\ r.element.at = 0 /\ r.element.seek = seek
  BY <1>4, <1>14, <1>15
<1>17. /\ r.now.ep = e /\ r.now.at = start /\ r.reached = {start} /\ e \notin r.done
       /\ r.wanted = e /\ r.loads = p.loads /\ r.commands = p.commands
  BY <1>6, <1>10, <1>13, <1>14, <1>15 DEF Same
<1>18. Placed(r)
  <2>1. seek = NoSeek => start = 0
    BY <1>2 DEF NoSeek
  <2>2. seek # NoSeek => seek = start
    BY <1>2
  <2> QED
    BY <1>16, <1>17, <2>1, <2>2 DEF Placed
<1> QED
  BY <1>9, <1>12, <1>16, <1>17, <1>18, AddsNothing DEF Goes, Wants, Follows

\* A player that is silent has nowhere to be.
LEMMA SilencedPlaced ==
    ASSUME NEW p, Kept(p), NEW e \in Episodes, NEW state \in {"Preparing", "Error"},
           NEW q, q = Show(Hush(p), e, state, 0)
    PROVE  /\ Placed(q) /\ q.now.ep = e /\ q.element.ep = NoEpisode
           /\ q.commands = p.commands /\ q.wanted = p.wanted /\ q.loads = p.loads
<1>1. PICK h : h = Hush(p)
  OBVIOUS
<1>2. /\ Kept(h) /\ h.element = Silent /\ h.commands = p.commands /\ h.wanted = p.wanted /\ h.loads = p.loads
  BY <1>1, HushKeeps, HushSame DEF Hushed
<1>3. e \in Maybe /\ e # NoEpisode /\ state \in States /\ 0 \in 0..Length
  BY PlayerAssumption DEF Maybe, States
<1>4. q.now = [ep |-> e, state |-> state, at |-> 0] /\ q.element = Silent /\ Same(h, q)
  BY <1>1, <1>2, <1>3, ShowKeeps, ShowSame
<1>5. q.now.ep = e /\ q.now.state = state /\ q.element.ep = NoEpisode
  BY <1>4, SilentIs
<1> QED
  BY <1>2, <1>4, <1>5 DEF Placed, Same

LEMMA EnterPreparingGoes ==
    ASSUME NEW p, Kept(p), NEW e \in Episodes, p.wanted = e, NEW K
    PROVE  Goes(p, EnterPreparing(p, e), K)
<1>1. PICK b : b = BumpGeneration(p)
  OBVIOUS
<1>2. Kept(b) /\ b.commands = p.commands /\ b.wanted = e /\ \A l \in b.loads : ~l.fresh
  BY <1>1, BumpKeeps, BumpSame
<1>3. PICK q : q = EnterPreparing(p, e)
  OBVIOUS
<1>4. q = Show(Hush(b), e, "Preparing", 0)
  BY <1>1, <1>3 DEF EnterPreparing
<1>5. /\ Placed(q) /\ q.now.ep = e /\ q.element.ep = NoEpisode
      /\ q.commands = b.commands /\ q.wanted = b.wanted /\ q.loads = b.loads
  BY <1>2, <1>4, SilencedPlaced
<1> QED
  BY <1>2, <1>3, <1>5, AddsNothing DEF Goes, Wants, Follows

LEMMA RedownloadGoes ==
    ASSUME NEW p, Kept(p), NEW e \in Episodes, p.wanted = e, NEW stale \in BOOLEAN
    PROVE  Goes(p, RedownloadAndPrepare(p, e, stale), Downloads)
<1>1. PICK m : m = IF stale THEN Send(p, "RemoveDownload", e, 0) ELSE p
  OBVIOUS
<1>2. Kept(m) /\ m.now = p.now /\ m.element = p.element /\ m.wanted = e /\ Adds(p, m, Downloads)
  <2>1. CASE stale
    BY <1>1, <2>1, DownloadSame DEF Alike
  <2>2. CASE ~stale
    BY <1>1, <2>2, AddsNothing
  <2> QED
    BY <2>1, <2>2
<1>3. PICK n : n = Send(m, "DownloadToDevice", e, 0)
  OBVIOUS
<1>4. Kept(n) /\ n.now = m.now /\ n.element = m.element /\ n.wanted = e /\ Adds(m, n, Downloads)
  BY <1>2, <1>3, DownloadSame DEF Alike
<1>5. RedownloadAndPrepare(p, e, stale) = EnterPreparing(n, e)
  BY <1>1, <1>3 DEF RedownloadAndPrepare
<1>6. Goes(n, EnterPreparing(n, e), Downloads)
  BY <1>4, EnterPreparingGoes
<1>7. Adds(p, n, Downloads)
  BY <1>2, <1>4, AddsMore
<1> QED
  BY <1>2, <1>4, <1>5, <1>6, <1>7, GoesOn

LEMMA StreamEpisodeGoes ==
    ASSUME NEW p, Kept(p), NEW e \in Episodes, cursor[e] \in 0..Length, p.wanted = e
    PROVE  Goes(p, StreamEpisode(p, e), Downloads)
<1>1. PICK b : b = BumpGeneration(p)
  OBVIOUS
<1>2. /\ Kept(b) /\ b.now = p.now /\ b.element = p.element /\ b.wanted = e
      /\ b.commands = p.commands /\ \A l \in b.loads : ~l.fresh
  BY <1>1, BumpKeeps, BumpSame
<1>3. Adds(p, b, Downloads)
  BY <1>2, AddsNothing
<1>4. CASE preference = "DownloadOnly"
  BY <1>4, RedownloadGoes DEF StreamEpisode, OnDevice
<1>5. CASE preference # "DownloadOnly" /\ e \in Served
  <2>1. StreamEpisode(p, e) = LoadAndPlay(b, e, FALSE, cursor[e])
    BY <1>1, <1>5 DEF StreamEpisode
  <2>2. Goes(b, LoadAndPlay(b, e, FALSE, cursor[e]), Downloads)
    BY <1>2, LoadAndPlayGoes DEF Wants
  <2> QED
    BY <1>2, <1>3, <2>1, <2>2, GoesOn
<1>6. CASE preference # "DownloadOnly" /\ e \notin Served
  <2>1. PICK q : q = StreamEpisode(p, e)
    OBVIOUS
  <2>2. q = Show(Hush(b), e, "Error", 0)
    BY <1>1, <1>6, <2>1 DEF StreamEpisode, SetError
  <2>3. /\ Placed(q) /\ q.now.ep = e /\ q.element.ep = NoEpisode
        /\ q.commands = b.commands /\ q.wanted = b.wanted /\ q.loads = b.loads
    BY <1>2, <2>2, SilencedPlaced
  <2> QED
    BY <1>2, <2>1, <2>3, AddsNothing DEF Goes, Wants, Follows
<1> QED
  BY <1>4, <1>5, <1>6

LEMMA PlayEpisodeGoes ==
    ASSUME NEW p, Kept(p), Placed(p), NEW e \in Episodes, p.wanted = e, NEW K
    PROVE  Goes(p, PlayEpisode(p, e), K)
<1>1. PICK b : b = BumpGeneration(p)
  OBVIOUS
<1>2. /\ Kept(b) /\ b.now = p.now /\ b.element = p.element /\ b.wanted = e /\ b.done = p.done
      /\ b.reached = p.reached /\ b.commands = p.commands /\ \A l \in b.loads : ~l.fresh
  BY <1>1, BumpKeeps, BumpSame
<1>3. PICK load : load = [ep |-> e, fresh |-> TRUE, phase |-> "spawned", start |-> 0]
  OBVIOUS
<1>4. PICK q : q = [b EXCEPT !.loads = @ \cup {load}]
  OBVIOUS
<1>5. q = PlayEpisode(p, e)
  BY <1>1, <1>3, <1>4 DEF PlayEpisode
<1>6. /\ q.now = b.now /\ q.element = b.element /\ q.wanted = b.wanted /\ q.done = b.done
      /\ q.reached = b.reached /\ q.commands = b.commands /\ q.loads = b.loads \cup {load}
  BY <1>2, <1>4 DEF Kept, PlayerRows
<1>7. Wants(q)
  BY <1>2, <1>3, <1>6 DEF Wants
<1>8. Placed(q)
  BY <1>2, <1>6 DEF Placed
<1> QED
  BY <1>2, <1>5, <1>6, <1>7, <1>8, AddsNothing DEF Goes, Follows

LEMMA DownloadAndPlayGoes ==
    ASSUME NEW p, Kept(p), Placed(p), NEW e \in Episodes, p.wanted = e
    PROVE  Goes(p, DownloadAndPlay(p, e), Downloads)
<1>1. CASE device[e].state = "Downloaded"
  BY <1>1, PlayEpisodeGoes DEF DownloadAndPlay
<1>2. CASE device[e].state = "Downloading"
  BY <1>2, EnterPreparingGoes DEF DownloadAndPlay
<1>3. CASE device[e].state \notin {"Downloaded", "Downloading"}
  <2>1. PICK m : m = Send(p, "DownloadToDevice", e, 0)
    OBVIOUS
  <2>2. Kept(m) /\ m.now = p.now /\ m.element = p.element /\ m.wanted = e /\ Adds(p, m, Downloads)
    BY <2>1, DownloadSame DEF Alike
  <2>3. Goes(m, EnterPreparing(m, e), Downloads)
    BY <2>2, EnterPreparingGoes
  <2>4. DownloadAndPlay(p, e) = EnterPreparing(m, e)
    BY <1>3, <2>1 DEF DownloadAndPlay
  <2> QED
    BY <2>2, <2>3, <2>4, GoesOn
<1> QED
  BY <1>1, <1>2, <1>3

LEMMA RequestPlayGoes ==
    ASSUME NEW p, Good(p), Placed(p), NEW e \in Episodes, cursor[e] \in 0..Length
    PROVE  /\ Goes(p, RequestPlay(p, e), Downloads \cup Saves(p))
           /\ p.now.state \notin {"Playing", "Paused"} => Goes(p, RequestPlay(p, e), Downloads)
<1>1. PICK outgoing : outgoing = (p.now.ep # e /\ p.now.state \in {"Playing", "Paused"})
  OBVIOUS
<1>2. PICK r : r = IF outgoing THEN PersistCursor(p) ELSE p
  OBVIOUS
<1>3. /\ Kept(r) /\ r.now = p.now /\ r.element = p.element /\ r.done = p.done /\ r.reached = p.reached
      /\ Adds(p, r, Saves(p)) /\ (~outgoing => Adds(p, r, Downloads))
  <2>1. CASE outgoing
    BY <1>2, <2>1, PersistCursorSame, PersistCursorKeeps DEF Good, Alike
  <2>2. CASE ~outgoing
    BY <1>2, <2>2, AddsNothing DEF Good
  <2> QED
    BY <2>1, <2>2
<1>4. PICK q : q = [r EXCEPT !.retries = 0, !.wanted = e]
  OBVIOUS
<1>5. /\ q.now = r.now /\ q.element = r.element /\ q.done = r.done /\ q.reached = r.reached
      /\ q.commands = r.commands /\ q.wanted = e
  BY <1>3, <1>4 DEF Kept, PlayerRows
<1>6. Kept(q) /\ Placed(q)
  <2>1. Kept(q)
    BY <1>3, <1>4, AskedKeeps, Zenon
  <2>2. Placed(q)
    BY <1>3, <1>5 DEF Placed
  <2> QED
    BY <2>1, <2>2
<1>7. PICK s : s = Send(q, "DownloadToDevice", e, 0)
  OBVIOUS
<1>8. Kept(s) /\ s.now = q.now /\ s.element = q.element /\ s.wanted = e /\ Adds(q, s, Downloads)
  BY <1>5, <1>6, <1>7, DownloadSame DEF Alike
<1>9. PICK t : t = RequestPlay(p, e)
  OBVIOUS
<1>10. t \in {DownloadAndPlay(q, e), PlayEpisode(q, e), StreamEpisode(q, e), StreamEpisode(s, e)}
  <2>1. q = [(IF outgoing THEN PersistCursor(p) ELSE p) EXCEPT !.retries = 0, !.wanted = e]
    BY <1>2, <1>4
  <2> QED
    BY <1>1, <1>7, <1>9, <2>1 DEF RequestPlay
<1>11. Goes(q, t, Downloads)
  <2>1. t = DownloadAndPlay(q, e) => Goes(q, t, Downloads)
    BY <1>5, <1>6, DownloadAndPlayGoes
  <2>2. t = PlayEpisode(q, e) => Goes(q, t, Downloads)
    BY <1>5, <1>6, PlayEpisodeGoes
  <2>3. t = StreamEpisode(q, e) => Goes(q, t, Downloads)
    BY <1>5, <1>6, StreamEpisodeGoes
  <2>4. t = StreamEpisode(s, e) => Goes(q, t, Downloads)
    <3>1. Goes(s, StreamEpisode(s, e), Downloads)
      BY <1>8, StreamEpisodeGoes
    <3> QED
      BY <1>8, <3>1, GoesOn
  <2> QED
    BY <1>10, <2>1, <2>2, <2>3, <2>4
<1>12. ASSUME NEW K, Downloads \subseteq K, Adds(p, r, K)
       PROVE  Goes(p, t, K)
  <2>1. Adds(p, q, K)
    BY <1>5, <1>12, <1>6 DEF Adds
  <2>2. Goes(q, t, K)
    BY <1>11, <1>12, GoesWider
  <2> QED
    BY <1>3, <1>5, <2>1, <2>2, GoesOn
<1>13. Goes(p, t, Downloads \cup Saves(p))
  <2>1. Adds(p, r, Downloads \cup Saves(p))
    BY <1>3, AddsWider
  <2> QED
    BY <1>12, <2>1
<1>14. p.now.state \notin {"Playing", "Paused"} => Goes(p, t, Downloads)
  <2>1. p.now.state \notin {"Playing", "Paused"} => ~outgoing
    BY <1>1
  <2> QED
    BY <1>3, <1>12, <2>1
<1> QED
  BY <1>9, <1>13, <1>14

\* Nothing is asked for, sent, marked or heard, and both stay where they are.
LEMMA StaysGoes ==
    ASSUME NEW p, Kept(p), Wants(p), NEW q, Same(p, q), Placed(q),
           q.now.ep = p.now.ep, q.element.ep = p.element.ep, NEW K
    PROVE  Goes(p, q, K)
BY AddsNothing DEF Goes, Wants, Follows, Same

LEMMA PlacedSame ==
    ASSUME NEW p, Placed(p), NEW q, q.done = p.done, p.reached \subseteq q.reached,
           q.element.ep = p.element.ep, q.element.at = p.element.at, q.element.seek = p.element.seek,
           q.now.ep = p.now.ep, q.now.at = p.now.at,
           q.now.state \in {"Loading", "Playing", "Paused"} => p.now.state \in {"Loading", "Playing", "Paused"}
    PROVE  Placed(q)
BY DEF Placed

LEMMA TurnSame ==
    ASSUME NEW p, Kept(p), NEW state \in States, NEW q, q = Turn(p, state)
    PROVE  Same(p, q) /\ q.now.at = p.now.at
<1>1. PICK now : now = [p.now EXCEPT !.state = state]
  OBVIOUS
<1>2. q = [p EXCEPT !.now = now] /\ now.at = p.now.at
  BY <1>1 DEF Turn, Kept, PlayerRows, NowRows
<1> QED
  BY <1>2 DEF Same, Kept, PlayerRows

LEMMA ResumeGoes ==
    ASSUME NEW p, Good(p), Wants(p), Placed(p), NEW K
    PROVE  Goes(p, Resume(p), K)
<1>1. CASE p.now.state = "Paused"
  <2>1. PICK s : s = Sound(p)
    OBVIOUS
  <2>2. /\ Kept(s) /\ s.now = p.now
        /\ s.element = [p.element EXCEPT !.on = TRUE, !.held = FALSE,
                                         !.at = IF AtEnd(p.element) THEN 0 ELSE @]
    BY <2>1, SoundKeeps, Zenon DEF Good
  <2>3. /\ s.commands = p.commands /\ s.done = p.done /\ s.wanted = p.wanted /\ s.loads = p.loads
        /\ s.reached = IF AtEnd(p.element) THEN p.reached \cup {0} ELSE p.reached
    BY <2>1, SoundSame DEF Good
  <2>4. PICK q : q = Turn(s, "Playing")
    OBVIOUS
  <2>5. Resume(p) = q
    BY <1>1, <2>1, <2>4 DEF Resume, Turn
  <2>6. /\ Kept(q) /\ q.now.state = "Playing" /\ q.now.ep = p.now.ep /\ q.element = s.element
        /\ q.now.at = p.now.at /\ Same(s, q)
    <3>1. s.now.state # "None" /\ "Playing" \in States /\ "Playing" \in States \ {"None"}
      BY <1>1, <2>2 DEF States
    <3> QED
      BY <2>2, <2>4, <3>1, StateKeeps, TurnSame
  <2>7. /\ q.element.ep = p.element.ep /\ q.element.seek = p.element.seek
        /\ q.element.at = IF AtEnd(p.element) THEN 0 ELSE p.element.at
    BY <2>2, <2>6, GoodIs DEF ElementRows
  <2>8. q.done = p.done /\ q.reached = s.reached /\ q.commands = p.commands /\ q.wanted = p.wanted /\ q.loads = p.loads
    BY <2>3, <2>6 DEF Same
  <2>9. Placed(q)
    BY <1>1, <2>3, <2>6, <2>7, <2>8 DEF Placed
  <2> QED
    BY <2>5, <2>6, <2>7, <2>8, <2>9, AddsNothing DEF Goes, Wants, Follows, Good
<1>2. CASE p.now.state # "Paused"
  BY <1>2, AddsNothing DEF Resume, Goes, Follows, Good
<1> QED
  BY <1>1, <1>2

LEMMA PersistCursorGoes ==
    ASSUME NEW p, Good(p), Wants(p), Placed(p)
    PROVE  Goes(p, PersistCursor(p), Saves(p))
<1>1. PICK q : q = PersistCursor(p)
  OBVIOUS
<1>2. /\ q.done = p.done /\ q.reached = p.reached /\ q.wanted = p.wanted /\ q.loads = p.loads
      /\ Adds(p, q, Saves(p))
  BY <1>1, PersistCursorSame
<1>3. q.now = p.now /\ q.element = p.element
  BY <1>1, PersistCursorGood DEF Alike
<1>4. Wants(q) /\ Placed(q) /\ Follows(p, q)
  BY <1>2, <1>3 DEF Wants, Placed, Follows
<1> QED
  BY <1>1, <1>2, <1>4 DEF Goes

\* What a handler that only saves leaves alone.
Saving(p, q) ==
    /\ q.done = p.done /\ q.reached = p.reached /\ q.element.ep = p.element.ep /\ Adds(p, q, Saves(p))

LEMMA SavingMore ==
    ASSUME NEW p, NEW q, NEW r, Saving(p, q), Saving(q, r)
    PROVE  Saving(p, r)
<1>1. Saves(q) = Saves(p)
  BY DEF Saving, Saves
<1> QED
  BY <1>1, AddsMore DEF Saving

LEMMA PauseGoes ==
    ASSUME NEW p, Good(p), Wants(p), Placed(p)
    PROVE  Goes(p, Pause(p), Saves(p)) /\ Saving(p, Pause(p))
<1>1. CASE p.now.state \in {"Playing", "Loading"}
  <2>1. PICK m : m = Mute(p)
    OBVIOUS
  <2>2. /\ Kept(m) /\ m.now = p.now /\ Same(p, m)
        /\ m.element = [p.element EXCEPT !.on = FALSE, !.held = FALSE]
    BY <2>1, MuteKeeps, MuteSame, Zenon DEF Good
  <2>3. PICK q : q = Turn(m, "Paused")
    OBVIOUS
  <2>4. Pause(p) = PersistCursor(q)
    BY <1>1, <2>1, <2>3 DEF Pause, Turn
  <2>5. /\ Kept(q) /\ q.now.state = "Paused" /\ q.now.ep = p.now.ep /\ q.now.at = p.now.at
        /\ q.element = m.element /\ Same(m, q)
    <3>1. m.now.state # "None" /\ "Paused" \in States /\ "Paused" \in States \ {"None"}
      BY <1>1, <2>2 DEF States
    <3> QED
      BY <2>2, <2>3, <3>1, StateKeeps, TurnSame
  <2>6. /\ ~q.element.on /\ ~q.element.held /\ q.element.ep = p.element.ep
        /\ q.element.ready = p.element.ready /\ q.element.at = p.element.at /\ q.element.seek = p.element.seek
    BY <2>2, <2>5, GoodIs DEF ElementRows
  <2>7. Sane(q.element)
    BY <2>6 DEF Good, Sane, AtEnd
  <2>8. Told(q) /\ Agrees(q)
    <3>1. ~Heard(q.element) /\ Still(q)
      BY <2>6 DEF Heard, Still
    <3>2. q.element.ep = q.now.ep
      BY <1>1, <2>5, <2>6 DEF Good, Agrees
    <3> QED
      BY <2>5, <3>1, <3>2 DEF Told, Agrees
  <2>9. Good(q)
    BY <2>5, <2>7, <2>8 DEF Good
  <2>10. /\ q.done = p.done /\ q.reached = p.reached /\ q.commands = p.commands
         /\ q.wanted = p.wanted /\ q.loads = p.loads
    BY <2>2, <2>5 DEF Same
  <2>11. Wants(q) /\ Placed(q)
    BY <1>1, <2>5, <2>6, <2>10 DEF Wants, Placed
  <2>12. PICK r : r = PersistCursor(q)
    OBVIOUS
  <2>13. Goes(q, r, Saves(q)) /\ r.done = q.done /\ r.reached = q.reached /\ r.element = q.element
    BY <2>9, <2>11, <2>12, PersistCursorGoes, PersistCursorSame, PersistCursorGood DEF Alike
  <2>14. Saves(q) = Saves(p) /\ Adds(p, q, Saves(p))
    BY <2>6, <2>10, AddsNothing DEF Saves, Good
  <2>15. Goes(p, r, Saves(p))
    BY <2>5, <2>6, <2>13, <2>14, GoesOn
  <2> QED
    BY <2>4, <2>6, <2>10, <2>12, <2>13, <2>15 DEF Saving, Goes
<1>2. CASE p.now.state \notin {"Playing", "Loading"}
  BY <1>2, AddsNothing DEF Pause, Goes, Follows, Good, Saving
<1> QED
  BY <1>1, <1>2

LEMMA PlayGoes ==
    ASSUME NEW p, Good(p), Wants(p), Placed(p), p.now.ep \in Episodes => cursor[p.now.ep] \in 0..Length
    PROVE  Goes(p, Play(p), Downloads)
<1>1. CASE p.now.state \in {"Ended", "Error"}
  <2>1. p.now.ep \in Episodes /\ p.now.state \notin {"Playing", "Paused"}
    BY <1>1 DEF Good, Kept, PlayerRows, NowRows, Maybe
  <2> QED
    BY <1>1, <2>1, RequestPlayGoes DEF Play
<1>2. CASE p.now.state \notin {"Ended", "Error"}
  BY <1>2, ResumeGoes DEF Play
<1> QED
  BY <1>1, <1>2

-----------------------------------------------------------------------------
(* The tick, once more.                                                    *)

LEMMA TimeUpdateSame ==
    ASSUME NEW p, Kept(p)
    PROVE  Same(p, OnTimeUpdate(p)) /\ OnTimeUpdate(p).now.at = p.element.at
<1>1. PICK state, at : state = (IF p.now.state = "Loading" THEN "Playing" ELSE p.now.state) /\ at = p.element.at
  OBVIOUS
<1>2. PICK now : now = [p.now EXCEPT !.at = at, !.state = state]
  OBVIOUS
<1>3. PICK retries : retries = IF p.now.state = "Loading" THEN 0 ELSE p.retries
  OBVIOUS
<1>4. PICK q : q = [p EXCEPT !.now = now, !.retries = retries]
  OBVIOUS
<1>5. OnTimeUpdate(p) = q
  <2>1. p \in PlayerRows
    BY DEF Kept
  <2> QED
    BY <1>1, <1>2, <1>3, <1>4, <2>1 DEF OnTimeUpdate, PlayerRows, NowRows
<1>6. Same(p, q) /\ q.now = now
  BY <1>4 DEF Same, Kept, PlayerRows
<1>7. now.at = at
  BY <1>2 DEF Kept, PlayerRows, NowRows
<1> QED
  BY <1>1, <1>5, <1>6, <1>7

LEMMA BackendErrorSame ==
    ASSUME NEW p, Kept(p), NEW stale
    PROVE  /\ Same(p, OnBackendError(p, stale)) /\ OnBackendError(p, stale).now.at = p.now.at
           /\ OnBackendError(p, stale).now.state \in {p.now.state, "Error"}
<1>1. PICK r : r = OnBackendError(p, stale)
  OBVIOUS
<1>2. CASE p.now.state = "Loading" /\ p.element.local /\ MayRetry(p) /\ ~p.retrying
  <2>1. PICK q : q = [p EXCEPT !.retries = @ + 1, !.retrying = TRUE, !.naps = @ \cup {p.now.ep}]
    OBVIOUS
  <2>2. OnBackendError(p, stale) = q
    BY <1>2, <2>1 DEF OnBackendError
  <2> QED
    BY <2>1, <2>2 DEF Same, Kept, PlayerRows
<1>3. CASE ~(p.now.state = "Loading" /\ p.element.local /\ MayRetry(p) /\ ~p.retrying)
  <2>1. PICK now : now = [p.now EXCEPT !.state = "Error"]
    OBVIOUS
  <2>2. PICK q : q = [p EXCEPT !.now = now, !.misled = @ \/ stale]
    OBVIOUS
  <2>3. OnBackendError(p, stale) = q
    BY <1>3, <2>1, <2>2 DEF OnBackendError, Kept, PlayerRows
  <2>4. Same(p, q) /\ q.now = now
    BY <2>2 DEF Same, Kept, PlayerRows
  <2>5. now.at = p.now.at /\ now.state = "Error"
    BY <2>1 DEF Kept, PlayerRows, NowRows
  <2> QED
    BY <2>3, <2>4, <2>5
<1> QED
  BY <1>2, <1>3

\* What holds besides, of a tick that reads events, after n of them.
Kin(p, q) ==
    /\ Saving(p, q) /\ q.wanted = p.wanted /\ q.loads = p.loads
    /\ q.now.state \in {"Loading", "Playing", "Paused"} => q.now.at \in p.reached

LEMMA KinStep ==
    ASSUME NEW p, Good(p), Placed(p), p.now.state \in {"Loading", "Playing", "Paused"},
           NEW n \in Nat, n + 1 <= Len(Polled(p)), NEW q, Folded(p, n, q), Kin(p, q)
    PROVE  Kin(p, OnEvent(q, Polled(p)[n + 1]))
<1>1. PICK polled : polled = Polled(p)
  OBVIOUS
<1>2. PICK event : event = polled[n + 1]
  OBVIOUS
<1>3. PICK r : r = OnEvent(q, event)
  OBVIOUS
<1>4. SUFFICES Kin(p, r)
  BY <1>1, <1>2, <1>3
<1>5. /\ polled \in Seq(PolledRows) /\ Len(polled) \in Nat /\ Len(p.events) \in Nat
      /\ \A i \in 1..Len(p.events) : polled[i] = p.events[i]
      /\ \A i \in (Len(p.events) + 1)..Len(polled) : polled[i].kind = "TimeUpdate" => Rendering(p.element)
  <2>1. Kept(p) /\ p.events \in Seq(EventRows)
    BY DEF Good, Kept, PlayerRows
  <2> QED
    BY <1>1, <2>1, PolledIs
<1>6. event \in PolledRows /\ n + 1 \in 1..Len(polled)
  BY <1>1, <1>2, <1>5
<1>7. Kept(q) /\ q.element = p.element /\ q.now.ep = p.now.ep /\ q.now.state \in Shown
  BY DEF Folded
<1>8. /\ q.done = p.done /\ q.reached = p.reached /\ q.wanted = p.wanted /\ q.loads = p.loads
      /\ Adds(p, q, Saves(p))
      /\ q.now.state \in {"Loading", "Playing", "Paused"} => q.now.at \in p.reached
  BY DEF Kin, Saving
<1>9. CASE event.kind = "TimeUpdate"
  <2>1. r = OnTimeUpdate(q)
    BY <1>3, <1>9 DEF OnEvent
  <2>2. Rendering(p.element)
    <3>1. n + 1 \notin 1..Len(p.events)
      <4>1. ASSUME n + 1 \in 1..Len(p.events) PROVE event \in EventRows
        <5>1. p.events \in Seq(EventRows)
          BY DEF Good, Kept, PlayerRows
        <5> QED
          BY <1>2, <1>5, <4>1, <5>1
      <4> QED
        BY <1>9, <4>1 DEF EventRows
    <3>2. n + 1 \in (Len(p.events) + 1)..Len(polled)
      BY <1>5, <1>6, <3>1
    <3> QED
      BY <1>2, <1>5, <1>9, <3>2
  <2>3. p.element.at \in p.reached
    <3>1. p.element.seek = NoSeek /\ p.element.ready = "data"
      BY <2>2 DEF Rendering, Heard
    <3>2. p.element.ep # NoEpisode
      BY <3>1 DEF Good, Sane
    <3> QED
      BY <3>1, <3>2 DEF Placed
  <2>4. Same(q, r) /\ r.now.at = p.element.at /\ r.element = q.element
    BY <1>7, <2>1, TimeUpdateIs, TimeUpdateSame
  <2>5. Adds(p, r, Saves(p))
    BY <1>8, <2>4 DEF Adds, Same
  <2> QED
    BY <1>7, <1>8, <2>3, <2>4, <2>5 DEF Kin, Saving, Same
<1>10. CASE event.kind = "Paused" /\ q.now.state = "Playing"
  <2>1. PICK t : t = Turn(q, "Paused")
    OBVIOUS
  <2>2. r = PersistCursor(t)
    BY <1>3, <1>10, <2>1 DEF OnEvent, Turn
  <2>3. /\ Kept(t) /\ t.now.state = "Paused" /\ t.now.ep = q.now.ep /\ t.now.at = q.now.at
        /\ t.element = q.element /\ Same(q, t)
    <3>1. q.now.state # "None" /\ "Paused" \in States \ {"None"} /\ "Paused" \in States
      BY <1>10 DEF States
    <3> QED
      BY <1>7, <2>1, <3>1, StateKeeps, TurnSame
  <2>4. t.element.ep = t.now.ep /\ t.now.ep \notin t.done /\ t.now.at \in t.reached
    <3>1. p.element.ep = p.now.ep /\ p.now.ep \notin p.done
      BY DEF Good, Agrees, Placed
    <3>2. q.now.at \in p.reached
      BY <1>8, <1>10
    <3> QED
      BY <1>7, <1>8, <2>3, <3>1, <3>2 DEF Same
  <2>5. /\ r.done = t.done /\ r.reached = t.reached /\ r.wanted = t.wanted /\ r.loads = t.loads
        /\ Adds(t, r, Saves(t)) /\ r.now = t.now /\ r.element = t.element
    BY <2>2, <2>3, <2>4, PersistCursorSaves, PersistCursorKeeps DEF Alike
  <2>6. Saves(t) = Saves(p)
    BY <1>7, <1>8, <2>3 DEF Saves, Same
  <2>7. Adds(p, t, Saves(p))
    BY <1>8, <2>3 DEF Adds, Same
  <2>8. Adds(p, r, Saves(p))
    BY <2>5, <2>6, <2>7, AddsMore
  <2>9. r.now.at \in p.reached
    BY <1>8, <1>10, <2>3, <2>5
  <2> QED
    BY <1>7, <1>8, <2>3, <2>5, <2>8, <2>9 DEF Kin, Saving, Same
<1>11. CASE event.kind = "Playing" /\ q.now.state = "Paused"
  <2>1. r = Turn(q, "Playing")
    BY <1>3, <1>11 DEF OnEvent, Turn
  <2>2. r.now.at = q.now.at /\ r.element = q.element /\ Same(q, r)
    <3>1. q.now.state # "None" /\ "Playing" \in States \ {"None"} /\ "Playing" \in States
      BY <1>11 DEF States
    <3> QED
      BY <1>7, <2>1, <3>1, StateKeeps, TurnSame
  <2>3. Adds(p, r, Saves(p))
    BY <1>8, <2>2 DEF Adds, Same
  <2> QED
    BY <1>7, <1>8, <1>11, <2>2, <2>3 DEF Kin, Saving, Same
<1>12. CASE event.kind = "Error"
  <2>1. r = OnBackendError(q, event.stale) /\ event.stale \in BOOLEAN
    BY <1>3, <1>6, <1>12 DEF OnEvent, PolledRows
  <2>2. Same(q, r) /\ r.now.at = q.now.at /\ r.now.state \in {q.now.state, "Error"} /\ r.element = q.element
    BY <1>7, <2>1, BackendErrorIs, BackendErrorSame
  <2>3. Adds(p, r, Saves(p))
    BY <1>8, <2>2 DEF Adds, Same
  <2> QED
    BY <1>7, <1>8, <2>2, <2>3 DEF Kin, Saving, Same
<1>13. CASE /\ event.kind \notin {"TimeUpdate", "Error"}
            /\ ~(event.kind = "Paused" /\ q.now.state = "Playing")
            /\ ~(event.kind = "Playing" /\ q.now.state = "Paused")
  <2>1. r = q
    BY <1>3, <1>13 DEF OnEvent
  <2> QED
    BY <2>1
<1> QED
  BY <1>9, <1>10, <1>11, <1>12, <1>13

LEMMA DrainKin ==
    ASSUME NEW p, Good(p), Placed(p), ~p.retrying, p.now.state \in {"Loading", "Playing", "Paused"},
           NEW q \in DrainEvents(p)
    PROVE  Kin(p, q)
<1>1. PICK polled : polled = Polled(p)
  OBVIOUS
<1>2. polled \in Seq(PolledRows) /\ Len(polled) \in Nat
  <2>1. Kept(p)
    BY DEF Good
  <2> QED
    BY <1>1, <2>1, PolledIs
<1>3. PICK f : /\ \A n \in 1..Len(polled) : f[n] = OnEvent(f[n - 1], polled[n])
               /\ f[0] = [p EXCEPT !.events = <<>>] /\ DrainEvents(p) = {f[Len(polled)]}
  BY <1>1, <1>2, DrainBuilds
<1>4. PICK T : T = {n \in Nat : n <= Len(polled) => Folded(p, n, f[n]) /\ Kin(p, f[n])}
  OBVIOUS
<1>5. 0 \in T
  <2>1. Folded(p, 0, f[0])
    BY <1>3, DrainStart
  <2>2. Same(p, f[0]) /\ f[0].now = p.now /\ f[0].element = p.element
    BY <1>3 DEF Same, Good, Kept, PlayerRows
  <2>3. Adds(p, f[0], Saves(p))
    BY <2>2, AddsNothing DEF Same, Good
  <2>4. Kin(p, f[0])
    BY <2>2, <2>3 DEF Kin, Saving, Same, Placed
  <2> QED
    BY <1>4, <2>1, <2>4
<1>6. ASSUME NEW n \in Nat, n \in T
      PROVE  n + 1 \in T
  <2>1. SUFFICES ASSUME n + 1 <= Len(polled)
                 PROVE  Folded(p, n + 1, f[n + 1]) /\ Kin(p, f[n + 1])
    BY <1>4
  <2>2. n <= Len(polled) /\ n + 1 \in 1..Len(polled) /\ (n + 1) - 1 = n
    BY <1>2, <2>1
  <2>3. Folded(p, n, f[n]) /\ Kin(p, f[n])
    BY <1>4, <1>6, <2>2
  <2>4. f[n + 1] = OnEvent(f[n], polled[n + 1])
    BY <1>3, <2>2
  <2> QED
    BY <1>1, <2>1, <2>3, <2>4, FoldStep, KinStep
<1>7. Len(polled) \in T
  BY <1>2, <1>5, <1>6, InductiveSet
<1> QED
  BY <1>2, <1>3, <1>4, <1>7

\* The marks that may be sent while p is what it is.
Marks(p) == {c \in CommandRows : c.kind = "MarkPlayed" /\ c.ep = p.now.ep /\ c.ep \notin p.done}

\* What is sent in one step: after a mark, nothing about where an episode is.
Heeds(p, q) ==
    /\ Adds(p, q, Downloads \cup Saves(p) \cup Marks(p))
    /\ \A i, j \in (Len(p.commands) + 1)..Len(q.commands) :
          j < i /\ q.commands[j].kind = "MarkPlayed" => q.commands[i] \in Downloads

Moves(p, q) == Wants(q) /\ Placed(q) /\ Follows(p, q) /\ Heeds(p, q)

LEMMA HeedsPlain ==
    ASSUME NEW p, NEW q, Adds(p, q, Downloads \cup Saves(p))
    PROVE  Heeds(p, q)
<1>1. Adds(p, q, Downloads \cup Saves(p) \cup Marks(p))
  BY AddsWider
<1>2. \A j \in (Len(p.commands) + 1)..Len(q.commands) : q.commands[j].kind # "MarkPlayed"
  BY DEF Adds, Downloads, Saves
<1> QED
  BY <1>1, <1>2 DEF Heeds

LEMMA HeedsMark ==
    ASSUME NEW p, NEW s, Adds(p, s, Saves(p)), NEW c \in Marks(p), NEW t, Adds(s, t, {c}),
           Len(t.commands) = Len(s.commands) + 1, NEW q, Adds(t, q, Downloads)
    PROVE  Heeds(p, q)
<1>1. PICK K : K = Downloads \cup Saves(p) \cup Marks(p)
  OBVIOUS
<1>2. Adds(p, s, K) /\ Adds(s, t, K) /\ Adds(t, q, K)
  <2>1. Saves(p) \subseteq K /\ {c} \subseteq K /\ Downloads \subseteq K
    BY <1>1
  <2> QED
    BY <2>1, AddsWider
<1>3. Adds(p, t, K) /\ Adds(p, q, K)
  BY <1>2, AddsMore
<1>4. /\ Len(p.commands) \in Nat /\ Len(s.commands) \in Nat /\ Len(t.commands) \in Nat /\ Len(q.commands) \in Nat
      /\ Len(p.commands) <= Len(s.commands) /\ Len(t.commands) <= Len(q.commands)
  BY <1>2 DEF Adds
<1>5. ASSUME NEW i \in (Len(p.commands) + 1)..Len(q.commands), NEW j \in (Len(p.commands) + 1)..Len(q.commands),
             j < i, q.commands[j].kind = "MarkPlayed"
      PROVE  q.commands[i] \in Downloads
  <2>1. j > Len(s.commands)
    <3>1. SUFFICES ASSUME j <= Len(s.commands) PROVE FALSE
      BY <1>4
    <3>2. /\ j \in (Len(p.commands) + 1)..Len(s.commands) /\ j \in 1..Len(s.commands)
          /\ j \in 1..Len(t.commands)
      BY <1>4, <3>1
    <3>3. s.commands[j] \in Saves(p)
      BY <3>2 DEF Adds
    <3>4. t.commands[j] = s.commands[j] /\ q.commands[j] = t.commands[j]
      BY <3>2 DEF Adds
    <3> QED
      BY <1>5, <3>3, <3>4 DEF Saves
  <2>2. i \in (Len(t.commands) + 1)..Len(q.commands)
    BY <1>4, <1>5, <2>1
  <2> QED
    BY <2>2 DEF Adds
<1> QED
  BY <1>1, <1>3, <1>5 DEF Heeds

LEMMA OnEndedMoves ==
    ASSUME NEW p, NEW s, Good(s), Wants(s), Placed(s), Saving(p, s), s.now.ep = p.now.ep, p.now.ep \notin p.done,
           AtEnd(s.element), s.element.ep = s.now.ep, s.now.state # "None",
           NEW allow \in BOOLEAN, cursor \in [Episodes -> 0..Length]
    PROVE  Moves(p, OnEnded(s, allow))
<1>1. PICK e : e = s.now.ep
  OBVIOUS
<1>2. PICK q : q = [Send(s, "MarkPlayed", s.now.ep, 0) EXCEPT !.now.state = "Ended", !.done = @ \cup {s.now.ep}]
  OBVIOUS
<1>3. Good(q) /\ q.now.state = "Ended" /\ q.now.ep = s.now.ep /\ q.element = s.element /\ e \in Episodes
  BY <1>1, <1>2, EndedGood, Zenon
<1>4. PICK c : c = Command("MarkPlayed", e, 0)
  OBVIOUS
<1>5. PICK t : t = Send(s, "MarkPlayed", e, 0)
  OBVIOUS
<1>6. /\ Kept(t) /\ Alike(s, t) /\ t.done = s.done /\ t.reached = s.reached /\ t.wanted = s.wanted
      /\ t.loads = s.loads /\ Adds(s, t, {c}) /\ Len(t.commands) = Len(s.commands) + 1
  <2>1. 0 \in 0..Length /\ Kept(s) /\ e \in Episodes
    BY <1>3, PlayerAssumption DEF Good
  <2>2. Kept(t) /\ Alike(s, t)
    BY <1>5, <2>1, SendKeeps
  <2> QED
    BY <1>4, <1>5, <2>1, <2>2, SendSame, ZenonT(30) DEF Sends
<1>7. /\ q.commands = t.commands /\ q.reached = s.reached /\ q.wanted = s.wanted /\ q.loads = s.loads
  <2>1. q = [t EXCEPT !.now.state = "Ended", !.done = @ \cup {s.now.ep}]
    BY <1>1, <1>2, <1>5
  <2> QED
    BY <1>6, <2>1 DEF Kept, PlayerRows
<1>8. Wants(q) /\ Placed(q)
  BY <1>3, <1>7 DEF Wants, Placed
<1>9. c \in Marks(p)
  <2>1. c \in CommandRows
    BY <1>3, <1>4, PlayerAssumption DEF CommandRows, Command
  <2> QED
    BY <1>1, <1>4, <2>1 DEF Marks, Command
<1>10. q.element.ep = p.element.ep /\ q.now.ep = p.now.ep
  BY <1>3 DEF Saving
<1>11. ASSUME NEW r, Goes(q, r, Downloads)
       PROVE  Moves(p, r)
  <2>1. Adds(t, r, Downloads)
    BY <1>7, <1>11 DEF Goes, Adds
  <2>2. Adds(p, s, Saves(p))
    BY DEF Saving
  <2>3. Heeds(p, r)
    BY <1>6, <1>9, <2>1, <2>2, HeedsMark
  <2> QED
    BY <1>10, <1>11, <2>3 DEF Goes, Moves, Follows
<1>12. PICK n : n = CHOOSE m \in NextUp(e) : TRUE
  OBVIOUS
<1>13. OnEnded(s, allow) \in {q} \cup (IF NextUp(e) # {} THEN {RequestPlay(q, n)} ELSE {})
  BY <1>1, <1>2, <1>12 DEF OnEnded
<1>14. CASE OnEnded(s, allow) = q
  <2>1. Goes(q, q, Downloads)
    BY <1>3, <1>8, AddsNothing DEF Goes, Follows, Good
  <2> QED
    BY <1>11, <1>14, <2>1
<1>15. CASE NextUp(e) # {} /\ OnEnded(s, allow) = RequestPlay(q, n)
  <2>1. n \in Episodes
    BY <1>12, <1>15, NextUpIs
  <2>2. PICK r : r = RequestPlay(q, n)
    OBVIOUS
  <2>3. q.now.state \notin {"Playing", "Paused"} /\ cursor[n] \in 0..Length
    BY <1>3, <2>1
  <2>4. Goes(q, r, Downloads)
    BY <1>3, <1>8, <2>1, <2>2, <2>3, RequestPlayGoes
  <2> QED
    BY <1>11, <1>15, <2>2, <2>4
<1> QED
  BY <1>13, <1>14, <1>15

\* The seek that was put off is a place like any other.
LEMMA SoughtSame ==
    ASSUME NEW p, Good(p), Placed(p)
    PROVE  Same(p, Sought(p)) /\ Placed(Sought(p)) /\ Sought(p).element.ep = p.element.ep
<1>1. CASE p.element.ready = "data" /\ p.element.seek # NoSeek
  <2>1. PICK at, on : at = p.element.seek /\ on = (p.element.on /\ p.element.seek < Length)
    OBVIOUS
  <2>2. PICK el : el = [p.element EXCEPT !.at = at, !.seek = NoSeek, !.on = on]
    OBVIOUS
  <2>3. PICK q : q = [p EXCEPT !.element = el]
    OBVIOUS
  <2>4. Sought(p) = q
    BY <1>1, <2>1, <2>2, <2>3 DEF Sought, MoveTo, Good, Kept, PlayerRows
  <2>5. Same(p, q) /\ q.element = el /\ q.now = p.now
    BY <2>3 DEF Same, Good, Kept, PlayerRows
  <2>6. el.ep = p.element.ep /\ el.at = at /\ el.seek = NoSeek
    BY <2>2, GoodIs DEF ElementRows
  <2>7. p.element.ep # NoEpisode
    BY <1>1 DEF Good, Sane
  <2>8. at \in p.reached
    BY <1>1, <2>1, <2>7 DEF Placed
  <2> QED
    BY <2>4, <2>5, <2>6, <2>8 DEF Placed, Same
<1>2. CASE ~(p.element.ready = "data" /\ p.element.seek # NoSeek)
  BY <1>2 DEF Sought, Same
<1> QED
  BY <1>1, <1>2

LEMMA SleptGoes ==
    ASSUME NEW p, Good(p), Wants(p), Placed(p), NEW expire
    PROVE  Wants(Slept(p, expire)) /\ Placed(Slept(p, expire)) /\ Saving(p, Slept(p, expire))
<1>1. CASE expire
  <2>1. PICK q : q = [p EXCEPT !.armed = FALSE]
    OBVIOUS
  <2>2. Good(q) /\ q.now = p.now /\ q.element = p.element
    BY <2>1, ArmedGood DEF Alike
  <2>3. Same(p, q)
    BY <2>1 DEF Same, Good, Kept, PlayerRows
  <2>4. Wants(q) /\ Placed(q)
    BY <2>2, <2>3 DEF Wants, Placed, Same
  <2>5. PICK r : r = Pause(q)
    OBVIOUS
  <2>6. Slept(p, expire) = r
    BY <1>1, <2>1, <2>5 DEF Slept
  <2>7. Goes(q, r, Saves(q)) /\ Saving(q, r)
    BY <2>2, <2>4, <2>5, PauseGoes
  <2>8. Saving(p, q)
    BY <2>2, <2>3, AddsNothing DEF Saving, Same, Good
  <2> QED
    BY <2>6, <2>7, <2>8, SavingMore DEF Goes
<1>2. CASE ~expire
  BY <1>2, AddsNothing DEF Slept, Saving, Good
<1> QED
  BY <1>1, <1>2

LEMMA AutosavedGoes ==
    ASSUME NEW p, Good(p), Wants(p), Placed(p), NEW save
    PROVE  Wants(Autosaved(p, save)) /\ Placed(Autosaved(p, save)) /\ Saving(p, Autosaved(p, save))
<1>1. CASE save
  <2>1. PICK q : q = PersistCursor(p)
    OBVIOUS
  <2>2. Goes(p, q, Saves(p)) /\ q.done = p.done /\ q.reached = p.reached /\ q.element = p.element
    BY <2>1, PersistCursorGoes, PersistCursorSame, PersistCursorGood DEF Alike
  <2> QED
    BY <1>1, <2>1, <2>2 DEF Autosaved, Saving, Goes
<1>2. CASE ~save
  BY <1>2, AddsNothing DEF Autosaved, Saving, Good
<1> QED
  BY <1>1, <1>2

LEMMA PollingMoves ==
    ASSUME NEW p, Good(p), Wants(p), Placed(p), ~p.retrying, p.now.state \in {"Loading", "Playing", "Paused"},
           NEW expire \in BOOLEAN, NEW save \in BOOLEAN, cursor \in [Episodes -> 0..Length],
           Polling(p, expire, save)
    PROVE  Moves(p, player')
<1>1. PICK q \in DrainEvents(p) :
          \E r \in {Slept(Counted(q), expire /\ q.now.state = "Playing")} :
          \E saved \in {Autosaved(r, save /\ q.now.state = "Playing")} :
            player' = IF Stalled(q) THEN SetError(Hush([q EXCEPT !.loadingTicks = 0]), q.now.ep)
                      ELSE IF AtEnd(p.element)
                           THEN OnEnded(saved, ~(expire /\ q.now.state = "Playing")) ELSE saved
  BY DEF Polling
<1>2. PICK r : r = Slept(Counted(q), expire /\ q.now.state = "Playing")
  OBVIOUS
<1>3. PICK saved : saved = Autosaved(r, save /\ q.now.state = "Playing")
  OBVIOUS
<1>4. PICK allow \in BOOLEAN : allow = ~(expire /\ q.now.state = "Playing")
  OBVIOUS
<1>5. player' = IF Stalled(q) THEN SetError(Hush([q EXCEPT !.loadingTicks = 0]), q.now.ep)
                ELSE IF AtEnd(p.element) THEN OnEnded(saved, allow) ELSE saved
  BY <1>1, <1>2, <1>3, <1>4
<1>6. Good(q) /\ q.element = p.element /\ q.now.ep = p.now.ep /\ q.now.state # "None"
  BY DrainGood
<1>7. Saving(p, q) /\ q.wanted = p.wanted /\ q.loads = p.loads /\ Placed(q) /\ Wants(q)
  <2>1. Kin(p, q)
    BY DrainKin
  <2>2. p.now.ep \notin p.done
    BY DEF Placed
  <2> QED
    BY <1>6, <2>1, <2>2 DEF Kin, Saving, Placed, Wants
<1>8. CASE Stalled(q)
  <2>1. PICK s : s = [q EXCEPT !.loadingTicks = 0]
    OBVIOUS
  <2>2. s \in PlayerRows /\ Alike(q, s) /\ s.naps = q.naps /\ s.loads = q.loads /\ Same(q, s)
    <3>1. 0 \in 0..(LoadingStallTicks - 1)
      BY PlayerAssumption
    <3> QED
      BY <1>6, <2>1, <3>1 DEF Good, Kept, PlayerRows, Alike, Same
  <2>3. Kept(s)
    BY <1>6, <2>2 DEF Good, Kept, Alike
  <2>4. q.now.ep \in Episodes
    BY <1>6 DEF Good, Kept, PlayerRows, NowRows, Maybe
  <2>5. PICK t : t = Show(Hush(s), q.now.ep, "Error", 0)
    OBVIOUS
  <2>6. player' = t
    BY <1>5, <1>8, <2>1, <2>5 DEF SetError
  <2>7. /\ Placed(t) /\ t.now.ep = q.now.ep /\ t.element.ep = NoEpisode
        /\ t.commands = s.commands /\ t.wanted = s.wanted /\ t.loads = s.loads
    BY <2>3, <2>4, <2>5, SilencedPlaced
  <2>8. t.commands = q.commands /\ t.wanted = p.wanted /\ t.loads = p.loads
    BY <1>7, <2>2, <2>7 DEF Same
  <2>9. Adds(p, t, Downloads \cup Saves(p))
    <3>1. Adds(p, t, Saves(p))
      BY <1>7, <2>8 DEF Saving, Adds
    <3> QED
      BY <3>1, AddsWider
  <2>10. Heeds(p, t)
    BY <2>9, HeedsPlain
  <2> QED
    BY <1>6, <2>6, <2>7, <2>8, <2>10 DEF Moves, Wants, Follows
<1>9. CASE ~Stalled(q)
  <2>1. PICK c : c = Counted(q)
    OBVIOUS
  <2>2. Good(c) /\ c.now = q.now /\ c.element = q.element
    BY <1>6, <1>9, <2>1, CountedGood DEF Alike
  <2>3. Same(q, c)
    BY <1>6, <2>1 DEF Counted, Same, Good, Kept, PlayerRows
  <2>4. Wants(c) /\ Placed(c) /\ Saving(p, c)
    BY <1>7, <2>2, <2>3 DEF Wants, Placed, Saving, Same, Adds
  <2>5. /\ Good(r) /\ r.now.ep = q.now.ep /\ r.element.ep = q.element.ep
        /\ (AtEnd(q.element) => AtEnd(r.element)) /\ r.now.state # "None"
    BY <1>2, <1>6, <2>1, <2>2, SleptGood
  <2>6. Wants(r) /\ Placed(r) /\ Saving(c, r)
    BY <1>2, <2>1, <2>2, <2>4, SleptGoes
  <2>7. Good(saved) /\ saved.now = r.now /\ saved.element = r.element
    BY <1>3, <2>5, AutosavedGood DEF Alike
  <2>8. Wants(saved) /\ Placed(saved) /\ Saving(r, saved)
    BY <1>3, <2>5, <2>6, AutosavedGoes
  <2>9. Saving(p, saved)
    BY <2>4, <2>6, <2>8, SavingMore
  <2>10. p.element.ep = p.now.ep /\ p.now.ep \notin p.done
    BY DEF Good, Agrees, Placed
  <2>11. CASE AtEnd(p.element)
    <3>1. player' = OnEnded(saved, allow)
      BY <1>5, <1>9, <2>11
    <3>2. saved.element.ep = saved.now.ep /\ AtEnd(saved.element) /\ saved.now.state # "None"
      BY <1>6, <2>5, <2>7, <2>10, <2>11
    <3>3. saved.now.ep = p.now.ep
      BY <1>6, <2>5, <2>7
    <3> QED
      BY <1>4, <2>7, <2>8, <2>9, <2>10, <3>1, <3>2, <3>3, OnEndedMoves
  <2>12. CASE ~AtEnd(p.element)
    <3>1. player' = saved
      BY <1>5, <1>9, <2>12
    <3>2. Heeds(p, saved)
      <4>1. Adds(p, saved, Downloads \cup Saves(p))
        <5>1. Adds(p, saved, Saves(p))
          BY <2>9 DEF Saving
        <5> QED
          BY <5>1, AddsWider
      <4> QED
        BY <4>1, HeedsPlain
    <3>3. Follows(p, saved)
      BY <1>6, <2>5, <2>7 DEF Follows
    <3> QED
      BY <2>8, <3>1, <3>2, <3>3 DEF Moves
  <2> QED
    BY <2>11, <2>12
<1> QED
  BY <1>8, <1>9

\* What is asked of a state that is like p is asked of p.
LEMMA MovesFrom ==
    ASSUME NEW p, NEW s, Same(p, s), s.now = p.now, s.element.ep = p.element.ep, NEW q, Moves(s, q)
    PROVE  Moves(p, q)
<1>1. s.commands = p.commands /\ Saves(s) = Saves(p) /\ Marks(s) = Marks(p)
  BY DEF Same, Saves, Marks
<1>2. Heeds(p, q)
  BY <1>1 DEF Moves, Heeds, Adds
<1> QED
  BY <1>2 DEF Moves, Follows

LEMMA MovesPlain ==
    ASSUME NEW p, NEW q, Goes(p, q, Downloads \cup Saves(p))
    PROVE  Moves(p, q)
BY HeedsPlain DEF Goes, Moves

\* Nothing is asked for or sent, and both turn to nothing.
LEMMA QuietMoves ==
    ASSUME NEW p, Good(p), Wants(p), NEW q, q.commands = p.commands, q.wanted = p.wanted, q.loads \subseteq p.loads,
           Placed(q), q.now.ep \in {p.now.ep, NoEpisode}, q.element.ep \in {p.element.ep, NoEpisode}
    PROVE  Moves(p, q)
<1>1. Adds(p, q, Downloads \cup Saves(p))
  BY AddsNothing DEF Good
<1> QED
  BY <1>1, HeedsPlain DEF Moves, Wants, Follows

\* The controller and its element turn to other things only on demand.
OInv == PInv /\ Wants(player) /\ Placed(player)

LEMMA PreparingMoves ==
    ASSUME NEW p, Good(p), Wants(p), Placed(p), p.now.state = "Preparing"
    PROVE  Moves(p, Preparing(p))
<1>1. p.now.ep \in Episodes
  BY DEF Good, Kept, PlayerRows, NowRows, Maybe
<1>2. CASE Count(p.preparingTicks) < PreparingStallTicks
  <2>1. PICK q : q = [p EXCEPT !.preparingTicks = Count(@)]
    OBVIOUS
  <2>2. Same(p, q) /\ q.now = p.now /\ q.element = p.element
    BY <2>1 DEF Same, Good, Kept, PlayerRows
  <2>3. Placed(q)
    BY <2>2 DEF Placed, Same
  <2>4. Preparing(p) = q
    BY <1>2, <2>1 DEF Preparing
  <2> QED
    BY <2>2, <2>3, <2>4, QuietMoves DEF Same
<1>3. CASE ~(Count(p.preparingTicks) < PreparingStallTicks)
  <2>1. PICK s : s = [p EXCEPT !.preparingTicks = 0]
    OBVIOUS
  <2>2. Same(p, s) /\ Kept(s)
    BY <2>1, TickedGood DEF Same, Good, Kept, PlayerRows
  <2>3. PICK q : q = Show(Hush(s), p.now.ep, "Error", 0)
    OBVIOUS
  <2>4. Preparing(p) = q
    BY <1>3, <2>1, <2>3 DEF Preparing, SetError
  <2>5. /\ Placed(q) /\ q.now.ep = p.now.ep /\ q.element.ep = NoEpisode
        /\ q.commands = s.commands /\ q.wanted = s.wanted /\ q.loads = s.loads
    BY <1>1, <2>2, <2>3, SilencedPlaced
  <2> QED
    BY <2>2, <2>4, <2>5, QuietMoves DEF Same
<1> QED
  BY <1>2, <1>3

LEMMA TickMoves ==
    ASSUME OInv, NEW expire \in BOOLEAN, NEW save \in BOOLEAN, Tick(expire, save)
    PROVE  Moves(player, player')
<1>1. PICK p : p = [player EXCEPT !.preparingTicks = 0]
  OBVIOUS
<1>2. Good(player) /\ Wants(player) /\ Placed(player) /\ cursor \in [Episodes -> 0..Length]
  BY DEF OInv, PInv, Around
<1>3. Good(p) /\ p.now = player.now /\ p.element = player.element /\ p.retrying = player.retrying
  BY <1>1, <1>2, TickedGood DEF Alike
<1>4. Same(player, p)
  BY <1>1, <1>2 DEF Same, Good, Kept, PlayerRows
<1>5. Wants(p) /\ Placed(p)
  BY <1>2, <1>3, <1>4 DEF Wants, Placed, Same
<1>6. PICK s : s = Sought(p)
  OBVIOUS
<1>7. Good(s) /\ s.now = p.now /\ s.retrying = p.retrying
  BY <1>3, <1>6, SoughtGood
<1>8. Same(p, s) /\ Placed(s) /\ s.element.ep = p.element.ep
  BY <1>3, <1>5, <1>6, SoughtSame
<1>9. CASE player.now.state = "Preparing"
  <2>1. player' = Preparing(player)
    BY <1>9 DEF Tick
  <2> QED
    BY <1>2, <1>9, <2>1, PreparingMoves
<1>10. CASE player.now.state # "Preparing" /\ player.retrying
  <2>1. player' = [s EXCEPT !.events = <<>>]
    BY <1>1, <1>6, <1>10 DEF Tick
  <2>2. Same(s, player') /\ player'.now = s.now /\ player'.element = s.element
    BY <1>7, <2>1 DEF Same, Good, Kept, PlayerRows
  <2>3. Placed(player')
    BY <1>8, <2>2 DEF Placed, Same
  <2>4. /\ player'.commands = player.commands /\ player'.wanted = player.wanted /\ player'.loads = player.loads
        /\ player'.now.ep = player.now.ep /\ player'.element.ep = player.element.ep
    BY <1>3, <1>4, <1>7, <1>8, <2>2 DEF Same
  <2> QED
    BY <1>2, <2>3, <2>4, QuietMoves
<1>11. CASE player.now.state \in {"None", "Ended", "Error"} /\ ~player.retrying
  <2>1. player' = p
    BY <1>1, <1>11 DEF Tick
  <2> QED
    BY <1>2, <1>3, <1>4, <1>5, <2>1, QuietMoves DEF Same
<1>12. CASE player.now.state \notin {"None", "Preparing", "Ended", "Error"} /\ ~player.retrying
  <2>1. Polling(s, expire, save)
    BY <1>1, <1>6, <1>12 DEF Tick
  <2>2. s.now.state \in {"Loading", "Playing", "Paused"} /\ ~s.retrying
    <3>1. s.now.state \in States
      BY <1>7 DEF Good, Kept, PlayerRows, NowRows
    <3> QED
      BY <1>3, <1>7, <1>12, <3>1 DEF States
  <2>3. Wants(s)
    BY <1>5, <1>8 DEF Wants, Same
  <2>4. Moves(s, player')
    BY <1>2, <1>7, <1>8, <2>1, <2>2, <2>3, PollingMoves
  <2>5. Same(player, s) /\ s.now = player.now /\ s.element.ep = player.element.ep
    BY <1>3, <1>4, <1>7, <1>8 DEF Same
  <2> QED
    BY <2>4, <2>5, MovesFrom
<1> QED
  BY <1>9, <1>10, <1>11, <1>12

\* A read under way is taken out of what is under way.
LEMMA TakenIs ==
    ASSUME OInv, NEW l \in player.loads, NEW p, p = [player EXCEPT !.loads = @ \ {l}]
    PROVE  /\ l \in LoadRows /\ l.ep \in Episodes /\ cursor[l.ep] \in 0..Length /\ Good(p) /\ Kept(p)
           /\ p.now = player.now /\ p.element = player.element /\ p.commands = player.commands
           /\ p.wanted = player.wanted /\ p.loads = player.loads \ {l} /\ Wants(p) /\ Placed(p)
           /\ l.fresh => l.ep = p.wanted
<1>1. PInv /\ Wants(player) /\ Placed(player)
  BY DEF OInv
<1>2. l \in LoadRows /\ l.ep \in Episodes /\ cursor[l.ep] \in 0..Length /\ Good(p) /\ Kept(p)
  BY <1>1, LoadIs
<1>3. /\ p.now = player.now /\ p.element = player.element /\ p.commands = player.commands
      /\ p.wanted = player.wanted /\ p.loads = player.loads \ {l}
      /\ p.done = player.done /\ p.reached = player.reached
  BY <1>1 DEF PInv, Good, Kept, PlayerRows
<1> QED
  BY <1>1, <1>2, <1>3 DEF Wants, Placed

LEMMA TakenMoves ==
    ASSUME OInv, NEW l \in player.loads, NEW p, p = [player EXCEPT !.loads = @ \ {l}],
           NEW q, Goes(p, q, Downloads)
    PROVE  Moves(player, q)
<1>1. p.now = player.now /\ p.element = player.element /\ p.commands = player.commands /\ Kept(player)
  BY TakenIs DEF OInv, PInv, Good
<1>2. Adds(player, q, Downloads)
  BY <1>1 DEF Goes, Adds
<1>3. Goes(player, q, Downloads)
  BY <1>1, <1>2 DEF Goes, Follows
<1> QED
  BY <1>3, GoesWider, MovesPlain

LEMMA BeginMoves ==
    ASSUME OInv, NEW l \in player.loads, Begin(l)
    PROVE  Moves(player, player')
<1>1. PICK p : p = [player EXCEPT !.loads = @ \ {l}]
  OBVIOUS
<1>2. /\ l \in LoadRows /\ l.ep \in Episodes /\ cursor[l.ep] \in 0..Length /\ Good(p) /\ Kept(p)
      /\ Wants(p) /\ Placed(p) /\ (l.fresh => l.ep = p.wanted)
  BY <1>1, TakenIs
<1>3. CASE OnDevice(l.ep)
  <2>1. PICK k : k = [l EXCEPT !.phase = "reading", !.start = cursor[l.ep]]
    OBVIOUS
  <2>2. k.ep = l.ep /\ k.fresh = l.fresh
    BY <1>2, <2>1 DEF LoadRows
  <2>3. player' = [p EXCEPT !.loads = @ \cup {k}]
    BY <1>1, <1>3, <2>1 DEF Begin
  <2>4. /\ player'.now = p.now /\ player'.element = p.element /\ player'.commands = p.commands
        /\ player'.wanted = p.wanted /\ player'.loads = p.loads \cup {k}
        /\ player'.done = p.done /\ player'.reached = p.reached
    BY <1>2, <2>3 DEF Kept, PlayerRows
  <2>5. Wants(player') /\ Placed(player')
    BY <1>2, <2>2, <2>4 DEF Wants, Placed
  <2>6. Goes(p, player', Downloads)
    BY <1>2, <2>4, <2>5, AddsNothing DEF Goes, Follows
  <2> QED
    BY <1>1, <2>6, TakenMoves
<1>4. CASE ~OnDevice(l.ep) /\ IsFresh(l)
  <2>1. player' = StreamEpisode(p, l.ep)
    BY <1>1, <1>4 DEF Begin
  <2>2. Goes(p, player', Downloads)
    BY <1>2, <1>4, <2>1, StreamEpisodeGoes DEF IsFresh
  <2> QED
    BY <1>1, <2>2, TakenMoves
<1>5. CASE ~OnDevice(l.ep) /\ ~IsFresh(l)
  <2>1. player' = p
    BY <1>1, <1>5 DEF Begin
  <2>2. Goes(p, player', Downloads)
    BY <1>2, <2>1, AddsNothing DEF Goes, Follows
  <2> QED
    BY <1>1, <2>2, TakenMoves
<1> QED
  BY <1>3, <1>4, <1>5

LEMMA ResolveMoves ==
    ASSUME OInv, NEW l \in player.loads, Resolve(l)
    PROVE  Moves(player, player')
<1>1. PICK p : p = [player EXCEPT !.loads = @ \ {l}]
  OBVIOUS
<1>2. /\ l \in LoadRows /\ l.ep \in Episodes /\ cursor[l.ep] \in 0..Length /\ Good(p) /\ Kept(p)
      /\ Wants(p) /\ Placed(p) /\ (l.fresh => l.ep = p.wanted)
  BY <1>1, TakenIs
<1>3. l.start \in 0..Length
  BY <1>2 DEF LoadRows
<1>4. \/ player' = p
      \/ IsFresh(l) /\ player' \in {LoadAndPlay(p, l.ep, TRUE, l.start), RedownloadAndPrepare(p, l.ep, TRUE),
                                    StreamEpisode(p, l.ep)}
  BY <1>1 DEF Resolve
<1>5. CASE player' = p
  <2>1. Goes(p, player', Downloads)
    BY <1>2, <1>5, AddsNothing DEF Goes, Follows
  <2> QED
    BY <1>1, <2>1, TakenMoves
<1>6. CASE IsFresh(l) /\ player' \in {LoadAndPlay(p, l.ep, TRUE, l.start), RedownloadAndPrepare(p, l.ep, TRUE),
                                      StreamEpisode(p, l.ep)}
  <2>1. p.wanted = l.ep
    BY <1>2, <1>6 DEF IsFresh
  <2>2. Goes(p, player', Downloads)
    BY <1>2, <1>3, <1>6, <2>1, LoadAndPlayGoes, RedownloadGoes, StreamEpisodeGoes
  <2> QED
    BY <1>1, <2>2, TakenMoves
<1> QED
  BY <1>4, <1>5, <1>6

LEMMA WakeMoves ==
    ASSUME OInv, NEW e \in player.naps, Wake(e)
    PROVE  Moves(player, player')
<1>1. Good(player) /\ Wants(player) /\ Placed(player) /\ e \in Episodes
  BY DEF OInv, PInv, Good, Kept, PlayerRows
<1>2. PICK p : p = [player EXCEPT !.naps = @ \ {e}, !.retrying = FALSE]
  OBVIOUS
<1>3. /\ p \in PlayerRows /\ p.now = player.now /\ p.element = player.element /\ ~p.retrying
      /\ Same(player, p)
  <2>1. player.naps \ {e} \in SUBSET Episodes
    BY <1>1 DEF Good, Kept, PlayerRows
  <2> QED
    BY <1>1, <1>2, <2>1 DEF Good, Kept, PlayerRows, Same
<1>4. Kept(p) /\ Placed(p)
  BY <1>1, <1>3 DEF Good, Kept, Placed, Same
<1>5. PICK q : q = [p EXCEPT !.wanted = e]
  OBVIOUS
<1>6. /\ Kept(q) /\ q.now = p.now /\ q.element = p.element /\ q.wanted = e
      /\ q.commands = p.commands /\ q.done = p.done /\ q.reached = p.reached
  BY <1>1, <1>4, <1>5, AskedKeeps, Zenon DEF Alike, Kept, PlayerRows
<1>7. Placed(q)
  BY <1>4, <1>6 DEF Placed
<1>8. CASE player' = p
  BY <1>1, <1>3, <1>4, <1>8, QuietMoves DEF Same
<1>9. CASE player' = PlayEpisode(q, e)
  <2>1. PICK r : r = PlayEpisode(q, e)
    OBVIOUS
  <2>2. Goes(q, r, Downloads \cup Saves(player))
    BY <1>1, <1>6, <1>7, <2>1, PlayEpisodeGoes
  <2>3. Adds(player, q, Downloads \cup Saves(player))
    BY <1>1, <1>3, <1>6, AddsNothing DEF Good, Same
  <2>4. Goes(player, r, Downloads \cup Saves(player))
    BY <1>3, <1>6, <2>2, <2>3, GoesOn
  <2> QED
    BY <1>9, <2>1, <2>4, MovesPlain
<1>10. player' = p \/ player' = PlayEpisode(q, e)
  BY <1>2, <1>5 DEF Wake
<1> QED
  BY <1>8, <1>9, <1>10

LEMMA WatchMoves ==
    ASSUME OInv, Watch
    PROVE  Moves(player, player')
<1>1. Good(player) /\ Wants(player) /\ Placed(player) /\ player' = HandlePreparing(player, player.now.ep)
  BY DEF OInv, PInv, Watch
<1>2. PICK e : e = player.now.ep
  OBVIOUS
<1>3. PICK q, s, t : /\ q = [player EXCEPT !.wanted = e] /\ s = [player EXCEPT !.preparingTicks = 0]
                     /\ t = Show(Hush(player), e, "Error", 0)
  OBVIOUS
<1>4. Moves(player, player)
  BY <1>1, QuietMoves
<1>5. Moves(player, s)
  <2>1. Same(player, s) /\ s.now = player.now /\ s.element = player.element
    BY <1>1, <1>3 DEF Same, Good, Kept, PlayerRows
  <2>2. Placed(s)
    BY <1>1, <2>1 DEF Placed, Same
  <2> QED
    BY <1>1, <2>1, <2>2, QuietMoves DEF Same
<1>6. ASSUME player.now.state = "Preparing"
      PROVE  Moves(player, player')
  <2>1. e \in Episodes
    BY <1>1, <1>2, <1>6 DEF Good, Kept, PlayerRows, NowRows, Maybe
  <2>2. Moves(player, t)
    <3>1. /\ Placed(t) /\ t.now.ep = e /\ t.element.ep = NoEpisode
          /\ t.commands = player.commands /\ t.wanted = player.wanted /\ t.loads = player.loads
      BY <1>1, <1>3, <2>1, SilencedPlaced DEF Good
    <3> QED
      BY <1>1, <1>2, <3>1, QuietMoves
  <2>3. PICK r : r = PlayEpisode(q, e)
    OBVIOUS
  <2>4. Moves(player, r)
    <3>1. /\ Kept(q) /\ q.now = player.now /\ q.element = player.element /\ q.wanted = e
          /\ q.commands = player.commands /\ q.done = player.done /\ q.reached = player.reached
      BY <1>1, <1>3, <2>1, AskedKeeps, Zenon DEF Alike, Good, Kept, PlayerRows
    <3>2. Placed(q)
      BY <1>1, <3>1 DEF Placed
    <3>3. Goes(q, r, Downloads \cup Saves(player))
      BY <2>1, <2>3, <3>1, <3>2, PlayEpisodeGoes
    <3>4. Adds(player, q, Downloads \cup Saves(player))
      BY <1>1, <3>1, AddsNothing DEF Good
    <3>5. Goes(player, r, Downloads \cup Saves(player))
      BY <3>1, <3>3, <3>4, GoesOn
    <3> QED
      BY <3>5, MovesPlain
  <2>5. player' \in {player, r, t, s}
    BY <1>1, <1>2, <1>3, <2>3 DEF HandlePreparing, SetError
  <2> QED
    BY <1>4, <1>5, <2>2, <2>4, <2>5
<1>7. player.now.state # "Preparing" => player' = player
  BY <1>1 DEF HandlePreparing
<1> QED
  BY <1>4, <1>6, <1>7

\* The worker only takes from what was sent.
LEMMA WorkMoves ==
    ASSUME OInv, Work
    PROVE  /\ Wants(player') /\ Placed(player') /\ Follows(player, player')
           /\ Len(player'.commands) <= Len(player.commands) /\ player'.commands \in Seq(CommandRows)
<1>1. Good(player) /\ Wants(player) /\ Placed(player) /\ player.commands \in Seq(CommandRows)
  BY DEF OInv, PInv, Good, Kept, PlayerRows
<1>2. player.commands # <<>> /\ player' = [player EXCEPT !.commands = Tail(@)]
  BY DEF Work
<1>3. /\ player'.commands = Tail(player.commands) /\ player'.now = player.now /\ player'.element = player.element
      /\ player'.done = player.done /\ player'.reached = player.reached
      /\ player'.wanted = player.wanted /\ player'.loads = player.loads
  BY <1>1, <1>2 DEF Good, Kept, PlayerRows
<1>4. Tail(player.commands) \in Seq(CommandRows) /\ Len(Tail(player.commands)) <= Len(player.commands)
  BY <1>1, <1>2
<1> QED
  BY <1>1, <1>3, <1>4 DEF Wants, Placed, Follows

LEMMA StopMoves ==
    ASSUME NEW p, Good(p), Wants(p), Placed(p), NEW q,
           q = [Hush(PersistCursor(p)) EXCEPT !.now = Nothing, !.retrying = FALSE, !.retries = 0,
                                              !.armed = FALSE, !.autoArmed = FALSE]
    PROVE  Moves(p, q)
<1>1. PICK s : s = PersistCursor(p)
  OBVIOUS
<1>2. Kept(s) /\ s.wanted = p.wanted /\ s.loads = p.loads /\ Adds(p, s, Saves(p))
  BY <1>1, PersistCursorGood, PersistCursorSame DEF Good
<1>3. PICK h : h = Hush(s)
  OBVIOUS
<1>4. /\ Kept(h) /\ h.element = Silent /\ h.commands = s.commands /\ h.wanted = s.wanted /\ h.loads = s.loads
  BY <1>2, <1>3, HushKeeps, HushSame DEF Hushed
<1>5. q = [h EXCEPT !.now = Nothing, !.retrying = FALSE, !.retries = 0, !.armed = FALSE, !.autoArmed = FALSE]
  BY <1>1, <1>3
<1>6. /\ q.now = Nothing /\ q.element = Silent /\ q.commands = s.commands /\ q.wanted = p.wanted /\ q.loads = p.loads
  BY <1>2, <1>4, <1>5 DEF Kept, PlayerRows
<1>7. q.now.ep = NoEpisode /\ q.now.state = "None" /\ q.element.ep = NoEpisode
  BY <1>6, SilentIs DEF Nothing
<1>8. Placed(q) /\ Wants(q) /\ Follows(p, q)
  BY <1>6, <1>7 DEF Placed, Wants, Follows
<1>9. Adds(p, q, Downloads \cup Saves(p))
  <2>1. Adds(p, q, Saves(p))
    BY <1>2, <1>6 DEF Adds
  <2> QED
    BY <2>1, AddsWider
<1> QED
  BY <1>8, <1>9, HeedsPlain DEF Moves

LEMMA SeekMoves ==
    ASSUME NEW p, Good(p), Wants(p), Placed(p), NEW at \in 0..Length, NEW q,
           q = [p EXCEPT !.element = Seek(@, at), !.now.at = at, !.reached = @ \cup {at}]
    PROVE  Moves(p, q)
<1>1. PICK el : el = Seek(p.element, at)
  OBVIOUS
<1>2. /\ el.ep = p.element.ep
      /\ \/ el.at = at /\ el.seek = NoSeek
         \/ el.seek = at /\ at # NoSeek
  <2>1. p.element \in ElementRows /\ at # NoSeek
    BY GoodIs DEF NoSeek
  <2>2. CASE p.element.ready = "data"
    BY <1>1, <2>1, <2>2 DEF Seek, MoveTo, ElementRows
  <2>3. CASE p.element.ready # "data"
    BY <1>1, <2>1, <2>3 DEF Seek, ElementRows
  <2> QED
    BY <2>2, <2>3
<1>3. PICK now : now = [p.now EXCEPT !.at = at]
  OBVIOUS
<1>4. now.ep = p.now.ep /\ now.state = p.now.state /\ now.at = at
  BY <1>3 DEF Good, Kept, PlayerRows, NowRows
<1>5. q = [p EXCEPT !.element = el, !.now = now, !.reached = @ \cup {at}]
  BY <1>1, <1>3 DEF Good, Kept, PlayerRows, NowRows
<1>6. /\ q.element = el /\ q.now = now /\ q.reached = p.reached \cup {at} /\ q.done = p.done
      /\ q.commands = p.commands /\ q.wanted = p.wanted /\ q.loads = p.loads
  BY <1>5 DEF Good, Kept, PlayerRows
<1>7. Placed(q)
  BY <1>2, <1>4, <1>6 DEF Placed
<1> QED
  BY <1>2, <1>4, <1>6, <1>7, QuietMoves

LEMMA UserMoves ==
    ASSUME OInv, User
    PROVE  Moves(player, player')
<1>1. Good(player) /\ Wants(player) /\ Placed(player) /\ \A e \in Episodes : cursor[e] \in 0..Length
  BY DEF OInv, PInv, Around
<1>2. ASSUME NEW e \in Episodes, PlayIn(e)
      PROVE  Moves(player, player')
  <2>1. PICK q : q = RequestPlay(player, e)
    OBVIOUS
  <2>2. Goes(player, q, Downloads \cup Saves(player))
    BY <1>1, <2>1, RequestPlayGoes
  <2> QED
    BY <1>2, <2>1, <2>2, MovesPlain DEF PlayIn
<1>3. ASSUME NEW e \in Episodes, StreamIn(e) \/ DownloadIn(e)
      PROVE  Moves(player, player')
  <2>1. PICK p : p = [player EXCEPT !.wanted = e]
    OBVIOUS
  <2>2. /\ Kept(p) /\ p.now = player.now /\ p.element = player.element /\ p.wanted = e
        /\ p.commands = player.commands /\ p.done = player.done /\ p.reached = player.reached
    BY <1>1, <2>1, AskedKeeps, Zenon DEF Alike, Good, Kept, PlayerRows
  <2>3. Placed(p)
    BY <1>1, <2>2 DEF Placed
  <2>4. player' = StreamEpisode(p, e) \/ player' = DownloadAndPlay(p, e)
    BY <1>3, <2>1 DEF StreamIn, DownloadIn
  <2>5. PICK q : q = player'
    OBVIOUS
  <2>6. Goes(p, q, Downloads)
    BY <1>1, <2>2, <2>3, <2>4, <2>5, StreamEpisodeGoes, DownloadAndPlayGoes
  <2>7. Adds(player, q, Downloads)
    BY <2>2, <2>6 DEF Goes, Adds
  <2>8. Goes(player, q, Downloads)
    BY <2>2, <2>6, <2>7 DEF Goes, Follows
  <2> QED
    BY <2>5, <2>8, GoesWider, MovesPlain
<1>4. ASSUME PlayKey
      PROVE  Moves(player, player')
  <2>1. Goes(player, player', Downloads)
    BY <1>1, <1>4, PlayGoes DEF PlayKey
  <2> QED
    BY <2>1, GoesWider, MovesPlain
<1>5. ASSUME PauseKey
      PROVE  Moves(player, player')
  <2>1. Goes(player, player', Saves(player))
    BY <1>1, <1>5, PauseGoes DEF PauseKey
  <2> QED
    BY <2>1, GoesWider, MovesPlain
<1>6. ASSUME Hide
      PROVE  Moves(player, player')
  <2>1. Goes(player, player', Saves(player))
    BY <1>1, <1>6, PersistCursorGoes DEF Hide
  <2> QED
    BY <2>1, GoesWider, MovesPlain
<1>7. ASSUME ToggleSleep
      PROVE  Moves(player, player')
  <2>1. player' = [player EXCEPT !.armed = ~@]
    BY <1>7 DEF ToggleSleep
  <2>2. Same(player, player') /\ player'.now = player.now /\ player'.element = player.element
    BY <1>1, <2>1 DEF Same, Good, Kept, PlayerRows
  <2>3. Placed(player')
    BY <1>1, <2>2 DEF Placed, Same
  <2> QED
    BY <1>1, <2>2, <2>3, QuietMoves DEF Same
<1>8. ASSUME Stop
      PROVE  Moves(player, player')
  BY <1>1, <1>8, StopMoves, Zenon DEF Stop
<1>9. ASSUME NEW at \in Targets, SeekTo(at)
      PROVE  Moves(player, player')
  <2>1. at \in 0..Length
    BY PlayerAssumption
  <2> QED
    BY <1>1, <1>9, <2>1, SeekMoves, Zenon DEF SeekTo
<1> QED
  BY <1>2, <1>3, <1>4, <1>5, <1>6, <1>7, <1>8, <1>9 DEF User

\* The element's own steps move it on the clock at most.
LEMMA ElementMoves ==
    ASSUME OInv, Element
    PROVE  Moves(player, player')
<1>1. Good(player) /\ Wants(player) /\ Placed(player) /\ player.element \in ElementRows /\ player \in PlayerRows
  BY GoodIs DEF OInv, PInv, Good, Kept
<1>2. ASSUME NEW q, Same(player, q), q.now = player.now, q.element.ep = player.element.ep,
             q.element.at = player.element.at, q.element.seek = player.element.seek
      PROVE  Moves(player, q)
  <2>1. Placed(q)
    BY <1>1, <1>2, PlacedSame DEF Same
  <2> QED
    BY <1>1, <1>2, <2>1, QuietMoves DEF Same
<1>3. ASSUME NEW el \in ElementRows, el.ep = player.element.ep, el.at = player.element.at, el.seek = player.element.seek,
             NEW p, p = [player EXCEPT !.element = el], NEW kind \in {"Playing", "Paused", "Error"}
      PROVE  Moves(player, p) /\ Moves(player, Emit(p, kind))
  <2>1. Kept(p) /\ Same(player, p) /\ p.now = player.now /\ p.element = el
    BY <1>1, <1>3, ElementKeeps DEF Good, PlayerRows, Same
  <2>2. Same(p, Emit(p, kind)) /\ Emit(p, kind).now = p.now /\ Emit(p, kind).element = p.element
    BY <2>1, EmitKeeps, EmitSame
  <2>3. Same(player, Emit(p, kind))
    BY <2>1, <2>2 DEF Same
  <2> QED
    BY <1>2, <1>3, <2>1, <2>2, <2>3
<1>4. ASSUME Arrive
      PROVE  Moves(player, player')
  <2>1. PICK el : el = [player.element EXCEPT !.ready = "data"]
    OBVIOUS
  <2>2. el \in ElementRows /\ el.ep = player.element.ep /\ el.at = player.element.at /\ el.seek = player.element.seek
    BY <1>1, <2>1 DEF ElementRows
  <2>3. PICK p : p = [player EXCEPT !.element = el]
    OBVIOUS
  <2>4. player' \in {p, Emit(p, "Playing")}
    BY <1>1, <1>4, <2>1, <2>3 DEF Arrive, PlayerRows
  <2> QED
    BY <1>3, <2>2, <2>3, <2>4
<1>5. ASSUME Advance
      PROVE  Moves(player, player')
  <2>1. PICK at : at = player.element.at + 1
    OBVIOUS
  <2>2. PICK el : el = MoveTo(player.element, at)
    OBVIOUS
  <2>3. el.ep = player.element.ep /\ el.at = at /\ el.seek = NoSeek
    BY <1>1, <2>2 DEF MoveTo, ElementRows
  <2>4. player' = [player EXCEPT !.element = el, !.reached = @ \cup {at}]
    BY <1>1, <1>5, <2>1, <2>2 DEF Advance, PlayerRows
  <2>5. /\ player'.element = el /\ player'.reached = player.reached \cup {at} /\ player'.now = player.now
        /\ player'.done = player.done /\ player'.commands = player.commands /\ player'.wanted = player.wanted
        /\ player'.loads = player.loads
    BY <1>1, <2>4 DEF PlayerRows
  <2>6. Placed(player')
    BY <1>1, <2>3, <2>5 DEF Placed
  <2> QED
    BY <1>1, <2>3, <2>5, <2>6, QuietMoves
<1>6. ASSUME Break
      PROVE  Moves(player, player')
  <2>1. PICK el : el = [player.element EXCEPT !.ready = "failed"]
    OBVIOUS
  <2>2. el \in ElementRows /\ el.ep = player.element.ep /\ el.at = player.element.at /\ el.seek = player.element.seek
    BY <1>1, <2>1 DEF ElementRows
  <2>3. PICK p : p = [player EXCEPT !.element = el]
    OBVIOUS
  <2>4. player' \in {p, Emit(p, "Error")}
    BY <1>1, <1>6, <2>1, <2>3 DEF Break, PlayerRows
  <2> QED
    BY <1>3, <2>2, <2>3, <2>4
<1>7. ASSUME Reject
      PROVE  Moves(player, player')
  <2>1. PICK el : el = [player.element EXCEPT !.on = FALSE]
    OBVIOUS
  <2>2. el \in ElementRows /\ el.ep = player.element.ep /\ el.at = player.element.at /\ el.seek = player.element.seek
    BY <1>1, <2>1 DEF ElementRows
  <2>3. PICK p : p = [player EXCEPT !.element = el]
    OBVIOUS
  <2>4. player' = Emit(p, "Error")
    BY <1>1, <1>7, <2>1, <2>3 DEF Reject, PlayerRows
  <2> QED
    BY <1>3, <2>2, <2>3, <2>4
<1>8. ASSUME Interrupt
      PROVE  Moves(player, player')
  <2>1. PICK m : m = Mute(player)
    OBVIOUS
  <2>2. /\ Kept(m) /\ m.now = player.now /\ Same(player, m)
        /\ m.element = [player.element EXCEPT !.on = FALSE, !.held = FALSE]
    BY <1>1, <2>1, MuteKeeps, MuteSame, Zenon DEF Good
  <2>3. PICK el : el = [m.element EXCEPT !.held = TRUE]
    OBVIOUS
  <2>4. el.ep = player.element.ep /\ el.at = player.element.at /\ el.seek = player.element.seek
    BY <1>1, <2>2, <2>3 DEF ElementRows
  <2>5. player' = [m EXCEPT !.element = el]
    BY <1>8, <2>1, <2>2, <2>3 DEF Interrupt, Kept, PlayerRows
  <2>6. Same(player, player') /\ player'.now = player.now /\ player'.element = el
    BY <2>2, <2>5 DEF Same, Kept, PlayerRows
  <2> QED
    BY <1>2, <2>4, <2>6
<1>9. ASSUME Release
      PROVE  Moves(player, player')
  <2>1. PICK el : el = [player.element EXCEPT !.held = FALSE, !.on = TRUE]
    OBVIOUS
  <2>2. el.ep = player.element.ep /\ el.at = player.element.at /\ el.seek = player.element.seek
    BY <1>1, <2>1 DEF ElementRows
  <2>3. PICK p : p = [player EXCEPT !.element = el, !.misled = @ \/ player.now.state = "Ended"]
    OBVIOUS
  <2>4. player' = Emit(p, "Playing")
    BY <1>1, <1>9, <2>1, <2>3 DEF Release, PlayerRows
  <2>5. player' = [p EXCEPT !.events = Append(@, Event("Playing"))]
    BY <2>4 DEF Emit
  <2>6. Same(player, player') /\ player'.now = player.now /\ player'.element = el
    BY <1>1, <2>3, <2>5 DEF Same, PlayerRows
  <2> QED
    BY <1>2, <2>2, <2>6
<1> QED
  BY <1>4, <1>5, <1>6, <1>7, <1>8, <1>9 DEF Element

-----------------------------------------------------------------------------
(* Every step.                                                             *)

LEMMA OInitHolds ==
    Init => OInv
<1> SUFFICES ASSUME Init PROVE OInv
  OBVIOUS
<1>1. PInv /\ player = Fresh
  BY InitHolds DEF Init
<1>2. player.loads = {} /\ player.now = Nothing /\ player.element = Silent
  BY <1>1 DEF Fresh
<1>3. player.now.state = "None" /\ player.element.ep = NoEpisode
  BY <1>2, SilentIs DEF Nothing
<1> QED
  BY <1>1, <1>2, <1>3 DEF OInv, Wants, Placed

LEMMA StepMoves ==
    ASSUME OInv, [Next]_vars
    PROVE  /\ Wants(player') /\ Placed(player') /\ Follows(player, player')
           /\ Heeds(player, player') \/ Sent = {}
<1>1. Good(player) /\ Wants(player) /\ Placed(player) /\ player.commands \in Seq(CommandRows)
  BY DEF OInv, PInv, Good, Kept, PlayerRows
<1>2. CASE Work
  <2>1. /\ Wants(player') /\ Placed(player') /\ Follows(player, player')
        /\ Len(player'.commands) <= Len(player.commands) /\ player'.commands \in Seq(CommandRows)
    BY <1>2, WorkMoves
  <2>2. Sent = {}
    <3>1. Len(player.commands) \in Nat /\ DOMAIN player'.commands = 1..Len(player'.commands)
          /\ Len(player'.commands) \in Nat
      BY <1>1, <2>1
    <3> QED
      BY <2>1, <3>1 DEF Sent
  <2> QED
    BY <2>1, <2>2
<1>3. CASE player' = player
  <2>1. Moves(player, player)
    BY <1>1, QuietMoves
  <2> QED
    BY <1>3, <2>1 DEF Moves
<1>4. Moves(player, player') => /\ Wants(player') /\ Placed(player') /\ Follows(player, player')
                                /\ Heeds(player, player') \/ Sent = {}
  BY DEF Moves
<1>5. CASE User
  BY <1>4, <1>5, UserMoves
<1>6. CASE Element
  BY <1>4, <1>6, ElementMoves
<1>7. CASE Device
  BY <1>3, <1>7 DEF Device
<1>8. CASE Watch
  BY <1>4, <1>8, WatchMoves
<1>9. CASE \E expire, save \in BOOLEAN : Tick(expire, save)
  BY <1>4, <1>9, TickMoves
<1>10. CASE \E l \in player.loads : Begin(l) \/ Resolve(l)
  BY <1>4, <1>10, BeginMoves, ResolveMoves
<1>11. CASE \E e \in player.naps : Wake(e)
  BY <1>4, <1>11, WakeMoves
<1>12. CASE UNCHANGED vars
  BY <1>3, <1>12 DEF vars
<1> QED
  BY <1>2, <1>5, <1>6, <1>7, <1>8, <1>9, <1>10, <1>11, <1>12 DEF Next

LEMMA ONextHolds ==
    ASSUME OInv, [Next]_vars
    PROVE  OInv'
<1>1. PInv'
  BY NextHolds DEF OInv
<1>2. Wants(player') /\ Placed(player')
  BY StepMoves
<1> QED
  BY <1>1, <1>2 DEF OInv

LEMMA OInvHolds ==
    Spec => []OInv
BY OInitHolds, ONextHolds, PTL DEF Spec

\* "An older load cannot replace newer user intent" (playback.rs play_episode): whatever reads,
\* retries and downloads finish, and in any order, the element and the screen turn to the
\* episode asked for last.
THEOREM LatestIsPlayed ==
    Spec => LatestWins
<1>1. OInv /\ [Next]_vars =>
        [/\ Turned("element") => player'.element.ep = player'.wanted
         /\ Turned("now") => player'.now.ep = player'.wanted]_vars
  <2>1. ASSUME OInv, [Next]_vars
        PROVE  /\ Turned("element") => player'.element.ep = player'.wanted
               /\ Turned("now") => player'.now.ep = player'.wanted
    BY <2>1, StepMoves DEF Follows, Turned
  <2> QED
    BY <2>1
<1> QED
  BY <1>1, OInvHolds, PTL DEF Spec, LatestWins

\* An episode that ended is marked played once, and no position of it is saved after that until
\* it is played again (controller.rs persist_cursor, on_ended).
THEOREM VerdictStands ==
    Spec => OneVerdict
<1>1. OInv /\ [Next]_vars =>
        [\A i \in Sent : LET c == player'.commands[i] IN
            c.kind \in {"SetCursor", "MarkPlayed"} =>
                /\ c.ep \notin player.done
                /\ \A j \in Sent : j < i => player'.commands[j] # [c EXCEPT !.kind = "MarkPlayed", !.at = 0]]_vars
  <2>1. ASSUME OInv, [Next]_vars, NEW i \in Sent, NEW c, c = player'.commands[i],
               c.kind \in {"SetCursor", "MarkPlayed"}
        PROVE  /\ c.ep \notin player.done
               /\ \A j \in Sent : j < i => player'.commands[j] # [c EXCEPT !.kind = "MarkPlayed", !.at = 0]
    <3>1. Heeds(player, player')
      BY <2>1, StepMoves
    <3>2. Sent \subseteq (Len(player.commands) + 1)..Len(player'.commands)
      BY <3>1 DEF Heeds, Adds, Sent
    <3>3. c \in Downloads \cup Saves(player) \cup Marks(player) /\ c \in CommandRows
      BY <2>1, <3>1, <3>2 DEF Heeds, Adds, Downloads, Saves, Marks
    <3>4. c \notin Downloads
      BY <2>1 DEF Downloads
    <3>5. c.ep \notin player.done
      BY <3>3, <3>4 DEF Saves, Marks
    <3>6. ASSUME NEW j \in Sent, j < i
          PROVE  player'.commands[j] # [c EXCEPT !.kind = "MarkPlayed", !.at = 0]
      <4>1. player'.commands[j].kind # "MarkPlayed"
        BY <2>1, <3>1, <3>2, <3>4, <3>6 DEF Heeds
      <4>2. [c EXCEPT !.kind = "MarkPlayed", !.at = 0].kind = "MarkPlayed"
        BY <3>3 DEF CommandRows
      <4> QED
        BY <4>1, <4>2
    <3> QED
      BY <3>5, <3>6
  <2> QED
    BY <2>1, Zenon
<1> QED
  BY <1>1, OInvHolds, PTL DEF Spec, OneVerdict

\* A saved position is one the user resumed from, sought or heard of that episode (web.rs
\* poll_events), whatever the element's clock showed while it loaded.
THEOREM CursorIsHonest ==
    Spec => HonestCursor
<1>1. OInv /\ [Next]_vars =>
        [\A i \in Sent : LET c == player'.commands[i] IN
            c.kind = "SetCursor" => c.ep = player.element.ep /\ c.at \in player.reached]_vars
  <2>1. ASSUME OInv, [Next]_vars, NEW i \in Sent, NEW c, c = player'.commands[i], c.kind = "SetCursor"
        PROVE  c.ep = player.element.ep /\ c.at \in player.reached
    <3>1. Heeds(player, player')
      BY <2>1, StepMoves
    <3>2. i \in (Len(player.commands) + 1)..Len(player'.commands)
      BY <3>1 DEF Heeds, Adds, Sent
    <3>3. c \in Downloads \cup Saves(player) \cup Marks(player)
      BY <2>1, <3>1, <3>2 DEF Heeds, Adds
    <3> QED
      BY <2>1, <3>3 DEF Downloads, Saves, Marks
  <2> QED
    BY <2>1
<1> QED
  BY <1>1, OInvHolds, PTL DEF Spec, HonestCursor
=============================================================================
