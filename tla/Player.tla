-------------------------------- MODULE Player --------------------------------
(***************************************************************************)
(* The web player: a controller that shows one episode, the audio element  *)
(* it drives, and what works on its behalf behind its back: source reads   *)
(* and retries that sleep, the 250 ms tick that polls the element, the     *)
(* watcher of device downloads, and the worker that carries out commands   *)
(* in the order they were sent.                                            *)
(*                                                                         *)
(* Each handler runs to its end on one thread, so it is an operator from   *)
(* the player's state to the next; everything interleaves between them.    *)
(* Left out: rate, duration and buffering, the play context (one list to   *)
(* continue in), and the silent primer, whose events the backend hides.    *)
(* A DOM event reaches the queue in the step that causes it.               *)
(***************************************************************************)
EXTENDS Integers, Sequences, FiniteSets

CONSTANTS
    Episodes, NoEpisode,
    Served,         \* episodes the server has audio of
    Queue,          \* the list that playback continues in
    Preferences,    \* the playback preferences a user may have
    AutoAdvance, SleepByDefault,
    Length,         \* positions of an episode: 0..Length
    Saved,          \* where each episode was left
    Shelves,        \* what may be on the device at first
    Targets,        \* bound: positions the user seeks to
    LoadingStallTicks, PreparingStallTicks,
    LocalRetries,   \* LOCAL_RETRY_DELAYS_MS.len()
    MaxAsked,       \* bound: what the user does, by preference
    MaxTrouble,     \* bound: failures, evictions and interruptions
    MaxQueue        \* bound: commands waiting when a periodic save joins them

ASSUME PlayerAssumption ==
    /\ NoEpisode \notin Episodes /\ Served \subseteq Episodes /\ Queue \in Seq(Episodes)
    /\ Preferences \subseteq {"DownloadOnly", "StreamFirstAndDownload", "StreamFallback", "StreamOnly"}
    /\ AutoAdvance \in BOOLEAN /\ SleepByDefault \in BOOLEAN /\ Length \in Nat \ {0}
    /\ Saved \in [Episodes -> 0..Length] /\ Targets \subseteq 0..Length
    /\ Shelves \subseteq SUBSET Episodes
    /\ {LoadingStallTicks, PreparingStallTicks} \subseteq Nat \ {0}
    /\ {LocalRetries, MaxTrouble, MaxQueue} \subseteq Nat /\ MaxAsked \in [Preferences -> Nat]

VARIABLES
    player,     \* the controller and its element
    preference,
    device,     \* client_downloads, with the progress of a download
    bytes,      \* episodes whose audio the media store can read
    cursor,     \* the playback overlay: where each episode resumes
    seen,       \* what the download watcher looked at last
    asked, trouble

deviceVars == <<device, bytes>>
vars == <<player, preference, deviceVars, cursor, seen, asked, trouble>>

NoSeek == -1
Nothing == [ep |-> NoEpisode, state |-> "None", at |-> 0]
Silent == [ep |-> NoEpisode, local |-> FALSE, ready |-> "empty", on |-> FALSE, held |-> FALSE,
           at |-> 0, seek |-> NoSeek]
Fresh == [now |-> Nothing, element |-> Silent, events |-> <<>>, commands |-> <<>>,
          loads |-> {}, naps |-> {}, retries |-> 0, retrying |-> FALSE,
          loadingTicks |-> 0, preparingTicks |-> 0, armed |-> FALSE, autoArmed |-> FALSE,
          wanted |-> NoEpisode, done |-> {}, reached |-> {}, misled |-> FALSE]
NoDownload == [state |-> "None", progress |-> 0]

States == {"None", "Preparing", "Loading", "Playing", "Paused", "Ended", "Error"}
Maybe == Episodes \cup {NoEpisode}

TypeOK ==
    /\ player.now \in [ep : Maybe, state : States, at : 0..Length]
    /\ (player.now.state = "None") = (player.now.ep = NoEpisode)
    /\ player.element \in [ep : Maybe, local : BOOLEAN, ready : {"empty", "loading", "data", "failed"},
                           on : BOOLEAN, held : BOOLEAN, at : 0..Length, seek : {NoSeek} \cup 0..Length]
    /\ player.element.ready = "empty" <=> player.element.ep = NoEpisode
    /\ player.retries \in 0..LocalRetries
    /\ player.retrying => player.naps # {}
    /\ Cardinality({l \in player.loads : l.fresh}) <= 1
    /\ player.loadingTicks \in 0..(LoadingStallTicks - 1)
    /\ player.preparingTicks \in 0..(PreparingStallTicks - 1)
    /\ device \in [Episodes -> [state : {"None", "Downloading", "Downloaded", "Failed"}, progress : 0..1]]
    /\ bytes \subseteq Episodes /\ cursor \in [Episodes -> 0..Length]

Init ==
    /\ player = Fresh
    /\ preference \in Preferences
    /\ bytes \in Shelves
    /\ device = [e \in Episodes |-> [NoDownload EXCEPT !.state = IF e \in bytes THEN "Downloaded" ELSE "None"]]
    /\ cursor = Saved
    /\ seen = <<>> /\ asked = 0 /\ trouble = 0

Ask == asked < MaxAsked[preference] /\ asked' = asked + 1 /\ UNCHANGED trouble
Trouble == trouble < MaxTrouble /\ trouble' = trouble + 1 /\ UNCHANGED asked

-----------------------------------------------------------------------------
(* The audio element.  An event queued before the element is told to play  *)
(* again is stale: it is about an earlier attempt.                         *)

Event(kind) == [kind |-> kind, stale |-> FALSE]
Emit(p, kind) == [p EXCEPT !.events = Append(@, Event(kind))]
MoveTo(el, at) == [el EXCEPT !.at = at, !.seek = NoSeek, !.on = @ /\ at < Length]
AtEnd(el) == el.ready = "data" /\ el.at = Length

\* play: an element at its end starts over.
Sound(p) ==
    LET el == p.element
        q == [p EXCEPT !.events = [i \in DOMAIN @ |-> [@[i] EXCEPT !.stale = TRUE]],
                       !.element.on = TRUE, !.element.held = FALSE,
                       !.element.at = IF AtEnd(el) THEN 0 ELSE @,
                       !.reached = IF AtEnd(el) THEN @ \cup {0} ELSE @]
    IN  IF el.ready = "data" /\ ~el.on THEN Emit(q, "Playing") ELSE q

Mute(p) ==
    LET q == [p EXCEPT !.element.on = FALSE, !.element.held = FALSE]
    IN  IF p.element.on THEN Emit(q, "Paused") ELSE q

\* Mutant: the element is left as it is.
LeftOn(p) == p

\* stop: pause and let go of the source.
Hush(p) == [Mute(p) EXCEPT !.element = Silent, !.reached = {}, !.misled = FALSE]

\* seek: put off until the element knows its source.
Seek(el, at) == IF el.ready = "data" THEN MoveTo(el, at) ELSE [el EXCEPT !.seek = at]

\* Mutant: whatever the clock shows is a position.
RenderingEarly(el) == el.on

Heard(el) == el.on /\ el.ready = "data"

\* The clock is reported once audio is heard from where it was to start.
Rendering(el) == el.seek = NoSeek /\ Heard(el)

\* poll_events: a seek that was put off, then the queue and a snapshot of the element.
Sought(p) == IF p.element.ready = "data" /\ p.element.seek # NoSeek
             THEN [p EXCEPT !.element = MoveTo(@, p.element.seek)] ELSE p
Polled(p) ==
    p.events \o (IF Rendering(p.element) THEN <<Event("TimeUpdate")>> ELSE <<>>)
             \o (IF p.element.ready = "failed" THEN <<Event("Error")>> ELSE <<>>)
             \o (IF AtEnd(p.element) THEN <<Event("Ended")>> ELSE <<>>)

-----------------------------------------------------------------------------
(* What the controller's handlers are made of.                             *)

Send(p, kind, e, at) == [p EXCEPT !.commands = Append(@, [kind |-> kind, ep |-> e, at |-> at])]
Show(p, e, state, at) == [p EXCEPT !.now = [ep |-> e, state |-> state, at |-> at]]
SetError(p, e) == Show(p, e, "Error", 0)

\* Mutant: an ended episode's position is saved like any other.
ResumableOrEnded(state) == state \notin {"None", "Preparing", "Error"}

Resumable(state) == state \notin {"None", "Preparing", "Error", "Ended"}

PersistCursor(p) == IF Resumable(p.now.state) THEN Send(p, "SetCursor", p.now.ep, p.now.at) ELSE p

\* bump_generation: what was started before is out of date; a retry that is does nothing.
BumpGeneration(p) ==
    [p EXCEPT !.retrying = FALSE, !.naps = {}, !.loads = {[l EXCEPT !.fresh = FALSE] : l \in @}]

LoadAndPlay(p, e, local, start) ==
    LET auto == SleepByDefault /\ ~p.autoArmed /\ ~p.armed IN
    Sound([Show(p, e, "Loading", start) EXCEPT
        !.element = [Silent EXCEPT !.ep = e, !.local = local, !.ready = "loading",
                                   !.seek = IF start > 0 THEN start ELSE NoSeek],
        !.armed = @ \/ auto, !.autoArmed = @ \/ auto,
        !.done = @ \ {e}, !.reached = {start}, !.misled = FALSE])

EnterPreparing(p, e) == Show(Hush(BumpGeneration(p)), e, "Preparing", 0)

RedownloadAndPrepare(p, e, stale) ==
    LET q == IF stale THEN Send(p, "RemoveDownload", e, 0) ELSE p
    IN  EnterPreparing(Send(q, "DownloadToDevice", e, 0), e)

\* play_episode: a task reads the source later.
PlayEpisode(p, e) ==
    [BumpGeneration(p) EXCEPT !.loads = @ \cup {[ep |-> e, fresh |-> TRUE, phase |-> "spawned", start |-> 0]}]

OnDevice(e) == device[e].state = "Downloaded"

StreamEpisode(p, e) ==
    IF preference = "DownloadOnly" THEN RedownloadAndPrepare(p, e, OnDevice(e))
    ELSE IF e \in Served THEN LoadAndPlay(BumpGeneration(p), e, FALSE, cursor[e])
    ELSE SetError(Hush(BumpGeneration(p)), e)

DownloadAndPlay(p, e) ==
    CASE device[e].state = "Downloaded" -> PlayEpisode(p, e)
      [] device[e].state = "Downloading" -> EnterPreparing(p, e)
      [] OTHER -> EnterPreparing(Send(p, "DownloadToDevice", e, 0), e)

RequestPlay(p, e) ==
    LET outgoing == p.now.ep # e /\ p.now.state \in {"Playing", "Paused"}
        q == [(IF outgoing THEN PersistCursor(p) ELSE p) EXCEPT !.retries = 0, !.wanted = e]
    IN  CASE preference = "DownloadOnly" -> DownloadAndPlay(q, e)
          [] preference = "StreamFirstAndDownload" ->
                IF OnDevice(e) THEN PlayEpisode(q, e) ELSE StreamEpisode(Send(q, "DownloadToDevice", e, 0), e)
          [] preference = "StreamFallback" ->
                IF OnDevice(e) THEN PlayEpisode(q, e) ELSE StreamEpisode(q, e)
          [] OTHER -> StreamEpisode(q, e)

Resume(p) == IF p.now.state = "Paused" THEN [Sound(p) EXCEPT !.now.state = "Playing"] ELSE p

Pause(p) == IF p.now.state \in {"Playing", "Loading"}
            THEN PersistCursor([Mute(p) EXCEPT !.now.state = "Paused"]) ELSE p

Play(p) == IF p.now.state \in {"Ended", "Error"} THEN RequestPlay(p, p.now.ep) ELSE Resume(p)

-----------------------------------------------------------------------------
(* The tick.                                                               *)

\* Mutant: one retry too many.
MayRetryOnceMore(p) == p.retries <= LocalRetries

MayRetry(p) == p.retries < LocalRetries

\* on_backend_error: a device copy that fails to start is read again after a while.
OnBackendError(p, stale) ==
    IF p.now.state = "Loading" /\ p.element.local /\ MayRetry(p) /\ ~p.retrying
    THEN [p EXCEPT !.retries = @ + 1, !.retrying = TRUE,
                   !.naps = @ \cup {p.now.ep}]
    ELSE [p EXCEPT !.now.state = "Error", !.misled = @ \/ stale]

OnTimeUpdate(p) ==
    [p EXCEPT !.now.at = p.element.at,
              !.now.state = IF @ = "Loading" THEN "Playing" ELSE @,
              !.retries = IF p.now.state = "Loading" THEN 0 ELSE @]

OnEvent(p, event) ==
    CASE event.kind = "TimeUpdate" -> OnTimeUpdate(p)
      [] event.kind = "Paused" /\ p.now.state = "Playing" -> PersistCursor([p EXCEPT !.now.state = "Paused"])
      [] event.kind = "Playing" /\ p.now.state = "Paused" -> [p EXCEPT !.now.state = "Playing"]
      [] event.kind = "Error" -> OnBackendError(p, event.stale)
      [] OTHER -> p

\* drain_events: the one state (in a set, to be bound once) after the polled events.
DrainEvents(p) ==
    LET polled == Polled(p)
        after[n \in 0..Len(polled)] ==
            IF n = 0 THEN [p EXCEPT !.events = <<>>] ELSE OnEvent(after[n - 1], polled[n])
    IN  {after[Len(polled)]}

\* next_up_in.
NextUp(e) == IF ~\E i \in DOMAIN Queue : Queue[i] = e THEN {Queue[i] : i \in DOMAIN Queue \cap {1}}
             ELSE LET at == CHOOSE i \in DOMAIN Queue : Queue[i] = e /\ \A j \in 1..(i - 1) : Queue[j] # e
                  IN  {Queue[i] : i \in DOMAIN Queue \cap {at + 1}}

OnEnded(p, allow) ==
    LET e == p.now.ep
        q == [Send(p, "MarkPlayed", e, 0) EXCEPT !.now.state = "Ended", !.done = @ \cup {e}]
    IN  IF allow /\ AutoAdvance /\ NextUp(e) # {} THEN RequestPlay(q, CHOOSE n \in NextUp(e) : TRUE) ELSE q

\* Mutant: the count starts again with every tick.
CountAfresh(ticks) == 1

Count(ticks) == ticks + 1

\* check_preparing_stall, check_loading_stall.
Preparing(p) ==
    IF Count(p.preparingTicks) < PreparingStallTicks THEN [p EXCEPT !.preparingTicks = Count(@)]
    ELSE SetError(Hush([p EXCEPT !.preparingTicks = 0]), p.now.ep)
Stalled(p) == p.now.state = "Loading" /\ Count(p.loadingTicks) >= LoadingStallTicks
Counted(p) == [p EXCEPT !.loadingTicks = IF p.now.state = "Loading" THEN Count(@) ELSE 0]

\* persist_while_playing.  The sleep timer, and one tick in forty, are not counted.
Slept(p, expire) == IF expire THEN Pause([p EXCEPT !.armed = FALSE]) ELSE p

Autosaved(p, save) == IF save THEN PersistCursor(p) ELSE p

Polling(p, expire, save) ==
    \E q \in DrainEvents(p) :
        LET playing == q.now.state = "Playing" IN
        \E r \in {Slept(Counted(q), expire /\ playing)} : \E saved \in {Autosaved(r, save /\ playing)} :
            player' = IF Stalled(q) THEN SetError(Hush([q EXCEPT !.loadingTicks = 0]), q.now.ep)
                      ELSE IF AtEnd(p.element) THEN OnEnded(saved, ~(expire /\ playing)) ELSE saved

Tick(expire, save) ==
    /\ UNCHANGED <<preference, deviceVars, cursor, seen, asked, trouble>>
    /\ expire => player.armed
    /\ save => Len(player.commands) < MaxQueue
    /\ \E p \in {[player EXCEPT !.preparingTicks = 0]} :
         CASE player.now.state = "Preparing" -> player' = Preparing(player)
           [] player.now.state # "Preparing" /\ player.retrying -> player' = [Sought(p) EXCEPT !.events = <<>>]
           [] player.now.state \in {"None", "Ended", "Error"} /\ ~player.retrying -> player' = p
           [] OTHER -> Polling(Sought(p), expire, save)

-----------------------------------------------------------------------------
(* Tasks, the watcher and the worker.                                      *)

\* Mutant: a source is used whoever asked for it.
AnyLoad(l) == TRUE

IsFresh(l) == l.fresh

\* A load's task starts: it reads what the device has, and streams at once if that is nothing.
Begin(l) ==
    LET p == [player EXCEPT !.loads = @ \ {l}] IN
    /\ l.phase = "spawned"
    /\ player' = IF OnDevice(l.ep)
                 THEN [p EXCEPT !.loads = @ \cup {[l EXCEPT !.phase = "reading", !.start = cursor[l.ep]]}]
                 ELSE IF IsFresh(l) THEN StreamEpisode(p, l.ep) ELSE p
    /\ UNCHANGED <<preference, deviceVars, cursor, seen, asked, trouble>>

\* audio_url answers.
Resolve(l) ==
    LET p == [player EXCEPT !.loads = @ \ {l}]
        Read == LoadAndPlay(p, l.ep, TRUE, l.start)
        Unread == IF preference = "DownloadOnly" THEN RedownloadAndPrepare(p, l.ep, TRUE)
                  ELSE StreamEpisode(p, l.ep)
    IN  /\ l.phase = "reading"
        /\ \/ /\ player' = IF ~IsFresh(l) THEN p ELSE IF l.ep \in bytes THEN Read ELSE Unread
              /\ UNCHANGED <<asked, trouble>>
           \/ l.ep \in bytes /\ Trouble /\ player' = IF IsFresh(l) THEN Unread ELSE p
        /\ UNCHANGED <<preference, deviceVars, cursor, seen>>

\* The retry after a failed start of e.
Wake(e) ==
    LET p == [player EXCEPT !.naps = @ \ {e}, !.retrying = FALSE]
    IN  /\ player' = IF player.retrying /\ player.now.ep = e /\ player.now.state = "Loading"
                     THEN PlayEpisode([p EXCEPT !.wanted = e], e) ELSE p
        /\ UNCHANGED <<preference, deviceVars, cursor, seen, asked, trouble>>

\* handle_preparing_download_state, when the watched state has changed.
HandlePreparing(p, e) ==
    CASE p.now.state # "Preparing" -> p
      [] p.now.state = "Preparing" /\ device[e].state = "Downloaded" -> PlayEpisode([p EXCEPT !.wanted = e], e)
      [] p.now.state = "Preparing" /\ device[e].state = "Failed" -> SetError(Hush(p), e)
      [] p.now.state = "Preparing" /\ device[e].state = "Downloading" -> [p EXCEPT !.preparingTicks = 0]
      [] OTHER -> p

Watch ==
    LET e == player.now.ep
        target == IF e = NoEpisode THEN <<>> ELSE <<e, device[e]>>
    IN
    /\ seen # target /\ seen' = target
    /\ player' = HandlePreparing(player, e)
    /\ UNCHANGED <<preference, deviceVars, cursor, asked, trouble>>

\* start_device_download: unless it is there or on its way.
Started(e) == IF device[e].state \in {"None", "Failed"}
              THEN [device EXCEPT ![e] = [NoDownload EXCEPT !.state = "Downloading"]] ELSE device

\* The worker takes the next command; offline, it starts no download.
Work ==
    LET c == Head(player.commands)
    IN  /\ player.commands # <<>>
        /\ player' = [player EXCEPT !.commands = Tail(@)]
        /\ \/ /\ c.kind \in {"SetCursor", "MarkPlayed"}
              /\ cursor' = [cursor EXCEPT ![c.ep] = c.at] /\ UNCHANGED <<deviceVars, asked, trouble>>
           \/ /\ c.kind = "RemoveDownload"
              /\ device' = [device EXCEPT ![c.ep] = NoDownload] /\ bytes' = bytes \ {c.ep}
              /\ UNCHANGED <<cursor, asked, trouble>>
           \/ /\ c.kind = "DownloadToDevice"
              /\ \/ device' = Started(c.ep) /\ UNCHANGED <<asked, trouble>>
                 \/ Trouble /\ UNCHANGED device
              /\ UNCHANGED <<bytes, cursor>>
        /\ UNCHANGED <<preference, seen>>

-----------------------------------------------------------------------------
(* The user.                                                               *)

PlayIn(e) == player' = RequestPlay(player, e)
StreamIn(e) == player' = StreamEpisode([player EXCEPT !.wanted = e], e)
DownloadIn(e) == player' = DownloadAndPlay([player EXCEPT !.wanted = e], e)
PlayKey == player.now.state # "None" /\ player' = Play(player)
PauseKey == player.now.state # "None" /\ player' = Pause(player)

SeekTo(at) ==
    /\ player.now.state # "None"
    /\ player' = [player EXCEPT !.element = Seek(@, at), !.now.at = at, !.reached = @ \cup {at}]

\* The page is hidden.
Hide == player.now.state # "None" /\ player' = PersistCursor(player)

ToggleSleep == player.now.state # "None" /\ player' = [player EXCEPT !.armed = ~@]

Stop ==
    /\ player.now.state # "None"
    /\ player' = [Hush(PersistCursor(player)) EXCEPT !.now = Nothing, !.retrying = FALSE, !.retries = 0,
                                                     !.armed = FALSE, !.autoArmed = FALSE]

User ==
    /\ Ask
    /\ \/ \E e \in Episodes : PlayIn(e) \/ StreamIn(e) \/ DownloadIn(e)
       \/ PlayKey \/ PauseKey \/ Hide \/ ToggleSleep \/ Stop
       \/ \E at \in Targets : SeekTo(at)
    /\ UNCHANGED <<preference, deviceVars, cursor, seen>>

-----------------------------------------------------------------------------
(* The element's own life, and the device's downloads.                     *)

\* Data arrives; what was told to play is heard.
Arrive ==
    /\ player.element.ready = "loading"
    /\ player' = LET p == [player EXCEPT !.element.ready = "data"]
                 IN  IF p.element.on THEN Emit(p, "Playing") ELSE p
    /\ UNCHANGED <<asked, trouble>>

\* The clock goes on; at its end the element pauses itself, which the backend does not report.
Advance ==
    /\ Heard(player.element) /\ player.element.seek = NoSeek
    /\ player' = [player EXCEPT !.element = MoveTo(@, @.at + 1), !.reached = @ \cup {player.element.at + 1}]
    /\ UNCHANGED <<asked, trouble>>

\* The source fails; play's promise, if still pending, is rejected as well.
Break ==
    /\ player.element.ready \in {"loading", "data"} /\ Trouble
    /\ player' = LET p == [player EXCEPT !.element.ready = "failed"]
                 IN  IF player.element.ready = "loading" /\ player.element.on THEN Emit(p, "Error") ELSE p

\* The browser does not let it play.
Reject ==
    /\ player.element.ready = "loading" /\ player.element.on /\ Trouble
    /\ player' = Emit([player EXCEPT !.element.on = FALSE], "Error")

\* The system pauses the element, and resumes what it paused, whatever the screen says by then.
Interrupt ==
    /\ Heard(player.element) /\ Trouble
    /\ player' = [Mute(player) EXCEPT !.element.held = TRUE]

Release ==
    /\ player.element.held /\ player.element.ready = "data" /\ ~AtEnd(player.element)
    /\ player' = Emit([player EXCEPT !.element.held = FALSE, !.element.on = TRUE,
                                     !.misled = @ \/ player.now.state = "Ended"], "Playing")
    /\ UNCHANGED <<asked, trouble>>

Element == /\ Arrive \/ Advance \/ Break \/ Reject \/ Interrupt \/ Release
           /\ UNCHANGED <<preference, deviceVars, cursor, seen>>

Progress(e) == /\ device[e] = [state |-> "Downloading", progress |-> 0]
               /\ device' = [device EXCEPT ![e].progress = 1] /\ UNCHANGED <<bytes, asked, trouble>>
\* A download takes longer than the worker needs for the commands that wait.
Land(e) == /\ device[e].state = "Downloading" /\ player.commands = <<>>
           /\ device' = [device EXCEPT ![e].state = "Downloaded"] /\ bytes' = bytes \cup {e}
           /\ UNCHANGED <<asked, trouble>>
Miss(e) == /\ device[e].state = "Downloading" /\ Trouble
           /\ device' = [device EXCEPT ![e].state = "Failed"] /\ UNCHANGED bytes
Evict(e) == e \in bytes /\ Trouble /\ bytes' = bytes \ {e} /\ UNCHANGED device

Device == \E e \in Episodes : /\ Progress(e) \/ Land(e) \/ Miss(e) \/ Evict(e)
                              /\ UNCHANGED <<player, preference, cursor, seen>>

Next ==
    \/ User \/ Element \/ Device \/ Watch \/ Work
    \/ \E expire, save \in BOOLEAN : Tick(expire, save)
    \/ \E l \in player.loads : Begin(l) \/ Resolve(l)
    \/ \E e \in player.naps : Wake(e)

Spec == Init /\ [][Next]_vars

\* The provider ticks while it is mounted, and a retry's sleep ends.
Fairness == WF_vars(Tick(FALSE, FALSE) \/ \E e \in player.naps : Wake(e))
FairSpec == Spec /\ Fairness

-----------------------------------------------------------------------------
(* What the player promises.                                               *)

Turned(what) == player'[what].ep \notin {NoEpisode, player[what].ep}

\* "An older load cannot replace newer user intent" (playback.rs play_episode): the element is
\* given, and the screen shows, the episode asked for last.  A retry and the hand-over of a
\* finished download count as asking, though the code lets them overtake a newer request
\* whose source is still being read.
LatestWins ==
    [][/\ Turned("element") => player'.element.ep = player'.wanted
       /\ Turned("now") => player'.now.ep = player'.wanted]_vars

Sent == {i \in DOMAIN player'.commands : i > Len(player.commands)}

\* An episode that ended is marked played once and its position is not saved after that, unless
\* it is played again (controller.rs persist_cursor, on_ended): hiding the page, an interruption,
\* a stop or the next request must not take the mark back.
OneVerdict ==
    [][\A i \in Sent : LET c == player'.commands[i] IN
          c.kind \in {"SetCursor", "MarkPlayed"} =>
              /\ c.ep \notin player.done
              /\ \A j \in Sent : j < i => player'.commands[j] # [c EXCEPT !.kind = "MarkPlayed", !.at = 0]]_vars

\* A saved position is one that the user resumed from, sought or heard of that episode, whatever
\* the element's clock showed while it loaded (web.rs poll_events).
HonestCursor ==
    [][\A i \in Sent : LET c == player'.commands[i] IN
          c.kind = "SetCursor" => c.ep = player.element.ep /\ c.at \in player.reached]_vars

\* What is heard is shown as playing, or an event is queued that will say so: no audio goes on
\* under an error, a spinner or another episode (playback.rs stream_episode, enter_preparing).
\* Except when an error of an earlier attempt is read as this one's, or when the system resumes
\* an episode that the user sought back from its end: Ended is not polled.
ShownIsHeard ==
    Heard(player.element) =>
        \/ /\ player.now.ep = player.element.ep
           /\ \/ player.now.state \in {"Loading", "Playing"}
              \/ player.now.state = "Paused" /\ \E i \in DOMAIN player.events : player.events[i].kind = "Playing"
        \/ player.misled

\* A spinner does not spin for ever: the stall guards and the retries end it, whatever the
\* element, the worker and the network do.
Starts == player.now.state \in {"Loading", "Preparing"} ~> player.now.state \notin {"Loading", "Preparing"}
=============================================================================
