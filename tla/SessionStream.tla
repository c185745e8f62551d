---------------------------- MODULE SessionStream ----------------------------
(***************************************************************************)
(* The output of one daemon terminal session on its way to one page: the   *)
(* bytes the daemon keeps (session/manager/kept.rs), the live broadcast,   *)
(* the bridge that turns both into frames (ws_session/bridge*, outbound)   *)
(* and the page's terminal, which counts what it shows and reconnects with *)
(* that count (assets/ui/wb-console-terminal-link.ts).                     *)
(*                                                                         *)
(* A byte is the number of bytes written up to and including it, and a     *)
(* chunk is one byte.  A screen snapshot taken at count n is what the      *)
(* bytes 1..n paint.  Broadcast receivers do not affect one another, so    *)
(* one page is enough: a resize, a take-over or a close by somebody else   *)
(* is an action that may happen at any time.                               *)
(***************************************************************************)
EXTENDS Integers, Sequences, SequencesExt

CONSTANTS MaxBytes,          \* bound: the bytes the child writes
          MaxResizes,        \* bound: the resizes that change the size
          RingCap,           \* SCROLLBACK_CAP_BYTES
          QueueCap,          \* BROADCAST_CAP
          WireCap,           \* room of the channel's queue on the page socket
          Sizes, FirstSize,  \* the session sizes a writer sends; the one of the spawn
          MaxFailedReopens,  \* MAX_FAILED_REOPENS
          WatchAfter,        \* WATCH_AFTER
          NoCount, NoReason  \* `null` of `shown` and of `announced`

ASSUME StreamAssumption ==
    /\ MaxBytes \in Nat /\ MaxResizes \in Nat /\ RingCap \in Nat \ {0}
    /\ QueueCap \in Nat \ {0} /\ WireCap \in Nat \ {0} /\ FirstSize \in Sizes
    /\ MaxFailedReopens \in Nat /\ WatchAfter \in Nat
    /\ NoCount \notin Nat
    /\ NoReason \notin {"taken-over", "child-exited"}

VARIABLES
    kept,     \* KeptOutput: written, resizedAt, size, screen (FALSE: it panicked);
              \* resizes counts the resizes, for their bound
    child,    \* "runs"; "closing" (close evicted, the child still prints), then
              \* "killed"; or "gone" when it exited by itself
    att,      \* the attachment and the bridge that serves it
    outbox,   \* frames made for the page that the socket's writer has no room for
    wire,     \* frames handed to the writer and not yet read by the page
    page,     \* the terminal and its link
    wroteAt,  \* history: the session size each byte was written at
    lost,     \* history: a channel was left between an open and its replay
    cut       \* history: the last end gave up on draining the output

daemon == <<kept, child, wroteAt>>
vars == <<kept, child, att, outbox, wire, page, wroteAt, lost, cut>>

Reasons == {"taken-over", "child-exited"}

NoAtt == [phase |-> "off", rx |-> 0, resized |-> FALSE, evict |-> NoReason, left |-> 0]

Init ==
    /\ kept = [written |-> 0, resizedAt |-> 0, size |-> FirstSize, resizes |-> 0,
               screen |-> TRUE]
    /\ child = "runs" /\ wroteAt = <<>>
    /\ att = NoAtt /\ outbox = <<>> /\ wire = <<>>
    /\ page = [link |-> "idle", term |-> <<>>, shown |-> NoCount, since |-> NoCount,
               replayNext |-> FALSE, opened |-> FALSE, everOpened |-> FALSE,
               watching |-> FALSE, announced |-> NoReason, failed |-> 0]
    /\ lost = FALSE /\ cut = FALSE

-----------------------------------------------------------------------------
(* What the daemon keeps. *)

\* The bytes from..to, in order.
Bytes(from, to) == [i \in 1 .. to - from + 1 |-> from + i - 1]

\* The count before the first byte the ring still holds (push_capped).
RingStart == IF kept.written > RingCap THEN kept.written - RingCap ELSE 0

MutantCanResume(since) == since # NoCount /\ since >= RingStart /\ since <= kept.written

\* tail_after: the ring holds every byte after `since`, all of the present size.
CanResume(since) ==
    /\ since # NoCount
    /\ since >= RingStart
    /\ since >= kept.resizedAt
    /\ since <= kept.written

\* replay: the tail after `since`, or the screen, or the raw ring once the
\* screen is broken; the frames `open` queues for it follow.
Replay(since) ==
    IF CanResume(since) THEN Bytes(since + 1, kept.written)
    ELSE IF kept.screen THEN Bytes(1, kept.written)
    ELSE Bytes(RingStart + 1, kept.written)

Output(bytes) == [kind |-> "output", bytes |-> bytes]

Opening(since) ==
    LET replay == Replay(since) IN
    <<[kind |-> "open", offset |-> kept.written, resume |-> CanResume(since),
       replay |-> replay # <<>>],
      [kind |-> "size", size |-> kept.size]>>
    \o IF replay = <<>> THEN <<>> ELSE <<Output(replay)>>

\* publish: keep the chunk and send it, under one lock.  A chunk that breaks
\* the emulator breaks the screen for good (on_screen).
Publish ==
    /\ child \in {"runs", "closing"} /\ kept.written < MaxBytes
    /\ \E ok \in BOOLEAN :
         kept' = [kept EXCEPT !.written = @ + 1, !.screen = @ /\ ok]
    /\ wroteAt' = Append(wroteAt, kept.size)
    /\ UNCHANGED <<child, att, outbox, wire, page, lost, cut>>

\* A resize the PTY accepted, by whoever writes to the session.
Resize ==
    /\ child = "runs" /\ kept.resizes < MaxResizes
    /\ \E s \in Sizes \ {kept.size} :
         kept' = [kept EXCEPT !.size = s, !.resizedAt = kept.written, !.resizes = @ + 1]
    /\ att' = [att EXCEPT !.resized = att.phase # "off"]
    /\ UNCHANGED <<child, outbox, wire, page, wroteAt, lost, cut>>

\* An attachment that was taken over is no longer registered, so no later end
\* reaches it.
Fired(reason) ==
    IF att.phase = "off" \/ att.evict # NoReason THEN att ELSE [att EXCEPT !.evict = reason]

\* The pump read the end of the output and retired the session.
ChildExits ==
    /\ child \in {"runs", "closing"}
    /\ child' = IF child = "runs" THEN "gone" ELSE "killed"
    /\ att' = Fired("child-exited")
    /\ UNCHANGED <<kept, outbox, wire, page, wroteAt, lost, cut>>

\* close: evicted first, killed after; the child can still print meanwhile.
Close ==
    /\ child = "runs"
    /\ child' = "closing"
    /\ att' = Fired("child-exited")
    /\ UNCHANGED <<kept, outbox, wire, page, wroteAt, lost, cut>>

\* Another client took the writer slot of this page's attachment.
TakenOver ==
    /\ child = "runs" /\ att.evict = NoReason /\ att.phase = "loop" /\ ~page.watching
    /\ att' = Fired("taken-over")
    /\ UNCHANGED <<daemon, outbox, wire, page, lost, cut>>

-----------------------------------------------------------------------------
(* The bridge. *)

\* replay_and_subscribe, then the frames of the opening.
Attach ==
    /\ page.link = "connecting" /\ att.phase = "off" /\ child = "runs"
    /\ att' = [NoAtt EXCEPT !.phase = "loop", !.rx = kept.written]
    /\ outbox' = Opening(page.since)
    /\ page' = [page EXCEPT !.link = "open", !.since = NoCount]
    /\ cut' = FALSE
    /\ UNCHANGED <<daemon, wire, lost>>

Lagged == kept.written - att.rx > QueueCap

\* One turn of the receiver: the next chunk, or a start from the screen as
\* it is now when the broadcast dropped chunks for this receiver (resync).
\* The new size receiver has seen the size the opening announces.
MutantReceive(a) ==
    /\ att' = [a EXCEPT !.rx = IF Lagged THEN kept.written - QueueCap + 1 ELSE @ + 1]
    /\ outbox' = <<Output(<<att'.rx>>)>>

Receive(a) ==
    IF Lagged
    THEN /\ att' = [a EXCEPT !.rx = kept.written, !.resized = FALSE, !.left = 0]
         /\ outbox' = Opening(NoCount)
    ELSE /\ att' = [a EXCEPT !.rx = @ + 1]
         /\ outbox' = <<Output(<<att.rx + 1>>)>>

\* on_output: the receiver is read only once the outbox is empty.
ReadOutput ==
    /\ att.phase = "loop" /\ outbox = <<>> /\ att.rx < kept.written
    /\ Receive(att)
    /\ UNCHANGED <<daemon, wire, page, lost, cut>>

\* on_size: the session size changed since this bridge last looked.
SendSize ==
    /\ att.phase = "loop" /\ att.resized
    /\ att' = [att EXCEPT !.resized = FALSE]
    /\ outbox' = Append(outbox, [kind |-> "size", size |-> kept.size])
    /\ UNCHANGED <<daemon, wire, page, lost, cut>>

MutantHandOn ==
    /\ att.phase \in {"loop", "flush", "drain"}
    /\ Len(outbox) > 1 /\ Len(wire) < WireCap
    /\ wire' = Append(wire, Head(outbox)) /\ outbox' = Tail(outbox)
    /\ UNCHANGED <<daemon, att, page, lost, cut>>

\* hand_on and flush: the first frame goes when the writer has room.
HandOn ==
    /\ att.phase \in {"loop", "flush", "drain"}
    /\ outbox # <<>> /\ Len(wire) < WireCap
    /\ wire' = Append(wire, Head(outbox)) /\ outbox' = Tail(outbox)
    /\ UNCHANGED <<daemon, att, page, lost, cut>>

\* The loop's eviction arm: the bridge leaves the loop with the token's reason.
TakeEvict ==
    /\ att.phase = "loop" /\ att.evict # NoReason
    /\ att' = [att EXCEPT !.phase = "flush"]
    /\ UNCHANGED <<daemon, outbox, wire, page, lost, cut>>

MutantFlushed ==
    /\ att.phase = "flush" /\ outbox = <<>>
    /\ att' = [att EXCEPT !.phase = "end"]
    /\ UNCHANGED <<daemon, outbox, wire, page, lost, cut>>

\* The queued frames are out.  Only a child end reads the receiver on, and
\* only for the chunks it holds now (send_queued).
Flushed ==
    /\ att.phase = "flush" /\ outbox = <<>>
    /\ att' = IF att.evict = "child-exited"
              THEN [att EXCEPT !.phase = "drain", !.left = kept.written - att.rx]
              ELSE [att EXCEPT !.phase = "end"]
    /\ UNCHANGED <<daemon, outbox, wire, page, lost, cut>>

Drain ==
    /\ att.phase = "drain" /\ outbox = <<>>
    /\ IF att.left > 0
       THEN Receive([att EXCEPT !.left = @ - 1])
       ELSE att' = [att EXCEPT !.phase = "end"] /\ UNCHANGED outbox
    /\ UNCHANGED <<daemon, wire, page, lost, cut>>

MutantDrainTimeout ==
    /\ att.phase = "drain"
    /\ att' = [att EXCEPT !.phase = "end"]
    /\ outbox' = <<>> /\ cut' = TRUE
    /\ UNCHANGED <<daemon, wire, page, lost>>

\* DRAIN_LIMIT: a page that does not take the queue in time loses it.
DrainTimeout ==
    /\ att.phase \in {"flush", "drain"}
    /\ att' = [att EXCEPT !.phase = "end"]
    /\ outbox' = <<>> /\ cut' = TRUE
    /\ UNCHANGED <<daemon, wire, page, lost>>

\* The end is named in a data frame and the attachment dropped.
SendEnd ==
    /\ att.phase = "end" /\ Len(wire) < WireCap
    /\ wire' = Append(wire, [kind |-> "end", reason |-> att.evict])
    /\ att' = NoAtt
    /\ UNCHANGED <<daemon, outbox, page, lost, cut>>

\* END_WINDOW: a page that does not read is left without the end.
EndTimeout ==
    /\ att.phase = "end" /\ att' = NoAtt
    /\ UNCHANGED <<daemon, outbox, wire, page, lost, cut>>

-----------------------------------------------------------------------------
(* The page. *)

\* connect: the request carries the count of what the terminal shows.
Connected(p) ==
    [p EXCEPT !.link = "connecting", !.since = p.shown, !.opened = FALSE,
              !.announced = NoReason, !.replayNext = FALSE]

\* What becomes of a terminal whose channel is gone: its replay can no longer come.
LeaveChannel ==
    /\ att' = NoAtt /\ outbox' = <<>> /\ wire' = <<>>
    /\ lost' = (lost \/ page.replayNext)

Connect ==
    /\ page.link = "idle"
    /\ page' = Connected(page)
    /\ UNCHANGED <<daemon, att, outbox, wire, lost, cut>>

\* takeOpen: any replay but a resume repaints a cleared terminal; the count is
\* the one at the end of the replay that follows.
TakeOpen(f) ==
    [page EXCEPT !.opened = TRUE, !.everOpened = TRUE, !.failed = 0,
                 !.term = IF f.resume THEN @ ELSE <<>>,
                 !.shown = f.offset, !.replayNext = f.replay]

\* The output arm: the replay is in the count already, a live frame adds to it.
TakeOutput(f) ==
    [page EXCEPT !.term = @ \o f.bytes, !.replayNext = FALSE,
                 !.shown = IF page.replayNext \/ @ = NoCount THEN @ ELSE @ + Len(f.bytes)]

Read ==
    /\ page.link = "open" /\ wire # <<>>
    /\ LET f == Head(wire) IN
         /\ page' = CASE f.kind = "open" -> TakeOpen(f)
                      [] f.kind = "output" -> TakeOutput(f)
                      [] f.kind = "end" -> [page EXCEPT !.announced = f.reason]
                      [] f.kind = "size" -> page
         /\ lost' = (lost /\ ~(f.kind = "open" /\ ~f.resume))
    /\ wire' = Tail(wire)
    /\ UNCHANGED <<daemon, att, outbox, cut>>

\* replay-lost: the gzip replay did not decode, or not in time.
ReplayLost ==
    /\ page.link = "open" /\ page.replayNext /\ wire # <<>> /\ Head(wire).kind = "output"
    /\ page' = [page EXCEPT !.shown = NoCount, !.replayNext = FALSE]
    /\ wire' = Tail(wire)
    /\ UNCHANGED <<daemon, att, outbox, lost, cut>>

\* A write of the page itself, a refused paste for one, forgets the count.
Notice ==
    /\ page.link # "done" /\ page.shown # NoCount
    /\ page' = [page EXCEPT !.shown = NoCount]
    /\ UNCHANGED <<daemon, att, outbox, wire, lost, cut>>

\* reconnectDecision, for a window that knows its session's id.
Decision(p) ==
    IF p.announced = "taken-over" THEN "park"
    ELSE IF p.announced # NoReason \/ p.failed > MaxFailedReopens THEN "give-up"
    ELSE IF p.everOpened \/ p.failed < WatchAfter THEN "retry"
    ELSE "park"

\* closed: give up, park once as a watcher, or retry.
Closed ==
    LET p == [page EXCEPT !.failed = IF page.opened THEN @ ELSE @ + 1,
                          !.replayNext = FALSE] IN
    page' = CASE Decision(p) = "give-up" -> [p EXCEPT !.link = "done", !.shown = NoCount]
              [] Decision(p) = "park" /\ ~p.watching ->
                   Connected([p EXCEPT !.watching = TRUE, !.shown = NoCount])
              [] OTHER -> [p EXCEPT !.link = "idle"]

\* The daemon ended the channel, and the page has read every frame of it.
ChannelClosed ==
    /\ page.link = "open" /\ att.phase = "off" /\ wire = <<>>
    /\ LeaveChannel /\ Closed
    /\ UNCHANGED <<daemon, cut>>

\* The socket is gone: what it had not delivered is lost with it.
SocketLost ==
    /\ page.link = "open"
    /\ LeaveChannel /\ Closed
    /\ UNCHANGED <<daemon, cut>>

\* The open is refused: the session is gone, or another client writes to it.
Refused ==
    /\ page.link = "connecting"
    /\ Closed
    /\ UNCHANGED <<daemon, att, outbox, wire, lost, cut>>

\* reconnectNow: back from a suspend, or a key typed while the link is down;
\* the present channel is retired whatever it still has to deliver.
ReconnectNow ==
    /\ page.link = "open"
    /\ LeaveChannel
    /\ page' = Connected(page)
    /\ UNCHANGED <<daemon, cut>>

\* takeOver: the parked banner's button.
TakeOver ==
    /\ page.link \in {"idle", "open"} /\ page.watching
    /\ LeaveChannel
    /\ page' = Connected([page EXCEPT !.watching = FALSE, !.failed = 0])
    /\ UNCHANGED <<daemon, cut>>

Next ==
    \/ Publish \/ Resize \/ ChildExits \/ Close \/ TakenOver
    \/ Attach \/ ReadOutput \/ SendSize \/ HandOn \/ TakeEvict \/ Flushed
    \/ Drain \/ DrainTimeout \/ SendEnd \/ EndTimeout
    \/ Connect \/ Read \/ ReplayLost \/ Notice \/ ChannelClosed \/ SocketLost
    \/ Refused \/ ReconnectNow \/ TakeOver

Spec == Init /\ [][Next]_vars

\* The bridge's task runs; its select! is random, so an arm that is ready again
\* and again is taken; its timers fire.  Nobody else is fair: the child may
\* print nothing more, and the page may stop reading its socket.
FairSpec ==
    /\ Spec
    /\ SF_vars(ReadOutput) /\ WF_vars(HandOn) /\ SF_vars(TakeEvict)
    /\ WF_vars(Flushed) /\ WF_vars(Drain) /\ WF_vars(DrainTimeout)
    /\ WF_vars(SendEnd) /\ WF_vars(EndTimeout)

-----------------------------------------------------------------------------
(* What is checked. *)

Frames ==
    [kind : {"open"}, offset : Nat, resume : BOOLEAN, replay : BOOLEAN]
    \cup [kind : {"size"}, size : Sizes] \cup [kind : {"output"}, bytes : Seq(Nat)]
    \cup [kind : {"end"}, reason : Reasons]

\* The shape of the state.
TypeOK ==
    /\ kept \in [written : 0 .. MaxBytes, resizedAt : 0 .. MaxBytes, size : Sizes,
                resizes : 0 .. MaxResizes, screen : BOOLEAN]
    /\ child \in {"runs", "closing", "killed", "gone"}
    /\ att \in [phase : {"off", "loop", "flush", "drain", "end"}, rx : 0 .. MaxBytes,
               resized : BOOLEAN, evict : Reasons \cup {NoReason}, left : 0 .. MaxBytes]
    /\ outbox \in Seq(Frames) /\ wire \in Seq(Frames) /\ Len(wire) <= WireCap
    /\ page \in [link : {"idle", "connecting", "open", "done"}, term : Seq(Nat),
                shown : Nat \cup {NoCount}, since : Nat \cup {NoCount},
                replayNext : BOOLEAN, opened : BOOLEAN, everOpened : BOOLEAN,
                watching : BOOLEAN, announced : Reasons \cup {NoReason},
                failed : 0 .. MaxFailedReopens + 2]
    /\ wroteAt \in Seq(Sizes) /\ Len(wroteAt) = kept.written
    /\ lost \in BOOLEAN /\ cut \in BOOLEAN

Contiguous(s) == \A i \in 1 .. Len(s) - 1 : s[i + 1] = s[i] + 1
UpTo(s) == IF s = <<>> THEN 0 ELSE Last(s)
Exact == Contiguous(page.term) /\ UpTo(page.term) = page.shown

\* EXACTLY-ONCE REPLAY INVARIANT, end to end: a terminal that knows its count
\* shows the session's output without a gap and without a repeat up to exactly
\* that count, across attaches, resumes, lags, ring drops, resizes and lost
\* sockets; unless a channel was left between a session-open and its replay.
CountMatchesTerminal ==
    page.shown # NoCount /\ ~page.replayNext /\ ~lost => Exact

\* The same without the exception: `shown` is "the count of the session's output
\* bytes this terminal shows" (wb-console-terminal-link.ts:52).
ShownIsShown ==
    page.link = "open" /\ page.opened /\ page.shown # NoCount /\ ~page.replayNext => Exact

\* announce_end drains before it names the end: a page told that the child
\* exited shows the child's last output, unless the drain ran out of time, the
\* session was closed under a child that was still printing, or the page had
\* already lost its count.
OutputBeforeEnd ==
    /\ page.announced = "child-exited" /\ child = "gone"
    /\ ~cut /\ ~lost /\ page.shown # NoCount
    => page.shown = kept.written

\* A resume never mixes sizes: every byte of the tail a resuming page gets was
\* written at the size announced to it just before (resized_at, ADR-0079 D8).
ResumeAtOneSize ==
    \A i \in 1 .. Len(outbox) - 2 :
        outbox[i].kind = "open" /\ outbox[i].resume /\ outbox[i].replay =>
            \A j \in 1 .. Len(outbox[i + 2].bytes) :
                wroteAt[outbox[i + 2].bytes[j]] = outbox[i + 1].size

\* A page whose channel holds and that keeps reading it catches up with the
\* output, however often the live receiver lags and whoever resizes, or no
\* longer keeps a count.
CatchesUp ==
    <>[](att.phase = "loop") /\ []<>(wire = <<>>)
        => []<>(page.shown \in {NoCount, kept.written})

\* The end of a session releases the attachment (and the scrollback ring it
\* keeps alive) even when the page reads nothing more: the end window is bounded.
EndReleases == (child # "runs") ~> (att.phase = "off")
=============================================================================
