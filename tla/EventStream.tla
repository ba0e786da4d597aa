---------------------------- MODULE EventStream ----------------------------
(***************************************************************************)
(* The events of one run, from the log through the SSE stream to the view  *)
(* of one browser tab: project snapshots and streams are read page by page *)
(* while the worker keeps writing, two streams of the run may be open at   *)
(* once (the one that sent the message and the one a snapshot resumed),    *)
(* connections drop, and snapshots arrive late.                            *)
(***************************************************************************)
EXTENDS Integers, Sequences, FiniteSetsExt

(* Operators named Mutant... are plausible mistakes in the definition that *)
(* follows them; no action uses them.                                      *)

CONSTANTS Conns,      \* streams that may be open at once
          MaxEvents,  \* events of the run
          Limit,      \* events in one page of a stream (500 in the code)
          MaxDrops    \* connections that are lost

ASSUME StreamAssumption ==
    /\ {MaxEvents, Limit} \subseteq Nat \ {0}
    /\ MaxDrops \in Nat

(* A failed gate is a verification.updated event with status "failed": the *)
(* worker repairs it and the run goes on.                                  *)
Kinds == {"progress", "failed_gate", "ended"}

VARIABLES
    log,        \* the kinds of the run's events; seq n is log[n]
    status,     \* of the run: none, live or ended
    granted,    \* the session may read the project
    stream,     \* what the server does for each connection
    view,       \* the presentation: a run is shown, which events, lastSeq
    client,     \* activeRunId is set, the run is in terminalRunIds,
                \* its stream was resumed once, the notice is on
    sending,    \* startRun: no, asked (not answered yet) or answered
    snap,       \* the project snapshot being read
    wanted,     \* a snapshot is wanted: no, plain or reconnect
    resume,     \* resumeStream is called once the refresh is done
    displaced,  \* the view was set back under a stream further ahead
    drops

serverVars == <<log, status, granted>>
clientVars == <<view, client, sending, wanted, resume, displaced>>
vars == <<serverVars, stream, clientVars, snap, drops>>

Closed == [at |-> "closed", cursor |-> 0, to |-> 0, ended |-> FALSE, met |-> FALSE]
NoSnap == [at |-> "none", active |-> FALSE, last |-> 0, upto |-> 0, resume |-> FALSE]
Blank == [run |-> FALSE, shown |-> {}, lastSeq |-> 0]

Init ==
    /\ log = <<>> /\ status = "none" /\ granted = TRUE
    /\ stream = [c \in Conns |-> Closed]
    /\ view = Blank
    /\ client = [active |-> FALSE, terminal |-> FALSE, resumed |-> FALSE,
                 notice |-> FALSE]
    /\ sending = "no" /\ snap = NoSnap /\ wanted = "plain" /\ resume = FALSE
    /\ displaced = FALSE /\ drops = 0

Open(c, after) ==
    stream' = [stream EXCEPT ![c] = [Closed EXCEPT !.at = "status", !.cursor = after]]

(* A stream other than those in C has handed out more than seq. *)
Ahead(seq) ==
    \E c \in Conns : stream[c].at # "closed" /\ stream[c].cursor > seq

(***************************************************************************)
(* The run.                                                                *)
(***************************************************************************)

AppendEvent(kind) == log' = log \o <<kind>>

(* Progress while the run lives; after its end the expiry of its preview   *)
(* or the closing of its goal graph still adds an event.                   *)
Publish ==
    /\ status # "none" /\ Len(log) < MaxEvents
    /\ \E kind \in Kinds :
          /\ status = "ended" => kind = "progress"
          /\ AppendEvent(kind)
          /\ status' = IF kind = "ended" THEN "ended" ELSE status
    /\ UNCHANGED <<granted, stream, clientVars, snap, drops>>

(* The session expires or the project changes hands. *)
Revoke ==
    /\ granted /\ granted' = FALSE
    /\ UNCHANGED <<log, status, stream, clientVars, snap, drops>>

(***************************************************************************)
(* The server's side of a stream: check, read a page, hand it out.         *)
(***************************************************************************)

MutantEnd(c, notice) ==
    /\ stream' = [stream EXCEPT ![c] = Closed]
    /\ UNCHANGED client

(* The connection ends; the notice is on unless the reader has met what it *)
(* takes for the end of the run.                                           *)
End(c, notice) ==
    /\ stream' = [stream EXCEPT ![c] = Closed]
    /\ client' = [client EXCEPT !.notice = notice]

StreamStatus(c) ==
    /\ stream[c].at = "status"
    /\ IF granted
       THEN /\ stream' = [stream EXCEPT ![c].at = "list", ![c].ended = status = "ended"]
            /\ UNCHANGED client
       ELSE End(c, ~stream[c].met)
    /\ UNCHANGED <<serverVars, view, sending, wanted, resume, displaced, snap, drops>>

MutantStreamList(c) ==
    /\ stream[c].at = "list"
    /\ stream' = [stream EXCEPT ![c].at = "send", ![c].to = Len(log),
                                ![c].cursor = Max({@, Len(log) - 1})]
    /\ UNCHANGED <<serverVars, clientVars, snap, drops>>

StreamList(c) ==
    /\ stream[c].at = "list"
    /\ stream' = [stream EXCEPT ![c].at = "send",
                                ![c].to = Min({Len(log), stream[c].cursor + Limit})]
    /\ UNCHANGED <<serverVars, clientVars, snap, drops>>

(* What the transport takes for the end of a run. *)
IsTerminalEvent(kind) == kind \in {"failed_gate", "ended"}

MutantReduceDomainEvent(v, seq) ==
    [run |-> TRUE, shown |-> v.shown \cup {seq}, lastSeq |-> seq]

(* The presentation ignores what it has already applied. *)
ReduceDomainEvent(v, seq) ==
    IF seq <= v.lastSeq THEN v
    ELSE [run |-> TRUE, shown |-> v.shown \cup {seq}, lastSeq |-> seq]

(* One event is handed out and reaches the tab, which asks for a fresh *)
(* snapshot when it takes the event for the end of the run.            *)
StreamSend(c) ==
    /\ stream[c].at = "send" /\ stream[c].cursor < stream[c].to
    /\ LET seq == stream[c].cursor + 1
           terminal == IsTerminalEvent(log[seq])
       IN /\ stream' = [stream EXCEPT ![c].cursor = seq, ![c].met = @ \/ terminal]
          /\ client' = [client EXCEPT !.terminal = @ \/ terminal]
          /\ wanted' = IF terminal /\ wanted = "no" THEN "plain" ELSE wanted
          /\ view' = ReduceDomainEvent(view, seq)
    /\ UNCHANGED <<serverVars, sending, resume, displaced, snap, drops>>

MutantStreamRest(c) ==
    /\ stream[c].at = "send" /\ stream[c].cursor = stream[c].to
    /\ IF status = "ended" THEN End(c, ~stream[c].met)
       ELSE /\ stream' = [stream EXCEPT ![c].at = "status"]
            /\ UNCHANGED client
    /\ UNCHANGED <<serverVars, view, sending, wanted, resume, displaced, snap, drops>>

(* The page is handed out: the stream ends if the run had ended before the *)
(* page was read, and looks again otherwise.                               *)
StreamRest(c) ==
    /\ stream[c].at = "send" /\ stream[c].cursor = stream[c].to
    /\ IF stream[c].ended THEN End(c, ~stream[c].met)
       ELSE /\ stream' = [stream EXCEPT ![c].at = "status"]
            /\ UNCHANGED client
    /\ UNCHANGED <<serverVars, view, sending, wanted, resume, displaced, snap, drops>>

(* The connection breaks, or is closed by something on the way. *)
Drop(c) ==
    /\ stream[c].at # "closed"
    /\ drops < MaxDrops /\ drops' = drops + 1
    /\ \E notice \in {TRUE, ~stream[c].met} : End(c, notice)
    /\ UNCHANGED <<serverVars, view, sending, wanted, resume, displaced, snap>>

(***************************************************************************)
(* The tab sends the message that starts the run.                          *)
(***************************************************************************)

StartRun ==
    /\ sending = "no" /\ status = "none" /\ granted
    /\ sending' = "asked" /\ status' = "live"
    /\ AppendEvent("progress")
    /\ UNCHANGED <<granted, stream, view, client, wanted, resume, displaced, snap, drops>>

(* The answer: the view starts afresh and its stream at cursor zero. *)
RunStarted(c) ==
    /\ sending = "asked" /\ stream[c].at = "closed"
    /\ sending' = "answered"
    /\ view' = [Blank EXCEPT !.run = TRUE]
    /\ displaced' = (displaced \/ Ahead(0))
    /\ client' = [client EXCEPT !.active = TRUE, !.terminal = FALSE, !.notice = FALSE]
    /\ Open(c, 0)
    /\ UNCHANGED <<serverVars, wanted, resume, snap, drops>>

(***************************************************************************)
(* Snapshots and reconnection.                                             *)
(***************************************************************************)

(* get_project_snapshot reads the run and its last sequence number first. *)
MutantSnapshotHead ==
    /\ snap.at = "none" /\ wanted # "no"
    /\ IF granted
       THEN /\ snap' = [at |-> "head", active |-> status = "live",
                        last |-> Len(log) + 1, upto |-> 0, resume |-> wanted = "reconnect"]
            /\ UNCHANGED client
       ELSE snap' = snap /\ client' = [client EXCEPT !.notice = TRUE]
    /\ wanted' = "no"
    /\ UNCHANGED <<serverVars, stream, view, sending, resume, displaced, drops>>

SnapshotHead ==
    /\ snap.at = "none" /\ wanted # "no"
    /\ IF granted
       THEN /\ snap' = [at |-> "head", active |-> status = "live",
                        last |-> Len(log), upto |-> 0, resume |-> wanted = "reconnect"]
            /\ UNCHANGED client
       ELSE snap' = snap /\ client' = [client EXCEPT !.notice = TRUE]
    /\ wanted' = "no"
    /\ UNCHANGED <<serverVars, stream, view, sending, resume, displaced, drops>>

(* ... and the events of the run it found then, by another read. *)
SnapshotEvents ==
    /\ snap.at = "head"
    /\ snap' = [snap EXCEPT !.at = "back", !.upto = IF snap.last = 0 THEN 0 ELSE Len(log)]
    /\ UNCHANGED <<serverVars, stream, clientVars, drops>>

(* The presentation after the first seq events have been reduced into v. *)
Reduced(v, seq) ==
    IF seq <= v.lastSeq THEN v
    ELSE [run |-> TRUE, shown |-> v.shown \cup (v.lastSeq + 1 .. seq), lastSeq |-> seq]

(* A snapshot of the live run in view is reduced into the view; any other *)
(* replaces the view.  The cursor moves to the snapshot's last seq.       *)
Merged(v) ==
    LET base == IF snap.active /\ v.run THEN v ELSE [Blank EXCEPT !.run = snap.active]
        next == Reduced(base, snap.upto)
    IN [next EXCEPT !.lastSeq = Max({@, snap.last})]

(* The snapshot reaches the tab.  The first one with a live run resumes its *)
(* stream, from the cursor of the view before the snapshot was merged.      *)
SnapshotArrives(c) ==
    /\ snap.at = "back"
    /\ snap' = NoSnap
    /\ view' = Merged(view)
    /\ displaced' = IF snap.active /\ view.run THEN displaced
                    ELSE Ahead(view'.lastSeq)
    /\ resume' = (resume \/ snap.resume)
    /\ IF snap.active /\ ~client.resumed
       THEN IF client.terminal
            THEN /\ client' = [client EXCEPT !.active = TRUE, !.resumed = TRUE]
                 /\ UNCHANGED stream
            ELSE /\ stream[c].at = "closed" /\ Open(c, view.lastSeq)
                 /\ client' = [client EXCEPT !.active = TRUE, !.resumed = TRUE,
                                             !.notice = FALSE]
       ELSE /\ client' = [client EXCEPT !.active = @ \/ snap.active]
            /\ UNCHANGED stream
    /\ UNCHANGED <<serverVars, sending, wanted, drops>>

(* The user presses the button beside the notice. *)
Reconnect ==
    /\ client.notice /\ client' = [client EXCEPT !.notice = FALSE]
    /\ wanted' = "reconnect"
    /\ UNCHANGED <<serverVars, stream, view, sending, resume, displaced, snap, drops>>

(* reconnectToStream: nothing for a run that is taken to have ended. *)
ResumeStream(c) ==
    /\ resume /\ resume' = FALSE
    /\ IF client.active /\ ~client.terminal
       THEN /\ stream[c].at = "closed" /\ Open(c, view.lastSeq)
            /\ client' = [client EXCEPT !.notice = FALSE]
       ELSE UNCHANGED <<stream, client>>
    /\ UNCHANGED <<serverVars, view, sending, wanted, displaced, snap, drops>>

Next ==
    \/ Publish \/ Revoke \/ StartRun
    \/ SnapshotHead \/ SnapshotEvents \/ Reconnect
    \/ \E c \in Conns :
          \/ StreamStatus(c) \/ StreamList(c) \/ StreamSend(c) \/ StreamRest(c)
          \/ Drop(c) \/ RunStarted(c) \/ SnapshotArrives(c) \/ ResumeStream(c)

Spec == Init /\ [][Next]_vars

(* The server serves its streams and snapshots, the browser handles what    *)
(* arrives, and the user presses reconnect whenever the notice offers it.   *)
Fairness ==
    /\ WF_vars(SnapshotHead) /\ WF_vars(SnapshotEvents) /\ WF_vars(Reconnect)
    /\ WF_vars(\E c \in Conns : RunStarted(c))
    /\ WF_vars(\E c \in Conns : SnapshotArrives(c))
    /\ WF_vars(\E c \in Conns : ResumeStream(c))
    /\ \A c \in Conns : WF_vars(StreamStatus(c) \/ StreamList(c) \/ StreamSend(c)
                                \/ StreamRest(c))

FairSpec == Spec /\ Fairness

-----------------------------------------------------------------------------

(* The type of the state. *)
StreamTypeOK ==
    /\ log \in Seq(Kinds) /\ Len(log) <= MaxEvents
    /\ status \in {"none", "live", "ended"}
    /\ \A c \in Conns :
          /\ stream[c].at \in {"closed", "status", "list", "send"}
          /\ stream[c].cursor \in 0 .. Len(log) /\ stream[c].to \in 0 .. Len(log)
    /\ view.shown \subseteq 1 .. Len(log) /\ view.lastSeq \in 0 .. Len(log)
    /\ sending \in {"no", "asked", "answered"}
    /\ snap.at \in {"none", "head", "back"}
    /\ wanted \in {"no", "plain", "reconnect"}
    /\ {granted, resume, displaced} \subseteq BOOLEAN

(* The view never skips an event: whatever order two streams, reconnects   *)
(* and snapshots bring them in, it shows exactly the events up to its      *)
(* cursor -- except after a late snapshot or a late answer of startRun has *)
(* set it back under a stream that is further ahead, until the next full   *)
(* snapshot replaces it.                                                   *)
ViewHasNoGap == displaced \/ view.shown = 1 .. view.lastSeq

(* The view and its streams stay within the log, and the view has no holes *)
(* (the reducer's guard, against snapshots, reconnects and two streams).   *)
ViewInvariant == StreamTypeOK /\ ViewHasNoGap

(* Each stream implements a subscription to the log: consecutive events    *)
(* from its cursor on, over page boundaries, status checks and reopenings. *)
Feed == INSTANCE EventFeed WITH
            Subscriptions <- Conns,
            published <- Len(log),
            opened <- {c \in Conns : stream[c].at # "closed"},
            handed <- [c \in Conns |-> stream[c].cursor]
FeedSpec == Feed!Spec

(* The number of the event that ended the run. *)
EndSeq == CHOOSE n \in 1 .. Len(log) : log[n] = "ended"

(* The server closes a stream of its own accord only when it has handed out *)
(* the end of the run, or a full page of a longer tail, or may not go on.   *)
StreamClosesAtEnd ==
    [][\A c \in Conns :
          stream[c].at # "closed" /\ stream'[c].at = "closed" /\ drops' = drops =>
             \/ ~granted
             \/ /\ status = "ended"
                /\ stream[c].cursor >= Min({EndSeq, Limit})]_vars

(* _stream_run_events is a faithful subscription and ends when it should.  *)
StreamIsFaithful == FeedSpec /\ StreamClosesAtEnd

(* The tab shows the run to its end. *)
CaughtUp == status = "ended" /\ 1 .. EndSeq \subseteq view.shown

(* A failed gate was taken for the end of the run, which the tab never saw. *)
EndMisread == status = "ended" /\ client.terminal /\ EndSeq \notin view.shown

(* Every run that ends is shown to its end, over lost connections, late     *)
(* snapshots and page limits, as long as the session may read it and the    *)
(* user presses the button -- unless a failed gate was taken for its end,   *)
(* or the view was set back under an open stream and no snapshot followed.  *)
ViewerCatchesUp ==
    (status = "ended" /\ client.active)
        ~> (CaughtUp \/ ~granted \/ EndMisread \/ displaced)

(* "The event stream closed. You can reconnect safely from the last event" *)
(* (agent-event-transport.ts:128): who reconnects sees the end of the run. *)
ReconnectIsSafe ==
    (status = "ended" /\ client.active) ~> (CaughtUp \/ ~granted)
=============================================================================
