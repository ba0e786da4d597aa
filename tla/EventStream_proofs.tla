------------------------- MODULE EventStream_proofs -------------------------
(***************************************************************************)
(* Proofs about the event stream of a run, for every number of streams,    *)
(* events, lost connections and every page size: each stream is a faithful *)
(* subscription to the log and closes only at the end, and the view of the *)
(* tab shows every event up to its cursor.                                 *)
(***************************************************************************)
EXTENDS EventStream, SequenceTheorems, TLAPS

-----------------------------------------------------------------------------
(* The inductive invariant, in parts.                                      *)

Flags == BOOLEAN
Steps == {"closed", "status", "list", "send"}
Streams == [at : Steps, cursor : Nat, to : Nat, ended : Flags, met : Flags]
Views == [run : Flags, shown : SUBSET Nat, lastSeq : Nat]
Snaps == [at : {"none", "head", "back"}, active : Flags, last : Nat, upto : Nat,
          resume : Flags]

StreamTypes ==
    /\ log \in Seq(Kinds) /\ Len(log) <= MaxEvents
    /\ status \in {"none", "live", "ended"}
    /\ stream \in [Conns -> Streams]
    /\ view \in Views /\ snap \in Snaps
    /\ sending \in {"no", "asked", "answered"}
    /\ wanted \in {"no", "plain", "reconnect"}
    /\ {granted, resume, displaced} \subseteq BOOLEAN

(* The log holds the run's events: none before it starts, and its end when *)
(* it has ended.                                                           *)
LogInv ==
    /\ status = "none" => log = <<>>
    /\ status = "ended" => \E n \in 1 .. Len(log) : log[n] = "ended"

(* What a stream may rely on.  The status was read before the page: if the *)
(* run had ended by then, its end is in the log, and the page reaches it   *)
(* unless the page is full.                                                *)
StreamOf(c) ==
    LET x == stream[c]
    IN  /\ x.cursor <= Len(log) /\ x.to <= Len(log)
        /\ x.at = "send" => x.cursor <= x.to
        /\ x.ended => status = "ended"
        /\ x.at = "send" /\ x.ended =>
              x.to >= Limit \/ \A n \in 1 .. Len(log) : log[n] = "ended" => n <= x.to

(* A snapshot's events are read after its head, so they reach at least as  *)
(* far as the sequence number that it names.                               *)
SnapInv ==
    /\ snap.last <= Len(log) /\ snap.upto <= Len(log)
    /\ snap.at = "back" => snap.last <= snap.upto

(* No stream is ahead of the view: the next event of each is either known  *)
(* or the one that follows.                                                *)
ViewInv ==
    /\ view.shown \subseteq 1 .. Len(log) /\ view.lastSeq <= Len(log)
    /\ ~view.run => view.lastSeq = 0
    /\ ~displaced => view.shown = 1 .. view.lastSeq /\ ~Ahead(view.lastSeq)

StreamInv == \A c \in Conns : StreamOf(c)

StreamIInv == StreamTypes /\ LogInv /\ StreamInv /\ SnapInv /\ ViewInv

-----------------------------------------------------------------------------
(* Operators.                                                              *)

LEMMA MaxOfTwo ==
    ASSUME NEW a \in Int, NEW b \in Int
    PROVE  Max({a, b}) = IF a >= b THEN a ELSE b
<1>1. Max({a, b}) \in {a, b} /\ \A y \in {a, b} : Max({a, b}) >= y
    <2>1. \E x \in {a, b} : \A y \in {a, b} : x >= y
        OBVIOUS
    <2> QED  BY <2>1 DEF Max
<1> QED  BY <1>1

LEMMA MinOfTwo ==
    ASSUME NEW a \in Int, NEW b \in Int
    PROVE  Min({a, b}) = IF a <= b THEN a ELSE b
<1>1. Min({a, b}) \in {a, b} /\ \A y \in {a, b} : Min({a, b}) <= y
    <2>1. \E x \in {a, b} : \A y \in {a, b} : x <= y
        OBVIOUS
    <2> QED  BY <2>1 DEF Min
<1> QED  BY <1>1

LEMMA LogGrows ==
    ASSUME log \in Seq(Kinds), NEW kind \in Kinds, AppendEvent(kind)
    PROVE  /\ log' \in Seq(Kinds) /\ Len(log) \in Nat /\ Len(log') = Len(log) + 1
           /\ \A n \in 1 .. Len(log) : log'[n] = log[n]
           /\ log'[Len(log) + 1] = kind
<1>1. <<kind>> \in Seq(Kinds) /\ Len(<<kind>>) = 1 /\ <<kind>>[1] = kind
    OBVIOUS
<1>2. Len(log) \in Nat
    OBVIOUS
<1> QED  BY <1>1, <1>2, ConcatProperties DEF AppendEvent

(* What becomes of a stream's record, field by field.                      *)
Listing(x, flag) == [x EXCEPT !.at = "list", !.ended = flag]
Paged(x, n) == [x EXCEPT !.at = "send", !.to = n]
Sent(x, n, flag) == [x EXCEPT !.cursor = n, !.met = flag]
Resting(x) == [x EXCEPT !.at = "status"]
Subscribed(n) == [Closed EXCEPT !.at = "status", !.cursor = n]

LEMMA ClosedIsAStream ==
    /\ Closed \in Streams
    /\ Closed.at = "closed" /\ Closed.cursor = 0 /\ Closed.to = 0 /\ Closed.ended = FALSE
BY DEF Closed, Streams, Steps, Flags

LEMMA StreamFields ==
    ASSUME NEW x \in Streams, NEW n \in Nat, NEW flag \in Flags
    PROVE  /\ LET y == Listing(x, flag)
              IN  /\ y \in Streams /\ y.at = "list" /\ y.cursor = x.cursor /\ y.to = x.to
                  /\ y.ended = flag
           /\ LET y == Paged(x, n)
              IN  /\ y \in Streams /\ y.at = "send" /\ y.cursor = x.cursor /\ y.to = n
                  /\ y.ended = x.ended
           /\ LET y == Sent(x, n, flag)
              IN  /\ y \in Streams /\ y.at = x.at /\ y.cursor = n /\ y.to = x.to
                  /\ y.ended = x.ended
           /\ LET y == Resting(x)
              IN  /\ y \in Streams /\ y.at = "status" /\ y.cursor = x.cursor /\ y.to = x.to
                  /\ y.ended = x.ended
<1>1. LET y == Listing(x, flag)
      IN  /\ y \in Streams /\ y.at = "list" /\ y.cursor = x.cursor /\ y.to = x.to
          /\ y.ended = flag
    BY DEF Streams, Steps, Listing
<1>2. LET y == Paged(x, n)
      IN  /\ y \in Streams /\ y.at = "send" /\ y.cursor = x.cursor /\ y.to = n
          /\ y.ended = x.ended
    BY DEF Streams, Steps, Paged
<1>3. LET y == Sent(x, n, flag)
      IN  /\ y \in Streams /\ y.at = x.at /\ y.cursor = n /\ y.to = x.to
          /\ y.ended = x.ended
    BY DEF Streams, Steps, Sent
<1>4. LET y == Resting(x)
      IN  /\ y \in Streams /\ y.at = "status" /\ y.cursor = x.cursor /\ y.to = x.to
          /\ y.ended = x.ended
    BY DEF Streams, Steps, Resting
<1> QED  BY <1>1, <1>2, <1>3, <1>4

LEMMA SubscribedIsAStream ==
    ASSUME NEW n \in Nat
    PROVE  /\ Subscribed(n) \in Streams
           /\ Subscribed(n).at = "status" /\ Subscribed(n).cursor = n
           /\ Subscribed(n).to = 0 /\ ~Subscribed(n).ended
<1>1. PICK x : x = Closed
    OBVIOUS
<1>2. x \in Streams /\ x.to = 0 /\ x.ended = FALSE
    BY <1>1, ClosedIsAStream
<1>3. LET y == [x EXCEPT !.at = "status", !.cursor = n]
      IN  y \in Streams /\ y.at = "status" /\ y.cursor = n /\ y.to = 0 /\ ~y.ended
    BY <1>2 DEF Streams, Steps
<1> QED  BY <1>1, <1>3 DEF Subscribed

-----------------------------------------------------------------------------
(* The steps.                                                              *)

LEMMA InitIsStreamIInv ==
    ASSUME Init
    PROVE  StreamIInv
<1>1. StreamTypes
    <2>1. stream \in [Conns -> Streams]
        BY ClosedIsAStream DEF Init
    <2>2. view \in Views /\ snap \in Snaps
        BY DEF Init, Blank, NoSnap, Views, Snaps, Flags
    <2>3. log \in Seq(Kinds) /\ Len(log) <= MaxEvents
        BY StreamAssumption DEF Init
    <2>4. {granted, resume, displaced} \subseteq BOOLEAN
        BY DEF Init
    <2>5. status = "none" /\ sending = "no" /\ wanted = "plain"
        BY DEF Init
    <2> QED  BY <2>1, <2>2, <2>3, <2>4, <2>5 DEF StreamTypes
<1>2. \A c \in Conns : stream[c] = Closed
    BY DEF Init
<1>3. LogInv /\ StreamInv
    BY <1>2, ClosedIsAStream DEF Init, LogInv, StreamInv, StreamOf
<1>4. SnapInv /\ ViewInv
    BY <1>2, ClosedIsAStream DEF Init, SnapInv, ViewInv, NoSnap, Blank, Ahead
<1> QED  BY <1>1, <1>3, <1>4 DEF StreamIInv

(* One stream's record changes, and nothing else that it relies on.        *)
StreamBecomes(c, y) == stream' = [stream EXCEPT ![c] = y]

RecordOK(y) ==
    /\ y.cursor <= Len(log) /\ y.to <= Len(log)
    /\ y.at = "send" => y.cursor <= y.to
    /\ y.ended => status = "ended"
    /\ y.at = "send" /\ y.ended =>
          y.to >= Limit \/ \A n \in 1 .. Len(log) : log[n] = "ended" => n <= y.to

LEMMA RecordStep ==
    ASSUME StreamIInv, NEW c \in Conns, NEW y \in Streams, StreamBecomes(c, y),
           RecordOK(y), UNCHANGED <<log, status>>
    PROVE  /\ stream' \in [Conns -> Streams] /\ stream'[c] = y
           /\ \A d \in Conns \ {c} : stream'[d] = stream[d]
           /\ StreamInv'
<1>1. /\ stream' \in [Conns -> Streams] /\ stream'[c] = y
      /\ \A d \in Conns \ {c} : stream'[d] = stream[d]
    BY DEF StreamBecomes, StreamIInv, StreamTypes
<1>2. StreamOf(c)'
    BY <1>1 DEF StreamOf, RecordOK
<1>3. ASSUME NEW d \in Conns \ {c}
      PROVE  StreamOf(d)'
    BY <1>1, <1>3 DEF StreamIInv, StreamInv, StreamOf
<1> QED  BY <1>1, <1>2, <1>3 DEF StreamInv

(* The record of a stream that stays where it is or stops.                 *)
LEMMA QuietRecordStep ==
    ASSUME StreamIInv, NEW c \in Conns, NEW y \in Streams, StreamBecomes(c, y),
           RecordOK(y), y.at # "closed" => y.cursor = stream[c].cursor /\ stream[c].at # "closed",
           UNCHANGED <<serverVars, view, sending, wanted, resume, displaced, snap>>
    PROVE  StreamIInv'
<1>1. UNCHANGED <<log, status, granted>>
    BY DEF serverVars
<1>2. /\ stream' \in [Conns -> Streams] /\ stream'[c] = y
      /\ \A d \in Conns \ {c} : stream'[d] = stream[d]
      /\ StreamInv'
    BY <1>1, RecordStep
<1>3. StreamTypes' /\ LogInv' /\ SnapInv'
    BY <1>1, <1>2 DEF StreamIInv, StreamTypes, LogInv, SnapInv
<1>4. \A d \in Conns :
          stream'[d].at # "closed" => stream[d].at # "closed" /\ stream'[d].cursor = stream[d].cursor
    BY <1>2
<1>5. ViewInv'
    BY <1>1, <1>4 DEF StreamIInv, ViewInv, Ahead
<1> QED  BY <1>2, <1>3, <1>5 DEF StreamIInv

LEMMA EndKeepsStreamIInv ==
    ASSUME StreamIInv, NEW c \in Conns, NEW notice, End(c, notice),
           UNCHANGED <<serverVars, view, sending, wanted, resume, displaced, snap>>
    PROVE  StreamIInv'
<1>1. StreamBecomes(c, Closed) /\ RecordOK(Closed)
    BY ClosedIsAStream DEF End, StreamBecomes, RecordOK, StreamIInv, StreamTypes
<1> QED  BY <1>1, ClosedIsAStream, QuietRecordStep

LEMMA StreamStatusKeepsStreamIInv ==
    ASSUME StreamIInv, NEW c \in Conns, StreamStatus(c)
    PROVE  StreamIInv'
<1>0. UNCHANGED <<serverVars, view, sending, wanted, resume, displaced, snap>>
    BY DEF StreamStatus
<1>1. CASE ~granted
    BY <1>0, <1>1, EndKeepsStreamIInv DEF StreamStatus
<1>2. CASE granted
    <2>1. PICK x : x = stream[c]
        OBVIOUS
    <2>2. PICK flag \in Flags : flag = (status = "ended")
        BY DEF Flags
    <2>3. x \in Streams /\ x.at = "status" /\ x.cursor <= Len(log) /\ x.to <= Len(log)
        BY <2>1 DEF StreamStatus, StreamIInv, StreamTypes, StreamInv, StreamOf
    <2>4. StreamBecomes(c, Listing(x, flag))
        BY <1>2, <2>1, <2>2 DEF StreamStatus, StreamBecomes, Listing, StreamIInv, StreamTypes
    <2>5. LET y == Listing(x, flag)
          IN  /\ y \in Streams /\ y.at = "list" /\ y.cursor = x.cursor /\ y.to = x.to
              /\ y.ended = flag
        BY <2>3, StreamFields
    <2>6. RecordOK(Listing(x, flag))
        BY <2>2, <2>3, <2>5 DEF RecordOK
    <2> QED  BY <1>0, <2>1, <2>3, <2>4, <2>5, <2>6, QuietRecordStep
<1> QED  BY <1>1, <1>2

LEMMA StreamListKeepsStreamIInv ==
    ASSUME StreamIInv, NEW c \in Conns, StreamList(c)
    PROVE  StreamIInv'
<1>0. UNCHANGED <<serverVars, view, sending, wanted, resume, displaced, snap>>
    BY DEF StreamList, clientVars
<1>1. PICK x, n : x = stream[c] /\ n = Min({Len(log), x.cursor + Limit})
    OBVIOUS
<1>2. /\ x \in Streams /\ x.at = "list" /\ x.cursor \in Nat /\ x.cursor <= Len(log)
      /\ x.ended => status = "ended"
      /\ Len(log) \in Nat /\ Limit \in Nat \ {0}
    BY <1>1, StreamAssumption
    DEF StreamList, StreamIInv, StreamTypes, Streams, StreamInv, StreamOf
<1>3. n = IF Len(log) <= x.cursor + Limit THEN Len(log) ELSE x.cursor + Limit
    BY <1>1, <1>2, MinOfTwo
<1>4. n \in Nat /\ x.cursor <= n /\ n <= Len(log) /\ (n >= Limit \/ n = Len(log))
    BY <1>2, <1>3
<1>5. StreamBecomes(c, Paged(x, n))
    BY <1>1 DEF StreamList, StreamBecomes, Paged, StreamIInv, StreamTypes
<1>6. LET y == Paged(x, n)
      IN  /\ y \in Streams /\ y.at = "send" /\ y.cursor = x.cursor /\ y.to = n
          /\ y.ended = x.ended
    <2>1. FALSE \in Flags
        BY DEF Flags
    <2> QED  BY <2>1, <1>2, <1>4, StreamFields
<1>7. RecordOK(Paged(x, n))
    BY <1>2, <1>4, <1>6 DEF RecordOK
<1> QED  BY <1>0, <1>1, <1>2, <1>5, <1>6, <1>7, QuietRecordStep

LEMMA StreamRestKeepsStreamIInv ==
    ASSUME StreamIInv, NEW c \in Conns, StreamRest(c)
    PROVE  StreamIInv'
<1>0. UNCHANGED <<serverVars, view, sending, wanted, resume, displaced, snap>>
    BY DEF StreamRest
<1>1. CASE stream[c].ended
    BY <1>0, <1>1, EndKeepsStreamIInv DEF StreamRest
<1>2. CASE ~stream[c].ended
    <2>1. PICK x : x = stream[c]
        OBVIOUS
    <2>2. /\ x \in Streams /\ x.at = "send" /\ x.cursor <= Len(log) /\ x.to <= Len(log)
          /\ ~x.ended
        BY <1>2, <2>1 DEF StreamRest, StreamIInv, StreamTypes, StreamInv, StreamOf
    <2>3. StreamBecomes(c, Resting(x))
        BY <1>2, <2>1 DEF StreamRest, StreamBecomes, Resting, StreamIInv, StreamTypes
    <2>4. LET y == Resting(x)
          IN  /\ y \in Streams /\ y.at = "status" /\ y.cursor = x.cursor /\ y.to = x.to
              /\ y.ended = x.ended
        BY <2>2, StreamFields DEF Flags
    <2>5. RecordOK(Resting(x))
        BY <2>2, <2>4 DEF RecordOK
    <2> QED  BY <1>0, <2>1, <2>2, <2>3, <2>4, <2>5, QuietRecordStep
<1> QED  BY <1>1, <1>2

LEMMA DropKeepsStreamIInv ==
    ASSUME StreamIInv, NEW c \in Conns, Drop(c)
    PROVE  StreamIInv'
BY EndKeepsStreamIInv DEF Drop

(* The event that a stream hands out is known to the view or the next one, *)
(* unless the view was set back.                                           *)
LEMMA StreamSendKeepsStreamIInv ==
    ASSUME StreamIInv, NEW c \in Conns, StreamSend(c)
    PROVE  StreamIInv'
<1>1. PICK x, seq : x = stream[c] /\ seq = x.cursor + 1
    OBVIOUS
<1>2. /\ x \in Streams /\ x.at = "send" /\ x.cursor \in Nat /\ x.to \in Nat
      /\ x.cursor < x.to /\ StreamOf(c) /\ Len(log) \in Nat
    BY <1>1 DEF StreamSend, StreamIInv, StreamTypes, Streams, StreamInv
<1>3. seq \in 1 .. Len(log) /\ seq <= x.to
    BY <1>1, <1>2 DEF StreamOf
<1>4. PICK flag \in Flags : flag = (x.met \/ IsTerminalEvent(log[seq]))
    BY DEF Flags
<1>5. StreamBecomes(c, Sent(x, seq, flag))
    BY <1>1, <1>4 DEF StreamSend, StreamBecomes, Sent, StreamIInv, StreamTypes
<1>6. LET y == Sent(x, seq, flag)
      IN  /\ y \in Streams /\ y.at = "send" /\ y.cursor = seq /\ y.to = x.to
          /\ y.ended = x.ended
    BY <1>2, <1>3, StreamFields
<1>7. /\ UNCHANGED <<log, status, granted, sending, resume, displaced, snap>>
      /\ view' = ReduceDomainEvent(view, seq)
      /\ wanted' = "plain" \/ wanted' = wanted
    BY <1>1 DEF StreamSend, serverVars
<1>8. RecordOK(Sent(x, seq, flag))
    BY <1>1, <1>2, <1>3, <1>6 DEF RecordOK, StreamOf
<1>9. /\ stream' \in [Conns -> Streams] /\ stream'[c] = Sent(x, seq, flag)
      /\ \A d \in Conns \ {c} : stream'[d] = stream[d]
      /\ StreamInv'
    BY <1>5, <1>6, <1>7, <1>8, RecordStep
<1>10. view \in Views /\ ViewInv
    BY DEF StreamIInv, StreamTypes
<1>11. /\ view' \in Views /\ view'.lastSeq <= Len(log) /\ view'.shown \subseteq 1 .. Len(log)
       /\ view'.lastSeq >= view.lastSeq /\ view'.lastSeq >= seq
       /\ ~view'.run => view'.lastSeq = 0
       /\ ~displaced => view'.shown = 1 .. view'.lastSeq
    <2>1. CASE seq <= view.lastSeq
        <3>1. view' = view
            BY <2>1, <1>7 DEF ReduceDomainEvent
        <3> QED  BY <3>1, <2>1, <1>3, <1>10 DEF ViewInv, Views
    <2>2. CASE ~(seq <= view.lastSeq)
        <3>1. view' = [run |-> TRUE, shown |-> view.shown \cup {seq}, lastSeq |-> seq]
            BY <2>2, <1>7 DEF ReduceDomainEvent
        <3>2. view'.run /\ view'.shown = view.shown \cup {seq} /\ view'.lastSeq = seq
            BY <3>1
        <3>3. view' \in Views
            BY <3>1, <1>3, <1>10 DEF Views, Flags
        <3>4. ASSUME ~displaced
              PROVE  view'.shown = 1 .. view'.lastSeq
            <4>1. view.shown = 1 .. view.lastSeq /\ ~(x.cursor > view.lastSeq)
                BY <3>4, <1>1, <1>2, <1>10 DEF ViewInv, Ahead
            <4>2. view.lastSeq \in Nat
                BY <1>10 DEF Views
            <4>3. seq = view.lastSeq + 1
                BY <4>1, <4>2, <2>2, <1>1, <1>2
            <4> QED  BY <4>1, <4>2, <4>3, <3>2
        <3>5. view.lastSeq \in Nat
            BY <1>10 DEF Views
        <3> QED  BY <3>2, <3>3, <3>4, <3>5, <2>2, <1>3, <1>10 DEF ViewInv
    <2> QED  BY <2>1, <2>2
<1>12. StreamTypes' /\ LogInv' /\ SnapInv'
    BY <1>7, <1>9, <1>11 DEF StreamIInv, StreamTypes, LogInv, SnapInv
<1>13. ASSUME ~displaced
       PROVE  (~Ahead(view.lastSeq))'
    <2>1. ASSUME NEW d \in Conns, stream'[d].at # "closed"
          PROVE  ~(stream'[d].cursor > view'.lastSeq)
        <3>1. CASE d = c
            BY <3>1, <1>3, <1>6, <1>9, <1>11 DEF Views
        <3>2. CASE d # c
            <4>1. ~(stream[d].cursor > view.lastSeq) /\ stream'[d] = stream[d]
                BY <3>2, <2>1, <1>9, <1>10, <1>13 DEF ViewInv, Ahead
            <4>2. stream[d].cursor \in Nat /\ view.lastSeq \in Nat /\ view'.lastSeq \in Nat
                BY <1>10, <1>11 DEF StreamIInv, StreamTypes, Streams, Views
            <4> QED  BY <4>1, <4>2, <1>11
        <3> QED  BY <3>1, <3>2
    <2> QED  BY <2>1 DEF Ahead
<1>14. ViewInv'
    BY <1>7, <1>11, <1>13 DEF ViewInv, Ahead
<1> QED  BY <1>9, <1>12, <1>14 DEF StreamIInv

(* The log grows under the streams, the snapshot and the view.             *)
LEMMA GrowthKeepsStreamIInv ==
    ASSUME StreamIInv, NEW kind \in Kinds, AppendEvent(kind), Len(log) < MaxEvents,
           status' \in {"live", "ended"}, status = "ended" => status' = "ended",
           status' = "ended" => status = "ended" \/ kind = "ended",
           status = "ended" => kind # "ended",
           sending' \in {"no", "asked", "answered"},
           UNCHANGED <<granted, stream, view, wanted, resume, displaced, snap>>
    PROVE  StreamIInv'
<1>1. /\ log' \in Seq(Kinds) /\ Len(log) \in Nat /\ Len(log') = Len(log) + 1
      /\ \A n \in 1 .. Len(log) : log'[n] = log[n]
      /\ log'[Len(log) + 1] = kind
    BY LogGrows DEF StreamIInv, StreamTypes
<1>2. Len(log') <= MaxEvents
    BY <1>1, StreamAssumption
<1>3. StreamTypes'
    BY <1>1, <1>2 DEF StreamIInv, StreamTypes
<1>4. LogInv'
    BY <1>1 DEF StreamIInv, LogInv
<1>5. StreamInv'
    <2>1. ASSUME NEW c \in Conns
          PROVE  StreamOf(c)'
        <3>1. StreamOf(c) /\ stream[c] \in Streams
            BY DEF StreamIInv, StreamInv, StreamTypes
        <3>2. stream[c].cursor \in Nat /\ stream[c].to \in Nat /\ stream'[c] = stream[c]
            BY <3>1 DEF Streams
        <3>3. ASSUME stream[c].at = "send", stream[c].ended, ~(stream[c].to >= Limit),
                     NEW n \in 1 .. Len(log'), log'[n] = "ended"
              PROVE  n <= stream[c].to
            <4>1. kind # "ended"
                BY <3>1, <3>3 DEF StreamOf
            <4>2. n \in 1 .. Len(log)
                BY <4>1, <3>3, <1>1
            <4> QED  BY <4>2, <3>1, <3>3, <1>1 DEF StreamOf
        <3>4. /\ stream[c].cursor <= Len(log') /\ stream[c].to <= Len(log')
              /\ stream[c].ended => status' = "ended"
            BY <3>1, <3>2, <1>1 DEF StreamOf
        <3> QED  BY <3>1, <3>2, <3>3, <3>4 DEF StreamOf
    <2> QED  BY <2>1 DEF StreamInv
<1>6. SnapInv'
    BY <1>1 DEF StreamIInv, SnapInv, StreamTypes, Snaps
<1>7. ViewInv'
    BY <1>1 DEF StreamIInv, ViewInv, StreamTypes, Views, Ahead
<1> QED  BY <1>3, <1>4, <1>5, <1>6, <1>7 DEF StreamIInv

LEMMA PublishKeepsStreamIInv ==
    ASSUME StreamIInv, Publish \/ StartRun
    PROVE  StreamIInv'
<1>1. CASE Publish
    <2>1. PICK kind \in Kinds :
              /\ status = "ended" => kind = "progress"
              /\ AppendEvent(kind)
              /\ status' = IF kind = "ended" THEN "ended" ELSE status
        BY <1>1 DEF Publish
    <2>2. /\ status # "none" /\ Len(log) < MaxEvents
          /\ UNCHANGED <<granted, stream, view, sending, wanted, resume, displaced, snap>>
        BY <1>1 DEF Publish, clientVars
    <2>3. status \in {"live", "ended"} /\ sending \in {"no", "asked", "answered"}
        BY <2>2 DEF StreamIInv, StreamTypes
    <2> QED  BY <2>1, <2>2, <2>3, GrowthKeepsStreamIInv
<1>2. CASE StartRun
    <2>1. /\ log = <<>> /\ AppendEvent("progress") /\ status = "none" /\ status' = "live"
          /\ sending' = "asked"
          /\ UNCHANGED <<granted, stream, view, wanted, resume, displaced, snap>>
        BY <1>2 DEF StartRun, StreamIInv, LogInv
    <2>2. Len(log) < MaxEvents /\ "progress" \in Kinds
        BY <2>1, StreamAssumption DEF Kinds
    <2> QED  BY <2>1, <2>2, GrowthKeepsStreamIInv
<1> QED  BY <1>1, <1>2

LEMMA QuietKeepsStreamIInv ==
    ASSUME StreamIInv, UNCHANGED <<log, status, stream, view, sending, displaced>>,
           snap' \in Snaps, SnapInv', granted' \in BOOLEAN, resume' \in BOOLEAN,
           wanted' \in {"no", "plain", "reconnect"}
    PROVE  StreamIInv'
<1>1. StreamTypes'
    BY DEF StreamIInv, StreamTypes
<1>2. LogInv' /\ StreamInv' /\ ViewInv'
    BY DEF StreamIInv, LogInv, StreamInv, StreamOf, ViewInv, Ahead
<1> QED  BY <1>1, <1>2 DEF StreamIInv

LEMMA RevokeKeepsStreamIInv ==
    ASSUME StreamIInv, Revoke \/ Reconnect
    PROVE  StreamIInv'
<1>1. UNCHANGED <<log, status, stream, view, sending, displaced, snap, resume>>
    BY DEF Revoke, Reconnect, clientVars, serverVars
<1>2. granted' \in BOOLEAN /\ wanted' \in {"no", "plain", "reconnect"}
    BY DEF Revoke, Reconnect, clientVars, serverVars, StreamIInv, StreamTypes
<1>3. snap' \in Snaps /\ SnapInv' /\ resume' \in BOOLEAN
    BY <1>1 DEF StreamIInv, StreamTypes, SnapInv
<1> QED  BY <1>1, <1>2, <1>3, QuietKeepsStreamIInv

ReadBack(x, n) == [x EXCEPT !.at = "back", !.upto = n]

LEMMA ReadBackIsASnap ==
    ASSUME NEW x \in Snaps, NEW n \in Nat
    PROVE  /\ ReadBack(x, n) \in Snaps /\ ReadBack(x, n).at = "back"
           /\ ReadBack(x, n).last = x.last /\ ReadBack(x, n).upto = n
BY DEF Snaps, ReadBack

LEMMA SnapshotKeepsStreamIInv ==
    ASSUME StreamIInv, SnapshotHead \/ SnapshotEvents
    PROVE  StreamIInv'
<1>0. Len(log) \in Nat /\ snap \in Snaps /\ SnapInv
    BY DEF StreamIInv, StreamTypes
<1>1. CASE SnapshotHead
    <2>1. UNCHANGED <<log, status, granted, stream, view, sending, resume, displaced>>
        BY <1>1 DEF SnapshotHead, serverVars
    <2>2. CASE granted
        <3>1. PICK active \in Flags, again \in Flags :
                  snap' = [at |-> "head", active |-> active, last |-> Len(log), upto |-> 0,
                           resume |-> again]
            <4>1. (status = "live") \in Flags /\ (wanted = "reconnect") \in Flags
                BY DEF Flags
            <4> QED  BY <4>1, <2>2, <1>1 DEF SnapshotHead
        <3>2. snap' \in Snaps /\ snap'.at = "head" /\ snap'.last = Len(log) /\ snap'.upto = 0
            BY <3>1, <1>0 DEF Snaps
        <3>3. SnapInv'
            BY <3>2, <2>1, <1>0 DEF SnapInv
        <3> QED  BY <3>2, <3>3, <2>1, <1>1, QuietKeepsStreamIInv
            DEF SnapshotHead, StreamIInv, StreamTypes
    <2>3. CASE ~granted
        <3>1. snap' = snap
            BY <2>3, <1>1 DEF SnapshotHead
        <3>2. SnapInv'
            BY <3>1, <2>1, <1>0 DEF SnapInv
        <3> QED  BY <3>1, <3>2, <2>1, <1>0, <1>1, QuietKeepsStreamIInv
            DEF SnapshotHead, StreamIInv, StreamTypes
    <2> QED  BY <2>2, <2>3
<1>2. CASE SnapshotEvents
    <2>1. UNCHANGED <<log, status, granted, stream, view, sending, wanted, resume, displaced>>
        BY <1>2 DEF SnapshotEvents, serverVars, clientVars
    <2>2. PICK n \in Nat : n = IF snap.last = 0 THEN 0 ELSE Len(log)
        BY <1>0
    <2>3. snap' = ReadBack(snap, n)
        BY <2>2, <1>2 DEF SnapshotEvents, ReadBack
    <2>4. snap' \in Snaps /\ snap'.last = snap.last /\ snap'.upto = n /\ snap.last \in Nat
        BY <2>2, <2>3, <1>0, ReadBackIsASnap DEF Snaps
    <2>5. SnapInv'
        BY <2>1, <2>2, <2>4, <1>0 DEF SnapInv
    <2> QED  BY <2>1, <2>4, <2>5, QuietKeepsStreamIInv DEF StreamIInv, StreamTypes
<1> QED  BY <1>1, <1>2

LEMMA OpenStep ==
    ASSUME StreamIInv, NEW c \in Conns, NEW n \in 0 .. Len(log), Open(c, n),
           UNCHANGED <<log, status>>
    PROVE  /\ stream' \in [Conns -> Streams] /\ StreamInv'
           /\ stream'[c].at = "status" /\ stream'[c].cursor = n
           /\ \A d \in Conns \ {c} : stream'[d] = stream[d]
<1>1. n \in Nat /\ Len(log) \in Nat
    BY DEF StreamIInv, StreamTypes
<1>2. PICK y : y = Subscribed(n)
    OBVIOUS
<1>3. y \in Streams /\ y.at = "status" /\ y.cursor = n /\ y.to = 0 /\ ~y.ended
    BY <1>1, <1>2, SubscribedIsAStream
<1>4. StreamBecomes(c, y)
    BY <1>2 DEF Open, StreamBecomes, Subscribed
<1>5. RecordOK(y)
    BY <1>1, <1>3 DEF RecordOK
<1> QED  BY <1>3, <1>4, <1>5, RecordStep

(* The first seq events, reduced into a view that has no hole, leave none. *)
LEMMA ReducedView ==
    ASSUME NEW v \in Views, NEW seq \in Nat
    PROVE  LET next == Reduced(v, seq)
           IN  /\ next \in Views /\ next.lastSeq >= v.lastSeq /\ next.lastSeq >= seq
               /\ next.lastSeq \in {v.lastSeq, seq}
               /\ next.shown \subseteq v.shown \cup 1 .. seq
               /\ v.run \/ seq > v.lastSeq => next.run
               /\ v.shown = 1 .. v.lastSeq => next.shown = 1 .. next.lastSeq
<1>1. v.lastSeq \in Nat /\ v.shown \in SUBSET Nat
    BY DEF Views
<1>2. CASE seq <= v.lastSeq
    <2>1. Reduced(v, seq) = v
        BY <1>2 DEF Reduced
    <2> QED  BY <2>1, <1>1, <1>2
<1>3. CASE ~(seq <= v.lastSeq)
    <2> DEFINE next == Reduced(v, seq)
               shown == v.shown \cup (v.lastSeq + 1 .. seq)
    <2>1. next = [run |-> TRUE, shown |-> shown, lastSeq |-> seq]
        BY <1>3 DEF Reduced
    <2>2. shown \in SUBSET Nat /\ shown \subseteq v.shown \cup 1 .. seq
        BY <1>1
    <2>3. v.shown = 1 .. v.lastSeq => shown = 1 .. seq
        BY <1>1, <1>3
    <2> HIDE DEF shown, next
    <2>4. next.run /\ next.shown = shown /\ next.lastSeq = seq
        BY <2>1
    <2>5. next \in Views
        <3>1. TRUE \in Flags
            BY DEF Flags
        <3> QED  BY <3>1, <2>1, <2>2 DEF Views
    <2>6. next.lastSeq >= v.lastSeq /\ next.lastSeq >= seq
        BY <2>4, <1>1, <1>3
    <2>7. /\ next.shown \subseteq v.shown \cup 1 .. seq
          /\ v.shown = 1 .. v.lastSeq => next.shown = 1 .. next.lastSeq
        BY <2>2, <2>3, <2>4
    <2> QED  BY <2>4, <2>5, <2>6, <2>7 DEF next
<1> QED  BY <1>2, <1>3

LEMMA BlankView ==
    ASSUME NEW flag \in Flags
    PROVE  LET v == [Blank EXCEPT !.run = flag]
           IN  v \in Views /\ v.run = flag /\ v.shown = {} /\ v.lastSeq = 0
<1>1. PICK b : b = Blank
    OBVIOUS
<1>2. b \in Views /\ b.shown = {} /\ b.lastSeq = 0
    <2>1. FALSE \in Flags
        BY DEF Flags
    <2> QED  BY <1>1, <2>1 DEF Blank, Views
<1>3. LET v == [b EXCEPT !.run = flag]
      IN  v \in Views /\ v.run = flag /\ v.shown = {} /\ v.lastSeq = 0
    BY <1>2 DEF Views
<1> QED  BY <1>1, <1>3

(* The cursor that a snapshot names adds nothing to its events.            *)
LEMMA MovedView ==
    ASSUME NEW v \in Views, NEW n \in Nat, n <= v.lastSeq
    PROVE  [v EXCEPT !.lastSeq = Max({@, n})] = v
<1>1. v.lastSeq \in Nat
    BY DEF Views
<1>2. Max({v.lastSeq, n}) = v.lastSeq
    BY <1>1, MaxOfTwo
<1>3. [v EXCEPT !.lastSeq = v.lastSeq] = v
    BY DEF Views
<1> QED  BY <1>2, <1>3

MergeBase == IF snap.active /\ view.run THEN view ELSE [Blank EXCEPT !.run = snap.active]

LEMMA MergedView ==
    ASSUME StreamIInv, snap.at = "back"
    PROVE  LET m == Merged(view)
           IN  /\ m \in Views /\ m.shown \subseteq 1 .. Len(log) /\ m.lastSeq <= Len(log)
               /\ ~m.run => m.lastSeq = 0
               /\ snap.active /\ view.run =>
                     /\ m.lastSeq >= view.lastSeq
                     /\ view.shown = 1 .. view.lastSeq => m.shown = 1 .. m.lastSeq
               /\ ~(snap.active /\ view.run) => m.shown = 1 .. m.lastSeq
<1> DEFINE base == MergeBase
           next == Reduced(base, snap.upto)
<1>1. /\ view \in Views /\ snap \in Snaps /\ snap.active \in Flags
      /\ snap.upto \in Nat /\ snap.last \in Nat /\ snap.last <= snap.upto
      /\ snap.upto <= Len(log) /\ Len(log) \in Nat /\ ViewInv
    BY DEF StreamIInv, StreamTypes, Snaps, SnapInv
<1>2. /\ base \in Views
      /\ base.shown \subseteq 1 .. Len(log) /\ base.lastSeq <= Len(log)
      /\ ~base.run => base.lastSeq = 0
      /\ snap.active /\ view.run => base = view
      /\ ~(snap.active /\ view.run) => base.shown = {} /\ base.lastSeq = 0
    <2>1. CASE snap.active /\ view.run
        BY <2>1, <1>1 DEF MergeBase, ViewInv
    <2>2. CASE ~(snap.active /\ view.run)
        <3>1. base = [Blank EXCEPT !.run = snap.active]
            BY <2>2 DEF MergeBase
        <3>2. base \in Views /\ base.shown = {} /\ base.lastSeq = 0
            BY <3>1, <1>1, BlankView
        <3> QED  BY <3>2, <2>2, <1>1
    <2> QED  BY <2>1, <2>2
<1> HIDE DEF base
<1>3. /\ next \in Views /\ next.lastSeq >= base.lastSeq /\ next.lastSeq >= snap.upto
      /\ next.lastSeq \in {base.lastSeq, snap.upto}
      /\ next.shown \subseteq base.shown \cup 1 .. snap.upto
      /\ base.run \/ snap.upto > base.lastSeq => next.run
      /\ base.shown = 1 .. base.lastSeq => next.shown = 1 .. next.lastSeq
    BY <1>1, <1>2, ReducedView
<1> HIDE DEF next
<1>4. Merged(view) = next
    <2>1. Merged(view) = [next EXCEPT !.lastSeq = Max({@, snap.last})]
        BY DEF Merged, next, base, MergeBase
    <2>2. next.lastSeq \in Nat /\ snap.last <= next.lastSeq
        BY <1>1, <1>3 DEF Views
    <2> QED  BY <2>1, <2>2, <1>1, <1>3, MovedView
<1>5. base.lastSeq \in Nat /\ next.lastSeq \in Nat
    BY <1>2, <1>3 DEF Views
<1>6. next.shown \subseteq 1 .. Len(log) /\ next.lastSeq <= Len(log)
    BY <1>1, <1>2, <1>3, <1>5
<1>7. ~next.run => next.lastSeq = 0
    BY <1>1, <1>2, <1>3, <1>5
<1>8. snap.active /\ view.run =>
          /\ next.lastSeq >= view.lastSeq
          /\ view.shown = 1 .. view.lastSeq => next.shown = 1 .. next.lastSeq
    BY <1>2, <1>3
<1>9. ~(snap.active /\ view.run) => next.shown = 1 .. next.lastSeq
    <2>1. 1 .. 0 = {}
        OBVIOUS
    <2> QED  BY <2>1, <1>2, <1>3
<1> QED  BY <1>3, <1>4, <1>6, <1>7, <1>8, <1>9

(* A step that changes the view: the streams that it opens start behind it.*)
LEMMA ViewStepKeepsStreamIInv ==
    ASSUME StreamIInv, UNCHANGED <<log, status, granted>>,
           stream' \in [Conns -> Streams], StreamInv', view' \in Views, ViewInv',
           snap' = snap \/ snap' = NoSnap,
           sending' \in {"no", "asked", "answered"},
           wanted' = wanted, resume' \in BOOLEAN, displaced' \in BOOLEAN
    PROVE  StreamIInv'
<1>1. snap' \in Snaps /\ SnapInv'
    <2>1. CASE snap' = snap
        BY <2>1 DEF StreamIInv, StreamTypes, SnapInv
    <2>2. CASE snap' = NoSnap
        <3>1. NoSnap \in Snaps /\ NoSnap.last = 0 /\ NoSnap.upto = 0 /\ Len(log) \in Nat
            BY DEF NoSnap, Snaps, Flags, StreamIInv, StreamTypes
        <3> QED  BY <2>2, <3>1 DEF SnapInv
    <2> QED  BY <2>1, <2>2
<1>2. StreamTypes' /\ LogInv'
    BY <1>1 DEF StreamIInv, StreamTypes, LogInv
<1> QED  BY <1>1, <1>2 DEF StreamIInv

LEMMA ResumeStreamKeepsStreamIInv ==
    ASSUME StreamIInv, NEW c \in Conns, ResumeStream(c)
    PROVE  StreamIInv'
<1>1. /\ UNCHANGED <<log, status, granted, view, sending, wanted, displaced, snap>>
      /\ resume' \in BOOLEAN
    BY DEF ResumeStream, serverVars
<1>2. view \in Views /\ ViewInv /\ view.lastSeq \in 0 .. Len(log)
    BY DEF StreamIInv, StreamTypes, Views, ViewInv
<1>3. CASE stream' = stream
    <2>1. StreamInv' /\ ViewInv' /\ stream' \in [Conns -> Streams]
        BY <1>1, <1>3 DEF StreamIInv, StreamTypes, StreamInv, StreamOf, ViewInv, Ahead
    <2> QED  BY <2>1, <1>1, <1>2, ViewStepKeepsStreamIInv DEF StreamIInv, StreamTypes
<1>4. CASE Open(c, view.lastSeq)
    <2>1. /\ stream' \in [Conns -> Streams] /\ StreamInv'
          /\ stream'[c].at = "status" /\ stream'[c].cursor = view.lastSeq
          /\ \A d \in Conns \ {c} : stream'[d] = stream[d]
        BY <1>1, <1>2, <1>4, OpenStep
    <2>2. ViewInv'
        BY <2>1, <1>1, <1>2 DEF ViewInv, Ahead
    <2> QED  BY <2>1, <2>2, <1>1, <1>2, ViewStepKeepsStreamIInv DEF StreamIInv, StreamTypes
<1> QED  BY <1>3, <1>4 DEF ResumeStream

LEMMA RunStartedKeepsStreamIInv ==
    ASSUME StreamIInv, NEW c \in Conns, RunStarted(c)
    PROVE  StreamIInv'
<1>1. /\ UNCHANGED <<log, status, granted, wanted, resume, snap>>
      /\ sending' = "answered" /\ Open(c, 0)
      /\ displaced' = (displaced \/ Ahead(0))
    BY DEF RunStarted, serverVars
<1>2. Len(log) \in Nat /\ displaced \in BOOLEAN /\ resume \in BOOLEAN
    BY DEF StreamIInv, StreamTypes
<1>3. view' \in Views /\ view'.run /\ view'.shown = {} /\ view'.lastSeq = 0
    <2>1. view' = [Blank EXCEPT !.run = TRUE] /\ TRUE \in Flags
        BY DEF RunStarted, Flags
    <2>2. PICK flag \in Flags : flag = TRUE
        BY <2>1
    <2> QED  BY <2>1, <2>2, BlankView
<1>4. /\ stream' \in [Conns -> Streams] /\ StreamInv'
      /\ stream'[c].at = "status" /\ stream'[c].cursor = 0
      /\ \A d \in Conns \ {c} : stream'[d] = stream[d]
    BY <1>1, <1>2, OpenStep
<1>5. ~displaced' => \A d \in Conns : stream'[d].at = "closed" \/ ~(stream'[d].cursor > 0)
    <2>1. ~displaced' => ~Ahead(0)
        BY <1>1, Zenon
    <2> QED  BY <2>1, <1>1, <1>4 DEF Ahead
<1>6. ViewInv'
    <2>1. 1 .. 0 = {}
        OBVIOUS
    <2> QED  BY <2>1, <1>1, <1>2, <1>3, <1>5 DEF ViewInv, Ahead
<1>7. displaced' \in BOOLEAN
    BY <1>1, <1>2 DEF Ahead
<1> QED  BY <1>1, <1>2, <1>3, <1>4, <1>6, <1>7, ViewStepKeepsStreamIInv

(* A snapshot of the run in view moves the view forward, any other replaces*)
(* it.  A stream that it resumes starts from the cursor of the view before:*)
(* that is behind the view merged, or the start if there was no run in it. *)
LEMMA SnapshotArrivesKeepsStreamIInv ==
    ASSUME StreamIInv, NEW c \in Conns, SnapshotArrives(c)
    PROVE  StreamIInv'
<1>1. /\ UNCHANGED <<log, status, granted, sending, wanted>>
      /\ snap' = NoSnap /\ snap.at = "back" /\ view' = Merged(view)
      /\ stream' = stream \/ (snap.active /\ Open(c, view.lastSeq))
    BY DEF SnapshotArrives, serverVars
<1>2. /\ view \in Views /\ ViewInv /\ view.lastSeq \in 0 .. Len(log)
      /\ displaced \in BOOLEAN /\ resume \in BOOLEAN /\ snap.resume \in BOOLEAN
    BY DEF StreamIInv, StreamTypes, Views, Snaps, Flags, ViewInv
<1>3. /\ view' \in Views /\ view'.shown \subseteq 1 .. Len(log) /\ view'.lastSeq <= Len(log)
      /\ ~view'.run => view'.lastSeq = 0
      /\ snap.active /\ view.run =>
            /\ view'.lastSeq >= view.lastSeq
            /\ view.shown = 1 .. view.lastSeq => view'.shown = 1 .. view'.lastSeq
      /\ ~(snap.active /\ view.run) => view'.shown = 1 .. view'.lastSeq
      /\ view'.lastSeq \in Nat
    <2>1. view' \in Views
        BY <1>1, MergedView
    <2> QED  BY <2>1, <1>1, MergedView DEF Views
<1>4. /\ stream' \in [Conns -> Streams] /\ StreamInv'
      /\ \A d \in Conns :
            \/ stream'[d] = stream[d]
            \/ snap.active /\ stream'[d].cursor = view.lastSeq
    <2>1. CASE stream' = stream
        BY <2>1, <1>1 DEF StreamIInv, StreamTypes, StreamInv, StreamOf
    <2>2. CASE snap.active /\ Open(c, view.lastSeq)
        BY <2>2, <1>1, <1>2, OpenStep
    <2> QED  BY <2>1, <2>2, <1>1
<1>5. /\ resume' \in BOOLEAN
      /\ snap.active /\ view.run => displaced' = displaced
      /\ ~(snap.active /\ view.run) => displaced' = (\E d \in Conns :
            stream[d].at # "closed" /\ stream[d].cursor > view'.lastSeq)
    BY <1>2 DEF SnapshotArrives, Ahead
<1>6. displaced' \in BOOLEAN
    BY <1>2, <1>5
<1>7. ~displaced' => /\ view'.shown = 1 .. view'.lastSeq
                     /\ \A d \in Conns : stream'[d].at = "closed"
                                         \/ ~(stream'[d].cursor > view'.lastSeq)
    <2>1. CASE snap.active /\ view.run
        <3>1. ~displaced' => ~displaced
            BY <2>1, <1>5
        <3>2. ASSUME ~displaced, NEW d \in Conns
              PROVE  stream'[d].at = "closed" \/ ~(stream'[d].cursor > view'.lastSeq)
            <4>1. \/ stream[d].at = "closed"
                  \/ ~(stream[d].cursor > view.lastSeq)
                BY <3>2, <1>2 DEF ViewInv, Ahead
            <4>2. stream[d].cursor \in Nat /\ view.lastSeq \in Nat
                BY <1>2 DEF StreamIInv, StreamTypes, Streams, Views
            <4> QED  BY <4>1, <4>2, <2>1, <1>3, <1>4
        <3>3. ~displaced => view.shown = 1 .. view.lastSeq
            BY <1>2 DEF ViewInv
        <3> QED  BY <3>1, <3>2, <3>3, <2>1, <1>3
    <2>2. CASE ~(snap.active /\ view.run)
        <3>1. snap.active => view.lastSeq = 0
            BY <2>2, <1>2 DEF ViewInv
        <3>2. ~displaced' => \A d \in Conns :
                  stream[d].at = "closed" \/ ~(stream[d].cursor > view'.lastSeq)
            BY <2>2, <1>5
        <3> QED  BY <3>1, <3>2, <2>2, <1>3, <1>4
    <2> QED  BY <2>1, <2>2
<1>8. ViewInv'
    BY <1>1, <1>3, <1>7 DEF ViewInv, Ahead
<1> QED  BY <1>1, <1>2, <1>3, <1>4, <1>5, <1>6, <1>8, ViewStepKeepsStreamIInv
    DEF StreamIInv, StreamTypes

LEMMA StepKeepsStreamIInv ==
    ASSUME StreamIInv, [Next]_vars
    PROVE  StreamIInv'
<1>1. ASSUME Publish \/ Revoke \/ StartRun \/ SnapshotHead \/ SnapshotEvents \/ Reconnect
      PROVE  StreamIInv'
    BY <1>1, PublishKeepsStreamIInv, RevokeKeepsStreamIInv, SnapshotKeepsStreamIInv
<1>2. ASSUME NEW c \in Conns,
             \/ StreamStatus(c) \/ StreamList(c) \/ StreamSend(c) \/ StreamRest(c)
             \/ Drop(c) \/ RunStarted(c) \/ SnapshotArrives(c) \/ ResumeStream(c)
      PROVE  StreamIInv'
    BY <1>2, StreamStatusKeepsStreamIInv, StreamListKeepsStreamIInv,
       StreamSendKeepsStreamIInv, StreamRestKeepsStreamIInv, DropKeepsStreamIInv,
       RunStartedKeepsStreamIInv, SnapshotArrivesKeepsStreamIInv,
       ResumeStreamKeepsStreamIInv
<1>3. CASE UNCHANGED vars
    <2>1. /\ UNCHANGED <<log, status, granted, stream, view, sending, wanted, resume>>
          /\ UNCHANGED <<displaced, snap>>
        BY <1>3 DEF vars, serverVars, clientVars
    <2> QED  BY <2>1 DEF StreamIInv, StreamTypes, LogInv, StreamInv, StreamOf, SnapInv,
                         ViewInv, Ahead
<1> QED  BY <1>1, <1>2, <1>3 DEF Next

(* The inductive invariant holds of every run of the stream.               *)
THEOREM StreamInvariantHolds == Spec => []StreamIInv
<1>1. Init => StreamIInv
    BY InitIsStreamIInv
<1>2. StreamIInv /\ [Next]_vars => StreamIInv'
    BY StepKeepsStreamIInv
<1> QED  BY <1>1, <1>2, PTL DEF Spec

(* The view and its streams stay within the log, and the view has no holes,*)
(* whatever the order in which streams, reconnects and snapshots arrive.   *)
THEOREM ViewInvariantHolds == Spec => []ViewInvariant
<1>1. ASSUME StreamIInv
      PROVE  ViewInvariant
    <2>1. StreamTypeOK
        <3>1. ASSUME NEW c \in Conns
              PROVE  /\ stream[c].at \in {"closed", "status", "list", "send"}
                     /\ stream[c].cursor \in 0 .. Len(log) /\ stream[c].to \in 0 .. Len(log)
            BY <1>1 DEF StreamIInv, StreamTypes, Streams, Steps, StreamInv, StreamOf
        <3>2. view.shown \subseteq 1 .. Len(log) /\ view.lastSeq \in 0 .. Len(log)
            BY <1>1 DEF StreamIInv, StreamTypes, Views, ViewInv
        <3>3. snap.at \in {"none", "head", "back"}
            BY <1>1 DEF StreamIInv, StreamTypes, Snaps
        <3> QED  BY <1>1, <3>1, <3>2, <3>3 DEF StreamIInv, StreamTypes, StreamTypeOK
    <2>2. ViewHasNoGap
        BY <1>1 DEF StreamIInv, ViewInv, ViewHasNoGap
    <2> QED  BY <2>1, <2>2 DEF ViewInvariant
<1> QED  BY <1>1, StreamInvariantHolds, PTL

-----------------------------------------------------------------------------
(* Each stream is a subscription to the log (EventFeed).                   *)

Opened == {c \in Conns : stream[c].at # "closed"}
Handed == [c \in Conns |-> stream[c].cursor]

LEMMA InitIsFeedInit ==
    ASSUME Init
    PROVE  Feed!Init
<1>1. \A c \in Conns : stream[c].at = "closed" /\ stream[c].cursor = 0
    BY ClosedIsAStream DEF Init
<1>2. Len(log) = 0
    BY DEF Init
<1> QED  BY <1>1, <1>2 DEF Feed!Init

LEMMA QuietIsStutter ==
    ASSUME UNCHANGED <<log, Opened, Handed>>
    PROVE  UNCHANGED Feed!vars
BY DEF Feed!vars, Opened, Handed

LEMMA RecordStepMaps ==
    ASSUME StreamIInv, NEW c \in Conns, NEW y \in Streams, StreamBecomes(c, y)
    PROVE  /\ y.at = "closed" => Opened' = Opened \ {c}
           /\ y.at # "closed" => Opened' = Opened \cup {c}
           /\ Handed' = [Handed EXCEPT ![c] = y.cursor]
           /\ Handed[c] = stream[c].cursor
           /\ c \in Opened <=> stream[c].at # "closed"
<1>1. /\ stream' \in [Conns -> Streams] /\ stream'[c] = y
      /\ \A d \in Conns \ {c} : stream'[d] = stream[d]
    BY DEF StreamBecomes, StreamIInv, StreamTypes
<1>2. /\ y.at = "closed" => Opened' = Opened \ {c}
      /\ y.at # "closed" => Opened' = Opened \cup {c}
    BY <1>1 DEF Opened
<1>3. Handed' = [Handed EXCEPT ![c] = y.cursor]
    BY <1>1 DEF Handed
<1> QED  BY <1>2, <1>3 DEF Handed, Opened

LEMMA EndIsClose ==
    ASSUME StreamIInv, NEW c \in Conns, NEW notice, End(c, notice), log' = log,
           stream[c].at # "closed"
    PROVE  Feed!Close(c)
<1>1. StreamBecomes(c, Closed)
    BY DEF End, StreamBecomes
<1>2. c \in Opened /\ Opened' = Opened \ {c} /\ Handed' = [Handed EXCEPT ![c] = 0]
    BY <1>1, ClosedIsAStream, RecordStepMaps
<1> QED  BY <1>2 DEF Feed!Close, Opened, Handed

LEMMA OpenIsOpen ==
    ASSUME StreamIInv, NEW c \in Conns, NEW n \in 0 .. Len(log), Open(c, n), log' = log,
           stream[c].at = "closed"
    PROVE  Feed!Open(c)
<1>1. n \in Nat
    BY DEF StreamIInv, StreamTypes
<1>2. PICK y \in Streams : StreamBecomes(c, y) /\ y.at = "status" /\ y.cursor = n
    BY <1>1, SubscribedIsAStream DEF Open, StreamBecomes, Subscribed
<1>3. c \notin Opened /\ Opened' = Opened \cup {c} /\ Handed' = [Handed EXCEPT ![c] = n]
    BY <1>2, RecordStepMaps
<1> QED  BY <1>3 DEF Feed!Open, Opened, Handed

LEMMA SendIsHandOut ==
    ASSUME StreamIInv, NEW c \in Conns, StreamSend(c)
    PROVE  Feed!HandOut(c)
<1>1. PICK x, seq : x = stream[c] /\ seq = x.cursor + 1
    OBVIOUS
<1>2. /\ x \in Streams /\ x.at = "send" /\ x.cursor \in Nat /\ x.to \in Nat
      /\ x.cursor < x.to /\ StreamOf(c) /\ Len(log) \in Nat
    BY <1>1 DEF StreamSend, StreamIInv, StreamTypes, Streams, StreamInv
<1>3. seq \in Nat /\ x.cursor < Len(log)
    BY <1>1, <1>2 DEF StreamOf
<1>4. PICK flag \in Flags : flag = (x.met \/ IsTerminalEvent(log[seq]))
    BY DEF Flags
<1>5. StreamBecomes(c, Sent(x, seq, flag))
    BY <1>1, <1>4 DEF StreamSend, StreamBecomes, Sent, StreamIInv, StreamTypes
<1>6. PICK y \in Streams : StreamBecomes(c, y) /\ y.at = "send" /\ y.cursor = seq
    <2>1. LET y == Sent(x, seq, flag)
          IN  /\ y \in Streams /\ y.at = "send" /\ y.cursor = seq /\ y.to = x.to
              /\ y.ended = x.ended
        <3>1. x \in Streams /\ seq \in Nat /\ flag \in Flags /\ x.at = "send"
            BY <1>2, <1>3, <1>4
        <3> HIDE <1>1, <1>4
        <3> QED  BY ONLY <3>1, StreamFields
    <2> QED  BY <1>5, <2>1
<1>7. /\ c \in Opened /\ Handed[c] = x.cursor /\ Handed' = [Handed EXCEPT ![c] = seq]
      /\ Opened' = Opened
    BY <1>1, <1>2, <1>6, RecordStepMaps
<1>8. log' = log
    BY DEF StreamSend, serverVars
<1> QED  BY <1>1, <1>3, <1>7, <1>8 DEF Feed!HandOut, Opened, Handed

LEMMA GrowthIsPublish ==
    ASSUME StreamIInv, NEW kind \in Kinds, AppendEvent(kind), stream' = stream
    PROVE  Feed!Publish
<1>1. Len(log') = Len(log) + 1
    BY LogGrows DEF StreamIInv, StreamTypes
<1> QED  BY <1>1 DEF Feed!Publish

(* Looking for more, reading a page and going back to look.                *)
LEMMA ServerStepMaps ==
    ASSUME StreamIInv, NEW c \in Conns,
           StreamStatus(c) \/ StreamList(c) \/ StreamRest(c) \/ Drop(c)
    PROVE  Feed!Close(c) \/ UNCHANGED Feed!vars
<1>1. log' = log /\ stream[c].at # "closed" /\ stream[c] \in Streams
    BY DEF StreamStatus, StreamList, StreamRest, Drop, serverVars, StreamIInv, StreamTypes
<1>2. ASSUME NEW notice, End(c, notice)
      PROVE  Feed!Close(c)
    BY <1>1, <1>2, EndIsClose
<1>3. ASSUME NEW y \in Streams, StreamBecomes(c, y), y.at # "closed",
             y.cursor = stream[c].cursor
      PROVE  UNCHANGED Feed!vars
    <2>1. Opened' = Opened /\ Handed' = [Handed EXCEPT ![c] = Handed[c]]
        BY <1>1, <1>3, RecordStepMaps
    <2>2. Handed' = Handed
        BY <2>1 DEF Handed
    <2> QED  BY <2>1, <2>2, <1>1, QuietIsStutter
<1>4. PICK x : x = stream[c]
    OBVIOUS
<1>5. CASE StreamStatus(c) /\ granted
    <2>1. PICK flag \in Flags : flag = (status = "ended")
        BY DEF Flags
    <2>2. StreamBecomes(c, Listing(x, flag))
        BY <1>4, <1>5, <2>1 DEF StreamStatus, StreamBecomes, Listing, StreamIInv, StreamTypes
    <2>3. LET y == Listing(x, flag)
          IN  y \in Streams /\ y.at = "list" /\ y.cursor = x.cursor
        BY <1>1, <1>4, StreamFields
    <2> QED  BY <1>3, <1>4, <2>2, <2>3
<1>6. CASE StreamList(c)
    <2>1. PICK n : n = Min({Len(log), stream[c].cursor + Limit})
        OBVIOUS
    <2>2. n \in Nat
        <3>1. Len(log) \in Nat /\ stream[c].cursor + Limit \in Nat
            BY <1>1, StreamAssumption DEF Streams, StreamIInv, StreamTypes
        <3> QED  BY <2>1, <3>1, MinOfTwo
    <2>3. StreamBecomes(c, Paged(x, n))
        BY <1>4, <1>6, <2>1 DEF StreamList, StreamBecomes, Paged, StreamIInv, StreamTypes
    <2>4. LET y == Paged(x, n)
          IN  y \in Streams /\ y.at = "send" /\ y.cursor = x.cursor
        <3>1. FALSE \in Flags
            BY DEF Flags
        <3> QED  BY <3>1, <1>1, <1>4, <2>2, StreamFields
    <2> QED  BY <1>3, <1>4, <2>3, <2>4
<1>7. CASE StreamRest(c) /\ ~stream[c].ended
    <2>1. StreamBecomes(c, Resting(x))
        BY <1>4, <1>7 DEF StreamRest, StreamBecomes, Resting, StreamIInv, StreamTypes
    <2>2. LET y == Resting(x)
          IN  y \in Streams /\ y.at = "status" /\ y.cursor = x.cursor
        <3>1. FALSE \in Flags
            BY DEF Flags
        <3> QED  BY <3>1, <1>1, <1>4, StreamFields
    <2> QED  BY <1>3, <1>4, <2>1, <2>2
<1>8. CASE \E notice : End(c, notice)
    BY <1>2, <1>8
<1> QED  BY <1>5, <1>6, <1>7, <1>8 DEF StreamStatus, StreamRest, Drop

LEMMA StepMaps ==
    ASSUME StreamIInv, [Next]_vars
    PROVE  [Feed!Next]_(Feed!vars)
<1>0. view.lastSeq \in 0 .. Len(log) /\ 0 \in 0 .. Len(log)
    BY DEF StreamIInv, StreamTypes, Views, ViewInv
<1>1. CASE Publish \/ StartRun
    <2>1. \E kind \in Kinds : AppendEvent(kind)
        BY <1>1 DEF Publish, StartRun, Kinds
    <2>2. stream' = stream
        BY <1>1 DEF Publish, StartRun
    <2> QED  BY <2>1, <2>2, GrowthIsPublish DEF Feed!Next
<1>2. CASE UNCHANGED <<log, stream>>
    <2>1. UNCHANGED <<log, Opened, Handed>>
        BY <1>2 DEF Opened, Handed
    <2> QED  BY <2>1, QuietIsStutter
<1>3. ASSUME NEW c \in Conns, StreamStatus(c) \/ StreamList(c) \/ StreamRest(c) \/ Drop(c)
      PROVE  [Feed!Next]_(Feed!vars)
    BY <1>3, ServerStepMaps DEF Feed!Next
<1>4. ASSUME NEW c \in Conns, StreamSend(c)
      PROVE  [Feed!Next]_(Feed!vars)
    BY <1>4, SendIsHandOut DEF Feed!Next
<1>5. ASSUME NEW c \in Conns, RunStarted(c) \/ SnapshotArrives(c) \/ ResumeStream(c)
      PROVE  [Feed!Next]_(Feed!vars)
    <2>1. log' = log
        BY <1>5 DEF RunStarted, SnapshotArrives, ResumeStream, serverVars
    <2>2. \/ stream' = stream
          \/ /\ stream[c].at = "closed"
             /\ Open(c, 0) \/ Open(c, view.lastSeq)
        BY <1>5 DEF RunStarted, SnapshotArrives, ResumeStream
    <2>3. CASE stream' = stream
        BY <2>1, <2>3, <1>2
    <2>4. CASE stream[c].at = "closed" /\ (Open(c, 0) \/ Open(c, view.lastSeq))
        BY <2>1, <2>4, <1>0, OpenIsOpen DEF Feed!Next
    <2> QED  BY <2>2, <2>3, <2>4
<1>6. CASE Revoke \/ SnapshotHead \/ SnapshotEvents \/ Reconnect \/ UNCHANGED vars
    <2>1. UNCHANGED <<log, stream>>
        BY <1>6 DEF Revoke, SnapshotHead, SnapshotEvents, Reconnect, vars, serverVars
    <2> QED  BY <2>1, <1>2
<1> QED  BY <1>1, <1>3, <1>4, <1>5, <1>6 DEF Next

(* The events of the run, handed out: what _stream_run_events does to the  *)
(* connections is what a subscription may do (EventFeed).                  *)
THEOREM EventStreamImplementsEventFeed == Spec => FeedSpec
<1>1. Init => Feed!Init
    BY InitIsFeedInit
<1>2. StreamIInv /\ [Next]_vars => [Feed!Next]_(Feed!vars)
    BY StepMaps
<1> QED  BY <1>1, <1>2, StreamInvariantHolds, PTL DEF Spec, FeedSpec, Feed!Spec

(* The end of the run, found in the log when the run has ended.            *)
LEMMA EndSeqIsTheEnd ==
    ASSUME StreamIInv, status = "ended"
    PROVE  EndSeq \in 1 .. Len(log) /\ log[EndSeq] = "ended"
BY DEF StreamIInv, LogInv, EndSeq

ClosesAtEnd(c) ==
    stream[c].at # "closed" /\ stream'[c].at = "closed" /\ drops' = drops =>
       \/ ~granted
       \/ /\ status = "ended"
          /\ stream[c].cursor >= Min({EndSeq, Limit})

LEMMA StepClosesAtEnd ==
    ASSUME StreamIInv, [Next]_vars, NEW c \in Conns
    PROVE  ClosesAtEnd(c)
<1>0. stream \in [Conns -> Streams] /\ StreamOf(c)
    BY DEF StreamIInv, StreamTypes, StreamInv
<1>1. SUFFICES ASSUME stream[c].at # "closed", stream'[c].at = "closed", drops' = drops,
                      granted
               PROVE  /\ status = "ended"
                      /\ stream[c].cursor >= Min({EndSeq, Limit})
    BY DEF ClosesAtEnd
<1>2. StreamRest(c) /\ stream[c].ended
    <2>1. ASSUME stream' = stream
          PROVE  FALSE
        BY <1>1, <2>1
    <2>2. ASSUME NEW d \in Conns, NEW n \in Nat, Open(d, n)
          PROVE  FALSE
        BY <1>0, <1>1, <2>2, SubscribedIsAStream DEF Open, Subscribed
    <2>3. ASSUME NEW d \in Conns, NEW y \in Streams, StreamBecomes(d, y), y.at # "closed"
          PROVE  FALSE
        BY <1>0, <1>1, <2>3 DEF StreamBecomes
    <2>4. ASSUME NEW d \in Conns, NEW notice, End(d, notice)
          PROVE  d = c
        BY <1>0, <1>1, <2>4 DEF End
    <2>5. ASSUME NEW d \in Conns, StreamStatus(d)
          PROVE  FALSE
        <3>1. PICK x : x = stream[d]
            OBVIOUS
        <3>2. PICK flag \in Flags : flag = (status = "ended")
            BY DEF Flags
        <3>3. StreamBecomes(d, Listing(x, flag))
            BY <1>0, <1>1, <2>5, <3>1, <3>2 DEF StreamStatus, StreamBecomes, Listing
        <3>4. LET y == Listing(x, flag) IN y \in Streams /\ y.at = "list"
            BY <1>0, <3>1, StreamFields
        <3> QED  BY <2>3, <3>3, <3>4
    <2>6. ASSUME NEW d \in Conns, StreamList(d) \/ StreamSend(d)
          PROVE  FALSE
        <3>1. d # c \/ stream'[c].at = "send"
            <4>1. PICK x : x = stream[d]
                OBVIOUS
            <4>2. CASE StreamList(d)
                BY <1>0, <4>2 DEF StreamList, Streams
            <4>3. CASE StreamSend(d)
                BY <1>0, <4>3 DEF StreamSend, Streams
            <4> QED  BY <2>6, <4>2, <4>3
        <3>2. d # c => stream'[c] = stream[c]
            BY <1>0, <2>6 DEF StreamList, StreamSend
        <3> QED  BY <1>1, <3>1, <3>2
    <2>7. ASSUME NEW d \in Conns, StreamRest(d)
          PROVE  StreamRest(c) /\ stream[c].ended
        <3>1. CASE stream[d].ended
            BY <2>4, <2>7, <3>1 DEF StreamRest
        <3>2. CASE ~stream[d].ended
            <4>1. stream' = [stream EXCEPT ![d].at = "status"]
                BY <2>7, <3>2 DEF StreamRest
            <4> QED  BY <4>1, <1>0, <1>1 DEF Streams
        <3> QED  BY <3>1, <3>2
    <2>8. ASSUME NEW d \in Conns, Drop(d)
          PROVE  FALSE
        <3>1. drops' # drops
            BY <2>8 DEF Drop
        <3> QED  BY <3>1, <1>1
    <2>9. view.lastSeq \in Nat
        BY DEF StreamIInv, StreamTypes, Views
    <2>10. ASSUME NEW d \in Conns, RunStarted(d) \/ SnapshotArrives(d) \/ ResumeStream(d)
           PROVE  FALSE
        BY <2>1, <2>2, <2>9, <2>10 DEF RunStarted, SnapshotArrives, ResumeStream
    <2>11. ASSUME \/ Publish \/ Revoke \/ StartRun
                  \/ SnapshotHead \/ SnapshotEvents \/ Reconnect \/ UNCHANGED vars
           PROVE  FALSE
        BY <2>1, <2>11
        DEF Publish, Revoke, StartRun, SnapshotHead, SnapshotEvents, Reconnect, vars
    <2> QED  BY <2>5, <2>6, <2>7, <2>8, <2>10, <2>11 DEF Next
<1>3. status = "ended" /\ stream[c].at = "send" /\ stream[c].cursor = stream[c].to
    BY <1>0, <1>2 DEF StreamRest, StreamOf
<1>4. /\ EndSeq \in 1 .. Len(log) /\ log[EndSeq] = "ended" /\ Len(log) \in Nat
      /\ Limit \in Nat /\ stream[c].cursor \in Nat
    BY <1>0, <1>3, EndSeqIsTheEnd, StreamAssumption DEF StreamIInv, StreamTypes, Streams
<1>5. stream[c].cursor >= Limit \/ EndSeq <= stream[c].cursor
    BY <1>0, <1>2, <1>3, <1>4 DEF StreamOf
<1>6. Min({EndSeq, Limit}) = IF EndSeq <= Limit THEN EndSeq ELSE Limit
    BY <1>4, MinOfTwo
<1> QED  BY <1>3, <1>4, <1>5, <1>6

(* A faithful stream: consecutive events from its cursor on, and closed by *)
(* the server only at the end of the run, after a full page of a longer    *)
(* tail, or when the session may no longer read it (_stream_run_events).   *)
THEOREM StreamIsFaithfulHolds == Spec => StreamIsFaithful
<1>1. ASSUME StreamIInv, [Next]_vars
      PROVE  [\A c \in Conns :
                 stream[c].at # "closed" /\ stream'[c].at = "closed" /\ drops' = drops =>
                    \/ ~granted
                    \/ /\ status = "ended"
                       /\ stream[c].cursor >= Min({EndSeq, Limit})]_vars
    BY <1>1, StepClosesAtEnd DEF ClosesAtEnd
<1>2. Spec => StreamClosesAtEnd
    BY <1>1, StreamInvariantHolds, PTL DEF Spec, StreamClosesAtEnd
<1> QED  BY <1>2, EventStreamImplementsEventFeed DEF StreamIsFaithful
=============================================================================
