---------------------------- MODULE Notifications ----------------------------
(***************************************************************************)
(* The fan-out of notifications: one loop takes the events and starts, for *)
(* each listener, a goroutine that waits to send on the listener's channel;*)
(* one handler per client stream makes the listener, sends what arrives to *)
(* the client, and closes the channel when the client leaves.  The loop    *)
(* ranges over the slice of listeners without the lock under which the     *)
(* handlers push and remove theirs: it keeps the array and the length the  *)
(* slice had, and a removal shifts that array in place.                    *)
(***************************************************************************)
EXTENDS Naturals, Sequences

CONSTANTS
    Stream,     \* bound: streams clients open, each with a listener of its own
    Nobody,     \* the content of a slot never written
    MaxEvents   \* bound: events the loop takes

ASSUME NotificationAssumption ==
    /\ Nobody \notin Stream
    /\ MaxEvents \in Nat

VARIABLES
    slots,      \* the array behind the slice of listeners
    n,          \* the length of the slice
    loop,       \* listenToNotifications: "select" "range" "stopped"
    shared,     \* the loop ranges over slots, not over the array it was copied from
    own,        \* the latter
    limit,      \* how far it ranges
    idx,        \* its next slot
    events,     \* events taken
    chan,       \* the channel of each listener
    stream,     \* the handler of each stream
    senders,    \* goroutines that wait to send on the channel of each listener
    server,     \* "up", "draining" in GracefulStop, or "down"
    dead,       \* the process has died of a panic
    first,      \* history: the listeners as the loop began to range
    due,        \* history: senders started for each listener since
    removed,    \* history: a listener was removed since
    failed,     \* history: streams that left because a send to the client failed
    late        \* history: streams opened after the loop had stopped

slice == <<slots, n>>
ranging == <<loop, shared, own, limit, idx, events>>
range == <<first, due, removed>>
history == <<range, failed, late>>
vars == <<slice, ranging, chan, stream, senders, server, dead, history>>

Init ==
    /\ slots = <<>>
    /\ n = 0
    /\ loop = "select"
    /\ shared = TRUE
    /\ own = <<>>
    /\ limit = 0
    /\ idx = 1
    /\ events = 0
    /\ chan = [s \in Stream |-> "none"]
    /\ stream = [s \in Stream |-> "none"]
    /\ senders = [s \in Stream |-> 0]
    /\ server = "up"
    /\ dead = FALSE
    /\ first = <<>>
    /\ due = [s \in Stream |-> 0]
    /\ removed = FALSE
    /\ failed = {}
    /\ late = {}

Listening == {slots[k] : k \in 1..n}

-----------------------------------------------------------------------------
(* The slice of listeners.                                                  *)

\* Faulty variant: slices.Insert at the front, which shifts in place when there is room.
PushListenerFirst(s) ==
    /\ n' = n + 1
    /\ slots' = [k \in 1..(IF n < Len(slots) THEN Len(slots) ELSE n + 1) |->
                    IF k = 1 THEN s ELSE IF k <= n + 1 THEN slots[k - 1] ELSE Nobody]
    /\ shared' = (shared /\ n < Len(slots))
    /\ own' = IF shared THEN slots ELSE own
    /\ UNCHANGED <<loop, limit, idx, events>>

\* append writes behind the slice when there is room, and else copies it to a
\* larger array; the loop keeps the one it has.
PushListener(s) ==
    /\ n' = n + 1
    /\ IF n < Len(slots)
       THEN /\ slots' = [slots EXCEPT ![n + 1] = s]
            /\ UNCHANGED <<shared, own>>
       ELSE /\ slots' = [k \in 1..(IF n = 0 THEN 1 ELSE 2 * n) |->
                            IF k <= n THEN slots[k] ELSE IF k = n + 1 THEN s ELSE Nobody]
            /\ shared' = FALSE
            /\ own' = IF shared THEN slots ELSE own
    /\ UNCHANGED <<loop, limit, idx, events>>

\* Faulty variant: slices.Delete, which also clears the slot that falls free.
RemoveListenerClearing(s) ==
    IF s \in Listening
    THEN \E i \in 1..n :
            /\ slots[i] = s
            /\ slots' = [k \in DOMAIN slots |->
                            IF k = n THEN Nobody ELSE IF i <= k /\ k < n THEN slots[k + 1] ELSE slots[k]]
            /\ n' = n - 1
            /\ removed' = (removed \/ loop = "range")
    ELSE UNCHANGED <<slice, removed>>

\* The listeners behind the removed one are shifted.
RemoveListener(s) ==
    IF s \in Listening
    THEN \E i \in 1..n :
            /\ slots[i] = s
            /\ slots' = [k \in DOMAIN slots |-> IF i <= k /\ k < n THEN slots[k + 1] ELSE slots[k]]
            /\ n' = n - 1
            /\ removed' = (removed \/ loop = "range")
    ELSE UNCHANGED <<slice, removed>>

-----------------------------------------------------------------------------
(* The loop.                                                                *)

\* It takes an event; one that comes while it ranges is dropped by
\* handleAddressEventChannel.
TakeEvent ==
    /\ ~dead
    /\ loop = "select"
    /\ events < MaxEvents
    /\ events' = events + 1
    /\ loop' = IF n = 0 THEN "select" ELSE "range"
    /\ shared' = TRUE
    /\ own' = <<>>
    /\ limit' = n
    /\ idx' = 1
    /\ first' = [k \in 1..n |-> slots[k]]
    /\ due' = [s \in Stream |-> 0]
    /\ removed' = FALSE
    /\ UNCHANGED <<slice, chan, stream, senders, server, dead, failed, late>>

\* The loop reads the slice as pushListener writes it and meets a slot without a
\* listener: the goroutine of that slot panics.
ReadRace(s) ==
    /\ ~dead
    /\ loop = "select"
    /\ events < MaxEvents
    /\ stream[s] = "none"
    /\ dead' = TRUE
    /\ UNCHANGED <<slice, ranging, chan, stream, senders, server, history>>

\* A goroutine for the listener in the next slot.
RangeStep(s) ==
    /\ ~dead
    /\ loop = "range"
    /\ s = IF shared THEN slots[idx] ELSE own[idx]
    /\ senders' = [senders EXCEPT ![s] = @ + 1]
    /\ due' = [due EXCEPT ![s] = @ + 1]
    /\ idx' = idx + 1
    /\ loop' = IF idx = limit THEN "select" ELSE "range"
    /\ UNCHANGED <<slice, shared, own, limit, events, chan, stream, server, dead, first, removed,
                   failed, late>>

\* Faulty variant: the channels are left open.
StopLoopSilently ==
    /\ ~dead
    /\ loop = "select"
    /\ server # "up"
    /\ loop' = "stopped"
    /\ UNCHANGED <<slice, shared, own, limit, idx, events, chan, stream, senders, server, dead, history>>

\* The server stops: every listener's channel is closed, and closing one twice
\* panics.
StopLoop ==
    /\ ~dead
    /\ loop = "select"
    /\ server # "up"
    /\ loop' = "stopped"
    /\ chan' = [s \in Stream |-> IF s \in Listening THEN "closed" ELSE chan[s]]
    /\ dead' = (\E s \in Listening : chan[s] = "closed")
    /\ UNCHANGED <<slice, shared, own, limit, idx, events, stream, senders, server, history>>

-----------------------------------------------------------------------------
(* The senders and the handlers of the streams.                             *)

\* The channel is closed under a goroutine that waits to send on it, or sends later.
SenderPanics(s) ==
    /\ ~dead
    /\ senders[s] > 0
    /\ chan[s] = "closed"
    /\ dead' = TRUE
    /\ UNCHANGED <<slice, ranging, chan, stream, senders, server, history>>

\* GetVtxoNotifications: a new listener.  GracefulStop lets no stream in.
OpenStream(s) ==
    /\ ~dead
    /\ server # "down"
    /\ stream[s] = "none"
    /\ stream' = [stream EXCEPT ![s] = "select"]
    /\ chan' = [chan EXCEPT ![s] = "open"]
    /\ PushListener(s)
    /\ late' = IF loop = "stopped" THEN late \cup {s} ELSE late
    /\ UNCHANGED <<senders, server, dead, range, failed>>

Goes(s, from, to) ==
    /\ ~dead
    /\ stream[s] = from
    /\ stream' = [stream EXCEPT ![s] = to]

\* The handler takes a notification from one of the senders...
Receive(s) ==
    /\ Goes(s, "select", "sending")
    /\ senders[s] > 0
    /\ chan[s] = "open"
    /\ senders' = [senders EXCEPT ![s] = @ - 1]
    /\ UNCHANGED <<slice, ranging, chan, server, dead, history>>

\* ... and sends it to the client, ...
SendOk(s) ==
    /\ Goes(s, "sending", "select")
    /\ UNCHANGED <<slice, ranging, chan, senders, server, dead, history>>

\* ... or cannot, and leaves its channel as it is.
SendFails(s) ==
    /\ Goes(s, "sending", "leaving")
    /\ failed' = failed \cup {s}
    /\ UNCHANGED <<slice, ranging, chan, senders, server, dead, range, late>>

\* Faulty variant: the handler leaves its channel as it is.
ClientLeavesSilently(s) ==
    /\ Goes(s, "select", "leaving")
    /\ UNCHANGED <<slice, ranging, chan, senders, server, dead, history>>

\* The client leaves: its handler closes the channel, and panics when stop has
\* closed it before.
ClientLeaves(s) ==
    /\ Goes(s, "select", "leaving")
    /\ chan' = [chan EXCEPT ![s] = "closed"]
    /\ dead' = (chan[s] = "closed")
    /\ UNCHANGED <<slice, ranging, senders, server, history>>

\* The handler sees that stop has closed the channel.
SeeClosed(s) ==
    /\ Goes(s, "select", "leaving")
    /\ chan[s] = "closed"
    /\ UNCHANGED <<slice, ranging, chan, senders, server, dead, history>>

Leave(s) ==
    /\ Goes(s, "leaving", "gone")
    /\ RemoveListener(s)
    /\ UNCHANGED <<ranging, chan, senders, server, dead, first, due, failed, late>>

-----------------------------------------------------------------------------
(* The stop of the server.                                                  *)

\* The loop is told to stop, then GracefulStop is called.
StopServer ==
    /\ ~dead
    /\ server = "up"
    /\ server' = "stopping"
    /\ UNCHANGED <<slice, ranging, chan, stream, senders, dead, history>>

\* GracefulStop refuses new streams and waits for those there are.
Drain ==
    /\ ~dead
    /\ server = "stopping"
    /\ server' = "down"
    /\ UNCHANGED <<slice, ranging, chan, stream, senders, dead, history>>

-----------------------------------------------------------------------------
Next ==
    \/ TakeEvent
    \/ StopLoop
    \/ StopServer
    \/ Drain
    \/ \E s \in Stream :
        \/ ReadRace(s)
        \/ RangeStep(s)
        \/ SenderPanics(s)
        \/ OpenStream(s)
        \/ Receive(s)
        \/ SendOk(s)
        \/ SendFails(s)
        \/ ClientLeaves(s)
        \/ SeeClosed(s)
        \/ Leave(s)

Spec == Init /\ [][Next]_vars

\* Goroutines that are ready run, the loop's select takes the stop it is offered
\* again and again, and a send to a client ends.  Nothing is assumed of clients.
FairSpec ==
    /\ Spec
    /\ SF_vars(StopLoop)
    /\ WF_vars(Drain)
    /\ \A s \in Stream :
        /\ WF_vars(RangeStep(s))
        /\ WF_vars(SenderPanics(s))
        /\ WF_vars(SendOk(s) \/ SendFails(s))
        /\ WF_vars(Receive(s) \/ SeeClosed(s))
        /\ WF_vars(Leave(s))

-----------------------------------------------------------------------------
(* Properties.                                                              *)

\* Every variable has its type; the slice is a part of its array without a slot
\* never written, and so is what the loop still has to read.
TypeOK ==
    /\ slots \in Seq(Stream \cup {Nobody})
    /\ n \in 0..Len(slots)
    /\ \A k \in 1..n : slots[k] \in Stream
    /\ loop \in {"select", "range", "stopped"}
    /\ shared \in BOOLEAN
    /\ own \in Seq(Stream \cup {Nobody})
    /\ limit \in Nat
    /\ idx \in Nat \ {0}
    /\ loop = "range" =>
        /\ idx <= limit
        /\ limit <= Len(IF shared THEN slots ELSE own)
        /\ \A k \in 1..limit : (IF shared THEN slots ELSE own)[k] \in Stream
    /\ events \in 0..MaxEvents
    /\ chan \in [Stream -> {"none", "open", "closed"}]
    /\ stream \in [Stream -> {"none", "select", "sending", "leaving", "gone"}]
    /\ senders \in [Stream -> Nat]
    /\ server \in {"up", "stopping", "down"}
    /\ dead \in BOOLEAN
    /\ first \in Seq(Stream)
    /\ due \in [Stream -> Nat]
    /\ removed \in BOOLEAN
    /\ failed \subseteq Stream
    /\ late \subseteq Stream

\* When no listener is removed while the loop ranges, every listener there was
\* gets the event, once, whoever else opens a stream meanwhile.
OnceUnlessRemoved ==
    loop # "range" /\ ~removed => \A k \in DOMAIN first : due[first[k]] = 1

\* A goroutine that waits to send does not wait for ever: its notification is
\* taken, or it panics, unless the stream left because the client could not be
\* sent to.
SendersEnd == \A s \in Stream :
    senders[s] > 0 ~> senders[s] = 0 \/ dead \/ s \in failed

\* GracefulStop waits for no stream that was there when the loop stopped.
StreamsEnd ==
    server = "down" ~> dead \/ \A s \in Stream : stream[s] \in {"none", "gone"} \/ s \in late
=============================================================================
