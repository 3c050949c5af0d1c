----------------------------- MODULE Subscriptions -----------------------------
(***************************************************************************)
(* How a change reaches a list on a user's screen: the projection inputs   *)
(* every change appends (murder/facts/log.py), the subscription task that  *)
(* replays and tails them (app/service/socket_server.py), the client that  *)
(* owns the resume cursor and reconnects (ApplicationWebSocketClient.ts),  *)
(* and the store whose slices are refreshed when they are told of a change *)
(* (ui-core/src/store).                                                    *)
(*                                                                         *)
(* An input is its position in the log, which is its sequence number.      *)
(* What a slice shows is the length of the log its rows were read from.    *)
(***************************************************************************)
EXTENDS Integers, Sequences, FiniteSets, FiniteSetsExt

CONSTANTS
    Topic,
    Foreign,      \* an input of another repository in the same database
    NoCursor,
    ReplayLimit,  \* how many inputs one replay reads
    LogBound,     \* bound: inputs ever appended
    ForeignBound, \* bound: inputs of other repositories
    DropBound,    \* bound: how often the connection is lost
    FailBound     \* bound: connections refused, queries and streams that fail

ASSUME SubscriptionsAssumption ==
    /\ Foreign \notin Topic
    /\ NoCursor \notin Nat
    /\ ReplayLimit \in Nat \ {0}
    /\ LogBound \in Nat

VARIABLES
    log,     \* projection_inputs: the topic of each, or Foreign
    server,  \* the connection as the service has it, with the subscription task
    wire,    \* frames of the subscription on their way to the client
    reg,     \* ProjectionRegistration, with what the store made of it
    slice,   \* the lists of the store, by topic
    counts,  \* drops and failures so far
    told,    \* history: the newest input of a topic the store was told of
    passed   \* history: inputs behind the resume cursor that a full replay
             \* or an unheard fallback left out

vars == <<log, server, wire, reg, slice, counts, told, passed>>

Cursor == Nat \cup {NoCursor}

\* The task of a subscription: subscribed, watermark read, tailing. A stream
\* that failed leaves the connection up ("idle").
Server == [step : {"off", "idle", "subscribed", "ready", "tail"},
           cursor : Cursor, until : Nat]

Ready == [op : {"ready"}, mode : {"cold", "resume", "snapshot_fallback"},
          cursor : Nat, replay : SUBSET Nat, shows : Nat]

\* The events of one poll, which are sent in the order of their cursors.
Events == [op : {"events"}, cursors : SUBSET Nat]

StreamError == [op |-> "error"]

Registration == [state : {"waiting", "live", "failed"},
                 resume : Cursor, delivered : Nat]

Slice == [step : {"idle", "deferred", "asked", "answered"},
          again : BOOLEAN, read : Nat,
          shows : Nat, status : {"empty", "ready", "error"}]

SubscriptionsInit ==
    /\ log = <<>>
    /\ server = [step |-> "off", cursor |-> NoCursor, until |-> 0]
    /\ wire = <<>>
    /\ reg = [state |-> "waiting", resume |-> NoCursor, delivered |-> 0]
    /\ slice = [t \in Topic |-> [step |-> "idle", again |-> FALSE, read |-> 0,
                                 shows |-> 0, status |-> "empty"]]
    /\ counts = [drops |-> 0, fails |-> 0]
    /\ told = [t \in Topic |-> 0]
    /\ passed = {}

--------------------------------------------------------------------------------
\* The log of one repository inside the sequence all repositories share.

Own == {n \in 1 .. Len(log) : log[n] # Foreign}

Watermark == Max(Own \cup {0})

Retained(cursor) ==
    /\ cursor <= Watermark
    /\ IF Own = {} THEN cursor = 0 ELSE cursor >= Min(Own) - 1

Between(after, until) == {n \in Own : after < n /\ n <= until}

\* replay: the oldest inputs after the cursor, as many as the limit allows.
Replay(after, until) ==
    LET found == Between(after, until)
    IN  {n \in found : Cardinality({k \in found : k <= n}) <= ReplayLimit}

\* Of the inputs one poll finds only the latest of each topic is sent.
Latest(inputs) == {n \in inputs : \A k \in inputs : log[k] = log[n] => k <= n}

\* A transaction that changes what a topic shows appends an input; so do the
\* services of other repositories. Behind an own input theirs would only leave
\* gaps in the numbers.
AppendInput ==
    /\ Len(log) < LogBound
    /\ \/ \E topic \in Topic : log' = Append(log, topic)
       \/ /\ Len(log) < ForeignBound /\ Own = {}
          /\ log' = Append(log, Foreign)
    /\ UNCHANGED <<server, wire, reg, slice, counts, told, passed>>

--------------------------------------------------------------------------------
\* The subscription task of the service.

Connected == server.step # "off"

\* The cursor the client goes on from is the watermark read before the replay
\* and before the snapshots.
ReadWatermark ==
    /\ server.step = "subscribed"
    /\ server' = [server EXCEPT !.step = "ready", !.until = Watermark]
    /\ UNCHANGED <<log, wire, reg, slice, counts, told, passed>>

\* MUTANT of ReadyFrame: the cursor is the watermark when the frame is sent.
ReadyFrame_LateCursor ==
    IF server.cursor # NoCursor /\ Retained(server.cursor)
    THEN [op |-> "ready", mode |-> "resume", cursor |-> Watermark,
          replay |-> Replay(server.cursor, server.until), shows |-> 0]
    ELSE [op |-> "ready", cursor |-> Watermark, replay |-> {}, shows |-> Len(log),
          mode |-> IF server.cursor = NoCursor THEN "cold" ELSE "snapshot_fallback"]

ReadyFrame ==
    IF server.cursor # NoCursor /\ Retained(server.cursor)
    THEN [op |-> "ready", mode |-> "resume", cursor |-> server.until,
          replay |-> Replay(server.cursor, server.until), shows |-> 0]
    ELSE [op |-> "ready", cursor |-> server.until, replay |-> {}, shows |-> Len(log),
          mode |-> IF server.cursor = NoCursor THEN "cold" ELSE "snapshot_fallback"]

\* The tail starts at the watermark, whatever the replay reached.
SendReady ==
    /\ server.step = "ready"
    /\ wire' = Append(wire, ReadyFrame)
    /\ server' = [server EXCEPT !.step = "tail", !.cursor = ReadyFrame.cursor]
    /\ UNCHANGED <<log, reg, slice, counts, told, passed>>

\* MUTANT of TailInputs: the tail ends where the replay ended.
TailInputs_UntilWatermark == Replay(server.cursor, server.until)

TailInputs == Replay(server.cursor, Len(log))

SendEvents ==
    /\ server.step = "tail"
    /\ Retained(server.cursor)
    /\ TailInputs # {}
    /\ wire' = Append(wire, [op |-> "events", cursors |-> Latest(TailInputs)])
    /\ server' = [server EXCEPT !.cursor = Max(TailInputs)]
    /\ UNCHANGED <<log, reg, slice, counts, told, passed>>

\* ReplayGapError: a second ready frame, in mode snapshot_fallback.
TailGap ==
    /\ server.step = "tail"
    /\ ~Retained(server.cursor)
    /\ server' = [server EXCEPT !.step = "ready", !.until = Watermark]
    /\ UNCHANGED <<log, wire, reg, slice, counts, told, passed>>

\* Reading the log or building a snapshot raises: the task ends, with an error.
StreamFails ==
    /\ server.step \in {"subscribed", "ready", "tail"}
    /\ counts.fails < FailBound
    /\ server' = [server EXCEPT !.step = "idle"]
    /\ wire' = Append(wire, StreamError)
    /\ counts' = [counts EXCEPT !.fails = @ + 1]
    /\ UNCHANGED <<log, reg, slice, told, passed>>

--------------------------------------------------------------------------------
\* The refresh action of a slice: one drain at a time, which asks again when
\* another refresh was called while it was waiting for the reply.

\* refresh() itself; the request is deferred to a task of its own.
Refreshed(s) ==
    CASE s.step = "idle" -> [s EXCEPT !.step = "deferred"]
      [] s.step = "deferred" -> s
      [] OTHER -> [s EXCEPT !.again = TRUE]

\* The request failed: only the latest call shows its error.
Failed(s) ==
    IF s.again THEN [s EXCEPT !.step = "deferred", !.again = FALSE]
    ELSE [s EXCEPT !.step = "idle", !.status = "error"]

\* MUTANT of Answered: the reply is shown whoever called refresh meanwhile.
Answered_AnyToken(s) ==
    [s EXCEPT !.step = "idle", !.again = FALSE, !.status = "ready", !.shows = s.read]

\* The reply arrived; it counts if nobody called refresh since it was asked for.
Answered(s) ==
    IF s.again THEN [s EXCEPT !.step = "deferred", !.again = FALSE]
    ELSE [s EXCEPT !.step = "idle", !.status = "ready", !.shows = s.read]

Pending(s) == s.step \in {"asked", "answered"}

\* Every request that waits, for a reply or for the connection, is rejected.
FailRequests ==
    slice' = [t \in Topic |-> IF Pending(slice[t]) THEN Failed(slice[t]) ELSE slice[t]]

Ask(t) ==
    /\ slice[t].step = "deferred"
    /\ slice' = [slice EXCEPT ![t].step = "asked"]
    /\ UNCHANGED <<log, server, wire, reg, counts, told, passed>>

\* The service reads what the slice will show and replies.
ServeQuery(t) ==
    /\ slice[t].step = "asked"
    /\ Connected
    /\ slice' = [slice EXCEPT ![t].step = "answered", ![t].read = Len(log)]
    /\ UNCHANGED <<log, server, wire, reg, counts, told, passed>>

AcceptReply(t) ==
    /\ slice[t].step = "answered"
    /\ slice' = [slice EXCEPT ![t] = Answered(@)]
    /\ UNCHANGED <<log, server, wire, reg, counts, told, passed>>

\* The service replies with an error, or the request times out; a late reply
\* finds no request.
QueryFails(t) ==
    /\ Pending(slice[t])
    /\ Connected
    /\ counts.fails < FailBound
    /\ slice' = [slice EXCEPT ![t] = Failed(@)]
    /\ counts' = [counts EXCEPT !.fails = @ + 1]
    /\ UNCHANGED <<log, server, wire, reg, told, passed>>

--------------------------------------------------------------------------------
\* The connection and the registration of the client.

\* The handshake succeeded: a registration that is left subscribes again.
Connect ==
    /\ ~Connected
    /\ server' = [step |-> IF reg.state = "failed" THEN "idle" ELSE "subscribed",
                  cursor |-> reg.resume, until |-> 0]
    /\ UNCHANGED <<log, wire, reg, slice, counts, told, passed>>

\* The attempt fails: who waits for the connection is rejected, and so is a
\* hydration that waits for it, whose registration is deleted.
ConnectFails ==
    /\ ~Connected
    /\ counts.fails < FailBound
    /\ FailRequests
    /\ \/ reg' = reg
       \/ reg.state = "waiting" /\ reg' = [reg EXCEPT !.state = "failed"]
    /\ counts' = [counts EXCEPT !.fails = @ + 1]
    /\ UNCHANGED <<log, server, wire, told, passed>>

\* The connection is lost, or the service restarts.
Drop ==
    /\ Connected
    /\ counts.drops < DropBound
    /\ server' = [step |-> "off", cursor |-> NoCursor, until |-> 0]
    /\ wire' = <<>>
    /\ FailRequests
    /\ counts' = [counts EXCEPT !.drops = @ + 1]
    /\ UNCHANGED <<log, reg, told, passed>>

\* The invalidations of these inputs are delivered, except those that were.
Fresh(cursors) == {n \in cursors : n > reg.delivered}

RefreshTold(cursors) ==
    /\ slice' = [t \in Topic |-> IF \E n \in Fresh(cursors) : log[n] = t
                                 THEN Refreshed(slice[t]) ELSE slice[t]]
    /\ told' = [t \in Topic |-> Max({n \in Fresh(cursors) : log[n] = t} \cup {told[t]})]

Resumed(cursors) == Max(cursors \cup ({reg.resume} \ {NoCursor}))

\* The inputs a ready frame moves the resume cursor over without saying so.
PassedBy(frame) ==
    CASE frame.mode = "snapshot_fallback" -> Between(reg.resume, frame.cursor)
      [] Cardinality(frame.replay) = ReplayLimit -> Between(Max(frame.replay), frame.cursor)
      [] OTHER -> {}

\* The first ready frame: the store shows its snapshots.
Hydrate ==
    /\ wire # <<>> /\ Head(wire).op = "ready"
    /\ reg.state = "waiting"
    /\ reg' = [reg EXCEPT !.state = "live", !.resume = Resumed({Head(wire).cursor})]
    /\ slice' = [t \in Topic |-> [slice[t] EXCEPT !.shows = Head(wire).shows,
                                                  !.status = "ready"]]
    /\ told' = [t \in Topic |-> Head(wire).shows]
    /\ wire' = Tail(wire)
    /\ UNCHANGED <<log, server, counts, passed>>

\* A later one: its replay is delivered; the store has no listener for its
\* snapshots.
AcceptReady ==
    /\ wire # <<>> /\ Head(wire).op = "ready"
    /\ reg.state = "live"
    /\ LET frame == Head(wire)
       IN  /\ reg' = [reg EXCEPT !.resume = Resumed({frame.cursor} \cup frame.replay),
                                 !.delivered = Max(frame.replay \cup {@})]
           /\ RefreshTold(frame.replay)
           /\ passed' = passed \cup PassedBy(frame)
    /\ wire' = Tail(wire)
    /\ UNCHANGED <<log, server, counts>>

AcceptEvent ==
    /\ wire # <<>> /\ Head(wire).op = "events"
    /\ LET cursors == Head(wire).cursors
           next == Min(cursors)
       IN  /\ reg' = [reg EXCEPT !.resume = Resumed({next}),
                                 !.delivered = Max({next, @})]
           /\ RefreshTold({next})
           /\ wire' = IF cursors = {next} THEN Tail(wire)
                      ELSE [wire EXCEPT ![1].cursors = @ \ {next}]
    /\ UNCHANGED <<log, server, counts, passed>>

\* The error of a stream rejects a hydration; later nobody looks at it.
AcceptError ==
    /\ wire # <<>> /\ Head(wire).op = "error"
    /\ reg' = [reg EXCEPT !.state = IF @ = "waiting" THEN "failed" ELSE @]
    /\ wire' = Tail(wire)
    /\ UNCHANGED <<log, server, slice, counts, told, passed>>

--------------------------------------------------------------------------------
ServerStep == ReadWatermark \/ SendReady \/ SendEvents \/ TailGap
Accept == Hydrate \/ AcceptReady \/ AcceptEvent \/ AcceptError
RefreshStep(t) == Ask(t) \/ ServeQuery(t) \/ AcceptReply(t)
Fault == StreamFails \/ ConnectFails \/ Drop \/ \E t \in Topic : QueryFails(t)

SubscriptionsNext ==
    \/ AppendInput
    \/ ServerStep
    \/ Accept
    \/ Connect
    \/ Fault
    \/ \E t \in Topic : RefreshStep(t)

SubscriptionsSpec == SubscriptionsInit /\ [][SubscriptionsNext]_vars

\* The tasks of the service and of the client run, and a lost connection is
\* attempted again until it is there. The faults are bounded.
FairSubscriptions ==
    /\ SubscriptionsSpec
    /\ WF_vars(ServerStep)
    /\ WF_vars(Accept)
    /\ WF_vars(Connect)
    /\ \A t \in Topic : WF_vars(RefreshStep(t))

--------------------------------------------------------------------------------
\* Frames, registration and slices keep their types: a replay and a poll never
\* exceed the limit, no poll sends an empty frame, and a client has a cursor when
\* it was hydrated.
SubscriptionsTypeOK ==
    /\ log \in Seq(Topic \cup {Foreign})
    /\ server \in Server
    /\ wire \in Seq(Ready \cup Events \cup {StreamError})
    /\ reg \in Registration
    /\ slice \in [Topic -> Slice]
    /\ told \in [Topic -> Nat]
    /\ passed \subseteq Own
    /\ \A i \in DOMAIN wire :
        LET sent == CASE wire[i].op = "ready" -> wire[i].replay
                      [] wire[i].op = "events" -> wire[i].cursors
                      [] OTHER -> {}
        IN  /\ sent \subseteq Own /\ Cardinality(sent) <= ReplayLimit
            /\ wire[i].op = "events" => sent # {}
    /\ reg.resume = NoCursor <=> reg.state # "live"

\* A later input of the topic is still ahead of the resume cursor: a poll sends
\* only the latest input of a topic, after older ones of other topics.
Superseded(n) == \E k \in Own : reg.resume < k /\ log[k] = log[n]

\* The resume cursor never moves over an input the store will not hear of: not
\* when the log grows between watermark, replay and tail, not when a poll leaves
\* superseded inputs out, and not when the connection is lost between two events
\* of a poll. Left out are the inputs in passed.
NothingIsPassedOver ==
    reg.state = "live" =>
        \A n \in Between(0, reg.resume) :
            n <= told[log[n]] \/ Superseded(n) \/ n \in passed

\* A slice that is ready, with no refresh under way, shows rows at least as new
\* as the newest input it was told of, whatever replies were overtaken.
ReadySlicesAreCurrent ==
    \A t \in Topic :
        slice[t].step = "idle" /\ slice[t].status = "ready" => slice[t].shows >= told[t]

\* The stream of a live registration has ended, and the connection is up.
Deaf == reg.state = "live" /\ server.step = "idle"

\* Once nothing changes any more, every slice shows the newest input of its
\* topic, after lost connections and refused ones, unless hydration failed, the
\* slice shows an error, the stream ended with an error, or the input was passed
\* over.
InputsShow ==
    <>[](\A n \in Own :
            \/ slice[log[n]].shows >= n \/ slice[log[n]].status = "error"
            \/ reg.state = "failed" \/ Deaf \/ n \in passed)

\* What the subscription promises, without an exception: the store hears of every
\* input behind the resume cursor.
CursorMeansTold ==
    reg.state = "live" =>
        \A n \in Between(0, reg.resume) : n <= told[log[n]] \/ Superseded(n)
================================================================================
