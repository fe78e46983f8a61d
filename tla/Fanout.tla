-------------------------------- MODULE Fanout --------------------------------
(***************************************************************************)
(* How an API replica copies one caption stream to its viewers             *)
(* (src/conffy/api/fanout.py), seen from browsers that reconnect with the  *)
(* id of the last event they got (caption_stream in src/conffy/api/main.py).*)
(*                                                                         *)
(* One session and language: the others have hubs of their own.  The id of *)
(* an entry is its position in the stream.  A browser receives an entry    *)
(* when the replica yields it; one that is lost on the way is one that was *)
(* not yielded before the connection broke.                                *)
(***************************************************************************)
EXTENDS Integers, Sequences, FiniteSets, Ranks

CONSTANTS
    Clients,       \* browsers
    Hubs,          \* identities of _Hub objects, numbers; reused when forgotten
    NoHub,         \* no entry in _hubs for this stream
    ReplayFinals,  \* REPLAY_FINALS
    Scan,          \* entries last_finals looks at
    MaxBacklog,    \* MAX_BACKLOG
    QueueCap,      \* SUBSCRIBER_QUEUE
    TailMayFail,   \* whether the first command of a hub may fail
    MaxLog         \* bound of the model: entries in the stream

Dropped == 0       \* _DROPPED in a queue; ids start at 1

ASSUME FanoutAssumption ==
    /\ Hubs \subseteq Nat /\ NoHub \notin Hubs
    /\ ReplayFinals \in Nat /\ Scan \in Nat /\ MaxLog \in Nat
    /\ MaxBacklog \in Nat \ {0} /\ QueueCap \in Nat \ {0}
    /\ TailMayFail \in BOOLEAN

VARIABLES
    log,       \* Valkey: the kind of each entry of the caption stream
    current,   \* _hubs[key]
    task,      \* each hub: its reader task
    last,      \* each hub: id of the last entry its reader has seen
    subs,      \* each hub: the clients whose queue is in subs
    pc,        \* each client: where its events() is
    hub,       \* each client: the hub it attached to
    queue,     \* each client: its queue
    backlog,   \* each client: ids of the backlog it has not yielded yet
    seen,      \* each client: newest id its events() has yielded
    lastId,    \* each browser: id of the last event it got, 0 if none
    due,       \* history: the entry up to which each browser is served: the
               \* newest it got, or the end of the stream when it first read it
    denied,    \* history: later ids it will not get: discarded from a full queue,
               \* or between a backlog that was cut and its queue
    repeated   \* history: the ids each browser got again or out of order

hubs    == <<current, task, last, subs>>
conns   == <<pc, hub, queue, backlog, seen>>
browser == <<lastId, due, denied, repeated>>
vars == <<log, hubs, conns, browser>>

Ids == 1..Len(log)

TypeOK ==
    /\ log \in Seq({"final", "other"})
    /\ current \in Hubs \cup {NoHub}
    /\ task \in [Hubs -> {"none", "tail", "reading", "failed", "cancelled"}]
    /\ last \in [Hubs -> Nat]
    /\ subs \in [Hubs -> SUBSET Clients]
    /\ pc \in [Clients -> {"off", "wait", "on"}]
    /\ hub \in [Clients -> Hubs \cup {NoHub}]
    /\ queue \in [Clients -> Seq(Nat)]
    /\ backlog \in [Clients -> Seq(Nat)]
    /\ seen \in [Clients -> Nat]
    /\ lastId \in [Clients -> Nat]
    /\ due \in [Clients -> Nat]
    /\ denied \in [Clients -> SUBSET Nat]
    /\ repeated \in [Clients -> SUBSET Nat]

Init ==
    /\ log = <<>>
    /\ current = NoHub
    /\ task = [h \in Hubs |-> "none"]
    /\ last = [h \in Hubs |-> 0]
    /\ subs = [h \in Hubs |-> {}]
    /\ pc = [c \in Clients |-> "off"]
    /\ hub = [c \in Clients |-> NoHub]
    /\ queue = [c \in Clients |-> <<>>]
    /\ backlog = [c \in Clients |-> <<>>]
    /\ seen = [c \in Clients |-> 0]
    /\ lastId = [c \in Clients |-> 0]
    /\ due = [c \in Clients |-> 0]
    /\ denied = [c \in Clients |-> {}]
    /\ repeated = [c \in Clients |-> {}]

-----------------------------------------------------------------------------
(* The stream and the hubs.                                                *)

\* A worker appends a FINAL, or a PARTIAL or a session event.
Publish(kind) ==
    /\ Len(log) < MaxLog
    /\ log' = Append(log, kind)
    /\ UNCHANGED <<hubs, conns, browser>>

\* _loop() begins at the tail of the stream, and only then is the hub ready.
HubTail(h) ==
    /\ task[h] = "tail"
    /\ task' = [task EXCEPT ![h] = "reading"]
    /\ last' = [last EXCEPT ![h] = Len(log)]
    /\ UNCHANGED <<log, current, subs, conns, browser>>

\* stream_tail raises: the task is over and the hub never becomes ready.
HubTailFails(h) ==
    /\ TailMayFail
    /\ task[h] = "tail"
    /\ task' = [task EXCEPT ![h] = "failed"]
    /\ UNCHANGED <<log, current, last, subs, conns, browser>>

\* The ids after a, up to b.
After(a, b) == [i \in 1..(b - a) |-> a + i]

\* put_nowait of new ids on a queue: when it is full, its oldest item makes room
\* for the drop signal, and nothing more is put.
Overflows(q, n) == Len(q) + n > QueueCap

\* Mutant of PutAll: a full queue gets no drop signal.
PutSilently(q, new) == SubSeq(q \o new, 1, QueueCap)

PutAll(q, new) ==
    IF Overflows(q, Len(new))
    THEN Append(Tail(q \o SubSeq(new, 1, QueueCap - Len(q))), Dropped)
    ELSE q \o new

Deny(c, ids) == denied[c] \cup {id \in ids : id > due[c]}

\* A reply of XREAD is copied to every queue in one go.  It may hold fewer
\* entries than the stream has by then; a failed XREAD is tried again.  Every
\* entry is taken to be one that publish wrote: decode_message is outside the
\* try, and an entry it cannot read would end the hub here.
HubRead(h) ==
    /\ task[h] = "reading"
    /\ \E n \in (last[h] + 1)..Len(log) :
          LET new == After(last[h], n) IN
          /\ last' = [last EXCEPT ![h] = n]
          /\ queue' = [c \in Clients |-> IF c \in subs[h] THEN PutAll(queue[c], new)
                                         ELSE queue[c]]
          /\ subs' = [subs EXCEPT ![h] = {c \in @ : ~Overflows(queue[c], Len(new))}]
          /\ denied' = [c \in Clients |->
                           IF c \in subs[h] /\ Overflows(queue[c], Len(new))
                           THEN Deny(c, {Head(queue[c] \o new)}) ELSE denied[c]]
    /\ UNCHANGED <<log, current, task, pc, hub, backlog, seen, lastId, due, repeated>>

-----------------------------------------------------------------------------
(* events(), one connection of a browser.                                  *)

Attach(c, h) ==
    /\ pc[c] = "off"
    /\ pc' = [pc EXCEPT ![c] = "wait"]
    /\ hub' = [hub EXCEPT ![c] = h]
    /\ UNCHANGED <<log, queue, backlog, seen, browser>>

Join(c) ==
    /\ current # NoHub
    /\ Attach(c, current)
    /\ subs' = [subs EXCEPT ![current] = @ \cup {c}]
    /\ UNCHANGED <<current, task, last>>

\* No task runs for it and no connection refers to it: its identity is free.
Forgotten(h) == task[h] = "none"

Open(c) ==
    /\ current = NoHub
    /\ \E h \in Hubs :
          /\ Forgotten(h) /\ \A g \in Hubs : Forgotten(g) => h <= g
          /\ Attach(c, h)
          /\ current' = h
          /\ task' = [task EXCEPT ![h] = "tail"]
          /\ subs' = [subs EXCEPT ![h] = {c}]
          /\ last' = [last EXCEPT ![h] = 0]

\* Mutants of Ready: ready at once; ready after the first entry only.
ReadyAtOnce(h) == h \in Hubs
ReadyLate(h) == task[h] = "cancelled" \/ (task[h] = "reading" /\ last[h] > 0)

\* hub.ready is set, and stays set when the task is cancelled.
Ready(h) == task[h] \in {"reading", "cancelled"}

\* read_range: the first MaxBacklog entries after the one the browser names.
ResumeBacklog(c) ==
    LET n == Len(log) - lastId[c]
    IN  After(lastId[c], lastId[c] + (IF n <= MaxBacklog THEN n ELSE MaxBacklog))

\* last_finals: the last ReplayFinals FINALs among the last Scan entries.
Replayed == {i \in Ids : /\ log[i] = "final" /\ i > Len(log) - Scan
                         /\ Cardinality({j \in Ids : j > i /\ log[j] = "final"}) < ReplayFinals}
FreshBacklog == Ascending(Replayed)

\* Ids the hub has passed that are neither in a cut backlog nor in the queue,
\* while a later one is or will be.
CutOff(c, end) ==
    {id \in (end + 1)..last[hub[c]] :
        /\ \A i \in DOMAIN queue[c] : queue[c][i] # id
        /\ \/ \E i \in DOMAIN queue[c] : queue[c][i] > id
           \/ \A i \in DOMAIN queue[c] : queue[c][i] # Dropped}

ReadBacklog(c) ==
    /\ pc[c] = "wait" /\ Ready(hub[c])
    /\ pc' = [pc EXCEPT ![c] = "on"]
    /\ backlog' = [backlog EXCEPT ![c] = IF lastId[c] = 0 THEN FreshBacklog
                                         ELSE ResumeBacklog(c)]
    /\ seen' = [seen EXCEPT ![c] = lastId[c]]
    /\ due' = [due EXCEPT ![c] = IF lastId[c] = 0 THEN Len(log) ELSE @]
    /\ denied' = [denied EXCEPT ![c] =
                     IF lastId[c] = 0 THEN {id \in @ : id > Len(log)}
                     ELSE Deny(c, CutOff(c, lastId[c] + Len(ResumeBacklog(c))))]
    /\ UNCHANGED <<log, hubs, hub, queue, lastId, repeated>>

Yield(c, id) ==
    /\ seen' = [seen EXCEPT ![c] = id]
    /\ lastId' = [lastId EXCEPT ![c] = id]
    /\ due' = [due EXCEPT ![c] = IF id > @ THEN id ELSE @]
    /\ denied' = [denied EXCEPT ![c] = {i \in @ : i > id}]
    /\ repeated' = [repeated EXCEPT ![c] = IF id > lastId[c] THEN @ ELSE @ \cup {id}]

YieldBacklog(c) ==
    /\ pc[c] = "on" /\ backlog[c] # <<>>
    /\ Yield(c, Head(backlog[c]))
    /\ backlog' = [backlog EXCEPT ![c] = Tail(@)]
    /\ UNCHANGED <<log, hubs, pc, hub, queue>>

\* Mutant of IsNew: the backlog is not compared.
IsNewAlways(c, id) == TRUE

IsNew(c, id) == id > seen[c]

\* The head of the queue, while events() is past its backlog.
NextItem(c, id) ==
    /\ pc[c] = "on" /\ backlog[c] = <<>>
    /\ queue[c] # <<>> /\ id = Head(queue[c])

YieldLive(c) == \E id \in Ids :
    /\ NextItem(c, id) /\ IsNew(c, id)
    /\ Yield(c, id)
    /\ queue' = [queue EXCEPT ![c] = Tail(@)]
    /\ UNCHANGED <<log, hubs, pc, hub, backlog>>

SkipLive(c) == \E id \in Ids :
    /\ NextItem(c, id) /\ ~IsNew(c, id)
    /\ queue' = [queue EXCEPT ![c] = Tail(@)]
    /\ UNCHANGED <<log, hubs, pc, hub, backlog, seen, browser>>

\* Mutant of RemovesHub: whatever hub is in _hubs.
RemovesAnyHub(h, others) == others = {}

\* The finally clause: the last client out removes the hub, if it still is the
\* one in _hubs, and cancels its task.
RemovesHub(h, others) == others = {} /\ current = h

Leave(c) ==
    LET h == hub[c]
        others == subs[h] \ {c}
        removes == RemovesHub(h, others)
        forgotten == /\ removes \/ task[h] \notin {"tail", "reading"}
                     /\ \A d \in Clients \ {c} : hub[d] # h
    IN  /\ pc' = [pc EXCEPT ![c] = "off"]
        /\ hub' = [hub EXCEPT ![c] = NoHub]
        /\ queue' = [queue EXCEPT ![c] = <<>>]
        /\ backlog' = [backlog EXCEPT ![c] = <<>>]
        /\ seen' = [seen EXCEPT ![c] = 0]
        /\ subs' = [subs EXCEPT ![h] = others]
        /\ current' = IF removes THEN NoHub ELSE current
        /\ task' = [task EXCEPT ![h] = IF forgotten THEN "none"
                                       ELSE IF removes THEN "cancelled" ELSE @]
        /\ last' = [last EXCEPT ![h] = IF forgotten THEN 0 ELSE @]
        /\ UNCHANGED <<log, browser>>

TakeDropped(c) == NextItem(c, Dropped) /\ Leave(c)

\* The browser goes away, or the read of its backlog fails.
Disconnect(c) == pc[c] # "off" /\ Leave(c)

\* The replica goes down; its browsers come back to another one.
ReplicaDies ==
    /\ current' = NoHub
    /\ task' = [h \in Hubs |-> "none"]
    /\ last' = [h \in Hubs |-> 0]
    /\ subs' = [h \in Hubs |-> {}]
    /\ pc' = [c \in Clients |-> "off"]
    /\ hub' = [c \in Clients |-> NoHub]
    /\ queue' = [c \in Clients |-> <<>>]
    /\ backlog' = [c \in Clients |-> <<>>]
    /\ seen' = [c \in Clients |-> 0]
    /\ UNCHANGED <<log, browser>>

-----------------------------------------------------------------------------
HubStep(h) == HubTail(h) \/ HubTailFails(h) \/ HubRead(h)
Serve(c) ==
    \/ ReadBacklog(c) \/ YieldBacklog(c)
    \/ YieldLive(c) \/ SkipLive(c) \/ TakeDropped(c)

Next ==
    \/ \E kind \in {"final", "other"} : Publish(kind)
    \/ \E h \in Hubs : HubStep(h)
    \/ \E c \in Clients : Join(c) \/ Open(c) \/ Serve(c) \/ Disconnect(c)
    \/ ReplicaDies

Spec == Init /\ [][Next]_vars

\* The event loop runs every hub and every connection that can go on (the
\* browser at the other end reads); a failed XREAD is repeated after a second.
\* Nobody has to publish, connect or disconnect.
Fairness ==
    /\ \A h \in Hubs : WF_vars(HubStep(h))
    /\ \A c \in Clients : WF_vars(Serve(c))

FairSpec == Spec /\ Fairness

-----------------------------------------------------------------------------
\* A browser never gets an entry twice or out of order, across the backlog, the
\* live queue, dropped connections and changes of replica.
Ordered == \A c \in Clients : repeated[c] = {}

\* The entries a step makes browser c miss.
Missed(c) == IF lastId'[c] # lastId[c] THEN (due[c] + 1)..(lastId'[c] - 1) ELSE {}

\* From the moment a browser first read the stream, it has every entry up to
\* the newest one it got, across reconnections, replicas, hubs that come and go
\* and the seam of backlog and queue; the only entries it misses are those that
\* the full queue of a slow viewer and the limit of a backlog denied it.
GapsExplained == [][\A c \in Clients : Missed(c) \subseteq denied[c]]_vars

\* fanout.py:8, "Resume without gaps or duplicates".
NoGap == [][\A c \in Clients : Missed(c) = {}]_vars

\* At most one reader per stream, the one in _hubs, and it never outlives its
\* last viewer.  A queue that still gets entries is in that hub, however old and
\* new hubs come and go.
OneReader ==
    /\ \A h \in Hubs : task[h] \in {"tail", "reading"} => h = current
    /\ \A h \in Hubs : subs[h] # {} => h = current
    /\ \A h \in Hubs : task[h] \in {"tail", "reading"} => \E c \in Clients : hub[c] = h

\* A connected browser that is behind gets every entry it is not denied, unless
\* the connection ends: a viewer that is too slow is disconnected, not left
\* waiting.
Behind(c) == \E id \in Ids : id > due[c] /\ id \notin denied[c]

CatchesUpOf(c) == pc[c] = "on" /\ Behind(c) ~> ~Behind(c) \/ pc[c] = "off"

\* A browser that connects is served, unless the first command of its hub fails:
\* the ready event of that hub is never set.
ServedOf(c) == pc[c] = "wait" ~> pc[c] # "wait" \/ task[hub[c]] = "failed"

=============================================================================
