----------------------------- MODULE SwarmEvents -----------------------------
(***************************************************************************)
(* The durable event ledger and its live stream: write transactions that   *)
(* append events under the lock of the configuration row                   *)
(* (application/service.py), the cursor of each WebSocket connection       *)
(* (interfaces/api.py), and the browser store that applies the events and  *)
(* reconnects from the last one it applied (frontend swarm/stores).        *)
(*                                                                         *)
(* An event is its sequence number.  PostgreSQL draws it when the row is   *)
(* inserted and never gives it back: a rollback leaves a gap.              *)
(***************************************************************************)
EXTENDS Naturals, Sequences, SequencesExt

CONSTANTS
  Writers,      \* write transactions that run at the same time
  Sockets,      \* WebSocket objects of one browser tab
  BatchLimit,   \* events the server reads at once (200)
  MaxSequence,  \* bound: how many sequence numbers are drawn
  MaxBreaks     \* bound: how often a connection or the network breaks

ASSUME EventsAssumption ==
  /\ BatchLimit \in Nat \ {0} /\ MaxSequence \in Nat /\ MaxBreaks \in Nat

VARIABLES
  \* The database.
  writing,       \* the transactions that hold the configuration row's lock
  sequence,      \* the last sequence number drawn
  pending,       \* the events each writer has inserted and not committed
  events,        \* the committed events
  \* Each connection: the browser's readyState, what the server knows of it.
  state,
  cursor,        \* the server's cursor
  entries,       \* the rest of the batch the server is sending
  wire,          \* sent and not yet received
  \* The browser store.
  socket,        \* the current WebSocket
  lastSequence,  \* lastSequence of the store
  applied,       \* history: the events the store has applied, in order
  connected,     \* the flag behind CONNECTED / RECONNECTING
  timers,        \* how many reconnect timers are running
  online,        \* navigator.onLine
  breaks         \* how many breaks there have been

database == <<writing, sequence, pending, events>>
server == <<cursor, entries, wire>>
browser == <<state, socket, connected, timers>>
store == <<lastSequence, applied>>
network == <<online, breaks>>
vars == <<database, server, browser, store, network>>

\* start() has just called connect().
Init ==
  /\ writing = {}
  /\ sequence = 0
  /\ pending = [t \in Writers |-> {}]
  /\ events = {}
  /\ \E c \in Sockets :
       /\ socket = c
       /\ state = [d \in Sockets |-> IF d = c THEN "connecting" ELSE "closed"]
  /\ cursor = [c \in Sockets |-> 0]
  /\ entries = [c \in Sockets |-> <<>>]
  /\ wire = [c \in Sockets |-> <<>>]
  /\ lastSequence = 0 /\ applied = <<>>
  /\ connected = FALSE /\ timers = 0
  /\ online = TRUE /\ breaks = 0

-----------------------------------------------------------------------------
(* Writers: Service.transaction and Service.event.                         *)

\* Mutant: no FOR UPDATE, transactions overlap.
Unlocked == TRUE

LockFree == writing = {}

Begin(t) ==
  /\ LockFree
  /\ t \notin writing
  /\ writing' = writing \cup {t}
  /\ UNCHANGED <<sequence, pending, events, server, browser, store, network>>

Insert(t) ==
  /\ t \in writing
  /\ sequence < MaxSequence
  /\ sequence' = sequence + 1
  /\ pending' = [pending EXCEPT ![t] = @ \cup {sequence'}]
  /\ UNCHANGED <<writing, events, server, browser, store, network>>

\* Commit, or a rollback after an exception or with the process.
End(t) ==
  /\ t \in writing
  /\ events' \in {events, events \cup pending[t]}
  /\ pending' = [pending EXCEPT ![t] = {}]
  /\ writing' = writing \ {t}
  /\ UNCHANGED <<sequence, server, browser, store, network>>

-----------------------------------------------------------------------------
(* The server's side of a connection.                                      *)

\* The committed events after a cursor.
After(n) == {e \in events : e > n}

InOrder(es) ==
  CHOOSE s \in SetToSeqs(es) : \A i, k \in DOMAIN s : i < k => s[i] < s[k]

\* One query of the stream; without new events it only sends a heartbeat.
Fetch(c) ==
  LET found == InOrder(After(cursor[c])) IN
  /\ state[c] = "open"
  /\ entries[c] = <<>> /\ found # <<>>
  /\ entries' = [entries EXCEPT
       ![c] = SubSeq(found, 1, IF Len(found) < BatchLimit THEN Len(found) ELSE BatchLimit)]
  /\ UNCHANGED <<database, cursor, wire, browser, store, network>>

Send(c) ==
  /\ state[c] = "open"
  /\ entries[c] # <<>>
  /\ wire' = [wire EXCEPT ![c] = Append(@, Head(entries[c]))]
  /\ cursor' = [cursor EXCEPT ![c] = Head(entries[c])]
  /\ entries' = [entries EXCEPT ![c] = Tail(@)]
  /\ UNCHANGED <<database, browser, store, network>>

-----------------------------------------------------------------------------
(* The browser: connect() and the handlers of control.ts.                  *)

\* Mutant: a reconnect that asks for what comes after the next event.
ResumeAhead == lastSequence + 1

\* The cursor in the URL of a new connection.
ResumeFrom == lastSequence

SocketFree == state[socket] \notin {"open", "connecting"}

\* A fresh WebSocket, unless the current one is still good.
Connect ==
  /\ IF SocketFree
       THEN \E c \in Sockets :
              /\ state[c] = "closed"
              /\ state' = [state EXCEPT ![c] = "connecting"]
              /\ cursor' = [cursor EXCEPT ![c] = ResumeFrom]
              /\ socket' = c
       ELSE UNCHANGED <<state, cursor, socket>>
  /\ UNCHANGED <<database, entries, wire, connected, store>>

TimerFires ==
  /\ timers > 0
  /\ timers' = timers - 1
  /\ IF online THEN Connect
               ELSE UNCHANGED <<database, server, state, socket, connected, store>>
  /\ UNCHANGED network

Opens(c) ==
  /\ state[c] = "connecting"
  /\ state' = [state EXCEPT ![c] = "open"]
  /\ connected' = TRUE
  /\ UNCHANGED <<database, server, socket, timers, store, network>>

IsNews(e) == e > lastSequence

\* onmessage; a socket that is not open drops what still arrives.
Receive(c) ==
  LET e == Head(wire[c]) IN
  /\ state[c] = "open"
  /\ wire[c] # <<>>
  /\ wire' = [wire EXCEPT ![c] = Tail(@)]
  /\ IF IsNews(e)
       THEN lastSequence' = e /\ applied' = Append(applied, e)
       ELSE UNCHANGED store
  /\ UNCHANGED <<database, cursor, entries, browser, network>>

\* Mutant: onclose without setTimeout.
NoRetry == UNCHANGED timers

Retry == timers' = timers + 1

\* onclose of a socket, be it the current one or not; the server's loop ends.
Closed(c) ==
  /\ state' = [state EXCEPT ![c] = "closed"]
  /\ entries' = [entries EXCEPT ![c] = <<>>]
  /\ wire' = [wire EXCEPT ![c] = <<>>]
  /\ connected' = FALSE
  /\ Retry
  /\ UNCHANGED <<database, cursor, socket, store>>

\* The connection breaks, or cannot be made.
Break(c) ==
  /\ state[c] \in {"open", "connecting"}
  /\ breaks < MaxBreaks /\ breaks' = breaks + 1
  /\ Closed(c)
  /\ UNCHANGED online

\* A socket that the browser closes takes a while to say so.
FinishClosing(c) ==
  /\ state[c] = "closing"
  /\ Closed(c)
  /\ UNCHANGED network

\* The offline and online events of the window.
GoOffline ==
  /\ online
  /\ breaks < MaxBreaks /\ breaks' = breaks + 1
  /\ online' = FALSE
  /\ connected' = FALSE
  /\ state' = [c \in Sockets |->
       IF c = socket /\ state[c] # "closed" THEN "closing" ELSE state[c]]
  /\ UNCHANGED <<database, server, socket, timers, store>>

\* The timer set last is cancelled, if it still runs, and connect() is called.
GoOnline ==
  /\ ~online
  /\ online' = TRUE
  /\ timers' \in {t \in {timers, timers - 1} : t >= 0}
  /\ Connect
  /\ UNCHANGED breaks

-----------------------------------------------------------------------------
Next ==
  \/ \E t \in Writers : Begin(t) \/ Insert(t) \/ End(t)
  \/ \E c \in Sockets :
       Fetch(c) \/ Send(c) \/ Opens(c) \/ Receive(c) \/ Break(c) \/ FinishClosing(c)
  \/ TimerFires \/ GoOffline \/ GoOnline

Spec == Init /\ [][Next]_vars

\* The stream loop and the browser's event loop run on; a closing socket says so
\* in the end; the network comes back.
Fairness ==
  /\ \A c \in Sockets :
       /\ WF_vars(Fetch(c)) /\ WF_vars(Send(c)) /\ WF_vars(Receive(c))
       /\ WF_vars(Opens(c)) /\ WF_vars(FinishClosing(c))
  /\ WF_vars(TimerFires) /\ WF_vars(GoOnline)

FairSpec == Spec /\ Fairness

-----------------------------------------------------------------------------
(* Properties.                                                             *)

\* Every variable keeps its shape; sequence numbers are drawn before they are
\* inserted, committed, sent or applied.
EventsTypeOK ==
  /\ sequence \in 0 .. MaxSequence
  /\ writing \subseteq Writers
  /\ pending \in [Writers -> SUBSET (1 .. sequence)]
  /\ events \subseteq 1 .. sequence
  /\ state \in [Sockets -> {"closed", "connecting", "open", "closing"}]
  /\ cursor \in [Sockets -> 0 .. sequence]
  /\ entries \in [Sockets -> Seq(events)] /\ wire \in [Sockets -> Seq(events)]
  /\ socket \in Sockets
  /\ lastSequence \in 0 .. sequence
  /\ connected \in BOOLEAN /\ online \in BOOLEAN
  /\ timers \in Nat /\ breaks \in 0 .. MaxBreaks

\* What the browser has applied is what is committed up to its cursor: nothing
\* skipped by a late commit, a full batch or a reconnect, nothing twice, in order.
NothingMissed ==
  applied = InOrder({e \in events : e <= lastSequence})

\* Every committed event reaches the browser, however often the connection broke.
CatchesUp ==
  \A e \in 1 .. MaxSequence : e \in events ~> lastSequence >= e

\* The header of SwarmShell.vue, which says CONNECTED or RECONNECTING, is not
\* wrong for good: again and again it says whether the store's socket is open.
BadgeTellsTheTruth == []<>(connected <=> state[socket] = "open")

=============================================================================
