----------------------------- MODULE SessionList -----------------------------
(***************************************************************************)
(* The session documents of one user and the sidebars that follow them.    *)
(*                                                                         *)
(* Every write of a session is followed by a notification on the user's    *)
(* Redis channel that names the session and nothing else; the WebSocket    *)
(* /ws/sessions subscribes, sends a snapshot, and answers every            *)
(* notification with the summary as it is by then.  The sidebar also       *)
(* fetches the whole list over REST whenever the route changes, and puts   *)
(* what its user did into its list itself when the request is answered.    *)
(*                                                                         *)
(* A document is reduced to one value, since every update goes the same    *)
(* way; some values say that the session is in the project which is being  *)
(* deleted.  A sidebar waits for one answer at a time.  Redis pub/sub is   *)
(* external: it delivers in order, to those who have subscribed.           *)
(***************************************************************************)
EXTENDS Naturals, Sequences

CONSTANTS Sessions, Values,   \* session ids; what a summary may say
          Placed,             \* those that put the session into the project to be deleted
          Bars,               \* sidebars, one WebSocket each
          None,               \* no document, no entry, nothing fetched
          MaxWrites, MaxFetches   \* bounds on writes, and on REST fetches

ASSUME ListAssumption == None \notin Values /\ Placed \subseteq Values /\ Values \ Placed # {}

VARIABLES doc,      \* Sessions -> Values or None
          born,     \* ids that have been used
          copy,     \* a session held by a handler that will save it whole
          revived,  \* deleted, then saved again from such a copy
          clearing, \* the sessions clear_project_id has read, or None
          due,      \* writes whose notification has not been published
          asked,    \* Bars -> [op, of]: a request its user made, not answered yet
          chan, ws, list, fetch,
          excused,  \* entries of a sidebar known to be out of date, see Converged
          writes, fetches

docsVars == <<doc, born, copy, revived, clearing, writes>>
barVars  == <<ws, list, fetch, fetches>>
owedVars == <<due, asked>>
listVars == <<docsVars, owedVars, chan, barVars, excused>>

Notes == [op : {"saved", "updated", "remove"}, s : Sessions]
Note(op, s) == [op |-> op, s |-> s]
Copies == [s : Sessions, v : Values]
Asks == [op : {"none", "updated", "remove", "cleared"}, of : SUBSET Sessions]
NoAsk == [op |-> "none", of |-> {}]

ListInit ==
  /\ doc = [s \in Sessions |-> None] /\ born = {} /\ copy = None /\ revived = {} /\ clearing = None
  /\ due = [n \in Notes |-> 0] /\ asked = [b \in Bars |-> NoAsk] /\ chan = [b \in Bars |-> <<>>]
  /\ ws = [b \in Bars |-> "off"] /\ list = [b \in Bars |-> doc]
  /\ fetch = [b \in Bars |-> None] /\ excused = [b \in Bars |-> {}]
  /\ writes = 0 /\ fetches = 0

-----------------------------------------------------------------------------
(* Writers.  A write and its notification are two awaits.                   *)

Write(s, v, op) ==
  /\ writes < MaxWrites /\ writes' = writes + 1
  /\ doc' = [doc EXCEPT ![s] = v]
  /\ due' = [due EXCEPT ![Note(op, s)] = @ + 1]
  /\ UNCHANGED <<clearing, chan, barVars, excused>>

\* A sidebar may wait for the answer to what was just written.
Awaited(op, of) ==
  \/ UNCHANGED asked
  \/ \E b \in Bars : asked[b] = NoAsk /\ asked' = [asked EXCEPT ![b] = [op |-> op, of |-> of]]

\* create_session: save of a new id.
CreateSession(s) ==
  /\ s \notin born /\ s = (CHOOSE t \in Sessions \ born : TRUE) /\ born' = born \cup {s}
  /\ \E v \in Values : Write(s, v, "saved")
  /\ UNCHANGED <<copy, revived, asked>>

\* What every route asks first: the session is there, and the user's.
Found(s) == doc[s] # None

\* update_title, _status, _shared_status, ...: one $set.
SetFields(s) == \E v \in Values \ {doc[s]} : Write(s, v, "updated")

UpdateSession(s) ==
  /\ Found(s) /\ SetFields(s) /\ Awaited("updated", {s})
  /\ UNCHANGED <<born, copy, revived>>

Deleted(s) == Write(s, None, "remove")

DeleteSession(s) ==
  /\ Found(s) /\ Deleted(s) /\ Awaited("remove", {s})
  /\ UNCHANGED <<born, copy, revived>>

\* A chat holds the session it found while it creates sandbox and task ...
HoldCopy(s) ==
  /\ doc[s] # None /\ copy = None
  /\ copy' = [s |-> s, v |-> doc[s]]
  /\ UNCHANGED <<doc, born, revived, clearing, writes, owedVars, chan, barVars, excused>>

\* ... and saves it whole: a document that is gone is inserted again.
SaveCopy ==
  /\ copy # None /\ copy' = None
  /\ revived' = IF doc[copy.s] = None THEN revived \cup {copy.s} ELSE revived
  /\ Write(copy.s, copy.v, "saved")
  /\ UNCHANGED <<born, asked>>

InProject == {s \in Sessions : doc[s] \in Placed}

\* clear_project_id reads the sessions of the project; a reading broken off is replaced ...
ReadAffected ==
  /\ clearing' = InProject
  /\ UNCHANGED <<doc, born, copy, revived, writes, owedVars, chan, barVars, excused>>

\* ... takes out the ones that are in it by now, and notifies of those it has read: one
\* that was moved in between is written and nobody is told.
ClearProject ==
  /\ clearing # None /\ clearing' = None
  /\ writes < MaxWrites /\ writes' = writes + 1
  /\ \E v \in Values \ Placed : doc' = [s \in Sessions |-> IF s \in InProject THEN v ELSE doc[s]]
  /\ due' = [n \in Notes |-> IF n.op = "saved" /\ n.s \in clearing THEN due[n] + 1 ELSE due[n]]
  /\ excused' = [b \in Bars |-> excused[b] \cup (InProject \ clearing)]
  /\ Awaited("cleared", Sessions)
  /\ UNCHANGED <<born, copy, revived, chan, barVars>>

Listeners == {b \in Bars : ws[b] # "off"}
Publish(n) ==
  chan' = [b \in Bars |-> IF b \in Listeners THEN Append(chan[b], n) ELSE chan[b]]

\* The notification of an update looks the document up first; a removal and a save do not.
Notify(n) ==
  /\ due[n] > 0 /\ due' = [due EXCEPT ![n] = @ - 1]
  /\ IF n.op = "updated" /\ doc[n.s] = None THEN UNCHANGED chan ELSE Publish(n)
  /\ UNCHANGED <<docsVars, asked, barVars, excused>>

\* Redis cannot be reached: the notification is logged and lost.
LoseNotice(n) ==
  /\ due[n] > 0 /\ due' = [due EXCEPT ![n] = @ - 1]
  /\ excused' = [b \in Bars |-> excused[b] \cup {n.s}]
  /\ UNCHANGED <<docsVars, asked, chan, barVars>>

-----------------------------------------------------------------------------
(* The WebSocket and the sidebar.                                           *)

Subscribe_AfterSnapshot(b) ==
  /\ ws[b] = "off" /\ ws' = [ws EXCEPT ![b] = "live"]
  /\ list' \in {[list EXCEPT ![b] = doc], [list EXCEPT ![b] = [s \in Sessions |-> None]]}
  /\ chan' = [chan EXCEPT ![b] = <<>>]
  /\ UNCHANGED <<docsVars, owedVars, fetch, fetches, excused>>

Subscribe(b) ==
  /\ ws[b] = "off" /\ ws' = [ws EXCEPT ![b] = "subscribed"]
  /\ chan' = [chan EXCEPT ![b] = <<>>]
  /\ UNCHANGED <<docsVars, owedVars, list, fetch, fetches, excused>>

\* find_summaries_by_user_id: the whole list as it is.
Summaries == doc

\* The first frame: the whole list, read after the subscription.
Snapshot(b) ==
  /\ ws[b] = "subscribed" /\ ws' = [ws EXCEPT ![b] = "live"]
  /\ list' = [list EXCEPT ![b] = Summaries]
  /\ excused' = [excused EXCEPT ![b] = {}]
  /\ UNCHANGED <<docsVars, owedVars, chan, fetch, fetches>>

Shown(b, n) == IF n.op = "remove" THEN None
               ELSE IF doc[n.s] = None THEN list[b][n.s] ELSE doc[n.s]

\* A notification: a removal is passed on, for anything else the summary is read now.
Take(b) ==
  /\ ws[b] = "live" /\ chan[b] # <<>>
  /\ LET n == Head(chan[b])
     IN  /\ list' = [list EXCEPT ![b][n.s] = Shown(b, n)]
         /\ excused' = [excused EXCEPT ![b] = IF Shown(b, n) = doc[n.s] THEN @ \ {n.s} ELSE @]
  /\ chan' = [chan EXCEPT ![b] = Tail(@)]
  /\ UNCHANGED <<docsVars, owedVars, ws, fetch, fetches>>

\* The connection drops; the sidebar keeps its list and connects again.
Drop(b) ==
  /\ ws[b] # "off" /\ ws' = [ws EXCEPT ![b] = "off"]
  /\ chan' = [chan EXCEPT ![b] = <<>>]
  /\ UNCHANGED <<docsVars, owedVars, list, fetch, fetches, excused>>

\* The route changed: the list is fetched over REST, and replaced when the answer is in.
Fetch(b) ==
  /\ fetch[b] = None /\ fetches < MaxFetches /\ fetches' = fetches + 1
  /\ fetch' = [fetch EXCEPT ![b] = Summaries]
  /\ UNCHANGED <<docsVars, owedVars, chan, ws, list, excused>>

\* Entries that differ from what the sidebar had, and from their documents.
Overwritten(b, shown) ==
  excused' = [excused EXCEPT ![b] = @ \cup {s \in Sessions : shown[s] \notin {list[b][s], doc[s]}}]

Fetched(b) ==
  /\ fetch[b] # None /\ fetch' = [fetch EXCEPT ![b] = None]
  /\ list' = [list EXCEPT ![b] = fetch[b]]
  /\ Overwritten(b, fetch[b])
  /\ UNCHANGED <<docsVars, owedVars, chan, ws, fetches>>

\* What an answer makes of an entry: a rename, a pin, a move ... puts one field into what
\* is shown, a deletion drops it, a deleted project is taken from every entry that has it.
Locally(b, s) ==
  LET r == asked[b] IN
  {x \in Values \cup {None} :
    IF s \notin r.of \/ list[b][s] = None \/ (r.op = "cleared" /\ list[b][s] \notin Placed)
    THEN x = list[b][s]
    ELSE /\ (x = None) = (r.op = "remove") /\ r.op = "cleared" => x \notin Placed}

RequestDone(b) ==
  /\ asked[b] # NoAsk /\ asked' = [asked EXCEPT ![b] = NoAsk]
  /\ \E shown \in [Sessions -> Values \cup {None}] :
       /\ \A s \in Sessions : shown[s] \in Locally(b, s)
       /\ list' = [list EXCEPT ![b] = shown] /\ Overwritten(b, shown)
  /\ UNCHANGED <<docsVars, due, chan, ws, fetch, fetches>>

ListNext == \/ \E s \in Sessions : \/ CreateSession(s) \/ UpdateSession(s) \/ DeleteSession(s)
                                  \/ HoldCopy(s)
            \/ SaveCopy \/ ReadAffected \/ ClearProject
            \/ \E n \in Notes : Notify(n) \/ LoseNotice(n)
            \/ \E b \in Bars : Subscribe(b) \/ Snapshot(b) \/ Take(b) \/ Drop(b) \/ Fetch(b)
                              \/ Fetched(b) \/ RequestDone(b)

ListSpec == ListInit /\ [][ListNext]_listVars

-----------------------------------------------------------------------------
ListTypeOK ==
  /\ doc \in [Sessions -> Values \cup {None}] /\ born \subseteq Sessions
  /\ copy \in Copies \cup {None} /\ revived \subseteq born
  /\ clearing \in (SUBSET Sessions) \cup {None} /\ asked \in [Bars -> Asks]
  /\ due \in [Notes -> Nat] /\ \A b \in Bars : chan[b] \in Seq(Notes)
  /\ ws \in [Bars -> {"off", "subscribed", "live"}]
  /\ \A b \in Bars : /\ list[b] \in [Sessions -> Values \cup {None}]
                     /\ fetch[b] \in [Sessions -> Values \cup {None}] \cup {None}
                     /\ excused[b] \subseteq Sessions
  /\ {s \in Sessions : doc[s] # None} \subseteq born

(* A sidebar whose channel is drained shows the documents as they are.  The *)
(* exceptions are named: a session a stale copy brought back (its removal   *)
(* may be announced last); until the next word on it, an entry the last     *)
(* word on which was lost, that a REST answer overwrote (with the whole     *)
(* list, or the sidebar's own request) by something neither it nor the      *)
(* document had, or that a deleted project was taken from untold.           *)
CaughtUp(b, s) == /\ ws[b] = "live" /\ \A op \in {"saved", "updated", "remove"} : due[Note(op, s)] = 0
               /\ \A i \in 1..Len(chan[b]) : chan[b][i].s # s
Converged == \A b \in Bars, s \in Sessions :
  CaughtUp(b, s) => list[b][s] = doc[s] \/ s \in revived \cup excused[b]
=============================================================================
