----------------------------- MODULE AgentChat -----------------------------
(***************************************************************************)
(* One session of the assistant DaSwarm is built on: its document, the     *)
(* in-process tasks that run its agent, and the browser tabs that chat     *)
(* with it over the WebSocket /ws/chat.                                    *)
(*                                                                         *)
(* A chat frame finds or creates a task, puts the message on the task's    *)
(* input stream, starts the task and reads its output stream until an      *)
(* ending event, or until the task is done and the stream is drained.  The *)
(* runner pops messages, runs the flow, streams its events and writes the  *)
(* session's status.  Every await of the code is a step boundary here.     *)
(*                                                                         *)
(* Redis streams and asyncio are external.  Event contents are reduced to  *)
(* what a reader tells apart: "event" goes on, "wait", "error" and "done"  *)
(* end a stream.                                                           *)
(***************************************************************************)
EXTENDS Naturals, Sequences, FiniteSets

CONSTANTS Tabs,         \* the open tabs, one WebSocket each
          MaxChats,     \* chat frames sent in all (bound)
          FlowKinds,    \* what a flow streams on its way: "event", and "error" of a tool
          MaxOut,       \* how many of them (bound)
          MaxRestarts   \* restarts of the API process (bound)

ASSUME ChatAssumption == /\ {MaxChats, MaxOut, MaxRestarts} \subseteq Nat
                         /\ FlowKinds \subseteq {"event", "error"}

Tasks == 1..MaxChats    \* a chat creates one task at most

VARIABLES status, sessTask,                                  \* the document
          exec, inq, out, starts, reg, made,                 \* the tasks
          pc, seen, obj, tab,                                \* the tabs' streams
          stopping, aim,                                     \* their stops, and what each found
          orphaned,     \* who was to settle the status as it stands was lost
          restarts, chats

docVars  == <<status, sessTask, orphaned>>
taskVars == <<exec, inq, out, starts, reg, made>>
readVars == <<pc, seen, obj, tab>>
stopVars == <<stopping, aim>>
tabVars  == <<readVars, stopVars>>
envVars  == <<restarts, chats>>
chatVars == <<docVars, taskVars, tabVars, envVars>>

Statuses == {"pending", "running", "waiting", "completed"}
Ending   == {"wait", "error", "done"}
DoneExec == {"new", "ended"}                       \* RedisStreamTask._done
Handler  == {"cancel", "fail", "close"}            \* inside an except block
Execs    == DoneExec \cup Handler
              \cup {"scheduled", "check", "popped", "flow", "reply", "park", "settle"}
Reading  == {"find", "look", "sandbox", "create", "store", "run", "poll", "get", "final"}

NoTask == 0
NoStream == [msg |-> FALSE, done |-> FALSE, run |-> 0, drained |-> FALSE, cur |-> 0]

ChatInit ==
  /\ status = "pending" /\ sessTask = NoTask
  /\ exec = [t \in Tasks |-> "new"] /\ reg = {}
  /\ inq = [t \in Tasks |-> 0] /\ out = [t \in Tasks |-> <<>>]
  /\ starts = [t \in Tasks |-> 0] /\ made = 0
  /\ pc = [c \in Tabs |-> "idle"] /\ seen = [c \in Tabs |-> "pending"]
  /\ obj = [c \in Tabs |-> NoTask] /\ tab = [c \in Tabs |-> NoStream]
  /\ stopping = {} /\ aim = [c \in Tabs |-> NoTask]
  /\ orphaned = FALSE /\ restarts = 0 /\ chats = 0

\* The status is written; whoever is lost with it left at running leaves nobody for it.
Write(s) == status' = s /\ orphaned' = FALSE
Lose(lost) == orphaned' = (orphaned \/ (status = "running" /\ lost))

-----------------------------------------------------------------------------
(* Frames of the WebSocket.  The loop handles one at a time: none while a   *)
(* stop is under way.  Starting a stream cancels the one before.            *)

SetStream(c, label, stream) ==
  /\ pc' = [pc EXCEPT ![c] = label] /\ tab' = [tab EXCEPT ![c] = stream]
  /\ seen' = [seen EXCEPT ![c] = "pending"] /\ obj' = [obj EXCEPT ![c] = NoTask]
StartStream(c, msg) == SetStream(c, "find", [NoStream EXCEPT !.msg = msg])
EndStream(c) == SetStream(c, "idle", NoStream)
LastFrames(c) == SetStream(c, "final", NoStream)

\* join_session: a running session is followed live, any other is only shown.
Join(c) ==
  /\ c \notin stopping /\ pc[c] = "idle" /\ status = "running"
  /\ StartStream(c, FALSE)
  /\ UNCHANGED <<docVars, taskVars, stopVars, envVars>>

\* leave_session, and the end of the connection: the stream is cancelled where it is.
Leave(c) ==
  /\ c \notin stopping /\ pc[c] # "idle"
  /\ EndStream(c)
  /\ UNCHANGED <<docVars, taskVars, stopVars, envVars>>

\* chat, of a tab that has joined: acknowledged, and shown as running, before anything
\* of it is stored.
SendChat(c) ==
  /\ c \notin stopping /\ chats < MaxChats
  /\ chats' = chats + 1
  /\ StartStream(c, TRUE)
  /\ UNCHANGED <<docVars, taskVars, stopVars, restarts>>

Live(t) == t # NoTask /\ t \in reg                 \* RedisStreamTask.get

\* RedisStreamTask.cancel: the registry forgets the task, and CancelledError reaches
\* its coroutine: handled inside run's try block; before the first step, or inside a
\* handler, it ends the execution at once.
Interrupted_EndsAtOnce(label) == IF label \in DoneExec THEN label ELSE "ended"
Interrupted(label) == IF label \in DoneExec THEN label
                      ELSE IF label \in Handler \cup {"scheduled"} THEN "ended" ELSE "cancel"

Cancel(T) ==
  /\ exec' = [t \in Tasks |-> IF t \in T THEN Interrupted(exec[t]) ELSE exec[t]]
  /\ reg' = reg \ T

\* stop_session finds the document, and with it the task it names.
Stop(c) ==
  /\ c \notin stopping /\ stopping' = stopping \cup {c}
  /\ aim' = [aim EXCEPT ![c] = sessTask]
  /\ UNCHANGED <<docVars, taskVars, readVars, envVars>>

\* That task, if the registry still has it, is cancelled.
StopCancel(c) ==
  /\ c \in stopping /\ aim[c] # NoTask /\ aim' = [aim EXCEPT ![c] = NoTask]
  /\ Cancel({t \in Tasks : t = aim[c] /\ Live(t)})
  /\ UNCHANGED <<docVars, inq, out, starts, made, readVars, stopping, envVars>>

\* Then the status is written whatever the task still does.
StopSettle(c) ==
  /\ c \in stopping /\ aim[c] = NoTask /\ stopping' = stopping \ {c}
  /\ Write("completed")
  /\ UNCHANGED <<sessTask, taskVars, readVars, aim, envVars>>

\* Or the write raises, and the frame is answered with an error.
StopFails(c) ==
  /\ c \in stopping /\ aim[c] = NoTask /\ stopping' = stopping \ {c}
  /\ Lose(TRUE)
  /\ UNCHANGED <<status, sessTask, taskVars, readVars, aim, envVars>>

StopStep(c) == StopCancel(c) \/ StopSettle(c) \/ StopFails(c)

-----------------------------------------------------------------------------
(* AgentDomainService.chat, one step per await.                             *)

Goto(c, label) == pc' = [pc EXCEPT ![c] = label]

\* The session is copied, and everything below works on the copy.
ChatFind(c) ==
  /\ pc[c] = "find" /\ Goto(c, "look")
  /\ obj' = [obj EXCEPT ![c] = sessTask]
  /\ seen' = [seen EXCEPT ![c] = IF tab[c].msg THEN status ELSE @]
  /\ UNCHANGED <<docVars, taskVars, tab, stopVars, envVars>>

\* The registry is asked for the copy's task.  A message for a session not running gets
\* a new one; a task found is read from whatever event the page saw last.
ChatLook(c) ==
  /\ pc[c] = "look"
  /\ \/ /\ tab[c].msg /\ seen[c] # "running"
        /\ \E label \in {"sandbox", "create"} : Goto(c, label)
        /\ UNCHANGED <<seen, tab>>
        /\ UNCHANGED obj
     \/ /\ tab[c].msg => seen[c] = "running"
        /\ Live(obj[c]) /\ seen' = [seen EXCEPT ![c] = "pending"]
        /\ \E last \in 0..Len(out[obj[c]]) : tab' = [tab EXCEPT ![c].cur = last]
        /\ Goto(c, IF tab[c].msg THEN "store" ELSE "poll")
        /\ UNCHANGED obj
     \/ /\ tab[c].msg => seen[c] = "running"
        /\ ~Live(obj[c]) /\ LastFrames(c)
  /\ UNCHANGED <<docVars, taskVars, stopVars, envVars>>

\* _create_task, first half: without a sandbox that answers, one is created and the
\* whole copy is saved with its name, the copy's status and task with it.
ChatSandbox(c) ==
  /\ pc[c] = "sandbox" /\ Goto(c, "create")
  /\ Write(seen[c]) /\ sessTask' = obj[c]
  /\ UNCHANGED <<taskVars, seen, obj, tab, stopVars, envVars>>

\* _create_task, second half: a task is registered, the whole copy is saved with its id.
ChatCreate(c) ==
  /\ pc[c] = "create" /\ Goto(c, "store")
  /\ made' = made + 1 /\ reg' = reg \cup {made'}
  /\ sessTask' = made' /\ obj' = [obj EXCEPT ![c] = made']
  /\ Write(seen[c]) /\ seen' = [seen EXCEPT ![c] = "pending"]
  /\ UNCHANGED <<exec, inq, out, starts, tab, stopVars, envVars>>

\* The message goes to the task's input stream, then to the session's history.
ChatStore(c) ==
  /\ pc[c] = "store" /\ Goto(c, "run")
  /\ inq' = [inq EXCEPT ![obj[c]] = @ + 1]
  /\ UNCHANGED <<docVars, exec, out, starts, reg, made,
                 seen, obj, tab, stopVars, envVars>>

\* is_done, and the run it was asked of.
Asked(c, done, run) == [tab EXCEPT ![c].done = done, ![c].run = run]

\* RedisStreamTask.run: a task that is done gets a new execution, any other is left
\* alone.  Either way is_done, asked in the same breath, says no.
ChatRun(c) ==
  /\ pc[c] = "run" /\ Goto(c, "get")
  /\ LET t == obj[c]
         idle == exec[t] \in DoneExec
     IN  /\ exec' = IF idle THEN [exec EXCEPT ![t] = "scheduled"] ELSE exec
         /\ starts' = IF idle THEN [starts EXCEPT ![t] = @ + 1] ELSE starts
         /\ tab' = Asked(c, FALSE, starts'[t])
  /\ UNCHANGED <<docVars, inq, out, reg, made, seen, obj, stopVars, envVars>>

\* is_done is read before the stream is.
ChatPoll(c) ==
  /\ pc[c] = "poll" /\ Goto(c, "get")
  /\ tab' = Asked(c, exec[obj[c]] \in DoneExec, starts[obj[c]])
  /\ UNCHANGED <<docVars, taskVars, seen, obj, stopVars, envVars>>

Unread(c) == tab[c].cur < Len(out[obj[c]])
NextEvent(c) == out[obj[c]][tab[c].cur + 1]

Took(c) == [tab EXCEPT ![c].cur = @ + 1, ![c].done = FALSE, ![c].run = 0]
TakesOne(c) ==
  /\ Unread(c)
  /\ \/ NextEvent(c) \in Ending /\ LastFrames(c)
     \/ NextEvent(c) \notin Ending /\ tab' = Took(c) /\ Goto(c, "poll") /\ UNCHANGED <<seen, obj>>

\* output_stream.get: the next event, or none within a second.
ChatGet_NoDoneTest(c) ==
  /\ pc[c] = "get"
  /\ \/ TakesOne(c)
     \/ /\ ~Unread(c) /\ UNCHANGED <<seen, obj>>
        /\ tab' = [tab EXCEPT ![c].drained = TRUE] /\ Goto(c, "final")
  /\ UNCHANGED <<docVars, taskVars, stopVars, envVars>>
ChatGet_PollsOn(c) ==
  /\ pc[c] = "get"
  /\ \/ TakesOne(c)
     \/ ~Unread(c) /\ UNCHANGED <<seen, obj, tab>> /\ Goto(c, "poll")
  /\ UNCHANGED <<docVars, taskVars, stopVars, envVars>>
ChatGet(c) ==
  /\ pc[c] = "get"
  /\ \/ TakesOne(c)
     \/ /\ ~Unread(c) /\ tab[c].done /\ UNCHANGED <<seen, obj>>
        /\ tab' = [tab EXCEPT ![c].drained = TRUE] /\ Goto(c, "final")
     \/ /\ ~Unread(c) /\ ~tab[c].done /\ UNCHANGED <<seen, obj>>
        /\ tab' = [tab EXCEPT ![c].run = 0] /\ Goto(c, "poll")
  /\ UNCHANGED <<docVars, taskVars, stopVars, envVars>>

\* Finding, creating, storing or reading raises: an error is shown instead.
ChatRaise(c) ==
  /\ pc[c] \in Reading \ {"final"}
  /\ LastFrames(c)
  /\ UNCHANGED <<docVars, taskVars, stopVars, envVars>>

\* The trailing status_update, from the document as it is now, and stream_end.
ChatFinal(c) ==
  /\ pc[c] = "final" /\ EndStream(c)
  /\ UNCHANGED <<docVars, taskVars, stopVars, envVars>>

StreamStep(c) == \/ ChatFind(c) \/ ChatLook(c) \/ ChatSandbox(c) \/ ChatCreate(c)
                 \/ ChatStore(c) \/ ChatRun(c) \/ ChatPoll(c) \/ ChatGet(c)
                 \/ ChatRaise(c) \/ ChatFinal(c)

-----------------------------------------------------------------------------
(* AgentTaskRunner.run.                                                     *)

At(t, label) == exec[t] = label
To(t, label) == exec' = [exec EXCEPT ![t] = label]
Put(t, kind) == out' = [out EXCEPT ![t] = Append(@, kind)]

Begin(t) ==
  /\ At(t, "scheduled") /\ To(t, "check")
  /\ UNCHANGED <<docVars, inq, out, starts, reg, made, tabVars, envVars>>

\* _pop_event: the oldest message leaves the input stream.
Pop(t) == inq' = [inq EXCEPT ![t] = @ - 1]

\* While the input stream is not empty a message is popped.  It gets a lightweight
\* reply or the whole flow, by the mode the session is in, which the user may switch.
NextMessage_NoLook(t) ==
  /\ At(t, "check")
  /\ \E label \in {"reply", "popped"} : To(t, label)
  /\ Pop(t)
  /\ UNCHANGED <<docVars, out, starts, reg, made, tabVars, envVars>>
NextMessage(t) ==
  /\ At(t, "check") /\ inq[t] > 0
  /\ \E label \in {"reply", "popped"} : To(t, label)
  /\ Pop(t)
  /\ UNCHANGED <<docVars, out, starts, reg, made, tabVars, envVars>>

NoMessage(t) ==
  /\ At(t, "check") /\ inq[t] = 0 /\ To(t, "settle")
  /\ UNCHANGED <<docVars, inq, out, starts, reg, made, tabVars, envVars>>

\* PlanActFlow.run marks the session running; a chat-mode reply never does.
FlowBegin(t) ==
  /\ At(t, "popped") /\ To(t, "flow")
  /\ Write("running")
  /\ UNCHANGED <<sessTask, inq, out, starts, reg, made, tabVars, envVars>>

\* An event of the flow is streamed, an error of a tool among them; new input ends
\* the flow there.
FlowEvent(t) ==
  /\ Len(out[t]) < MaxOut
  /\ \E kind \in FlowKinds : (At(t, "flow") \/ (At(t, "reply") /\ kind = "event")) /\ Put(t, kind)
  /\ To(t, IF inq[t] > 0 THEN "check" ELSE exec[t])
  /\ UNCHANGED <<docVars, inq, starts, reg, made, tabVars, envVars>>

FlowDone(t) ==
  /\ exec[t] \in {"flow", "reply"} /\ Put(t, "done") /\ To(t, "check")
  /\ UNCHANGED <<docVars, inq, starts, reg, made, tabVars, envVars>>

\* The agent asks the user: the status first, then the event, then the execution ends.
FlowWait(t) ==
  /\ At(t, "flow") /\ To(t, "park")
  /\ Write("waiting")
  /\ UNCHANGED <<sessTask, inq, out, starts, reg, made, tabVars, envVars>>

Park(t) ==
  /\ At(t, "park") /\ To(t, "ended") /\ Put(t, "wait")
  /\ reg' = reg \ {t}
  /\ UNCHANGED <<docVars, inq, starts, made, tabVars, envVars>>

\* Whatever the preparation, the model, the flow or a store raises in the try block.
Raise(t) ==
  /\ exec[t] \in {"check", "popped", "flow", "reply", "park", "settle"} /\ To(t, "fail")
  /\ UNCHANGED <<docVars, inq, out, starts, reg, made, tabVars, envVars>>

\* Both handlers stream an ending event before they settle the status.
Handle(t) ==
  /\ exec[t] \in {"cancel", "fail"} /\ To(t, "close")
  /\ Put(t, IF exec[t] = "cancel" THEN "done" ELSE "error")
  /\ UNCHANGED <<docVars, inq, starts, reg, made, tabVars, envVars>>

\* The status is settled and the execution ends; the registry forgets the task.
Settle(t) ==
  /\ exec[t] \in {"settle", "close"} /\ To(t, "ended")
  /\ Write("completed") /\ reg' = reg \ {t}
  /\ UNCHANGED <<sessTask, inq, out, starts, made, tabVars, envVars>>

\* A handler raises itself, at its event or at its write: the error is only logged, the
\* execution ends with the status as it is.
HandlerFails(t) ==
  /\ exec[t] \in Handler /\ To(t, "ended") /\ reg' = reg \ {t}
  /\ Lose(TRUE)
  /\ UNCHANGED <<status, sessTask, inq, out, starts, made, tabVars, envVars>>

RunnerStep(t) ==
  \/ Begin(t) \/ NextMessage(t) \/ NoMessage(t) \/ FlowBegin(t) \/ FlowEvent(t)
  \/ FlowDone(t) \/ FlowWait(t) \/ Park(t) \/ Raise(t) \/ Handle(t) \/ Settle(t)
  \/ HandlerFails(t)

-----------------------------------------------------------------------------
\* The graceful end of the API: every registered task is cancelled and forgotten.
\* A handler it catches at work is cut off with its status unwritten.
Shutdown ==
  /\ restarts < MaxRestarts /\ reg # {} /\ Cancel(reg)
  /\ Lose(\E t \in reg : exec[t] \in Handler)
  /\ UNCHANGED <<status, sessTask, inq, out, starts, made, tabVars, envVars>>

\* The process ends: executions and connections are gone, and with the task objects the
\* names of their streams; the document stays.  Before the first frame there is nothing
\* to lose.
Restart ==
  /\ restarts < MaxRestarts /\ restarts' = restarts + 1 /\ chats > 0
  /\ exec' = [t \in Tasks |-> IF t <= made THEN "ended" ELSE "new"]
  /\ reg' = {} /\ inq' = [t \in Tasks |-> 0] /\ out' = [t \in Tasks |-> <<>>]
  /\ starts' = [t \in Tasks |-> 0]
  /\ pc' = [c \in Tabs |-> "idle"] /\ tab' = [c \in Tabs |-> NoStream]
  /\ seen' = [c \in Tabs |-> "pending"] /\ obj' = [c \in Tabs |-> NoTask]
  /\ stopping' = {} /\ aim' = [c \in Tabs |-> NoTask]
  /\ Lose(TRUE)
  /\ UNCHANGED <<status, sessTask, made, chats>>

ChatNext == \/ \E c \in Tabs : \/ Join(c) \/ Leave(c) \/ SendChat(c) \/ Stop(c) \/ StopStep(c)
                              \/ StreamStep(c)
            \/ \E t \in Tasks : RunnerStep(t)
            \/ Shutdown \/ Restart

\* The event loop runs every coroutine that is ready; flows end, so a runner and
\* a reader that can go on do.
ChatFairness == /\ \A t \in Tasks : WF_chatVars(RunnerStep(t))
                /\ \A c \in Tabs : WF_chatVars(StreamStep(c))

ChatSpec == ChatInit /\ [][ChatNext]_chatVars /\ ChatFairness

-----------------------------------------------------------------------------
ChatTypeOK ==
  /\ status \in Statuses /\ sessTask \in Tasks \cup {NoTask}
  /\ exec \in [Tasks -> Execs] /\ reg \subseteq Tasks
  /\ {inq, starts} \subseteq [Tasks -> 0..MaxChats]
  /\ \A t \in Tasks : out[t] \in Seq(Ending \cup {"event"})
  /\ made \in 0..MaxChats /\ chats \in 0..MaxChats /\ restarts \in 0..MaxRestarts
  /\ pc \in [Tabs -> Reading \cup {"idle"}] /\ seen \in [Tabs -> Statuses]
  /\ obj \in [Tabs -> Tasks \cup {NoTask}] 
  /\ stopping \subseteq Tabs /\ aim \in [Tabs -> Tasks \cup {NoTask}]
  /\ orphaned \in BOOLEAN

\* Who still has to write a settled status: an execution between its flow and its
\* end that has not parked, or a stop that has not come to its end.
Owes(t) == exec[t] \in Execs \ (DoneExec \cup {"scheduled", "park"})

(* A session is marked running only while somebody is bound to settle it:   *)
(* whatever tabs race, stops interrupt handlers and stale copies are saved. *)
(* What leaves "running" behind, from that write of the status on, is named *)
(* by orphaned: the loss of the process, a handler that raises itself or is *)
(* caught by the shutdown, a stop whose own write fails.                    *)
SettledStatus == status = "running" =>
                   orphaned \/ stopping # {} \/ \E t \in Tasks : Owes(t)

(* A stream that ends because the task is done has delivered everything     *)
(* that run of the task streamed: is_done is read before the stream is.     *)
DrainedStream == \A c \in Tabs :
  pc[c] = "final" /\ tab[c].drained /\ tab[c].run = starts[obj[c]] => ~Unread(c)

(* A tab's stream always comes to its end, so the page never waits forever. *)
StreamsEnd == \A c \in Tabs : pc[c] # "idle" ~> pc[c] = "idle"

=============================================================================
