-------------------------- MODULE AgentChatProofs --------------------------
(***************************************************************************)
(* That a session is left running only while somebody is bound to settle   *)
(* it, for any number of tabs, chats, streamed events and restarts.        *)
(*                                                                         *)
(* SettledStatus is not inductive: a chat that creates a task saves a copy *)
(* of the session it made earlier, so the copy must be known not to say    *)
(* "running".  CopySettled says so, and CopyTypes what the columns hold.   *)
(*                                                                         *)
(* And that a stream that ended because its task was done was complete:    *)
(* the second half, from StreamInv.  The third, from CountInv, is the      *)
(* types: tasks, starts and messages are counted against the frames sent.   *)
(***************************************************************************)
EXTENDS TLAPS, AgentChat, FiniteSetTheorems

CopyTypes == /\ status \in Statuses /\ stopping \subseteq Tabs
             /\ exec \in [Tasks -> Execs]
             /\ pc \in [Tabs -> Reading \cup {"idle"}] /\ seen \in [Tabs -> Statuses]

\* The copy _create_task is about to save was read from a session not running.
CopySettled == \A c \in Tabs : pc[c] \in {"sandbox", "create"} => seen[c] # "running"

ChatInv == CopyTypes /\ CopySettled /\ SettledStatus

\* What an execution owes is a matter of its label.
LEMMA OwesLabel ==
  ASSUME NEW t \in Tasks
  PROVE  /\ Owes(t) <=> exec[t] \in Handler \cup {"check", "popped", "flow", "reply", "settle"}
         /\ Owes(t)' <=> exec'[t] \in Handler \cup {"check", "popped", "flow", "reply", "settle"}
  BY DEF Owes, Execs, DoneExec, Handler

LEMMA ChatInitInv == ChatInit => ChatInv
  BY DEF ChatInit, ChatInv, CopyTypes, CopySettled, SettledStatus, Statuses, Execs, DoneExec,
         Handler, Reading

\* The tabs' steps: they write the status only from a copy that is settled, or settle it.
LEMMA TabSteps ==
  ASSUME ChatInv, NEW c \in Tabs,
         Join(c) \/ Leave(c) \/ SendChat(c) \/ Stop(c) \/ StopStep(c) \/ StreamStep(c)
  PROVE  ChatInv'
<1> USE DEF ChatInv
<1>1. CASE Join(c) \/ Leave(c) \/ SendChat(c) \/ Stop(c)
  BY <1>1 DEF Join, Leave, SendChat, Stop, StartStream, EndStream, SetStream, CopyTypes,
              CopySettled, SettledStatus, Owes, docVars, taskVars, readVars, stopVars, envVars,
              Statuses, Reading
<1>2. CASE StopCancel(c)
  <2>1. \A t \in Tasks : Interrupted(exec[t]) \in Execs
    BY DEF CopyTypes, Interrupted, Execs, DoneExec, Handler
  <2>2. exec' \in [Tasks -> Execs]
    BY <1>2, <2>1 DEF StopCancel, Cancel, CopyTypes
  <2>3. stopping' # {} /\ stopping' \subseteq Tabs
    BY <1>2 DEF StopCancel, CopyTypes
  <2> QED BY <1>2, <2>2, <2>3 DEF StopCancel, CopyTypes, CopySettled, SettledStatus, docVars,
                                  readVars
<1>3. CASE StopSettle(c)
  BY <1>3 DEF StopSettle, Write, CopyTypes, CopySettled, SettledStatus, taskVars, readVars, Statuses
<1>4. CASE StopFails(c)
  BY <1>4 DEF StopFails, Lose, CopyTypes, CopySettled, SettledStatus, taskVars, readVars
<1>5. CASE StreamStep(c)
  <2>1. CASE ChatFind(c) \/ ChatLook(c)
    BY <2>1 DEF ChatFind, ChatLook, LastFrames, SetStream, Goto, CopyTypes, CopySettled,
                SettledStatus, Owes, docVars, taskVars, stopVars, envVars, Statuses, Reading
  <2>2. CASE ChatSandbox(c)
    BY <2>2 DEF ChatSandbox, Write, Goto, CopyTypes, CopySettled, SettledStatus, Owes, taskVars,
                stopVars, envVars, Statuses, Reading
  <2>3. CASE ChatCreate(c)
    BY <2>3 DEF ChatCreate, Write, Goto, CopyTypes, CopySettled, SettledStatus, Owes, stopVars,
                envVars, Statuses, Reading
  <2>4. CASE ChatRun(c)
    <3>1. exec' \in [Tasks -> Execs]
      BY <2>4 DEF ChatRun, CopyTypes, Execs
    <3>2. \A t \in Tasks : Owes(t) => Owes(t)'
      BY <2>4, <3>1, OwesLabel DEF ChatRun, CopyTypes, DoneExec, Handler
    <3> QED BY <2>4, <3>1, <3>2 DEF ChatRun, Goto, CopyTypes, CopySettled, SettledStatus,
                docVars, stopVars, envVars, Reading
  <2>5. CASE ChatStore(c) \/ ChatPoll(c)
    BY <2>5 DEF ChatStore, ChatPoll, Goto, CopyTypes, CopySettled, SettledStatus, Owes, docVars,
                taskVars, stopVars, envVars, Reading
  <2>6. CASE ChatGet(c) \/ ChatRaise(c) \/ ChatFinal(c)
    BY <2>6 DEF ChatGet, TakesOne, ChatRaise, ChatFinal, LastFrames, EndStream, SetStream, Goto,
                CopyTypes, CopySettled, SettledStatus, Owes, docVars, taskVars, stopVars, envVars,
                Statuses, Reading
  <2> QED BY <1>5, <2>1, <2>2, <2>3, <2>4, <2>5, <2>6 DEF StreamStep
<1> QED BY <1>1, <1>2, <1>3, <1>4, <1>5 DEF StopStep

\* The runner's steps: an execution that owes a status keeps owing it until it has
\* written one, or leaves its mark.
LEMMA RunnerSteps ==
  ASSUME ChatInv, NEW t \in Tasks, RunnerStep(t)
  PROVE  ChatInv'
<1> USE DEF ChatInv
<1>1. UNCHANGED tabVars /\ UNCHANGED envVars /\ UNCHANGED sessTask
  BY DEF RunnerStep, Begin, NextMessage, NoMessage, FlowBegin, FlowEvent, FlowDone, FlowWait,
         Park, Raise, Handle, Settle, HandlerFails, docVars
<1>2. /\ exec' \in [Tasks -> Execs] /\ \A u \in Tasks : u # t => exec'[u] = exec[u]
      /\ status' \in Statuses
  BY DEF RunnerStep, Begin, NextMessage, NoMessage, FlowBegin, FlowEvent, FlowDone, FlowWait,
         Park, Raise, Handle, Settle, HandlerFails, Write, To, At, CopyTypes, Execs, DoneExec,
         Handler, Statuses, docVars
<1>3. \A u \in Tasks : u # t => (Owes(u) => Owes(u)')
  BY <1>2 DEF Owes
<1>4. \/ status' = "running" => \/ Owes(t)'
                               \/ /\ status = "running" /\ (Owes(t) => Owes(t)')
                                  /\ (orphaned => orphaned')
      \/ HandlerFails(t)
  <2>1. CASE FlowBegin(t)
    BY <2>1, OwesLabel DEF FlowBegin, To, CopyTypes
  <2>2. CASE FlowWait(t) \/ Settle(t)
    BY <2>2 DEF FlowWait, Settle, Write
  <2>3. CASE Begin(t) \/ NextMessage(t) \/ NoMessage(t) \/ FlowEvent(t) \/ FlowDone(t)
               \/ Raise(t) \/ Handle(t)
    <3>1. UNCHANGED docVars
      BY <2>3 DEF Begin, NextMessage, NoMessage, FlowEvent, FlowDone, Raise, Handle
    <3>2. Owes(t)' \/ (Owes(t) => Owes(t)')
      BY <2>3, OwesLabel DEF Begin, NextMessage, NoMessage, FlowEvent, FlowDone, Raise, Handle,
         To, At, CopyTypes, Handler
    <3> QED BY <3>1, <3>2 DEF docVars
  <2>4. CASE Park(t)
    BY <2>4, OwesLabel DEF Park, At, To, docVars, Handler
  <2> QED BY <2>1, <2>2, <2>3, <2>4 DEF RunnerStep
<1>5. SettledStatus'
  <2>1. CASE HandlerFails(t)
    BY <2>1 DEF HandlerFails, Lose, SettledStatus
  <2>2. CASE ~HandlerFails(t)
    BY <1>1, <1>3, <1>4, <2>2 DEF SettledStatus, tabVars, stopVars
  <2> QED BY <2>1, <2>2
<1> QED BY <1>1, <1>2, <1>5 DEF CopyTypes, CopySettled, tabVars, readVars, stopVars

\* The end of the process leaves its mark.
LEMMA EndSteps ==
  ASSUME ChatInv, Shutdown \/ Restart
  PROVE  ChatInv'
<1> USE DEF ChatInv
<1>1. CASE Shutdown
  <2>1. exec' \in [Tasks -> Execs]
    BY <1>1 DEF Shutdown, Cancel, Interrupted, CopyTypes, Execs, DoneExec, Handler
  <2>2. status = "running" /\ ~orphaned' => ~orphaned /\ \A t \in Tasks : Owes(t) => Owes(t)'
    BY <1>1, OwesLabel DEF Shutdown, Lose, Cancel, Interrupted, CopyTypes, DoneExec, Handler
  <2> QED BY <1>1, <2>1, <2>2 DEF Shutdown, CopyTypes, CopySettled, SettledStatus, tabVars,
                                  readVars, stopVars
<1>2. CASE Restart
  BY <1>2 DEF Restart, Lose, CopyTypes, CopySettled, SettledStatus, Statuses, Execs, DoneExec,
              Reading
<1> QED BY <1>1, <1>2

\* A session is running only while an execution or a stop is bound to settle it, or
\* one that was has been lost since the status was written: with the process, in a
\* handler that raised, or in a stop whose write failed.
THEOREM ChatSettles == ChatSpec => []SettledStatus
<1>1. ChatInv /\ [ChatNext]_chatVars => ChatInv'
  <2> SUFFICES ASSUME ChatInv, [ChatNext]_chatVars PROVE ChatInv'
    OBVIOUS
  <2>1. CASE UNCHANGED chatVars
    BY <2>1 DEF ChatInv, CopyTypes, CopySettled, SettledStatus, Owes, chatVars, docVars, taskVars,
                tabVars, readVars, stopVars, envVars
  <2> QED BY <2>1, TabSteps, RunnerSteps, EndSteps DEF ChatNext
<1>2. ChatInv => SettledStatus
  BY DEF ChatInv
<1> QED BY ChatInitInv, <1>1, <1>2, PTL DEF ChatSpec

-----------------------------------------------------------------------------
(* That a drained stream was complete.  What a tab has seen of its task is  *)
(* stale as soon as the task is started again, so a tab remembers the run   *)
(* it looked at (RunBehind), and a task that is done stays done, with its   *)
(* stream as it is, for the rest of that run (SawDone, SawAll).             *)

Streams == [msg : BOOLEAN, done : BOOLEAN, run : Nat, drained : BOOLEAN, cur : Nat]
StreamTypes ==
  /\ sessTask \in Tasks \cup {NoTask}
  /\ {obj, aim} \subseteq [Tabs -> Tasks \cup {NoTask}]
  /\ starts \in [Tasks -> Nat] /\ out \in [Tasks -> Seq(Ending \cup {"event"})]
  /\ tab \in [Tabs -> Streams]

\* Tabs whose frame may still create a task: no more of them than frames without one.
Creators == {c \in Tabs : pc[c] \in {"find", "look", "sandbox", "create"} /\ tab[c].msg}
TasksLeft == /\ made \in Nat /\ chats \in 0..MaxChats
             /\ IsFiniteSet(Creators) /\ made + Cardinality(Creators) <= chats

HasTask(c) ==
  /\ pc[c] \in {"sandbox", "create"} => tab[c].msg
  /\ pc[c] \in {"store", "run", "poll", "get"} \/ (pc[c] = "final" /\ tab[c].drained)
       => obj[c] \in Tasks
RunBehind(c) == /\ pc[c] \notin {"poll", "get", "final"} => tab[c].run = 0
                /\ obj[c] \in Tasks => tab[c].run <= starts[obj[c]]
SawDone(c) == pc[c] = "get" /\ tab[c].done /\ tab[c].run = starts[obj[c]]
                => exec[obj[c]] \in DoneExec
SawAll(c) == pc[c] = "final" /\ tab[c].drained /\ tab[c].run = starts[obj[c]]
               => exec[obj[c]] \in DoneExec /\ ~Unread(c)
Follows(c) == HasTask(c) /\ RunBehind(c) /\ SawDone(c) /\ SawAll(c)

StreamInv == StreamTypes /\ TasksLeft /\ \A c \in Tabs : Follows(c)

\* What a tab that reads nothing holds.
LEMMA Nothing == /\ MaxChats \in Nat /\ NoTask \notin Tasks
                 /\ NoStream \in Streams /\ NoStream.run = 0 /\ NoStream.msg = FALSE
                 /\ NoStream.drained = FALSE
<1>1. MaxChats \in Nat
  BY ChatAssumption
<1>2. NoTask \notin Tasks
  BY <1>1 DEF NoTask, Tasks
<1>3. /\ NoStream \in Streams /\ NoStream.run = 0 /\ NoStream.msg = FALSE
      /\ NoStream.drained = FALSE
  BY DEF NoStream, Streams
<1> QED BY <1>1, <1>2, <1>3

LEMMA StreamInitInv == ChatInit => StreamInv
<1> SUFFICES ASSUME ChatInit PROVE StreamInv
  OBVIOUS
<1>1. StreamTypes
  <2>1. out \in [Tasks -> Seq(Ending \cup {"event"})]
    BY DEF ChatInit
  <2> QED BY <2>1, Nothing DEF ChatInit, StreamTypes
<1>2. Creators = {}
  BY Nothing DEF ChatInit, Creators
<1>3. TasksLeft
  BY <1>2, FS_EmptySet, Nothing DEF ChatInit, TasksLeft
<1>4. ASSUME NEW c \in Tabs PROVE Follows(c)
  <2>1. pc[c] = "idle" /\ obj[c] \notin Tasks /\ tab[c].run = 0
    BY Nothing DEF ChatInit
  <2> QED BY <2>1 DEF Follows, HasTask, RunBehind, SawDone, SawAll
<1> QED BY <1>1, <1>3, <1>4 DEF StreamInv

\* Creators are lost, or one is added by a frame, or one is used up by its task.
LEMMA CreatorsCount ==
  ASSUME TasksLeft, made' \in Nat, chats' \in 0..MaxChats,
         \/ Creators' \subseteq Creators /\ made' = made /\ chats' = chats
         \/ \E c \in Tabs : Creators' \subseteq Creators \cup {c} /\ made' = made /\ chats' = chats + 1
         \/ \E c \in Creators : Creators' = Creators \ {c} /\ made' = made + 1 /\ chats' = chats
  PROVE  TasksLeft'
<1>1. IsFiniteSet(Creators) /\ Cardinality(Creators) \in Nat
  BY FS_CardinalityType DEF TasksLeft
<1>2. CASE Creators' \subseteq Creators /\ made' = made /\ chats' = chats
  <2>1. IsFiniteSet(Creators') /\ Cardinality(Creators') <= Cardinality(Creators)
    BY <1>1, <1>2, FS_Subset
  <2>2. Cardinality(Creators') \in Nat
    BY <2>1, FS_CardinalityType
  <2> QED BY <1>1, <1>2, <2>1, <2>2 DEF TasksLeft
<1>3. ASSUME NEW c \in Tabs, Creators' \subseteq Creators \cup {c}, made' = made, chats' = chats + 1
      PROVE  TasksLeft'
  <2>0. /\ IsFiniteSet(Creators \cup {c})
        /\ Cardinality(Creators \cup {c}) = IF c \in Creators THEN Cardinality(Creators)
                                            ELSE Cardinality(Creators) + 1
    BY <1>1, FS_AddElement, Zenon
  <2>1. IsFiniteSet(Creators \cup {c}) /\ Cardinality(Creators \cup {c}) <= Cardinality(Creators) + 1
    BY <1>1, <2>0
  <2>2. IsFiniteSet(Creators') /\ Cardinality(Creators') <= Cardinality(Creators \cup {c})
    BY <1>3, <2>1, FS_Subset
  <2>3. Cardinality(Creators') \in Nat /\ Cardinality(Creators \cup {c}) \in Nat
    BY <2>1, <2>2, FS_CardinalityType
  <2> QED BY <1>1, <1>3, <2>1, <2>2, <2>3 DEF TasksLeft
<1>4. ASSUME NEW c \in Creators, Creators' = Creators \ {c}, made' = made + 1, chats' = chats
      PROVE  TasksLeft'
  <2>1. IsFiniteSet(Creators') /\ Cardinality(Creators') = Cardinality(Creators) - 1
    BY <1>1, <1>4, FS_RemoveElement
  <2> QED BY <1>1, <1>4, <2>1 DEF TasksLeft
<1> QED BY <1>2, <1>3, <1>4

\* A chat that creates a task has one left for it.
LEMMA TaskForCreator ==
  ASSUME TasksLeft, NEW c \in Creators
  PROVE  made + 1 \in Tasks
<1>1. Cardinality(Creators) \in Nat /\ Cardinality(Creators) # 0
  BY FS_CardinalityType, FS_EmptySet DEF TasksLeft
<1> QED BY <1>1, ChatAssumption DEF TasksLeft, Tasks

\* A tab that does not move keeps what it knows: a task that is done stays so with its
\* stream as it is, or is started again.
LEMMA StillFollows ==
  ASSUME StreamInv, NEW c \in Tabs, pc'[c] = pc[c], tab'[c] = tab[c], obj'[c] = obj[c],
         starts' \in [Tasks -> Nat],
         \A t \in Tasks : \/ starts'[t] > starts[t]
                          \/ /\ starts'[t] = starts[t]
                             /\ exec[t] \in DoneExec => exec'[t] \in DoneExec /\ out'[t] = out[t]
  PROVE  Follows(c)'
<1>1. HasTask(c)'
  BY DEF StreamInv, Follows, HasTask
<1>2. ASSUME obj[c] \in Tasks
      PROVE  /\ tab[c].run <= starts[obj[c]] /\ tab[c].run <= starts'[obj[c]]
             /\ tab[c].run = starts'[obj[c]] => starts'[obj[c]] = starts[obj[c]]
  <2>1. starts[obj[c]] \in Nat /\ starts'[obj[c]] \in Nat /\ tab[c].run \in Nat
    BY <1>2 DEF StreamInv, StreamTypes, Streams
  <2>2. tab[c].run <= starts[obj[c]]
    BY <1>2 DEF StreamInv, Follows, RunBehind
  <2>3. starts'[obj[c]] > starts[obj[c]] \/ starts'[obj[c]] = starts[obj[c]]
    BY <1>2
  <2> QED BY <2>1, <2>2, <2>3
<1>3. RunBehind(c)'
  BY <1>2 DEF StreamInv, Follows, RunBehind
<1>4. ASSUME pc[c] = "get" \/ (pc[c] = "final" /\ tab[c].drained),
             tab[c].run = starts'[obj[c]]
      PROVE  /\ tab[c].run = starts[obj[c]]
             /\ exec[obj[c]] \in DoneExec =>
                  exec'[obj[c]] \in DoneExec /\ out'[obj[c]] = out[obj[c]]
  <2>1. obj[c] \in Tasks
    BY <1>4 DEF StreamInv, Follows, HasTask
  <2>2. tab[c].run = starts[obj[c]] /\ starts'[obj[c]] = starts[obj[c]]
    BY <1>2, <1>4, <2>1
  <2>3. starts[obj[c]] \in Nat
    BY <2>1 DEF StreamInv, StreamTypes
  <2>4. ~(starts'[obj[c]] > starts[obj[c]])
    BY <2>2, <2>3
  <2> QED BY <2>1, <2>2, <2>4
<1>5. SawDone(c)'
  BY <1>4 DEF StreamInv, Follows, SawDone
<1>6. SawAll(c)'
  BY <1>4 DEF StreamInv, Follows, SawAll, Unread
<1> QED BY <1>1, <1>3, <1>5, <1>6 DEF Follows

\* A stream is started or ended.
LEMMA NewStream ==
  ASSUME ChatInv, StreamInv, NEW c \in Tabs, NEW label \in {"find", "final", "idle"},
         NEW stream \in Streams, stream.run = 0, ~stream.drained,
         SetStream(c, label, stream), UNCHANGED <<sessTask, aim, exec, starts, out, made>>,
         (chats' = chats /\ (label # "find" \/ ~stream.msg)) \/ chats' = chats + 1,
         chats' \in 0..MaxChats
  PROVE  StreamInv'
<1>1. StreamTypes'
  BY DEF SetStream, StreamInv, StreamTypes
<1>2. /\ pc'[c] = label /\ tab'[c] = stream /\ obj'[c] = NoTask
      /\ \A d \in Tabs \ {c} : pc'[d] = pc[d] /\ tab'[d] = tab[d] /\ obj'[d] = obj[d]
  BY DEF SetStream, ChatInv, CopyTypes, StreamInv, StreamTypes
<1>3. Creators' \subseteq Creators \cup {c} /\ (chats' = chats => Creators' \subseteq Creators)
  BY <1>2, Nothing DEF Creators, StreamInv, TasksLeft
<1>4. TasksLeft'
  BY <1>3, CreatorsCount DEF StreamInv, TasksLeft
<1>5. Follows(c)'
  BY <1>2, Nothing DEF Follows, HasTask, RunBehind, SawDone, SawAll
<1>6. \A d \in Tabs \ {c} : Follows(d)'
  BY <1>1, <1>2, StillFollows DEF StreamTypes
<1> QED BY <1>1, <1>4, <1>5, <1>6 DEF StreamInv

\* A frame of a tab, and the handling of a stop.
LEMMA FrameStream ==
  ASSUME ChatInv, StreamInv, NEW c \in Tabs,
         Join(c) \/ Leave(c) \/ SendChat(c) \/ Stop(c) \/ StopStep(c)
  PROVE  StreamInv'
<1>1. CASE Stop(c) \/ StopStep(c)
  <2>1. UNCHANGED <<sessTask, obj, starts, out, tab, pc, made, chats>>
    BY <1>1 DEF Stop, StopStep, StopCancel, StopSettle, StopFails, docVars, taskVars, readVars,
         envVars
  <2>2. \A t \in Tasks : exec[t] \in DoneExec => exec'[t] \in DoneExec
    BY <1>1 DEF Stop, StopStep, StopCancel, StopSettle, StopFails, Cancel, Interrupted, taskVars
  <2>3. aim' \in [Tabs -> Tasks \cup {NoTask}]
    BY <1>1 DEF Stop, StopStep, StopCancel, StopSettle, StopFails, StreamInv, StreamTypes
  <2>4. StreamTypes' /\ TasksLeft'
    BY <2>1, <2>3 DEF StreamInv, StreamTypes, TasksLeft, Creators
  <2>5. \A d \in Tabs : Follows(d)'
    BY <2>1, <2>2, <2>4, StillFollows DEF StreamTypes
  <2> QED BY <2>4, <2>5 DEF StreamInv
<1>2. ASSUME NEW msg \in BOOLEAN
      PROVE  /\ [NoStream EXCEPT !.msg = msg] \in Streams
             /\ [NoStream EXCEPT !.msg = msg].run = 0
             /\ [NoStream EXCEPT !.msg = msg].msg = msg
             /\ ~[NoStream EXCEPT !.msg = msg].drained
  BY DEF NoStream, Streams
<1>3. CASE Join(c)
  BY NewStream, <1>2, <1>3 DEF Join, StartStream, docVars, taskVars, stopVars, envVars,
     StreamInv, TasksLeft
<1>4. CASE Leave(c)
  BY NewStream, <1>4, Nothing DEF Leave, EndStream, docVars, taskVars, stopVars, envVars,
     StreamInv, TasksLeft
<1>5. CASE SendChat(c)
  <2>1. chats' \in 0..MaxChats
    BY <1>5, Nothing DEF SendChat, StreamInv, TasksLeft
  <2> QED BY NewStream, <1>2, <1>5, <2>1 DEF SendChat, StartStream, docVars, taskVars, stopVars
<1> QED BY <1>1, <1>3, <1>4, <1>5

\* A step of the runner of a task that is not done, and the end of the process.
LEMMA OtherStream ==
  ASSUME ChatInv, StreamInv, (\E t \in Tasks : RunnerStep(t)) \/ Shutdown \/ Restart
  PROVE  StreamInv'
<1>1. ASSUME NEW t \in Tasks, RunnerStep(t)
      PROVE  StreamInv'
  <2>1. UNCHANGED <<sessTask, obj, aim, starts, tab, pc, made, chats>>
    BY <1>1 DEF RunnerStep, Begin, NextMessage, NoMessage, FlowBegin, FlowEvent, FlowDone,
         FlowWait, Park, Raise, Handle, Settle, HandlerFails, docVars, tabVars, readVars, stopVars,
         envVars
  <2>2. exec[t] \notin DoneExec
    BY <1>1 DEF RunnerStep, Begin, NextMessage, NoMessage, FlowBegin, FlowEvent, FlowDone,
         FlowWait, Park, Raise, Handle, Settle, HandlerFails, At, DoneExec, Handler
  <2>3. \A u \in Tasks \ {t} : exec'[u] = exec[u]
    BY <1>1 DEF RunnerStep, Begin, NextMessage, NoMessage, FlowBegin, FlowEvent, FlowDone,
         FlowWait, Park, Raise, Handle, Settle, HandlerFails, To, ChatInv, CopyTypes
  <2>4. out' = out \/ \E kind \in Ending \cup {"event"} : Put(t, kind)
    BY <1>1, ChatAssumption DEF RunnerStep, Begin, NextMessage, NoMessage, FlowBegin, FlowEvent,
         FlowDone, FlowWait, Park, Raise, Handle, Settle, HandlerFails, Ending
  <2>5. out' \in [Tasks -> Seq(Ending \cup {"event"})] /\ \A u \in Tasks \ {t} : out'[u] = out[u]
    <3>1. out \in [Tasks -> Seq(Ending \cup {"event"})]
      BY DEF StreamInv, StreamTypes
    <3>2. \A kind \in Ending \cup {"event"} : Append(out[t], kind) \in Seq(Ending \cup {"event"})
      BY <3>1
    <3> QED BY <2>4, <3>1, <3>2 DEF Put
  <2>6. StreamTypes' /\ TasksLeft'
    BY <2>1, <2>5 DEF StreamInv, StreamTypes, TasksLeft, Creators
  <2>7. \A d \in Tabs : Follows(d)'
    BY <2>1, <2>2, <2>3, <2>5, <2>6, StillFollows DEF StreamTypes
  <2> QED BY <2>6, <2>7 DEF StreamInv
<1>2. CASE Shutdown
  <2>1. UNCHANGED <<sessTask, obj, aim, starts, out, tab, pc, made, chats>>
    BY <1>2 DEF Shutdown, tabVars, readVars, stopVars, envVars
  <2>2. \A t \in Tasks : exec[t] \in DoneExec => exec'[t] \in DoneExec
    BY <1>2 DEF Shutdown, Cancel, Interrupted
  <2>3. StreamTypes' /\ TasksLeft'
    BY <2>1 DEF StreamInv, StreamTypes, TasksLeft, Creators
  <2>4. \A d \in Tabs : Follows(d)'
    BY <2>1, <2>2, <2>3, StillFollows DEF StreamTypes
  <2> QED BY <2>3, <2>4 DEF StreamInv
<1>3. CASE Restart
  <2>1. out' \in [Tasks -> Seq(Ending \cup {"event"})]
    BY <1>3 DEF Restart
  <2>2. StreamTypes'
    BY <1>3, <2>1, Nothing DEF Restart, StreamInv, StreamTypes
  <2>3. Creators' = {}
    BY <1>3, Nothing DEF Restart, Creators
  <2>4. TasksLeft'
    BY <1>3, <2>3, CreatorsCount DEF Restart, StreamInv, TasksLeft
  <2>5. ASSUME NEW d \in Tabs PROVE Follows(d)'
    <3>1. pc'[d] = "idle" /\ obj'[d] \notin Tasks /\ tab'[d].run = 0
      BY <1>3, Nothing DEF Restart
    <3> QED BY <3>1 DEF Follows, HasTask, RunBehind, SawDone, SawAll
  <2> QED BY <2>2, <2>4, <2>5 DEF StreamInv
<1> QED BY <1>1, <1>2, <1>3

\* What an update of a tab's reading position leaves as it is.
LEMMA Position ==
  ASSUME tab \in [Tabs -> Streams], NEW c \in Tabs, NEW n \in Nat
  PROVE  /\ [tab EXCEPT ![c].cur = n] \in [Tabs -> Streams]
         /\ [tab EXCEPT ![c].cur = n][c].run = tab[c].run
         /\ [tab EXCEPT ![c].cur = n][c].msg = tab[c].msg
  BY DEF Streams

\* A stream found drained, and one to be asked about again.
LEMMA Drained ==
  ASSUME tab \in [Tabs -> Streams], NEW c \in Tabs
  PROVE  /\ [tab EXCEPT ![c].drained = TRUE] \in [Tabs -> Streams]
         /\ [tab EXCEPT ![c].drained = TRUE][c].run = tab[c].run
         /\ [tab EXCEPT ![c].drained = TRUE][c].msg = tab[c].msg
         /\ [tab EXCEPT ![c].drained = TRUE][c].cur = tab[c].cur
         /\ [tab EXCEPT ![c].run = 0] \in [Tabs -> Streams]
         /\ [tab EXCEPT ![c].run = 0][c].run = 0
         /\ [tab EXCEPT ![c].run = 0][c].msg = tab[c].msg
  BY DEF Streams

\* An event taken.
LEMMA TookOne ==
  ASSUME tab \in [Tabs -> Streams], NEW c \in Tabs
  PROVE  Took(c) \in [Tabs -> Streams] /\ Took(c)[c].run = 0 /\ Took(c)[c].msg = tab[c].msg
<1> DEFINE took == [tab[c] EXCEPT !.cur = @ + 1, !.done = FALSE, !.run = 0]
<1>1. tab[c] \in Streams /\ tab[c].cur + 1 \in Nat
  BY DEF Streams
<1>2. took \in Streams
  BY <1>1 DEF Streams
<1>3. Took(c) = [tab EXCEPT ![c] = took]
  BY <1>1 DEF Took
<1>4. took.run = 0 /\ took.msg = tab[c].msg
  BY <1>1 DEF Streams
<1> QED BY <1>2, <1>3, <1>4

\* A task asked whether it is done.
LEMMA AskedOf ==
  ASSUME tab \in [Tabs -> Streams], NEW c \in Tabs, NEW b \in BOOLEAN, NEW n \in Nat
  PROVE  /\ Asked(c, b, n) \in [Tabs -> Streams] /\ Asked(c, b, n)[c].run = n
         /\ Asked(c, b, n)[c].done = b /\ Asked(c, b, n)[c].msg = tab[c].msg
<1> DEFINE looked == [tab[c] EXCEPT !.done = b, !.run = n]
<1>1. tab[c] \in Streams
  OBVIOUS
<1>2. looked \in Streams
  BY <1>1 DEF Streams
<1>3. Asked(c, b, n) = [tab EXCEPT ![c] = looked]
  BY DEF Asked
<1>4. looked.run = n /\ looked.done = b /\ looked.msg = tab[c].msg
  BY <1>1 DEF Streams
<1> QED BY <1>2, <1>3, <1>4

\* A stream that comes to its last frames holds nothing any more.
LEMMA LastStream ==
  ASSUME ChatInv, StreamInv, NEW c \in Tabs, LastFrames(c) \/ EndStream(c),
         UNCHANGED <<docVars, taskVars, stopVars, envVars>>
  PROVE  StreamInv'
<1>1. PICK label \in {"final", "idle"} : SetStream(c, label, NoStream)
  BY DEF LastFrames, EndStream
<1>2. label \in {"find", "final", "idle"} /\ label # "find"
  OBVIOUS
<1>3. /\ UNCHANGED <<sessTask, aim, exec, starts, out, made>> /\ chats' = chats
      /\ chats' \in 0..MaxChats
  BY DEF docVars, taskVars, stopVars, envVars, StreamInv, TasksLeft
<1> QED BY <1>1, <1>2, <1>3, NewStream, Nothing

\* The steps of a stream.
LEMMA ReadStream ==
  ASSUME ChatInv, StreamInv, NEW c \in Tabs, StreamStep(c)
  PROVE  StreamInv'
<1>1. UNCHANGED <<out, chats, aim>>
  BY DEF StreamStep, ChatFind, ChatLook, ChatSandbox, ChatCreate, ChatStore, ChatRun, ChatPoll,
         ChatGet, ChatRaise, ChatFinal, taskVars, stopVars, envVars
<1>2. \A d \in Tabs \ {c} : pc'[d] = pc[d] /\ tab'[d] = tab[d] /\ obj'[d] = obj[d]
  BY DEF StreamStep, ChatFind, ChatLook, ChatSandbox, ChatCreate, ChatStore, ChatRun, ChatPoll,
         ChatGet, TakesOne, ChatRaise, ChatFinal, LastFrames, EndStream, SetStream, Goto, Took,
         Asked, ChatInv, CopyTypes, StreamInv, StreamTypes
<1>3. ASSUME StreamTypes',
             \/ UNCHANGED <<exec, starts>>
             \/ \E t \in Tasks : /\ starts' = [starts EXCEPT ![t] = @ + 1]
                                 /\ \A u \in Tasks \ {t} : exec'[u] = exec[u]
      PROVE  \A d \in Tabs \ {c} : Follows(d)'
  <2>1. \A t \in Tasks : \/ starts'[t] > starts[t]
                         \/ /\ starts'[t] = starts[t]
                            /\ exec[t] \in DoneExec => exec'[t] \in DoneExec /\ out'[t] = out[t]
    BY <1>1, <1>3 DEF StreamInv, StreamTypes
  <2> QED BY <1>2, <1>3, <2>1, StillFollows DEF StreamTypes
<1>4. CASE ChatFind(c)
  <2>1. tab'[c].run = 0 /\ tab' = tab /\ pc'[c] = "look" /\ UNCHANGED <<exec, starts, made>>
    BY <1>4 DEF ChatFind, Goto, StreamInv, Follows, RunBehind, ChatInv, CopyTypes, taskVars
  <2>2. StreamTypes'
    BY <1>1, <1>4 DEF ChatFind, StreamInv, StreamTypes, docVars, taskVars
  <2>3. Creators' \subseteq Creators
    BY <1>2, <1>4, <2>1 DEF Creators, ChatFind
  <2>4. TasksLeft'
    BY <1>1, <2>1, <2>3, CreatorsCount DEF StreamInv, TasksLeft
  <2>5. Follows(c)'
    BY <2>1, <2>2 DEF Follows, HasTask, RunBehind, SawDone, SawAll, StreamTypes
  <2> QED BY <1>3, <2>1, <2>2, <2>4, <2>5 DEF StreamInv
<1>5. CASE ChatLook(c)
  <2>0. CASE LastFrames(c)
    BY <1>5, <2>0, LastStream DEF ChatLook
  <2>1. CASE ~LastFrames(c)
    <3>1. /\ tab \in [Tabs -> Streams] /\ tab[c].run = 0 /\ pc[c] = "look"
          /\ UNCHANGED <<exec, starts, made, obj>>
      BY <1>5, <2>1 DEF ChatLook, StreamInv, StreamTypes, Follows, RunBehind, taskVars
    <3>2. tab' = tab \/ \E n \in Nat : tab' = [tab EXCEPT ![c].cur = n]
      <4>1. CASE Live(obj[c])
        <5>1. obj[c] \in Tasks /\ out[obj[c]] \in Seq(Ending \cup {"event"})
          BY <4>1 DEF Live, StreamInv, StreamTypes
        <5>2. 0..Len(out[obj[c]]) \subseteq Nat
          BY <5>1
        <5>3. tab' = tab \/ \E n \in 0..Len(out[obj[c]]) : tab' = [tab EXCEPT ![c].cur = n]
          BY <1>5, <2>1, <4>1 DEF ChatLook
        <5> QED BY <5>2, <5>3
      <4>2. CASE ~Live(obj[c])
        BY <1>5, <2>1, <4>2 DEF ChatLook
      <4> QED BY <4>1, <4>2
    <3>3. tab' \in [Tabs -> Streams] /\ tab'[c].run = 0 /\ tab'[c].msg = tab[c].msg
      <4>1. ASSUME NEW n \in Nat, tab' = [tab EXCEPT ![c].cur = n]
            PROVE  tab' \in [Tabs -> Streams] /\ tab'[c].run = 0 /\ tab'[c].msg = tab[c].msg
        BY <3>1, <4>1, Position
      <4> QED BY <3>1, <3>2, <4>1
    <3>4. /\ pc'[c] \in {"sandbox", "create", "store", "poll"}
          /\ pc'[c] \in {"sandbox", "create"} => tab[c].msg
          /\ pc'[c] \in {"store", "poll"} => obj'[c] \in Tasks
      <4>1. \/ pc'[c] \in {"sandbox", "create"} /\ tab[c].msg
            \/ pc'[c] \in {"store", "poll"} /\ Live(obj[c])
        BY <1>5, <2>1 DEF ChatLook, Goto, ChatInv, CopyTypes
      <4> QED BY <3>1, <4>1 DEF Live, StreamInv, StreamTypes
    <3>5. StreamTypes'
      BY <1>1, <1>5, <3>1, <3>3 DEF ChatLook, StreamInv, StreamTypes, docVars
    <3>6. Creators' \subseteq Creators
      BY <1>2, <3>1, <3>3, <3>4 DEF Creators
    <3>7. TasksLeft'
      BY <1>1, <3>1, <3>6, CreatorsCount DEF StreamInv, TasksLeft
    <3>8. Follows(c)'
      BY <3>3, <3>4, <3>5 DEF Follows, HasTask, RunBehind, SawDone, SawAll, StreamTypes
    <3> QED BY <1>3, <3>1, <3>5, <3>7, <3>8 DEF StreamInv
  <2> QED BY <2>0, <2>1
<1>6. CASE ChatSandbox(c)
  <2>1. StreamTypes' /\ Creators' = Creators
    BY <1>1, <1>6 DEF ChatSandbox, Goto, StreamInv, StreamTypes, taskVars, Creators, ChatInv, CopyTypes
  <2>2. TasksLeft' /\ \A d \in Tabs \ {c} : Follows(d)'
    BY <1>1, <1>3, <1>6, <2>1 DEF ChatSandbox, StreamInv, TasksLeft, taskVars
  <2>3. Follows(c)'
    BY <1>6 DEF ChatSandbox, Goto, StreamInv, Follows, HasTask, RunBehind, SawDone, SawAll,
                ChatInv, CopyTypes, taskVars
  <2> QED BY <2>1, <2>2, <2>3 DEF StreamInv
<1>7. CASE ChatCreate(c)
  <2>1. c \in Creators
    BY <1>7 DEF ChatCreate, Creators, StreamInv, Follows, HasTask
  <2>2. made' \in Tasks
    BY <1>7, <2>1, TaskForCreator DEF ChatCreate, StreamInv
  <2>3. StreamTypes'
    BY <1>1, <1>7, <2>2 DEF ChatCreate, StreamInv, StreamTypes
  <2>4. Creators' = Creators \ {c}
    BY <1>7 DEF ChatCreate, Goto, Creators, ChatInv, CopyTypes
  <2>5. TasksLeft'
    BY <1>1, <1>7, <2>1, <2>4, CreatorsCount DEF ChatCreate, StreamInv, TasksLeft
  <2>6. pc'[c] = "store" /\ tab'[c].run = 0 /\ obj'[c] = made' /\ starts'[made'] \in Nat
    BY <1>7, <2>2 DEF ChatCreate, Goto, StreamInv, StreamTypes, Follows, RunBehind,
                      ChatInv, CopyTypes
  <2>7. Follows(c)'
    BY <2>2, <2>6 DEF Follows, HasTask, RunBehind, SawDone, SawAll
  <2> QED BY <1>3, <1>7, <2>3, <2>5, <2>7 DEF ChatCreate, StreamInv
<1>8. CASE ChatStore(c)
  <2>1. StreamTypes' /\ Creators' = Creators
    BY <1>1, <1>8 DEF ChatStore, Goto, StreamInv, StreamTypes, docVars, Creators, ChatInv, CopyTypes
  <2>2. TasksLeft' /\ \A d \in Tabs \ {c} : Follows(d)'
    BY <1>1, <1>3, <1>8, <2>1 DEF ChatStore, StreamInv, TasksLeft
  <2>3. Follows(c)'
    BY <1>8 DEF ChatStore, Goto, StreamInv, Follows, HasTask, RunBehind, SawDone, SawAll,
                ChatInv, CopyTypes
  <2> QED BY <2>1, <2>2, <2>3 DEF StreamInv
<1>9. CASE ChatRun(c)
  <2>1. /\ obj[c] \in Tasks /\ starts \in [Tasks -> Nat] /\ starts[obj[c]] + 1 \in Nat
        /\ tab \in [Tabs -> Streams] /\ pc[c] = "run"
    BY <1>9 DEF ChatRun, StreamInv, StreamTypes, Follows, HasTask
  <2>2. \/ UNCHANGED <<exec, starts>>
        \/ /\ starts' = [starts EXCEPT ![obj[c]] = @ + 1]
           /\ \A u \in Tasks \ {obj[c]} : exec'[u] = exec[u]
    BY <1>9 DEF ChatRun, ChatInv, CopyTypes
  <2>3. starts' \in [Tasks -> Nat] /\ starts'[obj[c]] \in Nat
    BY <2>1, <2>2
  <2>4. tab' = Asked(c, FALSE, starts'[obj[c]])
    BY <1>9 DEF ChatRun
  <2>5. /\ tab' \in [Tabs -> Streams] /\ tab'[c].run = starts'[obj[c]] /\ ~tab'[c].done
        /\ tab'[c].msg = tab[c].msg
    BY <2>1, <2>3, <2>4, AskedOf
  <2>6. /\ pc'[c] = "get" /\ obj'[c] = obj[c]
    BY <1>9 DEF ChatRun, Goto, ChatInv, CopyTypes
  <2>7. StreamTypes'
    BY <1>1, <1>9, <2>3, <2>5 DEF ChatRun, StreamInv, StreamTypes, docVars
  <2>8. Creators' = Creators
    BY <1>2, <2>1, <2>6 DEF Creators
  <2>9. TasksLeft' /\ \A d \in Tabs \ {c} : Follows(d)'
    BY <1>1, <1>3, <1>9, <2>1, <2>2, <2>7, <2>8 DEF ChatRun, StreamInv, TasksLeft
  <2>10. Follows(c)'
    BY <2>1, <2>3, <2>5, <2>6 DEF Follows, HasTask, RunBehind, SawDone, SawAll
  <2> QED BY <2>7, <2>9, <2>10 DEF StreamInv
<1>10. CASE ChatPoll(c)
  <2>1. /\ obj[c] \in Tasks /\ starts[obj[c]] \in Nat /\ pc[c] = "poll"
        /\ tab \in [Tabs -> Streams]
    BY <1>10 DEF ChatPoll, StreamInv, StreamTypes, Follows, HasTask
  <2> DEFINE b == exec[obj[c]] \in DoneExec
  <2>2. b \in BOOLEAN
    OBVIOUS
  <2>3. tab' = Asked(c, b, starts[obj[c]])
    BY <1>10 DEF ChatPoll
  <2>4. /\ tab' \in [Tabs -> Streams] /\ tab'[c].run = starts[obj[c]] /\ tab'[c].done = b
    <3> HIDE DEF b
    <3> QED BY <2>1, <2>2, <2>3, AskedOf
  <2>5. StreamTypes'
    BY <1>1, <1>10, <2>4 DEF ChatPoll, StreamInv, StreamTypes, docVars, taskVars
  <2>6. /\ pc'[c] = "get" /\ obj'[c] = obj[c] /\ UNCHANGED <<exec, starts, made>>
    BY <1>10 DEF ChatPoll, Goto, ChatInv, CopyTypes, taskVars
  <2>7. Creators' = Creators
    BY <1>2, <2>1, <2>6 DEF Creators
  <2>8. TasksLeft' /\ \A d \in Tabs \ {c} : Follows(d)'
    BY <1>1, <1>3, <2>5, <2>6, <2>7 DEF StreamInv, TasksLeft
  <2>9. Follows(c)'
    <3>1. tab'[c].run <= starts'[obj'[c]] /\ pc'[c] = "get" /\ obj'[c] \in Tasks
      BY <2>1, <2>4, <2>6
    <3>2. tab'[c].done => exec'[obj'[c]] \in DoneExec
      BY <2>4, <2>6
    <3> QED BY <3>1, <3>2 DEF Follows, HasTask, RunBehind, SawDone, SawAll
  <2> QED BY <2>5, <2>8, <2>9 DEF StreamInv
<1>11. CASE ChatGet(c)
  <2>0. CASE LastFrames(c)
    BY <1>11, <2>0, LastStream DEF ChatGet
  <2>1. CASE ~LastFrames(c)
    <3>1. /\ obj[c] \in Tasks /\ starts[obj[c]] \in Nat /\ tab[c] \in Streams
          /\ tab[c].run <= starts[obj[c]] /\ tab \in [Tabs -> Streams] /\ pc[c] = "get"
      BY <1>11 DEF ChatGet, StreamInv, StreamTypes, Follows, HasTask, RunBehind
    <3>2. /\ obj' = obj /\ UNCHANGED <<exec, starts, made>>
          /\ \/ tab' = Took(c) /\ pc'[c] = "poll"
             \/ tab' = [tab EXCEPT ![c].run = 0] /\ pc'[c] = "poll"
             \/ tab' = [tab EXCEPT ![c].drained = TRUE] /\ pc'[c] = "final" /\ tab[c].done /\ ~Unread(c)
      BY <1>11, <2>1 DEF ChatGet, TakesOne, Goto, ChatInv, CopyTypes, taskVars
    <3>3. /\ tab' \in [Tabs -> Streams] /\ tab'[c].run \in {0, tab[c].run}
          /\ pc'[c] = "final" => tab'[c].run = tab[c].run /\ tab'[c].cur = tab[c].cur
      <4>1. CASE tab' = Took(c) /\ pc'[c] = "poll"
        BY <3>1, <4>1, TookOne
      <4>2. CASE tab' = [tab EXCEPT ![c].run = 0] /\ pc'[c] = "poll"
        BY <3>1, <4>2, Drained
      <4>3. CASE tab' = [tab EXCEPT ![c].drained = TRUE] /\ pc'[c] = "final"
        BY <3>1, <4>3, Drained
      <4> QED BY <3>2, <4>1, <4>2, <4>3
    <3>4. StreamTypes'
      BY <1>1, <1>11, <3>2, <3>3 DEF ChatGet, StreamInv, StreamTypes, docVars
    <3>5. Creators' = Creators
      BY <1>2, <3>1, <3>2 DEF Creators
    <3>6. TasksLeft' /\ \A d \in Tabs \ {c} : Follows(d)'
      BY <1>1, <1>3, <3>2, <3>4, <3>5 DEF StreamInv, TasksLeft
    <3>7. HasTask(c)' /\ RunBehind(c)' /\ SawDone(c)'
      <4>1. 0 <= starts[obj[c]] /\ tab'[c].run <= starts[obj[c]]
        BY <3>1, <3>3
      <4> QED BY <3>1, <3>2, <4>1 DEF HasTask, RunBehind, SawDone
    <3>8. SawAll(c)'
      BY <1>1, <3>1, <3>2, <3>3 DEF StreamInv, Follows, SawDone, SawAll, Unread
    <3> QED BY <3>4, <3>6, <3>7, <3>8 DEF StreamInv, Follows
  <2> QED BY <2>0, <2>1
<1>12. CASE ChatRaise(c) \/ ChatFinal(c)
  BY <1>12, LastStream DEF ChatRaise, ChatFinal
<1> QED BY <1>4, <1>5, <1>6, <1>7, <1>8, <1>9, <1>10, <1>11, <1>12 DEF StreamStep

\* Both halves of the invariant go on together.
LEMMA ChatStep ==
  ASSUME ChatInv, StreamInv, [ChatNext]_chatVars
  PROVE  ChatInv' /\ StreamInv'
<1>1. CASE UNCHANGED chatVars
  BY <1>1 DEF ChatInv, CopyTypes, CopySettled, SettledStatus, Owes, StreamInv, StreamTypes,
       TasksLeft, Creators, Follows, HasTask, RunBehind, SawDone, SawAll, Unread, chatVars,
       docVars, taskVars, tabVars, readVars, stopVars, envVars
<1>2. CASE ChatNext
  BY <1>2, TabSteps, RunnerSteps, EndSteps, FrameStream, ReadStream, OtherStream DEF ChatNext
<1> QED BY <1>1, <1>2

\* A stream that ended because its task was done delivered everything that run of the
\* task streamed.
THEOREM StreamComplete == ChatSpec => []DrainedStream
<1>1. ChatInv /\ StreamInv /\ [ChatNext]_chatVars => ChatInv' /\ StreamInv'
  BY ChatStep
<1>2. StreamInv => DrainedStream
  BY DEF StreamInv, Follows, SawAll, DrainedStream
<1> QED BY ChatInitInv, StreamInitInv, <1>1, <1>2, PTL DEF ChatSpec

-----------------------------------------------------------------------------
(* That the chat's variables keep their types.  A task is started, and a    *)
(* message put on an input stream, at most once for each frame: what counts *)
(* is bounded by the frames sent less those that may still come to it.      *)

Asking  == {c \in Tabs : pc[c] \in {"find", "look", "sandbox", "create", "store", "run"} /\ tab[c].msg}
Storing == {c \in Tabs : pc[c] \in {"find", "look", "sandbox", "create", "store"} /\ tab[c].msg}

\* A counter and the actors that may still raise it stay within a budget.
Within(n, S, budget) == n \in Nat /\ IsFiniteSet(S) /\ n + Cardinality(S) <= budget

CountInv ==
  /\ reg \subseteq Tasks /\ restarts \in 0..MaxRestarts /\ orphaned \in BOOLEAN
  /\ inq \in [Tasks -> Nat]
  /\ \A c \in Tabs : pc[c] \in {"store", "run"} => tab[c].msg
  /\ \A t \in Tasks : Within(starts[t], Asking, chats) /\ Within(inq[t], Storing, chats)

\* The budget grows with its actors, and an actor that is done raises the counter by one.
LEMMA WithinStep ==
  ASSUME NEW n, NEW S, NEW budget \in Nat, Within(n, S, budget),
         NEW m \in Nat, NEW R, NEW given \in Nat,
         \/ R \subseteq S /\ m <= n /\ given = budget
         \/ \E c : R \subseteq S \cup {c} /\ m <= n /\ given = budget + 1
         \/ \E c \in S : R \subseteq S \ {c} /\ m <= n + 1 /\ given = budget
  PROVE  Within(m, R, given)
<1>1. IsFiniteSet(S) /\ Cardinality(S) \in Nat /\ n \in Nat /\ n + Cardinality(S) <= budget
  BY FS_CardinalityType DEF Within
<1>2. CASE R \subseteq S /\ m <= n /\ given = budget
  <2>1. IsFiniteSet(R) /\ Cardinality(R) <= Cardinality(S)
    BY <1>1, <1>2, FS_Subset
  <2>2. Cardinality(R) \in Nat
    BY <2>1, FS_CardinalityType
  <2> QED BY <1>1, <1>2, <2>1, <2>2 DEF Within
<1>3. ASSUME NEW c, R \subseteq S \cup {c}, m <= n, given = budget + 1
      PROVE  Within(m, R, given)
  <2>1. /\ IsFiniteSet(S \cup {c})
        /\ Cardinality(S \cup {c}) = IF c \in S THEN Cardinality(S) ELSE Cardinality(S) + 1
    BY <1>1, FS_AddElement, Zenon
  <2>2. IsFiniteSet(R) /\ Cardinality(R) <= Cardinality(S \cup {c})
    BY <1>3, <2>1, FS_Subset
  <2>3. Cardinality(R) \in Nat /\ Cardinality(S \cup {c}) <= Cardinality(S) + 1
    BY <1>1, <2>1, <2>2, FS_CardinalityType
  <2> QED BY <1>1, <1>3, <2>1, <2>2, <2>3 DEF Within
<1>4. ASSUME NEW c \in S, R \subseteq S \ {c}, m <= n + 1, given = budget
      PROVE  Within(m, R, given)
  <2>1. IsFiniteSet(S \ {c}) /\ Cardinality(S \ {c}) = Cardinality(S) - 1
    BY <1>1, FS_RemoveElement
  <2>2. IsFiniteSet(R) /\ Cardinality(R) <= Cardinality(S \ {c})
    BY <1>4, <2>1, FS_Subset
  <2>3. Cardinality(R) \in Nat
    BY <2>2, FS_CardinalityType
  <2> QED BY <1>1, <1>4, <2>1, <2>2, <2>3 DEF Within
<1> QED BY <1>2, <1>3, <1>4

LEMMA CountInitInv == ChatInit => CountInv
<1> SUFFICES ASSUME ChatInit PROVE CountInv
  OBVIOUS
<1>1. Asking = {} /\ Storing = {}
  BY Nothing DEF ChatInit, Asking, Storing
<1>2. Within(0, {}, 0)
  BY FS_EmptySet DEF Within
<1>3. \A t \in Tasks : Within(starts[t], Asking, chats) /\ Within(inq[t], Storing, chats)
  BY <1>1, <1>2 DEF ChatInit
<1>4. 0 \in 0..MaxRestarts
  BY ChatAssumption
<1>5. inq \in [Tasks -> Nat] /\ restarts \in 0..MaxRestarts /\ reg \subseteq Tasks /\ orphaned = FALSE
  BY <1>4 DEF ChatInit
<1>6. \A c \in Tabs : pc[c] = "idle"
  BY DEF ChatInit
<1> QED BY <1>3, <1>5, <1>6 DEF CountInv

\* Only a frame adds to those that ask, one for each chat.
LEMMA CountsKept ==
  ASSUME StreamInv, StreamInv', CountInv,
         \/ Asking' \subseteq Asking /\ Storing' \subseteq Storing /\ chats' = chats
         \/ \E c \in Tabs : /\ Asking' \subseteq Asking \cup {c}
                            /\ Storing' \subseteq Storing \cup {c} /\ chats' = chats + 1,
         inq' \in [Tasks -> Nat],
         \A t \in Tasks : starts'[t] <= starts[t] /\ inq'[t] <= inq[t]
  PROVE  \A t \in Tasks : /\ Within(starts'[t], Asking', chats')
                          /\ Within(inq'[t], Storing', chats')
<1> SUFFICES ASSUME NEW t \in Tasks
             PROVE  /\ Within(starts'[t], Asking', chats')
                    /\ Within(inq'[t], Storing', chats')
  OBVIOUS
<1>1. chats \in Nat /\ chats' \in Nat
  BY ChatAssumption DEF StreamInv, TasksLeft
<1>2. starts'[t] \in Nat /\ inq'[t] \in Nat
  BY DEF StreamInv, StreamTypes
<1>3. Within(starts[t], Asking, chats) /\ Within(inq[t], Storing, chats)
  BY DEF CountInv
<1>4. Within(starts'[t], Asking', chats')
  BY <1>1, <1>2, <1>3, WithinStep
<1>5. Within(inq'[t], Storing', chats')
  BY <1>1, <1>2, <1>3, WithinStep
<1> QED BY <1>4, <1>5

\* Whatever the step, what a write or a loss leaves as the mark is a Boolean.
LEMMA MarkType ==
  ASSUME orphaned \in BOOLEAN,
         \/ orphaned' = orphaned \/ (\E s : Write(s)) \/ (\E b \in BOOLEAN : Lose(b))
  PROVE  orphaned' \in BOOLEAN
<1>1. CASE orphaned' = orphaned \/ \E s : Write(s)
  BY <1>1 DEF Write
<1>2. ASSUME NEW b \in BOOLEAN, Lose(b) PROVE orphaned' \in BOOLEAN
  BY <1>2, Zenon DEF Lose
<1> QED BY <1>1, <1>2

\* A frame of a tab, and the handling of a stop.
LEMMA FrameCounts ==
  ASSUME ChatInv, StreamInv, StreamInv', CountInv, NEW c \in Tabs,
         Join(c) \/ Leave(c) \/ SendChat(c) \/ Stop(c) \/ StopStep(c) \/ ChatRaise(c)
           \/ ChatFinal(c)
  PROVE  CountInv'
<1>0. orphaned' \in BOOLEAN
  <2>1. orphaned' = orphaned \/ Write("completed") \/ Lose(TRUE)
    BY DEF Join, Leave, SendChat, Stop, StopStep, StopCancel, StopSettle, StopFails, ChatRaise,
         ChatFinal, docVars
  <2> QED BY <2>1, MarkType DEF CountInv
<1>1. UNCHANGED <<inq, starts, restarts>> /\ reg' \subseteq Tasks
  BY DEF Join, Leave, SendChat, Stop, StopStep, StopCancel, StopSettle, StopFails, ChatRaise,
         ChatFinal, Cancel, docVars, taskVars, envVars, CountInv
<1>2. inq' \in [Tasks -> Nat] /\ \A t \in Tasks : starts'[t] <= starts[t] /\ inq'[t] <= inq[t]
  BY <1>1 DEF CountInv, StreamInv, StreamTypes
<1>3. CASE Stop(c) \/ StopStep(c)
  <2>1. UNCHANGED <<pc, tab, chats>>
    BY <1>3 DEF Stop, StopStep, StopCancel, StopSettle, StopFails, readVars, envVars
  <2>2. \A t \in Tasks : Within(starts'[t], Asking', chats') /\ Within(inq'[t], Storing', chats')
    BY <1>2, <2>1, CountsKept DEF Asking, Storing
  <2> QED BY <1>0, <1>1, <1>2, <2>1, <2>2 DEF CountInv
<1>4. CASE Join(c) \/ Leave(c) \/ SendChat(c) \/ ChatRaise(c) \/ ChatFinal(c)
  <2>1. /\ \A d \in Tabs \ {c} : pc'[d] = pc[d] /\ tab'[d] = tab[d]
        /\ pc'[c] \in {"find", "final", "idle"}
        /\ chats' = chats + 1 \/ (chats' = chats /\ (pc'[c] = "find" => ~tab'[c].msg))
    <3>1. PICK label \in {"find", "final", "idle"}, stream \in Streams :
            /\ SetStream(c, label, stream)
            /\ chats' = chats + 1 \/ (chats' = chats /\ (label = "find" => ~stream.msg))
      <4>1. \A b \in BOOLEAN : LET s == [NoStream EXCEPT !.msg = b] IN s \in Streams /\ s.msg = b
        BY DEF NoStream, Streams
      <4>2. CASE Join(c)
        BY <4>1, <4>2 DEF Join, StartStream, envVars
      <4>3. CASE SendChat(c)
        BY <4>1, <4>3 DEF SendChat, StartStream
      <4>4. CASE Leave(c) \/ ChatRaise(c) \/ ChatFinal(c)
        BY <4>4, Nothing DEF Leave, ChatRaise, ChatFinal, LastFrames, EndStream, envVars
      <4> QED BY <1>4, <4>2, <4>3, <4>4
    <3> QED BY <3>1 DEF SetStream, ChatInv, CopyTypes, StreamInv, StreamTypes
  <2>2. \/ Asking' \subseteq Asking /\ Storing' \subseteq Storing /\ chats' = chats
        \/ /\ Asking' \subseteq Asking \cup {c}
           /\ Storing' \subseteq Storing \cup {c} /\ chats' = chats + 1
    BY <2>1 DEF Asking, Storing
  <2>3. \A t \in Tasks : Within(starts'[t], Asking', chats') /\ Within(inq'[t], Storing', chats')
    BY <1>2, <2>2, CountsKept
  <2> QED BY <1>0, <1>1, <1>2, <2>1, <2>3 DEF CountInv
<1> QED BY <1>3, <1>4

\* The steps of a stream.
LEMMA ReadCounts ==
  ASSUME ChatInv, StreamInv, StreamInv', CountInv, NEW c \in Tabs, StreamStep(c)
  PROVE  CountInv'
<1>0. orphaned' \in BOOLEAN
  <2>1. \/ orphaned' = orphaned \/ Write(seen[c])
    BY DEF StreamStep, ChatFind, ChatLook, ChatSandbox, ChatCreate, ChatStore, ChatRun, ChatPoll,
         ChatGet, ChatRaise, ChatFinal, docVars
  <2> QED BY <2>1, MarkType DEF CountInv
<1>1. UNCHANGED envVars
  BY DEF StreamStep, ChatFind, ChatLook, ChatSandbox, ChatCreate, ChatStore, ChatRun, ChatPoll,
         ChatGet, ChatRaise, ChatFinal
<1>2. \A d \in Tabs \ {c} : pc'[d] = pc[d] /\ tab'[d] = tab[d]
  BY DEF StreamStep, ChatFind, ChatLook, ChatSandbox, ChatCreate, ChatStore, ChatRun, ChatPoll,
         ChatGet, TakesOne, ChatRaise, ChatFinal, LastFrames, EndStream, SetStream, Goto, Took,
         Asked, ChatInv, CopyTypes, StreamInv, StreamTypes
<1>3. chats \in Nat /\ chats' = chats
  BY <1>1, ChatAssumption DEF envVars, StreamInv, TasksLeft
<1>4. ASSUME UNCHANGED <<inq, starts>>, reg' \subseteq Tasks,
             pc'[c] \in {"store", "run"} => tab'[c].msg,
             Asking' \subseteq Asking, Storing' \subseteq Storing
      PROVE  CountInv'
  <2>1. inq' \in [Tasks -> Nat] /\ \A t \in Tasks : starts'[t] <= starts[t] /\ inq'[t] <= inq[t]
    BY <1>4 DEF CountInv, StreamInv, StreamTypes
  <2>2. \A t \in Tasks : Within(starts'[t], Asking', chats') /\ Within(inq'[t], Storing', chats')
    BY <1>3, <1>4, <2>1, CountsKept
  <2> QED BY <1>0, <1>1, <1>2, <1>4, <2>1, <2>2 DEF CountInv, envVars
<1>5. CASE ChatFind(c) \/ ChatLook(c) \/ ChatPoll(c) \/ ChatGet(c)
  <2>1. /\ UNCHANGED <<inq, starts, reg>> /\ tab \in [Tabs -> Streams]
        /\ pc[c] \in {"find", "look"} \/ pc'[c] \in {"get", "poll", "final"}
        /\ pc'[c] = "store" => tab[c].msg
        /\ pc'[c] # "run"
    BY <1>5 DEF ChatFind, ChatLook, ChatPoll, ChatGet, TakesOne, LastFrames, SetStream, Goto,
         ChatInv, CopyTypes, taskVars, StreamInv, StreamTypes
  <2>2. tab'[c].msg = tab[c].msg \/ LastFrames(c)
    <3>1. \/ tab' = tab \/ LastFrames(c) \/ tab' = Took(c)
          \/ \E n : tab' = [tab EXCEPT ![c].cur = n]
          \/ tab' = [tab EXCEPT ![c].drained = TRUE]
          \/ tab' = [tab EXCEPT ![c].run = 0]
          \/ \E b, n : tab' = Asked(c, b, n)
      BY <1>5 DEF ChatFind, ChatLook, ChatPoll, ChatGet, TakesOne
    <3>2. ASSUME NEW n, tab' = [tab EXCEPT ![c].cur = n] PROVE tab'[c].msg = tab[c].msg
      BY <2>1, <3>2 DEF Streams
    <3>3. ASSUME NEW b, NEW n, tab' = Asked(c, b, n) PROVE tab'[c].msg = tab[c].msg
      BY <2>1, <3>3 DEF Streams, Asked
    <3>4. CASE tab' = Took(c) \/ tab' = [tab EXCEPT ![c].drained = TRUE]
               \/ tab' = [tab EXCEPT ![c].run = 0]
      BY <2>1, <3>4, TookOne, Drained
    <3> QED BY <2>1, <3>1, <3>2, <3>3, <3>4
  <2>3. CASE LastFrames(c)
    <3>1. pc'[c] = "final"
      BY <2>3 DEF LastFrames, SetStream, ChatInv, CopyTypes
    <3>2. Asking' \subseteq Asking /\ Storing' \subseteq Storing
      BY <1>2, <3>1 DEF Asking, Storing
    <3> QED BY <1>4, <2>1, <3>1, <3>2 DEF CountInv
  <2>4. CASE tab'[c].msg = tab[c].msg
    <3>1. Asking' \subseteq Asking /\ Storing' \subseteq Storing
      BY <1>2, <2>1, <2>4 DEF Asking, Storing
    <3> QED BY <1>4, <2>1, <2>4, <3>1 DEF CountInv
  <2> QED BY <2>2, <2>3, <2>4
<1>6. CASE ChatSandbox(c) \/ ChatCreate(c)
  <2>1. /\ pc[c] \in {"sandbox", "create"} /\ tab' = tab /\ UNCHANGED <<inq, starts>>
        /\ pc'[c] \in {"create", "store"} /\ tab[c].msg
    BY <1>6 DEF ChatSandbox, ChatCreate, Goto, ChatInv, CopyTypes, taskVars, StreamInv, Follows,
         HasTask
  <2>2. reg' \subseteq Tasks
    <3>1. CASE ChatSandbox(c)
      BY <3>1 DEF ChatSandbox, taskVars, CountInv
    <3>2. CASE ChatCreate(c)
      <4>1. c \in Creators
        BY <3>2, <2>1 DEF ChatCreate, Creators
      <4> QED BY <3>2, <4>1, TaskForCreator DEF ChatCreate, StreamInv, CountInv
    <3> QED BY <1>6, <3>1, <3>2
  <2>3. Asking' \subseteq Asking /\ Storing' \subseteq Storing
    BY <1>2, <2>1 DEF Asking, Storing
  <2> QED BY <1>4, <2>1, <2>2, <2>3
<1>7. CASE ChatStore(c)
  <2>1. /\ pc[c] = "store" /\ pc'[c] = "run" /\ tab' = tab /\ tab[c].msg /\ obj[c] \in Tasks
        /\ UNCHANGED <<starts, reg>> /\ inq' = [inq EXCEPT ![obj[c]] = @ + 1]
    BY <1>7 DEF ChatStore, Goto, ChatInv, CopyTypes, CountInv, StreamInv, Follows, HasTask
  <2>2. inq' \in [Tasks -> Nat] /\ \A t \in Tasks : inq'[t] <= inq[t] + 1
    BY <2>1 DEF CountInv
  <2>3. c \in Storing /\ Storing' \subseteq Storing \ {c} /\ Asking' \subseteq Asking
    BY <1>2, <2>1 DEF Asking, Storing
  <2>4. ASSUME NEW t \in Tasks
        PROVE  Within(starts'[t], Asking', chats') /\ Within(inq'[t], Storing', chats')
    <3>1. starts[t] \in Nat /\ starts'[t] \in Nat /\ starts'[t] <= starts[t] /\ inq'[t] \in Nat
      BY <2>1, <2>2 DEF StreamInv, StreamTypes
    <3>2. Within(starts[t], Asking, chats) /\ Within(inq[t], Storing, chats) /\ chats' \in Nat
      BY <1>3 DEF CountInv
    <3>3. Within(starts'[t], Asking', chats')
      BY <1>3, <2>3, <3>1, <3>2, WithinStep
    <3>4. Within(inq'[t], Storing', chats')
      BY <1>3, <2>2, <2>3, <3>1, <3>2, WithinStep
    <3> QED BY <3>3, <3>4
  <2> QED BY <1>0, <1>1, <1>2, <2>1, <2>2, <2>4 DEF CountInv, envVars
<1>8. CASE ChatRun(c)
  <2>1. /\ pc[c] = "run" /\ pc'[c] = "get" /\ tab[c].msg
        /\ UNCHANGED <<inq, reg>>
    BY <1>8 DEF ChatRun, Goto, ChatInv, CopyTypes, CountInv
  <2>2. starts' \in [Tasks -> Nat] /\ \A t \in Tasks : starts'[t] <= starts[t] + 1
    <3>1. starts \in [Tasks -> Nat] /\ starts' \in [Tasks -> Nat]
      BY DEF StreamInv, StreamTypes
    <3>2. \A t \in Tasks : starts'[t] = starts[t] \/ starts'[t] = starts[t] + 1
      BY <1>8, <3>1 DEF ChatRun
    <3> QED BY <3>1, <3>2
  <2>3. c \in Asking /\ Asking' \subseteq Asking \ {c} /\ Storing' \subseteq Storing
    BY <1>2, <2>1 DEF Asking, Storing
  <2>4. ASSUME NEW t \in Tasks
        PROVE  Within(starts'[t], Asking', chats') /\ Within(inq'[t], Storing', chats')
    <3>1. inq[t] \in Nat /\ inq'[t] \in Nat /\ inq'[t] <= inq[t] /\ starts'[t] \in Nat
      BY <2>1, <2>2 DEF CountInv
    <3>2. Within(starts[t], Asking, chats) /\ Within(inq[t], Storing, chats) /\ chats' \in Nat
      BY <1>3 DEF CountInv
    <3>3. Within(starts'[t], Asking', chats')
      BY <1>3, <2>2, <2>3, <3>1, <3>2, WithinStep
    <3>4. Within(inq'[t], Storing', chats')
      BY <1>3, <2>3, <3>1, <3>2, WithinStep
    <3> QED BY <3>3, <3>4
  <2> QED BY <1>0, <1>1, <1>2, <2>1, <2>4 DEF CountInv, envVars
<1> QED BY <1>5, <1>6, <1>7, <1>8, FrameCounts DEF StreamStep

\* The runner's steps, and the end of the process: messages are taken off.
LEMMA OtherCounts ==
  ASSUME ChatInv, StreamInv, StreamInv', CountInv,
         (\E t \in Tasks : RunnerStep(t)) \/ Shutdown \/ Restart
  PROVE  CountInv'
<1>1. ASSUME NEW t \in Tasks, RunnerStep(t)
      PROVE  CountInv'
  <2>0. orphaned' \in BOOLEAN
    <3>1. \/ orphaned' = orphaned \/ Lose(TRUE)
          \/ \E s \in {"running", "waiting", "completed"} : Write(s)
      BY <1>1 DEF RunnerStep, Begin, NextMessage, NoMessage, FlowBegin, FlowEvent, FlowDone,
         FlowWait, Park, Raise, Handle, Settle, HandlerFails, docVars
    <3> QED BY <3>1, MarkType DEF CountInv
  <2>1. UNCHANGED <<starts, tab, pc, chats, restarts>> /\ reg' \subseteq reg
    BY <1>1 DEF RunnerStep, Begin, NextMessage, NoMessage, FlowBegin, FlowEvent, FlowDone,
         FlowWait, Park, Raise, Handle, Settle, HandlerFails, docVars, tabVars, readVars, envVars
  <2>2. inq' = inq \/ (inq[t] > 0 /\ Pop(t))
    BY <1>1 DEF RunnerStep, Begin, NextMessage, NoMessage, FlowBegin, FlowEvent, FlowDone,
         FlowWait, Park, Raise, Handle, Settle, HandlerFails
  <2>3. inq' \in [Tasks -> Nat] /\ \A u \in Tasks : starts'[u] <= starts[u] /\ inq'[u] <= inq[u]
    <3>1. inq \in [Tasks -> Nat] /\ starts \in [Tasks -> Nat]
      BY DEF CountInv, StreamInv, StreamTypes
    <3>2. inq[t] > 0 => inq[t] - 1 \in Nat
      BY <3>1
    <3> QED BY <2>1, <2>2, <3>1, <3>2 DEF Pop
  <2>4. \A u \in Tasks : Within(starts'[u], Asking', chats') /\ Within(inq'[u], Storing', chats')
    BY <2>1, <2>3, CountsKept DEF Asking, Storing
  <2> QED BY <2>0, <2>1, <2>3, <2>4 DEF CountInv
<1>2. CASE Shutdown
  <2>1. UNCHANGED <<inq, starts, tab, pc, chats, restarts>> /\ reg' \subseteq reg
    BY <1>2 DEF Shutdown, Cancel, tabVars, readVars, envVars
  <2>2. orphaned' \in BOOLEAN
    BY <1>2, MarkType DEF Shutdown, CountInv
  <2>3. inq' \in [Tasks -> Nat] /\ \A u \in Tasks : starts'[u] <= starts[u] /\ inq'[u] <= inq[u]
    BY <2>1 DEF CountInv, StreamInv, StreamTypes
  <2>4. \A u \in Tasks : Within(starts'[u], Asking', chats') /\ Within(inq'[u], Storing', chats')
    BY <2>1, <2>3, CountsKept DEF Asking, Storing
  <2> QED BY <2>1, <2>2, <2>3, <2>4 DEF CountInv
<1>3. CASE Restart
  <2>1. /\ starts' = [u \in Tasks |-> 0] /\ chats' = chats /\ reg' = {}
        /\ inq' = [u \in Tasks |-> 0]
        /\ \A c \in Tabs : pc'[c] = "idle"
    BY <1>3 DEF Restart
  <2>2. restarts' \in 0..MaxRestarts
    BY <1>3, ChatAssumption DEF Restart, CountInv
  <2>3. orphaned' \in BOOLEAN
    BY <1>3, MarkType DEF Restart, CountInv
  <2>4. inq' \in [Tasks -> Nat] /\ \A u \in Tasks : starts'[u] <= starts[u] /\ inq'[u] <= inq[u]
    BY <2>1 DEF CountInv, StreamInv, StreamTypes
  <2>5. Asking' = {} /\ Storing' = {}
    BY <2>1 DEF Asking, Storing
  <2>6. \A u \in Tasks : Within(starts'[u], Asking', chats') /\ Within(inq'[u], Storing', chats')
    BY <2>1, <2>4, <2>5, CountsKept
  <2> QED BY <2>1, <2>2, <2>3, <2>4, <2>6 DEF CountInv
<1> QED BY <1>1, <1>2, <1>3

\* The document, the tasks and the tabs keep their types, and every counter its bound.
THEOREM ChatTypes == ChatSpec => []ChatTypeOK
<1>1. /\ ChatInv /\ StreamInv /\ CountInv /\ [ChatNext]_chatVars
      => ChatInv' /\ StreamInv' /\ CountInv'
  <2> SUFFICES ASSUME ChatInv, StreamInv, CountInv, [ChatNext]_chatVars
               PROVE  ChatInv' /\ StreamInv' /\ CountInv'
    OBVIOUS
  <2>1. ChatInv' /\ StreamInv'
    BY ChatStep
  <2>2. CASE UNCHANGED chatVars
    BY <2>1, <2>2 DEF CountInv, Asking, Storing, chatVars, docVars, taskVars, tabVars, readVars,
         stopVars, envVars
  <2>3. CASE ChatNext
    BY <2>1, <2>3, FrameCounts, ReadCounts, OtherCounts DEF ChatNext
  <2> QED BY <2>1, <2>2, <2>3
<1>2. ChatInv /\ StreamInv /\ CountInv => ChatTypeOK
  <2> SUFFICES ASSUME ChatInv, StreamInv, CountInv PROVE ChatTypeOK
    OBVIOUS
  <2>1. chats \in Nat /\ chats <= MaxChats /\ MaxChats \in Nat
    BY ChatAssumption DEF StreamInv, TasksLeft
  <2>2. ASSUME NEW n, NEW S, Within(n, S, chats)
        PROVE  n \in 0..MaxChats
    <3>1. Cardinality(S) \in Nat /\ n \in Nat /\ n + Cardinality(S) <= chats
      BY <2>2, FS_CardinalityType DEF Within
    <3> QED BY <2>1, <3>1
  <2>3. Within(made, Creators, chats)
    BY DEF StreamInv, TasksLeft, Within
  <2>4. made \in 0..MaxChats /\ \A t \in Tasks : starts[t] \in 0..MaxChats /\ inq[t] \in 0..MaxChats
    BY <2>2, <2>3 DEF CountInv
  <2>5. starts \in [Tasks -> 0..MaxChats] /\ inq \in [Tasks -> 0..MaxChats]
    BY <2>4 DEF CountInv, StreamInv, StreamTypes
  <2> QED BY <2>1, <2>4, <2>5 DEF ChatTypeOK, ChatInv, CopyTypes, StreamInv, StreamTypes,
             TasksLeft, CountInv
<1> QED BY ChatInitInv, StreamInitInv, CountInitInv, <1>1, <1>2, PTL DEF ChatSpec
=============================================================================
