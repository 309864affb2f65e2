----------------------------- MODULE SandboxShell -----------------------------
(***************************************************************************)
(* One shell session of the sandbox: a bash in a tmux pane that every call *)
(* for the session shares.  Bash draws a prompt block after each command;  *)
(* a command typed when the pane shows k blocks is over once block k + 1   *)
(* is there, and that block carries its exit code.                         *)
(*                                                                         *)
(* Commands are numbered, and an exit code is the number of the command it *)
(* belongs to; 0 is a prompt that answers no command of exec_command: the  *)
(* first one, one drawn for a Ctrl-C, one after a cd or after input.  tmux *)
(* and bash are external.                                                  *)
(***************************************************************************)
EXTENDS Integers, Sequences, SequencesExt

CONSTANTS Clients,         \* concurrent requests to the shell API
          MaxRequests      \* bound on the requests made

ASSUME ShellAssumption == MaxRequests \in Nat

Killed == -9               \* the code given by a hard reset
Exited == -1               \* bash is gone: the code says 0, about no command
Untold == -2

VARIABLES shell,     \* the record in active_shells
          pane,      \* tmux: [up, blocks: codes of the prompts shown, queue: what bash has to run]
          call,      \* Clients -> the request under way
          made, told,         \* requests made; what exec_command answered, by command
          early, disturbed    \* commands typed at a busy pane; commands others sent keys to

shellVars == <<shell, pane, call, made, told, early, disturbed>>

NoCur == [id |-> 0, k |-> 0, done |-> TRUE, rc |-> 0]
Idle == [op |-> "none", pc |-> "idle", id |-> 0, k |-> 0]

ShellInit ==
  /\ shell = [known |-> FALSE, dead |-> FALSE, cur |-> NoCur]
  /\ pane = [up |-> FALSE, blocks |-> <<>>, queue |-> <<>>]
  /\ call = [c \in Clients |-> Idle] /\ made = 0
  /\ told = [i \in 1..MaxRequests |-> Untold] /\ early = {} /\ disturbed = {}

Goto(c, pc) == call' = [call EXCEPT ![c].pc = pc]
Answer(c) == call' = [call EXCEPT ![c] = Idle]
Ended(cur, rc) == IF cur.done THEN cur ELSE [cur EXCEPT !.done = TRUE, !.rc = rc]

Refreshed_SameCount ==
  LET cur == shell.cur
  IN  IF ~pane.up THEN [shell EXCEPT !.dead = TRUE, !.cur = Ended(cur, Exited)]
      ELSE IF Len(pane.blocks) >= cur.k /\ cur.k > 0
      THEN [shell EXCEPT !.cur = Ended(cur, pane.blocks[cur.k])]
      ELSE shell

\* _refresh_sync: what the pane says of the current command.
Refreshed ==
  LET cur == shell.cur   n == Len(pane.blocks)
  IN  IF ~pane.up THEN [shell EXCEPT !.dead = TRUE, !.cur = Ended(cur, Exited)]
      ELSE IF n > cur.k THEN [shell EXCEPT !.cur = Ended(cur, pane.blocks[cur.k + 1])]
      ELSE IF n \in 1..(cur.k - 1) /\ pane.queue = <<>>     \* early prompts scrolled away
      THEN [shell EXCEPT !.cur = Ended(cur, Last(pane.blocks))]
      ELSE shell

Refresh == shell' = Refreshed

Others(c) == {call[d].id : d \in Clients \ {c}} \ {0}
Disturb(c) == disturbed' = disturbed \cup Others(c)

-----------------------------------------------------------------------------
(* The pane.                                                                *)

\* What bash does next is over: a prompt is drawn.
Finish ==
  /\ pane.up /\ pane.queue # <<>>
  /\ pane' = [pane EXCEPT !.blocks = Append(@, Head(pane.queue)), !.queue = Tail(@)]
  /\ UNCHANGED <<shell, call, made, told, early, disturbed>>

\* The command was an exit.
Dies ==
  /\ pane.up /\ pane.queue # <<>> /\ Head(pane.queue) # 0
  /\ pane' = [pane EXCEPT !.up = FALSE, !.queue = <<>>]
  /\ UNCHANGED <<shell, call, made, told, early, disturbed>>

\* A long output pushes the oldest prompt out of the history.
Scrolls ==
  /\ pane.up /\ pane.queue # <<>> /\ pane.blocks # <<>> /\ Head(pane.queue) # 0
  /\ pane' = [pane EXCEPT !.blocks = Tail(@)]
  /\ UNCHANGED <<shell, call, made, told, early, disturbed>>

\* Ctrl-C drops what was typed ahead; at the prompt, bash draws another one.  A command that
\* is stopped by it ends by Finish, one that ignores it goes on.
AfterCtrlC == IF pane.queue = <<>> THEN <<0>> ELSE <<Head(pane.queue)>>

NewPane == pane' = [up |-> TRUE, blocks |-> <<0>>, queue |-> <<>>]

-----------------------------------------------------------------------------
(* exec_command.                                                            *)

Request(c, op, pc) ==
  /\ call[c] = Idle /\ made < MaxRequests /\ made' = made + 1
  /\ call' = [call EXCEPT ![c] = [op |-> op, pc |-> pc, k |-> 0,
                                  id |-> IF op = "exec" THEN made + 1 ELSE 0]]

\* _ensure_shell: a new session when there is none, or when it is dead.
Ensure ==
  IF shell.known /\ ~shell.dead THEN UNCHANGED <<shell, pane>>
  ELSE NewPane /\ shell' = [known |-> TRUE, dead |-> FALSE, cur |-> NoCur]

Exec(c) ==
  /\ Request(c, "exec", "look") /\ Ensure
  /\ UNCHANGED <<told, early, disturbed>>

\* The refresh with which exec_command and kill_process begin: is a command running?
Look(c) ==
  /\ call[c].pc = "look" /\ Refresh
  /\ IF ~shell'.cur.done THEN Goto(c, "interrupt")
     ELSE IF call[c].op = "exec" THEN Goto(c, "dir") ELSE Answer(c)
  /\ UNCHANGED <<pane, made, told, early, disturbed>>

\* _interrupt: Ctrl-C, then the wait for the prompt.
Interrupt(c) ==
  /\ call[c].pc \in {"interrupt", "again"}
  /\ IF pane.up THEN /\ pane' = [pane EXCEPT !.queue = AfterCtrlC]
                     /\ Goto(c, IF call[c].pc = "again" \/ call[c].op = "exec" THEN "last" ELSE "wait")
                ELSE UNCHANGED pane /\ Answer(c)
  /\ Disturb(c) /\ UNCHANGED <<shell, made, told, early>>

\* The prompt is back: the new command is sent, or the kill is answered.
PromptIsBack(c) ==
  /\ call[c].pc \in {"wait", "last"} /\ Refresh /\ shell'.cur.done
  /\ IF call[c].op = "exec" THEN Goto(c, "dir") ELSE Answer(c)
  /\ UNCHANGED <<pane, made, told, early, disturbed>>

\* Ctrl-C did not help: kill_process tries once more, then the session is killed ...
NotInterrupted(c) ==
  /\ call[c].pc \in {"wait", "last"} /\ Refresh /\ ~shell'.cur.done
  /\ Goto(c, IF call[c].pc = "wait" THEN "again" ELSE "reset")
  /\ UNCHANGED <<pane, made, told, early, disturbed>>

\* ... and _hard_reset makes a new one.
HardReset(c) ==
  /\ call[c].pc = "reset" /\ Goto(c, "remake") /\ Disturb(c)
  /\ shell' = [shell EXCEPT !.cur = Ended(@, Killed), !.dead = TRUE]
  /\ pane' = [pane EXCEPT !.up = FALSE, !.queue = <<>>]
  /\ UNCHANGED <<made, told, early>>

Remake(c) ==
  /\ call[c].pc = "remake" /\ Ensure
  /\ IF call[c].op = "exec" THEN Goto(c, "dir") ELSE Answer(c)
  /\ UNCHANGED <<made, told, early, disturbed>>

\* _run_hidden: a cd is typed, and its prompt waited for.
Hidden(c) ==
  /\ call[c].pc = "dir" /\ ~shell.dead /\ pane.up
  /\ pane' = [pane EXCEPT !.queue = Append(@, 0)]
  /\ call' = [call EXCEPT ![c].pc = "cd", ![c].k = Len(pane.blocks)]
  /\ Disturb(c) /\ UNCHANGED <<shell, made, told, early>>

HiddenDone(c) ==
  /\ call[c].pc = "cd" /\ Len(pane.blocks) > call[c].k /\ pane.up /\ Refresh
  /\ Goto(c, "type") /\ UNCHANGED <<pane, made, told, early, disturbed>>

\* bash is gone, or the prompt does not come in time: an error.
Fails(c) ==
  /\ call[c].pc = "cd" \/ (call[c].pc \in {"dir", "type"} /\ ~shell.dead /\ ~pane.up)
  /\ Answer(c) /\ UNCHANGED <<shell, pane, made, told, early, disturbed>>

EnsureAgain(c) ==
  /\ call[c].pc \in {"dir", "type"} /\ shell.dead /\ Ensure
  /\ UNCHANGED <<call, made, told, early, disturbed>>

\* The command is typed and becomes the current one.
Type(c) ==
  /\ call[c].pc \in {"dir", "type"} /\ ~shell.dead /\ pane.up
  /\ LET id == call[c].id
     IN  /\ shell' = [shell EXCEPT !.cur = [id |-> id, k |-> Len(pane.blocks),
                                            done |-> FALSE, rc |-> 0]]
         /\ pane' = [pane EXCEPT !.queue = Append(@, id)]
         /\ early' = IF pane.queue = <<>> THEN early ELSE early \cup {id}
  /\ Goto(c, "poll") /\ Disturb(c) /\ UNCHANGED <<made, told>>

\* _poll_until_done: the answer is what the current command says, whichever that is by now;
\* without one, because another request made the session again, it is an error.
Completed(c) ==
  /\ call[c].pc = "poll" /\ Refresh /\ shell'.cur.done
  /\ told' = IF shell'.cur.id = 0 THEN told ELSE [told EXCEPT ![call[c].id] = shell'.cur.rc]
  /\ Answer(c) /\ UNCHANGED <<pane, made, early, disturbed>>

StillRunning(c) ==
  /\ call[c].pc = "poll" /\ Refresh /\ ~shell'.cur.done
  /\ Answer(c) /\ UNCHANGED <<pane, made, told, early, disturbed>>

-----------------------------------------------------------------------------
(* The other requests.                                                      *)

Kill(c) ==
  /\ shell.known /\ Request(c, "kill", "look")
  /\ UNCHANGED <<shell, pane, told, early, disturbed>>

\* view_shell, and each turn of wait_for_process.
View(c) ==
  /\ call[c] = Idle /\ shell.known /\ Refresh
  /\ UNCHANGED <<pane, call, made, told, early, disturbed>>

\* write_to_process: bash reads what the command leaves unread.
WriteInput(c) ==
  /\ call[c] = Idle /\ shell.known /\ made < MaxRequests /\ made' = made + 1
  /\ Refresh /\ ~shell'.cur.done /\ Disturb(c)
  /\ \/ pane.queue # <<>> /\ UNCHANGED pane       \* the command reads it
     \/ \E q \in {AfterCtrlC, Append(pane.queue, 0)} : pane' = [pane EXCEPT !.queue = q]
  /\ UNCHANGED <<call, told, early>>

ShellNext ==
  \/ Finish \/ Dies \/ Scrolls
  \/ \E c \in Clients :
       \/ Exec(c) \/ Look(c) \/ Interrupt(c) \/ PromptIsBack(c) \/ NotInterrupted(c)
       \/ HardReset(c) \/ Remake(c) \/ Hidden(c) \/ HiddenDone(c) \/ Fails(c) \/ EnsureAgain(c)
       \/ Type(c) \/ Completed(c) \/ StillRunning(c) \/ Kill(c) \/ View(c) \/ WriteInput(c)

ShellSpec == ShellInit /\ [][ShellNext]_shellVars

-----------------------------------------------------------------------------
Codes == 0..MaxRequests
ShellTypeOK ==
  /\ shell \in [known : BOOLEAN, dead : BOOLEAN,
                cur : [id : Codes, k : Nat, done : BOOLEAN, rc : Codes \cup {Killed, Exited}]]
  /\ pane.up \in BOOLEAN /\ pane.blocks \in Seq(Codes) /\ pane.queue \in Seq(Codes)
  /\ \A c \in Clients : call[c].id \in 0..made
  /\ made \in Codes /\ early \cup disturbed \subseteq 1..made
  /\ told \in [1..MaxRequests -> Codes \cup {Killed, Exited, Untold}]

(* The code exec_command returns with "completed" is the code of its own    *)
(* command, or says that the command ended the shell.  Two exceptions, each *)
(* a behaviour of the code: another request typed, interrupted or reset     *)
(* while it ran, or it was typed before the pane was at rest (a Ctrl-C that *)
(* came after the interrupted command had ended draws one prompt more).     *)
ExecHonest == \A i \in (1..made) \ (early \cup disturbed) : told[i] \in {Untold, i, Exited}
=============================================================================
