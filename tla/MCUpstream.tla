------------------------------ MODULE MCUpstream ------------------------------
(***************************************************************************)
(* The smaller components in one run.  They share no state: each behaviour *)
(* is one of a single component, the focus, and the variables of the       *)
(* others are parked at 0.                                                 *)
(***************************************************************************)
EXTENDS AgentFlow, AgentLoop, SessionList, Projects, SessionFiles, Accounts, EmailCodes,
        Skills, McpTools, SandboxShell, SandboxTimer, SandboxFiles,
        SwarmPatrol, SwarmGateway, SwarmTelemetry

VARIABLE focus

upstreamVars == <<flowVars, loopVars, listVars, projVars, sfVars, acctVars, codeVars, skillVars,
                  mcpVars, shellVars, timerVars, fileVars, patrolVars, gatewayVars, telVars, focus>>

\* The configuration of McpTools: names as sequences of their parts.
TheServers == {<<"a">>, <<"a", "b">>, <<"mcp", "c">>}
TheNames == {<<"run">>, <<"b", "run">>}

FlowStarts ==
  IF focus = "flow" THEN FlowInit
  ELSE /\ fstatus = 0 /\ phase = 0 /\ plan = 0 /\ saved = 0 /\ step = 0 /\ resuming = 0
       /\ memory = 0 /\ loop = 0 /\ work = 0 /\ asker = 0 /\ did = 0 /\ cut = 0
       /\ late = 0 /\ stale = 0 /\ messages = 0
LoopStarts ==
  IF focus = "loop" THEN LoopInit
  ELSE /\ session = 0 /\ flow = 0 /\ steps = 0 /\ stored = 0 /\ rows = 0 /\ manus = 0
       /\ turn = 0 /\ replanned = 0 /\ undue = 0 /\ silent = 0 /\ runs = 0
ListStarts ==
  IF focus = "list" THEN ListInit
  ELSE /\ doc = 0 /\ born = 0 /\ copy = 0 /\ revived = 0 /\ clearing = 0 /\ due = 0 /\ asked = 0
       /\ chan = 0 /\ ws = 0
       /\ list = 0 /\ fetch = 0 /\ excused = 0 /\ writes = 0 /\ fetches = 0
ProjStarts ==
  IF focus = "projects" THEN ProjInit
  ELSE /\ proj = 0 /\ place = 0 /\ preq = 0 /\ answered = 0 /\ begun = 0 /\ races = 0
       /\ held = 0 /\ returned = 0
DocsStarts ==
  IF focus = "files" THEN DocsInit
  ELSE /\ box = 0 /\ listed = 0 /\ store = 0 /\ copies = 0 /\ runner = 0 /\ diff = 0 /\ ghost = 0
AcctStarts ==
  IF focus = "accounts" THEN AcctInit
  ELSE /\ user = 0 /\ meant = 0 /\ atRisk = 0 /\ job = 0 /\ keys = 0 /\ index = 0
       /\ used = 0 /\ strays = 0 /\ changes = 0
CodesStarts ==
  IF focus = "codes" THEN CodesInit
  ELSE /\ cache = 0 /\ mreq = 0 /\ mailed = 0 /\ book = 0
SkillsStarts ==
  IF focus = "skills" THEN SkillsInit
  ELSE /\ docs = 0 /\ nameOf = 0 /\ subs = 0 /\ req = 0 /\ sync = 0 /\ tree = 0
       /\ removing = 0 /\ changed = 0 /\ failed = 0 /\ lagged = 0 /\ swept = 0 /\ marred = 0
       /\ toggles = 0 /\ syncs = 0
McpStarts ==
  IF focus = "tools" THEN McpInit
  ELSE /\ config = 0 /\ mgr = 0 /\ kit = 0 /\ called = 0
ShellStarts ==
  IF focus = "shell" THEN ShellInit
  ELSE /\ shell = 0 /\ pane = 0 /\ call = 0 /\ made = 0 /\ told = 0 /\ early = 0
       /\ disturbed = 0
TimerStarts ==
  IF focus = "timer" THEN TimerInit
  ELSE /\ default = 0 /\ active = 0 /\ auto = 0 /\ deadline = 0 /\ timers = 0 /\ rpcs = 0
       /\ overtaken = 0 /\ state = 0 /\ sets = 0
FilesStarts ==
  IF focus = "disk" THEN FilesInit
  ELSE /\ disk = 0 /\ temp = 0 /\ op = 0 /\ wanted = 0 /\ risk = 0
PatrolStarts ==
  IF focus = "patrol" THEN PatrolInit
  ELSE /\ source = 0 /\ jobs = 0 /\ candidates = 0 /\ idem = 0 /\ halted = 0 /\ twins = 0
       /\ updates = 0
GatewayStarts ==
  IF focus = "gateway" THEN GatewayInit
  ELSE /\ db = 0 /\ tx = 0 /\ sender = 0 /\ clock = 0 /\ shot = 0
TelStarts ==
  IF focus = "telemetry" THEN TelInit
  ELSE /\ agent = 0 /\ presence = 0 /\ row = 0 /\ seen = 0

Focuses == {"flow", "loop", "list", "projects", "files", "accounts", "codes", "skills", "tools",
            "shell", "timer", "disk", "patrol", "gateway", "telemetry"}

UpstreamInit ==
  /\ focus \in Focuses
  /\ FlowStarts /\ LoopStarts /\ ListStarts /\ ProjStarts /\ DocsStarts /\ AcctStarts
  /\ CodesStarts /\ SkillsStarts /\ McpStarts /\ ShellStarts /\ TimerStarts
  /\ FilesStarts /\ PatrolStarts /\ GatewayStarts /\ TelStarts

\* Everything but the component in focus.
Parked(f) ==
  /\ IF f = "flow" THEN TRUE ELSE UNCHANGED flowVars
  /\ IF f = "loop" THEN TRUE ELSE UNCHANGED loopVars
  /\ IF f = "list" THEN TRUE ELSE UNCHANGED listVars
  /\ IF f = "projects" THEN TRUE ELSE UNCHANGED projVars
  /\ IF f = "files" THEN TRUE ELSE UNCHANGED sfVars
  /\ IF f = "accounts" THEN TRUE ELSE UNCHANGED acctVars
  /\ IF f = "codes" THEN TRUE ELSE UNCHANGED codeVars
  /\ IF f = "skills" THEN TRUE ELSE UNCHANGED skillVars
  /\ IF f = "tools" THEN TRUE ELSE UNCHANGED mcpVars
  /\ IF f = "shell" THEN TRUE ELSE UNCHANGED shellVars
  /\ IF f = "timer" THEN TRUE ELSE UNCHANGED timerVars
  /\ IF f = "disk" THEN TRUE ELSE UNCHANGED fileVars
  /\ IF f = "patrol" THEN TRUE ELSE UNCHANGED patrolVars
  /\ IF f = "gateway" THEN TRUE ELSE UNCHANGED gatewayVars
  /\ IF f = "telemetry" THEN TRUE ELSE UNCHANGED telVars
  /\ UNCHANGED focus

UpstreamNext ==
  \/ focus = "flow" /\ FlowNext /\ Parked("flow")
  \/ focus = "loop" /\ LoopNext /\ Parked("loop")
  \/ focus = "list" /\ ListNext /\ Parked("list")
  \/ focus = "projects" /\ ProjNext /\ Parked("projects")
  \/ focus = "files" /\ DocsNext /\ Parked("files")
  \/ focus = "accounts" /\ AcctNext /\ Parked("accounts")
  \/ focus = "codes" /\ CodesNext /\ Parked("codes")
  \/ focus = "skills" /\ SkillsNext /\ Parked("skills")
  \/ focus = "tools" /\ McpNext /\ Parked("tools")
  \/ focus = "shell" /\ ShellNext /\ Parked("shell")
  \/ focus = "timer" /\ TimerNext /\ Parked("timer")
  \/ focus = "disk" /\ FilesNext /\ Parked("disk")
  \/ focus = "patrol" /\ PatrolNext /\ Parked("patrol")
  \/ focus = "gateway" /\ GatewayNext /\ Parked("gateway")
  \/ focus = "telemetry" /\ TelNext /\ Parked("telemetry")

UpstreamSpec == UpstreamInit /\ [][UpstreamNext]_upstreamVars

(* Every component's variables have their types.                            *)
UpstreamTypeOK ==
  /\ focus = "flow" => FlowTypeOK
  /\ focus = "loop" => LoopTypeOK
  /\ focus = "list" => ListTypeOK
  /\ focus = "projects" => ProjTypeOK
  /\ focus = "files" => DocsTypeOK
  /\ focus = "accounts" => AcctTypeOK
  /\ focus = "codes" => CodesTypeOK
  /\ focus = "skills" => SkillsTypeOK
  /\ focus = "tools" => McpTypeOK
  /\ focus = "shell" => ShellTypeOK
  /\ focus = "timer" => TimerTypeOK
  /\ focus = "disk" => FilesTypeOK
  /\ focus = "patrol" => PatrolTypeOK
  /\ focus = "gateway" => GatewayTypeOK
  /\ focus = "telemetry" => TelTypeOK

(* A flow's memory pairs every call of the model with one response, and a  *)
(* reply goes to the call that asked (AgentFlow).                          *)
FlowPaired == focus = "flow" => PairingKept
FlowReplies == focus = "flow" => ReplyReaches

(* A completed flow leaves no step open, and reports success only when the *)
(* step was worked on (AgentFlow); the single loop's plan, its timeline    *)
(* and what it lets the model do agree (AgentLoop).                        *)
StepsHonest == /\ focus = "flow" => NothingLeftOpen /\ HonestSuccess
               /\ focus = "loop" => LoopHonest

(* The user's sessions and projects are what their answers said, and the   *)
(* sidebars converge to them (SessionList, Projects).                      *)
SessionsKept == /\ focus = "list" => Converged
                /\ focus = "projects" => ProjectsKept

(* Commands in the sandbox are answered with what they did, and it lives   *)
(* until its deadline (SandboxShell, SandboxTimer).                        *)
SandboxKept == /\ focus = "shell" => ExecHonest
               /\ focus = "timer" => DeadlineKept

(* A file is what its requests made of it, in the sandbox and in the list  *)
(* of a session (SandboxFiles, SessionFiles).                              *)
FilesKept == /\ focus = "disk" => FilesHonest
             /\ focus = "files" => SessionFilesKept

(* Accounts, sign-in sessions and e-mail codes (Accounts, EmailCodes).     *)
AccountsKept == /\ focus = "accounts" => ChangesKept
                /\ focus = "codes" => CodesKept

(* Patrols, commands, replays and the telemetry of the swarm (SwarmPatrol, *)
(* SwarmGateway, SwarmTelemetry).                                          *)
SwarmKept == /\ focus = "patrol" => PatrolKept
             /\ focus = "gateway" => GatewayKept
             /\ focus = "telemetry" => TelemetryHonest

(* The skills' packages and defaults (Skills), the tools' calls (McpTools). *)
SkillsFound == focus = "skills" => SkillsKept
ToolsFound == focus = "tools" => ToolsRouted
=============================================================================
