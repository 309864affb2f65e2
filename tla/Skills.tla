-------------------------------- MODULE Skills --------------------------------
(***************************************************************************)
(* The skills of one user.  A first look at them subscribes the defaults   *)
(* and writes a personal skill; a task runner copies the packages of the   *)
(* enabled ones into its sandbox before each message, removes the others,  *)
(* and then resolves the skill the message asks for.  Packages lie in the  *)
(* sandbox by name, and names are not unique.                              *)
(*                                                                         *)
(* MongoDB is external, with its unique index on user and skill; what the  *)
(* sandbox does with a command is that of SandboxShell, reduced to a       *)
(* deletion that is still running when the command has been answered.      *)
(***************************************************************************)
EXTENDS Naturals, Sequences, FiniteSets

CONSTANTS Official, Personal,     \* skill ids: the default catalog, and ids for new ones
          OtherName,              \* a name an imported package may have; DefaultName is the personal default's
          DefaultName,
          Requests,               \* concurrent requests of the user; Runner is the task runner
          Runner,
          MaxToggles, MaxSyncs    \* bounds on imports, enabling and disabling; and on messages

\* DEFAULT_ADDED_OFFICIAL_SKILL_IDS names some.
ASSUME SkillsAssumption == Official # {} /\ MaxToggles \in Nat /\ MaxSyncs \in Nat

VARIABLES docs,       \* the personal skills, oldest first
          nameOf,     \* their names; an official skill has its id for a name
          subs,       \* ids -> "none", "on", "off"
          req,        \* Requests -> where a request is: [pc, todo, id]
          sync,       \* the runner: [pc, names, left, cur, doomed, used]
          tree,       \* name -> the skill whose package is there, "none", or "part"
          removing,   \* names whose deletion is still running
          changed,    \* skills changed since the runner listed them
          failed,     \* names whose package was not copied whole, as the log says
          lagged,     \* names whose deletion was still running when it was answered
          swept,      \* the other directories were listed, and no removal failed
          marred,     \* how the seeding was disturbed
          toggles, syncs

seedVars  == <<docs, nameOf, subs, req, marred>>
syncVars  == <<sync, tree, removing, failed, lagged, swept, syncs>>
skillVars == <<seedVars, syncVars, changed, toggles>>

Ids == Official \cup Personal
Names == Official \cup {OtherName, DefaultName}
Name(x) == IF x \in Official THEN x ELSE nameOf[x]
Written == {docs[i] : i \in DOMAIN docs}
Enabled == {x \in Ids : subs[x] = "on"}
NoReq == [pc |-> "free", todo |-> {}, id |-> "none"]

SkillsInit ==
  /\ docs = <<>> /\ nameOf = [p \in Personal |-> DefaultName] /\ subs = [x \in Ids |-> "none"]
  /\ req = [h \in Requests |-> NoReq] /\ marred = {}
  /\ sync = [pc |-> "idle", names |-> {}, left |-> {}, cur |-> "none", doomed |-> {}, used |-> "none"]
  /\ tree = [n \in Names |-> "none"] /\ removing = {}
  /\ changed = FALSE /\ failed = {} /\ lagged = {} /\ swept = TRUE /\ toggles = 0 /\ syncs = 0

-----------------------------------------------------------------------------
(* Subscriptions and the seeding of the defaults.                           *)

Seeding == {h \in Requests : req[h].pc \in {"seed", "subscribe"}}
Subscriptions == {x \in Ids : subs[x] # "none"}

\* _ensure_default_subscriptions, from get_state: there are no subscriptions at all.
BeginSeed(h) ==
  /\ req[h] = NoReq
  /\ Subscriptions = {}
  /\ req' = [req EXCEPT ![h] = [NoReq EXCEPT !.pc = "seed", !.todo = Official]]
  /\ marred' = IF Seeding = {} THEN marred ELSE marred \cup {"raced"}
  /\ UNCHANGED <<docs, nameOf, subs, syncVars, changed, toggles>>

\* _add_subscription: one that is there is enabled again.
Subscribed(x) == subs' = [subs EXCEPT ![x] = "on"] /\ changed' = TRUE

SeedOfficial(h) ==
  /\ req[h].pc = "seed" /\ req[h].todo # {}
  /\ LET x == CHOOSE o \in req[h].todo : TRUE
     IN Subscribed(x) /\ req' = [req EXCEPT ![h].todo = @ \ {x}]
  /\ UNCHANGED <<docs, nameOf, syncVars, marred, toggles>>

\* A personal skill with a new id: the default one, or an imported package.
WritePersonal(h, name, pc) ==
  /\ Personal # Written
  /\ LET p == CHOOSE p \in Personal \ Written : TRUE
     IN  /\ docs' = Append(docs, p)
         /\ nameOf' = [nameOf EXCEPT ![p] = name]
         /\ req' = [req EXCEPT ![h].pc = pc, ![h].id = p]
  /\ changed' = TRUE /\ UNCHANGED <<subs, syncVars, marred>>

SeedPersonal(h) ==
  req[h].pc = "seed" /\ req[h].todo = {} /\ UNCHANGED toggles /\ WritePersonal(h, DefaultName, "subscribe")

\* import_from_github, import_from_upload: the defaults are not looked at.
Import(h) ==
  /\ h # Runner /\ req[h] = NoReq /\ toggles < MaxToggles /\ toggles' = toggles + 1
  /\ \E n \in Names \ {DefaultName} : WritePersonal(h, n, "imported")

SubscribePersonal(h) ==
  /\ req[h].pc \in {"subscribe", "imported"} /\ Subscribed(req[h].id)
  /\ req' = [req EXCEPT ![h] = NoReq]
  /\ marred' = IF Subscriptions = {} /\ Seeding = {} THEN marred \cup {"import"} ELSE marred
  /\ UNCHANGED <<docs, nameOf, syncVars, toggles>>

\* The request breaks off: an error of the database, the client gone.
Abort(h) ==
  /\ req[h] # NoReq /\ req' = [req EXCEPT ![h] = NoReq]
  /\ marred' = IF h \in Seeding /\ Subscriptions # {} THEN marred \cup {"cut"} ELSE marred
  /\ UNCHANGED <<docs, nameOf, subs, syncVars, changed, toggles>>

\* set_skill_enabled and add_skills.
Toggle(x, value) ==
  /\ toggles < MaxToggles /\ toggles' = toggles + 1
  /\ x \in Official \/ x \in Written
  /\ value = "off" => subs[x] # "none"
  /\ Subscriptions # {}                              \* add_skills seeds first
  /\ subs' = [subs EXCEPT ![x] = value] /\ changed' = TRUE
  /\ UNCHANGED <<docs, nameOf, req, syncVars, marred>>

-----------------------------------------------------------------------------
(* The runner: sync_enabled_skills_to_sandbox, then resolve_message.        *)

List ==
  /\ sync.pc \in {"idle", "used"} /\ syncs < MaxSyncs /\ syncs' = syncs + 1
  /\ req[Runner] = NoReq /\ Subscriptions # {}
  /\ sync' = [pc |-> "skills", names |-> {Name(x) : x \in Enabled}, left |-> Enabled,
              cur |-> "none", doomed |-> {}, used |-> "none"]
  /\ changed' = FALSE /\ failed' = {} /\ lagged' = {} /\ swept' = TRUE
  /\ UNCHANGED <<seedVars, tree, removing, toggles>>

\* rm -rf, and how it is answered: when it is done; after five seconds, without a code, which
\* counts as none, and it still runs; with an error though it runs; with an error and not at
\* all.  A command interrupts the one before it.
Outcomes == {"done", "runs", "lost", "refused"}
Taken(how) == how \in {"done", "runs"}
Rm(n, how) ==
  /\ tree' = IF how = "refused" THEN tree
             ELSE [tree EXCEPT ![n] = IF how = "done" \/ @ = "none" THEN "none" ELSE "part"]
  /\ removing' = IF how = "refused" THEN removing ELSE IF how = "done" THEN {} ELSE {n}
  /\ lagged' = IF how = "runs" THEN lagged \cup {n} ELSE lagged

Removes ==
  /\ removing # {} /\ removing' = {}
  /\ tree' = [n \in Names |-> IF n \in removing THEN "none" ELSE tree[n]]
  /\ UNCHANGED <<seedVars, sync, failed, lagged, swept, syncs, changed, toggles>>

\* The package in the sandbox makes room for the new one.  It stays, refused, when that one
\* cannot be fetched.
DeleteTree(x, how) ==
  /\ sync.pc = "skills" /\ x \in sync.left /\ Rm(Name(x), how)
  /\ IF Taken(how)
     THEN sync' = [sync EXCEPT !.pc = "write", !.left = @ \ {x}, !.cur = x] /\ UNCHANGED failed
     ELSE sync' = [sync EXCEPT !.left = @ \ {x}] /\ failed' = failed \cup {Name(x)}
  /\ UNCHANGED <<seedVars, swept, syncs, changed, toggles>>

\* _write_package_files: every file, or one of them is refused.
WritePackage ==
  LET x == sync.cur
  IN  /\ sync.pc = "write" /\ sync' = [sync EXCEPT !.pc = "skills", !.cur = "none"]
      /\ \/ tree' = [tree EXCEPT ![Name(x)] = x] /\ UNCHANGED failed
         \/ tree' = [tree EXCEPT ![Name(x)] = "part"] /\ failed' = failed \cup {Name(x)}
      /\ UNCHANGED <<seedVars, removing, lagged, swept, syncs, changed, toggles>>

Doomed_OfficialOnly == {n \in Names \ Official : tree[n] # "none"}
\* _remove_disabled_skill_dirs: the directories no enabled skill has the name of.
Doomed == {n \in Names \ sync.names : tree[n] # "none"}

\* They are listed; or the listing fails, or is answered before it has listed any.
FindDirs ==
  /\ sync.pc = "skills" /\ sync.left = {}
  /\ \/ /\ sync' = [sync EXCEPT !.pc = "sweep", !.doomed = Doomed]
        /\ removing' = {} /\ UNCHANGED swept
     \/ /\ sync' = [sync EXCEPT !.pc = "resolve"]
        /\ removing' \in {{}, removing} /\ swept' = FALSE
  /\ UNCHANGED <<seedVars, tree, failed, lagged, syncs, changed, toggles>>

\* One deletion after the other; an error ends them, and is logged.
SweepDir(n, how) ==
  /\ sync.pc = "sweep" /\ n \in sync.doomed /\ Rm(n, how)
  /\ IF Taken(how)
     THEN sync' = [sync EXCEPT !.doomed = @ \ {n}] /\ UNCHANGED swept
     ELSE sync' = [sync EXCEPT !.pc = "resolve", !.doomed = {}] /\ swept' = FALSE
  /\ UNCHANGED <<seedVars, failed, syncs, changed, toggles>>

SweepEnds ==
  /\ sync.pc = "sweep" /\ sync.doomed = {} /\ sync' = [sync EXCEPT !.pc = "resolve"]
  /\ UNCHANGED <<seedVars, tree, removing, failed, lagged, swept, syncs, changed, toggles>>

\* resolve_enabled_skill_by_name: of the catalog's skills with the name the last counts, and
\* that is the oldest of the personal ones; it must be enabled.
Meant(n) == LET own == {i \in DOMAIN docs : nameOf[docs[i]] = n}
            IN IF own = {} THEN n ELSE docs[CHOOSE i \in own : \A k \in own : i <= k]

\* _resolve_active_skills: the skill with the id that is asked for if it is enabled, else by its
\* name; a typed /name has no id.
Usable(x) == x \in Official \cup Written /\ subs[x] = "on"
ResolveSkill ==
  /\ sync.pc = "resolve"
  /\ \E id \in Ids \cup {"none"}, n \in Names :
       LET x == IF Usable(id) THEN id ELSE Meant(n)
       IN  sync' = [sync EXCEPT !.pc = "used", !.used = IF Usable(x) THEN x ELSE "none"]
  /\ UNCHANGED <<seedVars, tree, removing, failed, lagged, swept, syncs, changed, toggles>>

SkillsNext ==
  \/ \E h \in Requests : \/ BeginSeed(h) \/ SeedOfficial(h) \/ SeedPersonal(h) \/ Import(h)
                         \/ SubscribePersonal(h) \/ Abort(h)
  \/ \E x \in Ids, v \in {"on", "off"} : Toggle(x, v)
  \/ List \/ Removes \/ WritePackage \/ FindDirs \/ SweepEnds \/ ResolveSkill
  \/ \E how \in Outcomes : \/ \E x \in Ids : DeleteTree(x, how)
                          \/ \E n \in Names : SweepDir(n, how)

SkillsSpec == SkillsInit /\ [][SkillsNext]_skillVars

-----------------------------------------------------------------------------
SkillsTypeOK ==
  /\ docs \in Seq(Personal) /\ nameOf \in [Personal -> Names] /\ subs \in [Ids -> {"none", "on", "off"}]
  /\ \A h \in Requests : req[h].pc \in {"free", "seed", "subscribe", "imported"} /\ req[h].todo \subseteq Official
  /\ sync.pc \in {"idle", "skills", "write", "sweep", "resolve", "used"}
  /\ sync.names \cup sync.doomed \cup failed \cup lagged \cup removing \subseteq Names /\ sync.left \subseteq Ids
  /\ tree \in [Names -> Ids \cup {"none", "part"}] /\ {changed, swept} \subseteq BOOLEAN
  /\ marred \subseteq {"raced", "import", "cut"} /\ toggles \in 0..MaxToggles /\ syncs \in 0..MaxSyncs

(* The skill a message is resolved to is the one whose files lie in the     *)
(* sandbox under its name, and no directory is left of a skill that was not *)
(* enabled.  Not when the skills were changed between the copying and the   *)
(* message, when the log says that the copying or the sweep failed, when    *)
(* another enabled skill has the name, or for a name whose own deletion was *)
(* still running when it was answered, of which nothing is logged.  A       *)
(* deletion that runs on harms no other name, and not the next message.     *)
Namesakes(n) == {x \in Enabled : Name(x) = n}
FilesThere ==
  sync.pc = "used" /\ ~changed =>
    /\ sync.used # "none" /\ Cardinality(Namesakes(Name(sync.used))) = 1
         => tree[Name(sync.used)] = sync.used \/ Name(sync.used) \in failed \cup lagged
    /\ swept => \A n \in Names \ lagged : tree[n] # "none" => Namesakes(n) # {}

(* A user who has any subscription has all the defaults once, unless two    *)
(* first looks raced, the seeding was cut short, or an import came first.   *)
Defaults == {i \in DOMAIN docs : nameOf[docs[i]] = DefaultName}
SeededOnce ==
  Seeding = {} /\ marred = {} /\ Subscriptions # {}
    => Official \subseteq Subscriptions /\ Cardinality(Defaults) = 1

SkillsKept == FilesThere /\ SeededOnce
=============================================================================
