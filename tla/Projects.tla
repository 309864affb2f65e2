------------------------------ MODULE Projects ------------------------------
(***************************************************************************)
(* The projects a user groups sessions into.  A request is several trips   *)
(* to the database with others between them: an update reads the project   *)
(* and saves all of it, a pin sets one field, a deletion takes the project *)
(* from its sessions before it deletes it, a move checks the project       *)
(* before it writes the session.  A chat that makes its task holds the     *)
(* session it found and saves all of it, the project it was in with it.    *)
(*                                                                         *)
(* One user; a name and an instruction are one text; the orderings and the *)
(* list on the screen (SessionList) are left out.                          *)
(***************************************************************************)
EXTENDS Naturals

CONSTANTS Projs, Talks,   \* projects and sessions
          ProjReqs,       \* requests that can be under way at once
          Texts,          \* what a project's name and instruction can say
          NoProj,         \* no project
          MaxEdits        \* a bound on requests

ASSUME ProjAssumption == NoProj \notin Projs /\ Texts # {} /\ Talks # {}

VARIABLES proj,     \* Projs -> [here, text, pin]: the project's document
          place,    \* Talks -> the session's project_id
          preq,     \* ProjReqs -> [op, of, saw, talk, pc]
          answered, \* ghost: Projs -> [made, text, pin, gone]: what the answers said last
          begun,    \* how many requests there were
          held,     \* [talk, of]: sessions as chats found them, to be saved whole
          races,    \* ghost: [of, ops]: a project and two kinds of request that overlapped
          returned  \* ghost: [talk, of]: sessions such a save put back into a project

chatVars == <<held, returned>>
projVars == <<proj, place, preq, answered, begun, races, chatVars>>

HeldTalks == [talk : Talks, of : Projs \cup {NoProj}]

NoDoc == [here |-> FALSE, text |-> CHOOSE t \in Texts : TRUE, pin |-> FALSE]
NoEdit == [op |-> "none", of |-> NoProj, saw |-> NoDoc, talk |-> CHOOSE t \in Talks : TRUE, pc |-> "idle"]

ProjInit ==
  /\ proj = [p \in Projs |-> NoDoc] /\ place = [t \in Talks |-> NoProj]
  /\ preq = [q \in ProjReqs |-> NoEdit]
  /\ answered = [p \in Projs |-> [made |-> FALSE, text |-> NoDoc.text, pin |-> FALSE, gone |-> FALSE]]
  /\ begun = 0 /\ races = {} /\ held = {} /\ returned = {}

\* A new project has a new id.
CreateProject(p, text) ==
  /\ ~answered[p].made
  /\ proj' = [proj EXCEPT ![p] = [here |-> TRUE, text |-> text, pin |-> FALSE]]
  /\ answered' = [answered EXCEPT ![p].made = TRUE, ![p].text = text]
  /\ UNCHANGED <<place, preq, begun, races, chatVars>>

\* find_by_id_and_user_id.
Owned(p) == proj[p].here

\* _get_owned_project, the first step of an update, a pin, a deletion and a move.
ReadProject(q, p, op, t) ==
  /\ preq[q].pc = "idle" /\ Owned(p)
  /\ begun < MaxEdits /\ begun' = begun + 1
  /\ preq' = [preq EXCEPT ![q] = [op |-> op, of |-> p, talk |-> t, pc |-> "read",
                                  saw |-> IF op = "update" THEN proj[p] ELSE NoDoc]]
  /\ races' = races \cup {[of |-> p, ops |-> {op, preq[o].op}] :
                           o \in {o \in ProjReqs : preq[o].pc # "idle" /\ preq[o].of = p}}
  /\ UNCHANGED <<proj, place, answered, chatVars>>

Doing(q, op) == preq[q].op = op /\ preq[q].pc = "read"
Release(q) == preq' = [preq EXCEPT ![q] = NoEdit]

\* save: the whole project as it was read; one that is not there is written again.
Edited(q, text) == [preq[q].saw EXCEPT !.text = text]

UpdateProject(q, text) ==
  /\ Doing(q, "update") /\ Release(q)
  /\ proj' = [proj EXCEPT ![preq[q].of] = Edited(q, text)]
  /\ answered' = [answered EXCEPT ![preq[q].of].text = text]
  /\ UNCHANGED <<place, begun, races, chatVars>>

\* update_pin: one field of a document that is there.
SetPin(p, on) == proj' = [proj EXCEPT ![p].pin = IF Owned(p) THEN on ELSE @]

PinProject(q, on) ==
  /\ Doing(q, "pin") /\ Release(q) /\ SetPin(preq[q].of, on)
  /\ answered' = [answered EXCEPT ![preq[q].of].pin = on]
  /\ UNCHANGED <<place, begun, races, chatVars>>

ClearSessions(q) ==
  /\ Doing(q, "delete")
  /\ place' = [t \in Talks |-> IF place[t] = preq[q].of THEN NoProj ELSE place[t]]
  /\ preq' = [preq EXCEPT ![q].pc = "cleared"]
  /\ UNCHANGED <<proj, answered, begun, races, chatVars>>

DeleteProject(q) ==
  /\ preq[q].pc = "cleared" /\ Release(q)
  /\ proj' = [proj EXCEPT ![preq[q].of] = NoDoc]
  /\ answered' = [answered EXCEPT ![preq[q].of].gone = TRUE]
  /\ UNCHANGED <<place, begun, races, chatVars>>

\* The project was seen; it is not looked at again.
MoveSession(q) ==
  /\ Doing(q, "move") /\ Release(q)
  /\ place' = [place EXCEPT ![preq[q].talk] = preq[q].of]
  /\ UNCHANGED <<proj, answered, begun, races, chatVars>>

\* A move to no project checks nothing.
TakeOut(t) ==
  /\ place' = [place EXCEPT ![t] = NoProj]
  /\ UNCHANGED <<proj, preq, answered, begun, races, chatVars>>

\* A chat found the session ...
HoldTalk(t) ==
  /\ held' = held \cup {[talk |-> t, of |-> place[t]]}
  /\ UNCHANGED <<proj, place, preq, answered, begun, races, returned>>

\* ... and saves it as it was, with its sandbox and again with its task.
SaveTalk(h) ==
  /\ h \in held /\ held' \in {held, held \ {h}}
  /\ place' = [place EXCEPT ![h.talk] = h.of]
  /\ returned' = IF place[h.talk] # h.of THEN returned \cup {h} ELSE returned
  /\ UNCHANGED <<proj, preq, answered, begun, races>>

\* The API process ends between two trips.
ProjCrash(q) == preq[q].pc # "idle" /\ Release(q) /\ UNCHANGED <<proj, place, answered, begun, races, chatVars>>

ProjNext ==
  \/ \E p \in Projs, text \in Texts : CreateProject(p, text)
  \/ \E q \in ProjReqs, p \in Projs, t \in Talks,
        op \in {"update", "pin", "delete", "move"} : ReadProject(q, p, op, t)
  \/ \E q \in ProjReqs : \E text \in Texts : UpdateProject(q, text)
  \/ \E q \in ProjReqs, on \in BOOLEAN : PinProject(q, on)
  \/ \E q \in ProjReqs : ClearSessions(q) \/ DeleteProject(q) \/ MoveSession(q) \/ ProjCrash(q)
  \/ \E t \in Talks : TakeOut(t) \/ HoldTalk(t)
  \/ \E h \in held : SaveTalk(h)

ProjSpec == ProjInit /\ [][ProjNext]_projVars

-----------------------------------------------------------------------------
ProjTypeOK ==
  /\ proj \in [Projs -> [here : BOOLEAN, text : Texts, pin : BOOLEAN]]
  /\ place \in [Talks -> Projs \cup {NoProj}]
  /\ \A q \in ProjReqs : preq[q].pc \in {"idle", "read", "cleared"}
  /\ \A q \in ProjReqs : preq[q].saw \in [here : BOOLEAN, text : Texts, pin : BOOLEAN]
  /\ DOMAIN answered = Projs /\ \A r \in races : r.of \in Projs
  /\ held \subseteq HeldTalks /\ returned \subseteq HeldTalks

Raced(p, ops) == \E r \in races : r.of = p /\ r.ops = ops
Kept(p) == proj[p].here /\ ~Raced(p, {"update", "delete"})
NoneIn(p) == \A t \in Talks : place[t] = p => [talk |-> t, of |-> p] \in returned

(* What the answers said of a project stays so: a pin is undone only by an *)
(* update that read the project before it, a text replaced only by another *)
(* update; a deleted project comes back only through an update that it     *)
(* overtook; a session is in a project that is gone only by a move that    *)
(* overlapped the deletion, or because a chat that found it there saved it *)
(* after it had left.  (project_service.py:43-72, session_routes.py:       *)
(* 113-128, agent_domain_service.py:54-73.)                                *)
ProjectsKept ==
  \A p \in Projs :
    /\ Kept(p) /\ ~Raced(p, {"update", "pin"}) => proj[p].pin = answered[p].pin
    /\ Kept(p) /\ ~Raced(p, {"update"}) => proj[p].text = answered[p].text
    /\ answered[p].gone /\ ~Raced(p, {"update", "delete"}) => ~proj[p].here
    /\ answered[p].made /\ ~proj[p].here => answered[p].gone
    /\ ~proj[p].here /\ ~Raced(p, {"delete", "move"}) => NoneIn(p)
=============================================================================
