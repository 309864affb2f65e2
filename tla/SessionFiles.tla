------------------------------ MODULE SessionFiles ------------------------------
(***************************************************************************)
(* The files of one session: what lies in its sandbox, what the session    *)
(* lists, and what the file storage holds.  The task runner copies a file  *)
(* from the sandbox to the storage after every tool call on it and after   *)
(* the final message, and attachments the other way; the user uploads and  *)
(* deletes, and programs the agent left running write files as well.       *)
(*                                                                         *)
(* One runner works, step by step; it may die between two steps.  A chat   *)
(* that makes a task saves the whole session as it read it, the list with  *)
(* it, while the runner of another chat may be at work.  What the user     *)
(* deletes from the storage stays listed.  MongoDB, GridFS and the sandbox *)
(* are external.                                                           *)
(***************************************************************************)
EXTENDS Naturals, FiniteSets, Sequences

CONSTANTS Docs,               \* paths in the sandbox: files of one name in several directories
          UploadDoc,          \* the one in the upload directory
          MaxIds,             \* bound on the uploads to the storage, and on the list
          MaxBody,            \* the contents are 1..MaxBody, 0 is no file
          MaxChats,           \* bound on the chats that make a task
          ChatDocs            \* bound: the paths worked on in a behaviour with such chats

ASSUME DocsAssumption == UploadDoc \in Docs /\ MaxIds \in Nat /\ MaxBody \in Nat

VARIABLES box,       \* Docs -> content in the sandbox
          listed,    \* the session's files: a sequence of [path, id]
          store,     \* id -> content, 0 once deleted; the ids are 1..Len(store)
          copies,    \* the copies of the session that chats hold: [list, saves]
          runner,    \* [pc, kind, path, before, old, known, info, body, id]
          diff,      \* every original shown so far was the content the tool found
          ghost      \* [ever, loose, shared]: paths listed before, out of step, and listed with
                     \* another's id, twice, or as an old copy had it

sfVars == <<box, listed, store, copies, runner, diff, ghost>>

Resting == [pc |-> "rest", kind |-> "read", path |-> UploadDoc, before |-> 0, old |-> 0, known |-> TRUE,
            info |-> 0, body |-> 0, id |-> 0]

DocsInit ==
  /\ box = [p \in Docs |-> 0] /\ listed = <<>> /\ store = <<>> /\ copies = <<>>
  /\ runner = Resting /\ diff = TRUE
  /\ ghost = [ever |-> {}, loose |-> {}, shared |-> {}]

\* Where a path is listed; the first one counts.
Entries(p) == {i \in DOMAIN listed : listed[i].path = p}
FirstId(p) == IF Entries(p) = {} THEN 0 ELSE listed[CHOOSE i \in Entries(p) : \A j \in Entries(p) : i <= j].id
\* The list without an id, in its order: its k-th entry is the k-th of those that stay.
Staying(id) == {i \in DOMAIN listed : listed[i].id # id}
Rank(K, i) == Cardinality({j \in K : j <= i})
Without(id) ==
  [k \in 1..Cardinality(Staying(id)) |-> listed[CHOOSE i \in Staying(id) : Rank(Staying(id), i) = k]]
Loose(p) == ghost' = [ghost EXCEPT !.loose = @ \cup {p}]
Pc(step) == runner' = [runner EXCEPT !.pc = step]
Unseen(p) == box[p] = 0 /\ Entries(p) = {} /\ runner.path # p /\ p \notin ghost.loose
InUse(p) == copies = <<>> \/ p \in ChatDocs

-----------------------------------------------------------------------------
(* A tool call on a file, from CALLING to CALLED.                           *)

\* "deliver" is a file named by the final message: it is synchronised only.
StartCall(kind, p) ==
  /\ runner.pc = "rest" /\ InUse(p)
  /\ runner' = [Resting EXCEPT !.pc = IF kind = "deliver" THEN "find" ELSE "calling", !.path = p,
                                  !.kind = IF kind = "deliver" THEN "read" ELSE kind]
  /\ UNCHANGED <<box, listed, store, diff, ghost>>

\* The content before a mutating tool; nothing when there is none or it cannot be read.
Calling ==
  /\ runner.pc = "calling"
  /\ \E old \in IF runner.kind = "write" THEN {0, box[runner.path]} ELSE {0} : runner' = [runner EXCEPT !.pc = "run", !.old = old]
  /\ UNCHANGED <<box, listed, store, diff, ghost>>

RunTool ==
  /\ runner.pc = "run" /\ UNCHANGED <<listed, store, diff, ghost>>
  /\ \/ /\ runner.kind = "write" /\ \E body \in 1..MaxBody : box' = [box EXCEPT ![runner.path] = body]
        /\ runner' = [runner EXCEPT !.pc = "called", !.before = IF runner.old = 0 THEN 0 ELSE box[runner.path]]
     \/ /\ UNCHANGED box
        /\ runner' = [runner EXCEPT !.pc = "called", !.before = IF runner.old = 0 THEN 0 ELSE box[runner.path]]

\* The panel's content is read again; without it the call ends here.
Called ==
  /\ runner.pc = "called" /\ UNCHANGED <<box, listed, store>>
  /\ \/ /\ box[runner.path] # 0
        /\ runner' = [Resting EXCEPT !.pc = "find", !.path = runner.path]
        /\ diff' = (diff /\ (runner.old # 0 /\ runner.known => runner.old = runner.before))
        /\ UNCHANGED ghost
     \/ runner' = Resting /\ Loose(runner.path) /\ UNCHANGED diff

-----------------------------------------------------------------------------
(* _sync_file_to_storage.                                                   *)

SyncFind ==
  /\ runner.pc = "find" /\ runner' = [runner EXCEPT !.pc = "download", !.info = FirstId(runner.path)]
  /\ UNCHANGED <<box, listed, store, diff, ghost>>

SyncDownload ==
  /\ runner.pc = "download" /\ UNCHANGED <<box, listed, store, diff>>
  /\ \/ /\ box[runner.path] # 0 /\ UNCHANGED ghost
        /\ runner' = [runner EXCEPT !.pc = "remove", !.body = box[runner.path], !.known = TRUE]
     \/ runner' = Resting /\ Loose(runner.path)

Removed_Never(id) == listed
\* $pull takes every entry with that id.
Removed(id) == IF id = 0 THEN listed ELSE Without(id)

SyncRemove ==
  /\ runner.pc = "remove" /\ listed' = Removed(runner.info)
  /\ runner' = [runner EXCEPT !.pc = "upload", !.info = 0]
  /\ UNCHANGED <<box, store, diff, ghost>>

\* When the upload fails, the old entry is gone already.
SyncUpload ==
  /\ runner.pc = "upload" /\ UNCHANGED <<box, listed, diff>>
  /\ \/ /\ Len(store) < MaxIds /\ store' = Append(store, runner.body)
        /\ runner' = [runner EXCEPT !.pc = "add", !.id = Len(store) + 1] /\ UNCHANGED ghost
     \/ /\ runner' = Resting /\ UNCHANGED store
        /\ ghost' = [ghost EXCEPT !.loose = @ \cup {runner.path}, !.ever = @ \ {runner.path}]

\* What a finished call synchronised is as good as the body it downloaded.
SyncAdd ==
  /\ runner.pc = "add" /\ listed' = Append(listed, [path |-> runner.path, id |-> runner.id])
  /\ runner' = Resting
  /\ ghost' = [ghost EXCEPT !.ever = @ \cup {runner.path},
                            !.loose = IF box[runner.path] = runner.body THEN @ \ {runner.path} ELSE @ \cup {runner.path}]
  /\ UNCHANGED <<box, store, diff>>

\* The process ends, or the session cannot be written.
RunnerDies ==
  /\ runner.pc # "rest" /\ runner' = Resting
  /\ ghost' = [ghost EXCEPT !.loose = @ \cup {runner.path},
                            !.ever = IF runner.pc \in {"upload", "add"} THEN @ \ {runner.path} ELSE @]
  /\ UNCHANGED <<box, listed, store, diff>>

-----------------------------------------------------------------------------
(* Attachments, from the storage to the upload directory.                   *)

\* The body is read and its owner checked; a missing file is skipped.
StartAttach(id) ==
  /\ runner.pc = "rest" /\ Len(listed) < MaxIds /\ id \in DOMAIN store /\ store[id] # 0
  /\ runner' = [Resting EXCEPT !.pc = "attach", !.id = id, !.body = store[id]]
  /\ UNCHANGED <<box, listed, store, diff, ghost>>

\* Two attachments of one name share a path: the later overwrites the file.  A file of the
\* session that is attached has one id under two paths.
Twins(id, p) == {listed[i].path : i \in {j \in DOMAIN listed : listed[j].id = id}} \cup (IF Entries(p) = {} THEN {} ELSE {p})
AttachCopy ==
  /\ runner.pc = "attach" /\ box' = [box EXCEPT ![runner.path] = runner.body] /\ Pc("enlist")
  /\ ghost' = [ghost EXCEPT !.loose = @ \cup {runner.path},
                            !.shared = IF Twins(runner.id, runner.path) = {} THEN @ ELSE @ \cup Twins(runner.id, runner.path) \cup {runner.path}]
  /\ UNCHANGED <<listed, store, diff>>

Enlist ==
  /\ runner.pc = "enlist" /\ listed' = Append(listed, [path |-> runner.path, id |-> runner.id])
  /\ runner' = Resting
  /\ ghost' = [ghost EXCEPT !.ever = @ \cup {runner.path},
                            !.loose = IF runner.path \in ghost.shared \/ box[runner.path] # store[runner.id] THEN @ ELSE @ \ {runner.path}]
  /\ UNCHANGED <<box, store, diff>>

-----------------------------------------------------------------------------
(* The user, and what runs in the sandbox.                                  *)

UserUploads ==
  /\ Len(store) < MaxIds /\ \E body \in 1..MaxBody : store' = Append(store, body)
  /\ UNCHANGED <<box, listed, runner, diff, ghost>>

\* Nobody knows an id before it is listed.
UserDeletes(id) ==
  /\ id \in DOMAIN store /\ store[id] # 0 /\ ~(runner.pc = "add" /\ runner.id = id)
  /\ store' = [store EXCEPT ![id] = 0]
  /\ ghost' = [ghost EXCEPT !.loose = @ \cup {listed[i].path : i \in {j \in DOMAIN listed : listed[j].id = id}}]
  /\ UNCHANGED <<box, listed, copies, runner, diff>>

Scribbles(p) ==
  /\ InUse(p) /\ \E body \in 0..MaxBody : body # box[p] /\ box' = [box EXCEPT ![p] = body]
  /\ Loose(p)
  /\ runner' = IF runner.pc \in {"calling", "run", "called"} /\ runner.path = p THEN [runner EXCEPT !.known = FALSE] ELSE runner
  /\ UNCHANGED <<listed, store, diff>>

-----------------------------------------------------------------------------
(* The chats of the session.                                                *)

TakeCopy ==
  /\ Len(copies) < MaxChats /\ \A p \in Docs \ ChatDocs : Unseen(p)
  /\ copies' = Append(copies, [list |-> listed, saves |-> 2])
  /\ UNCHANGED <<box, listed, store, runner, diff, ghost>>

\* What a list says of a path.
IdsOf(list, p) == {list[i].id : i \in {j \in DOMAIN list : list[j].path = p}}
\* The paths whose entries a save takes back, and one just being enlisted with an id it brings.
TakenBack(l) ==
  {p \in Docs : \/ IdsOf(l, p) # IdsOf(listed, p)
                \/ p = runner.path /\ runner.pc = "enlist" /\ \E i \in DOMAIN l : l[i].id = runner.id}

\* _create_task saves when it has a new sandbox, and again when it has the task.
SaveListed(k) ==
  LET l == copies[k].list
  IN  /\ copies[k].saves > 0 /\ listed' = l
      /\ copies' = [copies EXCEPT ![k] = IF @.saves = 2 THEN [@ EXCEPT !.saves = 1] ELSE [list |-> <<>>, saves |-> 0]]
      /\ ghost' = [ghost EXCEPT !.shared = @ \cup TakenBack(l)]
      /\ UNCHANGED <<box, store, runner, diff>>

RunnerNext ==
  /\ \/ \E kind \in {"write", "read", "deliver"}, p \in Docs : StartCall(kind, p)
     \/ Calling \/ RunTool \/ Called
     \/ SyncFind \/ SyncDownload \/ SyncRemove \/ SyncUpload \/ SyncAdd \/ RunnerDies
     \/ \E id \in 1..MaxIds : StartAttach(id)
     \/ AttachCopy \/ Enlist \/ UserUploads
     \/ \E p \in Docs : Scribbles(p)
  /\ UNCHANGED copies

DocsNext ==
  \/ RunnerNext
  \/ \E id \in DOMAIN store : UserDeletes(id)
  \/ TakeCopy \/ \E k \in DOMAIN copies : SaveListed(k)

DocsSpec == DocsInit /\ [][DocsNext]_sfVars

-----------------------------------------------------------------------------
DocsTypeOK ==
  /\ box \in [Docs -> 0..MaxBody]
  /\ \A l \in {listed} \cup {copies[k].list : k \in DOMAIN copies} : \A i \in DOMAIN l : l[i].path \in Docs /\ l[i].id \in DOMAIN store
  /\ ghost.loose \subseteq Docs /\ runner.path \in Docs /\ runner.info \in 0..MaxIds

InSync(p) == runner.path = p /\ runner.pc \notin {"rest", "calling"}

(* However calls, attachments, failures and deaths of the runner follow     *)
(* each other: a path is listed once, a path that was listed stays listed   *)
(* unless a synchronisation broke after it took the entry out, the stored   *)
(* body is the file's unless something else wrote the file, the user        *)
(* deleted the body or a synchronisation failed, and the original that a    *)
(* panel compares with is the content the tool found.  The exceptions are   *)
(* attachments of one name, a file of the session attached again, and a     *)
(* path whose entry changed between a chat's read of the session and its    *)
(* save: that save takes the change back.                                   *)
SessionFilesKept ==
  /\ \A p \in Docs \ ghost.shared :
       /\ \A i, j \in Entries(p) : i = j
       /\ p \in ghost.ever => Entries(p) # {} \/ (runner.path = p /\ runner.pc \in {"upload", "add"})
       /\ Entries(p) # {} /\ p \notin ghost.loose /\ ~InSync(p) => store[FirstId(p)] = box[p]
  /\ diff
=============================================================================
