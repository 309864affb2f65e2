------------------------------ MODULE SwarmGateway ------------------------------
(***************************************************************************)
(* The command gateway and what is read beside it.  A command carries the  *)
(* version its sender saw and an idempotency key; it runs in one           *)
(* transaction under the write lock, as the workers' writes do, and leaves *)
(* the object, its projection, events and the record of its result.        *)
(* Queries read projections, a replay the snapshots in the events, and a   *)
(* graph the edges, in a statement per round and per node, each of which   *)
(* sees what is committed by then.                                         *)
(*                                                                         *)
(* What a command may do to which object is SwarmPipeline's and            *)
(* SwarmJobs's; here one is create, annotate, change or configure, and an  *)
(* object is its version and its last writer.  Clocks of the processes     *)
(* agree.  PostgreSQL is external.                                         *)
(***************************************************************************)
EXTENDS Naturals, Sequences, FiniteSets

CONSTANTS Objects, IdemKeys,
          ReplayLimit,          \* how many objects a replay shows: 200
          GraphLimit, MaxDepth, \* the most nodes and rounds of a graph: 2000, 4
          MaxLog, MaxClock,     \* bounds on the events and the time
          NoRecord              \* no result, no object, no transaction

ActionNames == {"create", "annotate", "change", "configure"}
Results == [cmd : [action : ActionNames, obj : Objects, expect : Nat], result : Nat]
Worker == "worker"

ASSUME GatewayAssumption ==
  /\ NoRecord \notin Objects \cup IdemKeys \cup Results /\ Worker \notin IdemKeys
  /\ MaxLog \in Nat /\ MaxClock \in Nat \ {0} /\ {ReplayLimit, GraphLimit, MaxDepth} \subseteq Nat

VARIABLES db,        \* committed: objs, config, log, proj, edges, idem
          tx,        \* the transaction that holds the lock: [by, start, db]
          sender,    \* IdemKeys -> what its sender knows: [pc, cmd, got]
          clock,
          shot       \* the read: [pc, at, past, sel, front, edges, todo, nodes, left, limit, cut]

gatewayVars == <<db, tx, sender, clock, shot>>

NoObject == [ver |-> 0, by |-> NoRecord]
Command == [action : ActionNames, obj : Objects, expect : 0..MaxLog]
NoShot == [pc |-> "none", at |-> 0, past |-> FALSE, sel |-> {}, front |-> {}, edges |-> {},
           todo |-> {}, nodes |-> [o \in {} |-> NoObject], left |-> 0, limit |-> 0, cut |-> FALSE]

GatewayInit ==
  /\ db = [objs |-> [o \in Objects |-> NoObject], config |-> 1, log |-> <<>>,
           proj |-> [o \in Objects |-> NoObject], edges |-> {},
           idem |-> [k \in IdemKeys |-> NoRecord]]
  /\ tx = NoRecord /\ clock = 1
  /\ sender = [k \in IdemKeys |-> [pc |-> "new", cmd |-> NoRecord, got |-> NoRecord]]
  /\ shot = NoShot

-----------------------------------------------------------------------------
(* Writes, as functions of what the transaction sees.                       *)

\* An event of an object carries its snapshot, and its projection follows.
EventOf(d, o, by) ==
  [d EXCEPT !.log = Append(@, [kind |-> "object", obj |-> o, snap |-> d.objs[o], at |-> clock, by |-> by]),
            !.proj[o] = d.objs[o]]

\* COMMAND_EXECUTED, EDGE_CREATED and what becomes of the configuration have no object.
PlainEvent(d, kind, by) ==
  [d EXCEPT !.log = Append(@, [kind |-> kind, obj |-> NoRecord, snap |-> NoObject, at |-> clock, by |-> by])]

Put_NoProjection(d, o, by) ==
  LET new == [d EXCEPT !.objs[o] = [ver |-> @.ver + 1, by |-> by]]
  IN  [EventOf(new, o, by) EXCEPT !.proj = d.proj]
\* create, at version 1, and change.
Put(d, o, by) == EventOf([d EXCEPT !.objs[o] = [ver |-> @.ver + 1, by |-> by]], o, by)

\* A link that is not there: of another type, when the two are linked.
LinkOf(d, a, b) == PlainEvent([d EXCEPT !.edges = @ \cup {[ends |-> {a, b}, at |-> clock]}], "edge", Worker)

There(d) == {o \in Objects : d.objs[o].ver > 0}
Unused(d) == Objects \ There(d)

\* Whether the command is accepted: the version its sender saw, a legal request.
Accepts(d, cmd) ==
  CASE cmd.action = "create" -> Unused(d) # {}
    [] cmd.action = "annotate" -> Unused(d) # {} /\ cmd.obj \in There(d) /\ d.objs[cmd.obj].ver = cmd.expect
    [] cmd.action = "change" -> cmd.obj \in There(d) /\ d.objs[cmd.obj].ver = cmd.expect
    [] cmd.action = "configure" -> d.config = cmd.expect

\* configure, pause_queue and resume_queue: an event of their own.
Configured(d, by) == PlainEvent([d EXCEPT !.config = @ + 1], "config", by)

\* Its effect, the event COMMAND_EXECUTED and the record of the result.
Effect(d, cmd, k) ==
  LET o == IF cmd.action = "change" THEN cmd.obj ELSE CHOOSE x \in Unused(d) : TRUE
      done == IF cmd.action = "configure" THEN Configured(d, k) ELSE Put(d, o, k)
  IN  [PlainEvent(done, "command", k) EXCEPT !.idem[k] = [cmd |-> cmd, result |-> Len(d.log)]]

-----------------------------------------------------------------------------
(* Senders.                                                                 *)

\* A command on what its sender sees.  A sender without an answer repeats it; one that was
\* refused may repeat it with what it sees now, under the same key.
Send(k, action, o) ==
  /\ sender[k].pc \in {"new", "refused"} /\ Len(db.log) < MaxLog
  /\ action # "create" /\ action # "configure" => o \in There(db)
  /\ LET cmd == [action |-> action, obj |-> o,
                 expect |-> IF action = "configure" THEN db.config ELSE db.objs[o].ver]
     IN  sender' = [sender EXCEPT ![k] = [pc |-> "sent", cmd |-> cmd, got |-> NoRecord]]
  /\ UNCHANGED <<db, tx, clock, shot>>

Resend(k) ==
  /\ sender[k].pc = "lost" /\ sender' = [sender EXCEPT ![k].pc = "sent"]
  /\ UNCHANGED <<db, tx, clock, shot>>

\* The sender that got no answer changes the command and keeps the key.
Reuse(k) ==
  /\ sender[k].pc = "lost" /\ sender[k].cmd.action = "change"
  /\ sender' = [sender EXCEPT ![k].pc = "sent", ![k].cmd.expect = db.objs[sender[k].cmd.obj].ver]
  /\ UNCHANGED <<db, tx, clock, shot>>

-----------------------------------------------------------------------------
(* The gateway, under the lock.                                             *)

\* A key that is known: the recorded result, or a conflict when it was another command.
Repeated(k) ==
  /\ tx = NoRecord /\ sender[k].pc = "sent" /\ db.idem[k] # NoRecord
  /\ \/ /\ db.idem[k].cmd = sender[k].cmd
        /\ sender' = [sender EXCEPT ![k].pc = "done", ![k].got = db.idem[k].result]
     \/ db.idem[k].cmd # sender[k].cmd /\ sender' = [sender EXCEPT ![k].pc = "conflict"]
     \/ sender' = [sender EXCEPT ![k].pc = "lost"]
  /\ UNCHANGED <<db, tx, clock, shot>>

\* Replay mode, a stale version, an illegal request: nothing is written.
Refuse(k) ==
  /\ tx = NoRecord /\ sender[k].pc = "sent" /\ db.idem[k] = NoRecord
  /\ ~Accepts(db, sender[k].cmd)
  /\ sender' = [sender EXCEPT ![k].pc = "refused"]
  /\ UNCHANGED <<db, tx, clock, shot>>

Execute(k) ==
  /\ tx = NoRecord /\ sender[k].pc = "sent" /\ db.idem[k] = NoRecord
  /\ Accepts(db, sender[k].cmd) /\ Len(db.log) < MaxLog
  /\ tx' = [by |-> k, start |-> clock, db |-> Effect(db, sender[k].cmd, k)]
  /\ UNCHANGED <<db, sender, clock, shot>>

\* A worker changes an object, or links two.
WorkerWrites ==
  /\ tx = NoRecord /\ Len(db.log) < MaxLog
  /\ \E a, b \in There(db) : \E new \in {Put(db, a, Worker), LinkOf(db, a, b)} :
       tx' = [by |-> Worker, start |-> clock, db |-> new]
  /\ UNCHANGED <<db, sender, clock, shot>>

\* The answer reaches the sender, or is lost.
Commit ==
  /\ tx # NoRecord /\ db' = tx.db /\ tx' = NoRecord
  /\ IF tx.by = Worker THEN UNCHANGED sender
     ELSE \/ sender' = [sender EXCEPT ![tx.by].pc = "done", ![tx.by].got = tx.db.idem[tx.by].result]
          \/ sender' = [sender EXCEPT ![tx.by].pc = "lost"]
  /\ UNCHANGED <<clock, shot>>

RollsBack ==
  /\ tx # NoRecord /\ tx' = NoRecord
  /\ sender' = IF tx.by = Worker THEN sender ELSE [sender EXCEPT ![tx.by].pc = "lost"]
  /\ UNCHANGED <<db, clock, shot>>

\* Time passes, in a transaction too: an event has the time at which it was written.
TimePasses == clock < MaxClock /\ clock' = clock + 1 /\ UNCHANGED <<db, tx, sender, shot>>

-----------------------------------------------------------------------------
(* Reads, of what is committed.  They write nothing: one is followed.       *)

\* replay: of each object the last snapshot up to that time.
Replay(d, at) ==
  [o \in Objects |->
     LET seen == {i \in DOMAIN d.log : d.log[i].obj = o /\ d.log[i].at <= at}
     IN  IF seen = {} THEN NoObject ELSE d.log[CHOOSE i \in seen : \A j \in seen : j <= i].snap]

Existing(d, at) == {o \in Objects : Replay(d, at)[o].ver > 0}
EdgesAt(d, at) == {e \in d.edges : e.at <= at}

\* A LIMIT with no ORDER BY: all of S, or any n of it.
Some(S, n) == {T \in SUBSET S : IF Cardinality(S) <= n THEN T = S ELSE Cardinality(T) = n}

\* Nothing is written of that time any more: it is past, and no transaction is as old.
IsPast(at) == at < clock /\ (tx # NoRecord => at < tx.start)

\* The replay slider.
ShowPast(at) ==
  /\ shot.pc = "none" /\ at <= clock
  /\ \E shown \in Some(Existing(db, at), ReplayLimit) :
       shot' = [NoShot EXCEPT !.pc = "replayed", !.at = at, !.past = IsPast(at),
                              !.nodes = [o \in shown |-> Replay(db, at)[o]]]
  /\ UNCHANGED <<db, tx, sender, clock>>

\* neighborhood: the graph of a time, from o.
OpenGraph(o, at, depth, limit) ==
  /\ shot.pc = "none" /\ at <= clock
  /\ shot' = [NoShot EXCEPT !.pc = "walks", !.at = at, !.past = IsPast(at), !.sel = {o}, !.front = {o},
                            !.left = depth, !.limit = limit]
  /\ UNCHANGED <<db, tx, sender, clock>>

\* A round: the edges at the nodes that are new, and what is at their other ends.
EndsOf(batch) == UNION {e.ends : e \in batch}
WalkRound ==
  /\ shot.pc = "walks" /\ shot.left > 0 /\ shot.front # {}
  /\ LET at == {e \in EdgesAt(db, shot.at) : e.ends \cap shot.front # {}}
     IN  \E batch \in Some(at, 4 * shot.limit) :
         \E new \in Some(EndsOf(batch) \ shot.sel, shot.limit - Cardinality(shot.sel)) :
           LET sel == shot.sel \cup new
           IN  shot' = [shot EXCEPT !.sel = sel, !.front = new, !.left = @ - 1,
                                    !.edges = @ \cup {e \in batch : e.ends \subseteq sel},
                                    !.cut = @ \/ batch # at \/ sel # shot.sel \cup EndsOf(batch)]
  /\ UNCHANGED <<db, tx, sender, clock>>

WalkEnds ==
  /\ shot.pc = "walks" /\ (shot.left = 0 \/ shot.front = {})
  /\ shot' = [shot EXCEPT !.pc = "reads", !.todo = shot.sel, !.left = 0, !.limit = 0]
  /\ UNCHANGED <<db, tx, sender, clock>>

\* One node after the other, as it was at that time.
ReadNode(n) ==
  /\ shot.pc = "reads" /\ n \in shot.todo
  /\ shot' = [shot EXCEPT !.todo = @ \ {n},
                          !.nodes = [m \in DOMAIN @ \cup ({n} \cap Existing(db, shot.at)) |->
                                       IF m = n THEN Replay(db, shot.at)[n] ELSE @[m]]]
  /\ UNCHANGED <<db, tx, sender, clock>>

GatewayNext ==
  \/ \E k \in IdemKeys : \/ \E a \in ActionNames, o \in Objects : Send(k, a, o)
                         \/ Resend(k) \/ Reuse(k) \/ Repeated(k) \/ Refuse(k) \/ Execute(k)
  \/ WorkerWrites \/ Commit \/ RollsBack \/ TimePasses
  \/ \E at \in 1..MaxClock : \/ ShowPast(at)
                             \/ \E o \in Objects, depth \in 0..MaxDepth, limit \in 1..GraphLimit :
                                  OpenGraph(o, at, depth, limit)
  \/ WalkRound \/ WalkEnds \/ \E n \in Objects : ReadNode(n)

GatewaySpec == GatewayInit /\ [][GatewayNext]_gatewayVars

-----------------------------------------------------------------------------
GatewayTypeOK ==
  /\ \A o \in Objects : db.objs[o].ver \in 0..MaxLog + 2 /\ db.objs[o].by \in IdemKeys \cup {Worker, NoRecord}
  /\ clock \in 1..MaxClock /\ db.config \in Nat
  /\ \A k \in IdemKeys : /\ sender[k].pc \in {"new", "sent", "lost", "refused", "conflict", "done"}
                         /\ sender[k].pc # "new" => sender[k].cmd \in Command

(* However often a command is sent, it takes effect once: one event of it,  *)
(* and every answer is the first result.  A sender that is told of a        *)
(* conflict or a refusal had no effect with that command.                   *)
CountBy(k) == Cardinality({i \in DOMAIN db.log : db.log[i].kind = "command" /\ db.log[i].by = k})
OneEffect ==
  \A k \in IdemKeys :
    /\ CountBy(k) = (IF db.idem[k] = NoRecord THEN 0 ELSE 1)
    /\ sender[k].pc = "done" => db.idem[k] = [cmd |-> sender[k].cmd, result |-> sender[k].got]
    /\ sender[k].pc \in {"conflict", "refused"} => db.idem[k] = NoRecord \/ db.idem[k].cmd # sender[k].cmd

(* The past that was shown stays as it was shown, whatever is written later *)
(* or between two statements of the read (the last moment apart, in which a *)
(* transaction may be open): each object as it then was, of the replay all  *)
(* of them unless they are more than it shows, and in a graph that is not   *)
(* called truncated every edge of the objects the walk has gone through.    *)
(* A graph is closed: an edge in it joins two nodes in it.  The projections,*)
(* which queries read, say what the objects are.                            *)
Passed == shot.sel \ shot.front
PastStands ==
  /\ db.proj = db.objs
  /\ shot.past =>
       /\ \A o \in DOMAIN shot.nodes : shot.nodes[o] = Replay(db, shot.at)[o]
       /\ shot.pc = "replayed" => DOMAIN shot.nodes \in Some(Existing(db, shot.at), ReplayLimit)
       /\ shot.edges \subseteq EdgesAt(db, shot.at)
       /\ ~shot.cut => \A e \in EdgesAt(db, shot.at) : e.ends \cap Passed # {} => e \in shot.edges
  /\ shot.pc = "reads" => \A e \in shot.edges : e.ends \ shot.todo \subseteq DOMAIN shot.nodes

GatewayKept == OneEffect /\ PastStands
=============================================================================
