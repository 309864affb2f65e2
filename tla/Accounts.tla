------------------------------- MODULE Accounts -------------------------------
(***************************************************************************)
(* A registered account and its sign-in sessions.  The user document is    *)
(* read, changed in memory and saved whole, by sign-ins too, which only    *)
(* mean to note their time.  A session is a Redis key that expires, and a  *)
(* member of the user's index, through which all of them are deleted.      *)
(*                                                                         *)
(* The password provider is modelled; the JWT grace period is left out,    *)
(* and so are the checks of who may call what.  MongoDB and Redis are      *)
(* external: single commands and pipelines are atomic.                     *)
(***************************************************************************)
EXTENDS Naturals

CONSTANTS Handlers,              \* concurrent requests
          Sids,                  \* session ids
          MaxChanges             \* bound on requests that change the document or the sessions

ASSUME AcctAssumption == MaxChanges \in Nat

VARIABLES user,                  \* the document
          meant,                 \* what the changes made so far say it should be
          atRisk,                \* fields changed while another handler held an older copy
          job,                   \* Handlers -> the request under way
          keys, index, used,     \* session keys, index members, ids handed out
          strays,                \* sessions put back, or opened, around a removal
          changes

acctVars == <<user, meant, atRisk, job, keys, index, used, strays, changes>>
docVars  == <<user, meant, atRisk>>
sidVars  == <<keys, index, used, strays>>

Fields == {"fullname", "password", "is_active"}
NoField == "none"
Free == [pc |-> "free", field |-> NoField, copy |-> [f \in Fields |-> TRUE], sids |-> {}, next |-> NoField]

AcctInit ==
  /\ user = [f \in Fields |-> TRUE] /\ meant = user /\ atRisk = {}
  /\ job = [h \in Handlers |-> Free]
  /\ keys = {} /\ index = {} /\ used = {} /\ strays = {} /\ changes = 0

Done(h) == job' = [job EXCEPT ![h] = Free]
Step(h, pc) == job' = [job EXCEPT ![h].pc = pc]
Begin(h) == job[h] = Free
Changes(h) == Begin(h) /\ changes < MaxChanges /\ changes' = changes + 1

-----------------------------------------------------------------------------
(* The user document: each field is one of two values.                      *)

\* _user_from_id: the user behind a request is there, and active.
UserActive == user["is_active"]

ReadUser_Cached(h, field) ==
  /\ Changes(h)
  /\ UserActive \/ field = "is_active"
  /\ job' = [job EXCEPT ![h] = [Free EXCEPT !.pc = "save", !.field = field]]
  /\ UNCHANGED <<docVars, sidVars>>

\* get_user and the checks; field is what the request changes.
ReadUser(h, field) ==
  /\ Changes(h)
  /\ UserActive \/ field = "is_active"
  /\ job' = [job EXCEPT ![h] = [Free EXCEPT !.pc = "save", !.field = field, !.copy = user]]
  /\ UNCHANGED <<docVars, sidVars>>

\* change_password, change_fullname, reset_password, activate_user, deactivate_user.
ChangeUser(h, field) == ReadUser(h, field)

\* authenticate_user changes only the time of the last sign-in; a session is opened after it.
SignIn(h) == ReadUser(h, NoField)

\* update_user: every field of the copy goes into the document.
SaveUser(h) ==
  LET f == job[h].field
      new == IF f = NoField THEN job[h].copy ELSE [job[h].copy EXCEPT ![f] = ~@]
  IN  /\ job[h].pc = "save" /\ user' = new
      /\ meant' = IF f = NoField THEN meant ELSE [meant EXCEPT ![f] = new[f]]
      /\ atRisk' = IF f # NoField /\ (\E g \in Handlers \ {h} : job[g].pc = "save")
                   THEN atRisk \cup {f} ELSE atRisk \ {f}
      /\ IF f = NoField THEN Step(h, "open") ELSE Done(h)
      /\ UNCHANGED <<sidVars, changes>>

-----------------------------------------------------------------------------
(* Sessions.                                                                *)

\* create_auth_session, after a sign-in, a registration or a rotation.
OpenSession(h) ==
  /\ job[h].pc = "open"
  /\ \E s \in Sids \ used : /\ used' = used \cup {s}
                            /\ keys' = keys \cup {s} /\ index' = index \cup {s}
  /\ Done(h) /\ UNCHANGED <<docVars, strays, changes>>

\* resolve_session_token for any request, and refresh without rotation: get, then touch.
ResolveToken(h, s) ==
  /\ Begin(h) /\ s \in keys
  /\ job' = [job EXCEPT ![h] = [Free EXCEPT !.pc = "touch", !.sids = {s}]]
  /\ UNCHANGED <<docVars, sidVars, changes>>

TouchRead(h) ==
  /\ job[h].pc = "touch"
  /\ IF job[h].sids \subseteq keys THEN Step(h, "setex") ELSE Done(h)
  /\ UNCHANGED <<docVars, sidVars, changes>>

TouchWrite(h) ==
  /\ job[h].pc = "setex" /\ keys' = keys \cup job[h].sids
  /\ Done(h) /\ UNCHANGED <<docVars, index, used, strays, changes>>

\* Sessions that a touch under way will write again.
Touched(S) == {s \in S : \E h \in Handlers : job[h].pc = "setex" /\ s \in job[h].sids}

\* store.delete begins: the session is looked up.
Delete(h, s, next) ==
  /\ Changes(h) /\ s \in keys /\ (next = "open" => UserActive)
  /\ job' = [job EXCEPT ![h] = [Free EXCEPT !.pc = "delete", !.sids = {s}, !.next = next]]
  /\ UNCHANGED <<docVars, sidVars>>

Logout(h, s) == Delete(h, s, NoField)

\* refresh of a session that is due for it: the old one is deleted, a new one opened.
Rotate(h, s) == Delete(h, s, "open")

\* The key goes, then the member of the index.
DeleteKey(h) ==
  /\ job[h].pc = "delete" /\ keys' = keys \ job[h].sids /\ Step(h, "srem")
  /\ UNCHANGED <<docVars, index, used, strays, changes>>

Srem(h) ==
  /\ job[h].pc = "srem" /\ index' = index \ job[h].sids
  /\ strays' = strays \cup Touched(job[h].sids) \cup (keys \cap job[h].sids)
  /\ IF job[h].next = "open" THEN Step(h, "open") ELSE Done(h)
  /\ UNCHANGED <<docVars, keys, used, changes>>

\* logout_all: smembers, then the keys and the index go in one pipeline.
Members(h) ==
  /\ Changes(h) /\ index # {}
  /\ job' = [job EXCEPT ![h] = [Free EXCEPT !.pc = "revoke", !.sids = index]]
  /\ UNCHANGED <<docVars, sidVars>>

DeleteAll(h) ==
  /\ job[h].pc = "revoke"
  /\ keys' = keys \ job[h].sids /\ index' = {}
  /\ strays' = strays \cup keys' \cup Touched(used)
  /\ Done(h) /\ UNCHANGED <<docVars, used, changes>>

\* The key's time is over; the index keeps the id.
Expire(s) ==
  /\ s \in keys /\ keys' = keys \ {s}
  /\ UNCHANGED <<docVars, job, index, used, strays, changes>>

AcctNext ==
  \/ \E h \in Handlers :
       \/ \E f \in Fields : ChangeUser(h, f)
       \/ SignIn(h) \/ SaveUser(h) \/ OpenSession(h) \/ TouchRead(h) \/ TouchWrite(h)
       \/ DeleteKey(h) \/ Srem(h) \/ Members(h) \/ DeleteAll(h)
       \/ \E s \in Sids : ResolveToken(h, s) \/ Logout(h, s) \/ Rotate(h, s)
  \/ \E s \in Sids : Expire(s)

AcctSpec == AcctInit /\ [][AcctNext]_acctVars

-----------------------------------------------------------------------------
Pcs == {"free", "save", "open", "touch", "setex", "delete", "srem", "revoke"}
AcctTypeOK ==
  /\ user \in [Fields -> BOOLEAN] /\ meant \in [Fields -> BOOLEAN] /\ atRisk \subseteq Fields
  /\ \A h \in Handlers : /\ job[h].pc \in Pcs /\ job[h].sids \subseteq used
                         /\ job[h].field \in Fields \cup {NoField} /\ job[h].next \in {NoField, "open"}
                         /\ job[h].copy \in [Fields -> BOOLEAN]
  /\ keys \cup index \cup strays \subseteq used /\ used \subseteq Sids /\ changes \in 0..MaxChanges

(* A change that was answered stays: every field has the value the last     *)
(* change of it gave, and every live session can be found through the       *)
(* user's index.  The exceptions are the overlaps the code does not guard:  *)
(* a field changed while another handler held a copy of the document it     *)
(* will save, and a session opened during a logout of all, or written back  *)
(* by a touch that had read it before it was removed.                       *)
ChangesKept ==
  /\ \A f \in Fields \ atRisk : user[f] = meant[f]
  /\ keys \ strays \subseteq index
=============================================================================
