------------------------------ MODULE EmailCodes ------------------------------
(***************************************************************************)
(* The codes that reset a password, of one address.  A code is mailed and  *)
(* then stored in a cache with a time to live; a verification reads the    *)
(* entry, compares, and deletes it or writes it back with one more try.    *)
(* Nothing makes these steps one: requests of any number of processes may  *)
(* run between them, and a cache that fails says so to nobody.             *)
(*                                                                         *)
(* A code is the number of its mail: codes do not repeat.  Time is counted *)
(* in units of the wait between two mails.  SMTP and Redis are external.   *)
(***************************************************************************)
EXTENDS Naturals, FiniteSets

CONSTANTS MailReqs,         \* slots for requests under way
          Life,             \* VERIFICATION_CODE_EXPIRY_SECONDS, in waits
          MaxTries,         \* wrong tries a code allows
          MaxCodes          \* bound on the mails

ASSUME CodesAssumption == Life \in Nat \ {0} /\ MaxTries \in Nat /\ MaxCodes \in Nat

VARIABLES cache,     \* {} or one entry: {[code, age, tries]}
          mreq,      \* MailReqs -> [pc, code, got, clash]
          mailed,    \* codes mailed so far
          book       \* what the answers say of the entry: [entry, known, right]

codeVars == <<cache, mreq, mailed, book>>

FreeSlot == [pc |-> "free", code |-> 0, got |-> {}, clash |-> FALSE]

CodesInit ==
  /\ cache = {} /\ mailed = 0
  /\ mreq = [r \in MailReqs |-> FreeSlot]
  /\ book = [entry |-> {}, known |-> TRUE, right |-> TRUE]

Busy == {r \in MailReqs : mreq[r].pc # "free"}

\* A request reads the entry; a cache that cannot be read looks empty.  A request that
\* starts while another is under way: neither is alone.
StartReq(r, pc, code, read) ==
  mreq' = [q \in MailReqs |-> IF q = r THEN [pc |-> pc, code |-> code, got |-> IF read /\ pc = "compare" THEN cache ELSE {},
                                            clash |-> ~read \/ Busy # {}]
                              ELSE [mreq[q] EXCEPT !.clash = @ \/ q \in Busy]]
EndReq(r) == mreq' = [mreq EXCEPT ![r] = FreeSlot]

\* A request that ends.  The book follows it when it was alone and the cache did as it was
\* told; otherwise nothing is known until a code is stored by a request that is alone.
Booked(r, entry, right, ok) ==
  LET alone == ok /\ ~mreq[r].clash
      known == alone /\ (book.known \/ mreq[r].pc = "store")
  IN  book' = [entry |-> IF known THEN entry ELSE {}, known |-> known,
               right |-> book.right /\ (alone /\ book.known => right)]

-----------------------------------------------------------------------------
(* send_verification_code.                                                  *)

\* Refused while the stored code is younger than the wait, when it can be read.
AskForCode(r) ==
  /\ mreq[r].pc = "free" /\ mailed < MaxCodes
  /\ \E read \in BOOLEAN : (read => \A e \in cache : e.age > 0) /\ StartReq(r, "mail", 0, read)
  /\ UNCHANGED <<cache, mailed, book>>

\* The mail is sent before its code is stored; when it is not sent nothing is.
Mail(r) ==
  /\ mreq[r].pc = "mail" /\ mailed < MaxCodes
  /\ \/ mailed' = mailed + 1 /\ mreq' = [mreq EXCEPT ![r].pc = "store", ![r].code = mailed + 1] /\ UNCHANGED book
     \/ EndReq(r) /\ UNCHANGED <<mailed, book>>
  /\ UNCHANGED cache

StoreCode(r) ==
  /\ mreq[r].pc = "store"
  /\ LET new == {[code |-> mreq[r].code, age |-> 0, tries |-> 0]}
     IN  \/ cache' = new /\ Booked(r, new, TRUE, TRUE)
         \/ UNCHANGED cache /\ Booked(r, new, TRUE, FALSE)
  /\ EndReq(r) /\ UNCHANGED mailed

-----------------------------------------------------------------------------
(* verify_code.                                                             *)

ReadEntry(r, code) ==
  /\ mreq[r].pc = "free" /\ code \in 0..mailed
  /\ \E read \in BOOLEAN : StartReq(r, "compare", code, read)
  /\ UNCHANGED <<cache, mailed, book>>

\* What a verification makes of the entry it has read: a code that fits, is over or was
\* tried too often is deleted, another try is counted.  The rest of its life is kept.
Valid(e) == e.tries < MaxTries /\ e.age < Life
Fits(got, code) == \E e \in got : Valid(e) /\ e.code = code
Left(got, code) == {[e EXCEPT !.tries = @ + 1] : e \in {x \in got : Valid(x) /\ x.code # code}}

Compare(r) ==
  /\ mreq[r].pc = "compare"
  /\ LET got == mreq[r].got   code == mreq[r].code
         due == book.entry
         right == Fits(got, code) = (\E e \in due : e.tries < MaxTries /\ e.code = code)
         next == {[e EXCEPT !.tries = @ + 1] : e \in {x \in due : x.tries < MaxTries /\ x.code # code}}
     IN  /\ \/ cache' = (IF got = {} THEN cache ELSE Left(got, code)) /\ Booked(r, next, right, TRUE)
            \/ got # {} /\ UNCHANGED cache /\ Booked(r, next, right, FALSE)
  /\ EndReq(r) /\ UNCHANGED mailed

\* The request is broken off.
BreakOff(r) ==
  /\ mreq[r].pc # "free" /\ EndReq(r) /\ UNCHANGED <<cache, mailed, book>>

-----------------------------------------------------------------------------
Older(entries) == {[e EXCEPT !.age = IF @ < Life THEN @ + 1 ELSE @] : e \in entries}
Alive(entries) == {e \in entries : e.age < Life}

\* A wait passes: the time to live of the key runs, and the age of what was read.
CodesAge ==
  /\ cache' = Alive(Older(cache)) /\ book' = [book EXCEPT !.entry = Alive(Older(@))]
  /\ mreq' = [r \in MailReqs |-> [mreq[r] EXCEPT !.got = Older(@)]]
  /\ UNCHANGED mailed

CodesNext ==
  \/ \E r \in MailReqs : AskForCode(r) \/ Mail(r) \/ StoreCode(r) \/ Compare(r) \/ BreakOff(r)
                         \/ \E code \in 0..MaxCodes : ReadEntry(r, code)
  \/ CodesAge

CodesSpec == CodesInit /\ [][CodesNext]_codeVars

-----------------------------------------------------------------------------
CodesTypeOK ==
  /\ Cardinality(cache) <= 1 /\ mailed \in 0..MaxCodes
  /\ \A e \in cache : e.code \in 1..MaxCodes /\ e.age \in 0..Life - 1 /\ e.tries \in 0..MaxTries
  /\ \A r \in MailReqs : mreq[r].pc \in {"free", "mail", "store", "compare"} /\ Cardinality(mreq[r].got) <= 1

(* As long as the requests of an address do not overlap and the cache does  *)
(* as it is told: the code of the last answered sending is accepted until   *)
(* its time is over, it was accepted once, or three wrong tries; no other   *)
(* code is accepted.                                                        *)
CodesKept ==
  /\ book.known /\ Busy = {} => cache = book.entry
  /\ book.right
=============================================================================
