-------------------------- MODULE SwarmEventsProofs --------------------------
(***************************************************************************)
(* That a browser misses no event and applies none twice, for any number   *)
(* of writers, events, connections and breaks and any size of a batch.     *)
(***************************************************************************)
EXTENDS TLAPS, SwarmEvents, FiniteSetTheorems, SequenceTheorems

-----------------------------------------------------------------------------
(* ORDER BY sequence.                                                      *)

Ascending(s) == \A i, k \in DOMAIN s : i < k => s[i] < s[k]

\* s lists the events es, in order.
Lists(s, es) ==
  /\ s \in Seq(es)
  /\ Ascending(s)
  /\ \A e \in es : \E i \in 1 .. Len(s) : s[i] = e

\* A set of numbers has a least one.  (The library's induction theorems take the
\* statement they prove as an operator; this one is enough for the two below.)
LEMMA Least ==
  ASSUME NEW T \in SUBSET Nat, T # {}
  PROVE  \E x \in T : \A y \in T : x <= y
<1>1. PICK n \in T : TRUE
  OBVIOUS
<1> DEFINE below == {0 .. x : x \in {m \in T : m <= n}}
           R == StrictSubsetOrdering(0 .. n)
           F == FiniteSubsetsOf(0 .. n)
<1>2. IsFiniteSet(0 .. n)
  BY <1>1, FS_Interval
<1>3. IsWellFoundedOn(R, F) /\ F = SUBSET (0 .. n)
  BY <1>2, FS_StrictSubsetOrderingWellFounded, FS_FiniteSubsetsOfFinite
<1> HIDE DEF R, F
<1>4. below \subseteq F /\ below # {}
  <2>1. n \in {m \in T : m <= n}
    BY <1>1
  <2>2. \A x \in {m \in T : m <= n} : 0 .. x \in SUBSET (0 .. n)
    BY <1>1
  <2> QED BY <1>3, <2>1, <2>2
<1>5. PICK s \in below : \A r \in below : <<r, s>> \notin R
  BY <1>3, <1>4, WFMin
<1>6. PICK x \in T : x <= n /\ s = 0 .. x
  BY <1>5
<1>7. ASSUME NEW y \in T, y < x PROVE FALSE
  <2>1. y \in Nat /\ x \in Nat /\ n \in Nat
    BY <1>7
  <2>2. 0 .. y \in below /\ y <= n
    BY <1>6, <1>7, <2>1
  <2>3. 0 .. y \subseteq 0 .. x /\ x \in 0 .. x /\ x \notin 0 .. y
    BY <1>7, <2>1
  <2>4. 0 .. y \in SUBSET (0 .. n) /\ 0 .. x \in SUBSET (0 .. n)
    BY <1>6, <2>1, <2>2
  <2>5. <<0 .. y, 0 .. x>> \in R
    BY <2>3, <2>4 DEF R, StrictSubsetOrdering
  <2> QED BY <1>5, <1>6, <2>2, <2>5
<1>8. \A y \in T : ~(y < x)
  BY <1>7
<1> QED BY <1>8

\* A later event goes to the end of the list.
LEMMA ListsAppend ==
  ASSUME NEW es \in SUBSET Nat, NEW s, Lists(s, es),
         NEW e \in Nat, \A d \in es : d < e
  PROVE  Lists(Append(s, e), es \cup {e})
<1> DEFINE all == es \cup {e}
           t == Append(s, e)
<1>1. s \in Seq(all) /\ Len(s) \in Nat /\ s \in [1 .. Len(s) -> es]
  BY SeqMonotonic, LenProperties DEF Lists
<1>2. /\ t \in Seq(all) /\ Len(t) = Len(s) + 1
      /\ \A i \in 1 .. Len(s) : t[i] = s[i]
      /\ t[Len(s) + 1] = e
  BY <1>1, AppendProperties
<1>3. DOMAIN t = 1 .. Len(s) + 1
  BY <1>2, LenProperties
<1>4. Ascending(t)
  <2> HIDE DEF t
  <2> SUFFICES ASSUME NEW i \in 1 .. Len(s) + 1, NEW k \in 1 .. Len(s) + 1, i < k
               PROVE  t[i] < t[k]
    BY <1>3 DEF Ascending
  <2>1. i \in 1 .. Len(s) /\ t[i] = s[i] /\ s[i] \in es
    BY <1>1, <1>2
  <2>2. CASE k = Len(s) + 1
    BY <1>2, <2>1, <2>2
  <2>3. CASE k \in 1 .. Len(s)
    BY <1>1, <1>2, <2>1, <2>3 DEF Lists, Ascending
  <2> QED BY <1>1, <2>2, <2>3
<1>5. ASSUME NEW d \in all PROVE \E i \in 1 .. Len(t) : t[i] = d
  <2>1. CASE d = e
    BY <1>1, <1>2, <2>1
  <2>2. CASE d \in es
    <3>1. PICK i \in 1 .. Len(s) : s[i] = d
      BY <2>2 DEF Lists
    <3>2. i \in 1 .. Len(t) /\ t[i] = d
      BY <1>1, <1>2, <3>1
    <3> QED BY <3>2
  <2> QED BY <2>1, <2>2
<1> QED BY <1>2, <1>4, <1>5 DEF Lists

\* Any set of sequence numbers can be listed.
LEMMA ListExists ==
  ASSUME NEW n \in Nat, NEW es \in SUBSET (1 .. n)
  PROVE  \E s : Lists(s, es)
<1> DEFINE Listed(m) == \A ds \in SUBSET (1 .. m) : \E s : Lists(s, ds)
           bad == {m \in Nat : ~Listed(m)}
<1>1. bad = {}
  <2> SUFFICES ASSUME bad # {} PROVE FALSE
    OBVIOUS
  <2>1. PICK m \in bad : \A k \in bad : m <= k
    BY Least
  <2>2. Listed(0)
    <3>1. SUBSET (1 .. 0) = {{}}
      OBVIOUS
    <3>2. Lists(<<>>, {})
      BY DEF Lists, Ascending
    <3> QED BY <3>1, <3>2
  <2>3. m - 1 \in Nat /\ m \in Nat
    BY <2>1, <2>2
  <2>4. Listed(m - 1)
    BY <2>1, <2>3
  <2>5. ASSUME NEW ds \in SUBSET (1 .. m) PROVE \E s : Lists(s, ds)
    <3>1. CASE m \notin ds
      <4>1. ds \in SUBSET (1 .. m - 1)
        BY <2>3, <3>1
      <4> QED BY <2>4, <4>1
    <3>2. CASE m \in ds
      <4>1. ds \ {m} \in SUBSET (1 .. m - 1)
        BY <2>3
      <4>2. PICK s : Lists(s, ds \ {m})
        BY <2>4, <4>1
      <4>3. \A d \in ds \ {m} : d < m
        BY <2>3, <4>1
      <4>4. ds \ {m} \in SUBSET Nat /\ (ds \ {m}) \cup {m} = ds
        BY <2>3, <3>2, <4>1
      <4>5. Lists(Append(s, m), (ds \ {m}) \cup {m})
        BY <2>3, <4>2, <4>3, <4>4, ListsAppend
      <4> QED BY <4>4, <4>5
    <3> QED BY <3>1, <3>2
  <2> QED BY <2>1, <2>5
<1>2. Listed(n)
  BY <1>1
<1> QED BY <1>2

\* There is one way to list them.
LEMMA ListUnique ==
  ASSUME NEW es \in SUBSET Nat, NEW s, NEW t, Lists(s, es), Lists(t, es)
  PROVE  s = t
<1> DEFINE Agree(i) == i \in 1 .. Len(s) /\ i \in 1 .. Len(t) /\ s[i] = t[i]
           bad == {i \in Nat \ {0} : (i <= Len(s) \/ i <= Len(t)) /\ ~Agree(i)}
<1>1. /\ s \in Seq(es) /\ Len(s) \in Nat /\ DOMAIN s = 1 .. Len(s)
      /\ t \in Seq(es) /\ Len(t) \in Nat /\ DOMAIN t = 1 .. Len(t)
      /\ \A i \in 1 .. Len(s) : s[i] \in es
      /\ \A i \in 1 .. Len(t) : t[i] \in es
  BY LenProperties DEF Lists
<1>2. ASSUME NEW a \in Seq(es), NEW b \in Seq(es), Lists(a, es), Lists(b, es),
             NEW i \in 1 .. Len(a), \A k \in 1 .. i - 1 : k \in 1 .. Len(b) /\ a[k] = b[k]
      PROVE  i \in 1 .. Len(b) /\ b[i] <= a[i]
  <2>0. /\ Len(a) \in Nat /\ DOMAIN a = 1 .. Len(a) /\ Len(b) \in Nat /\ DOMAIN b = 1 .. Len(b)
        /\ a[i] \in es /\ \A k \in 1 .. Len(b) : b[k] \in es
    BY LenProperties
  <2>1. PICK k \in 1 .. Len(b) : b[k] = a[i]
    BY <2>0, <1>2 DEF Lists
  <2>2. k >= i
    <3> SUFFICES ASSUME k < i PROVE FALSE
      BY <2>0
    <3>1. k \in 1 .. i - 1 /\ k \in 1 .. Len(a)
      BY <2>0
    <3>2. a[k] = a[i]
      BY <1>2, <2>1, <3>1
    <3>3. a[k] < a[i]
      BY <1>2, <2>0, <3>1 DEF Lists, Ascending
    <3>4. a[i] \in Nat
      BY <2>0
    <3> QED BY <3>2, <3>3, <3>4
  <2>3. i \in 1 .. Len(b)
    BY <2>0, <2>2
  <2>4. k = i \/ b[i] < b[k]
    <3>1. k = i \/ i < k
      BY <2>0, <2>2
    <3>2. i \in DOMAIN b /\ k \in DOMAIN b /\ Ascending(b)
      BY <1>2, <2>0, <2>3 DEF Lists
    <3> QED BY <3>1, <3>2 DEF Ascending
  <2>5. b[i] \in Nat /\ b[k] \in Nat
    BY <2>0, <2>3
  <2> QED BY <2>1, <2>3, <2>4, <2>5
<1>3. bad = {}
  <2> SUFFICES ASSUME bad # {} PROVE FALSE
    OBVIOUS
  <2>1. PICK i \in bad : \A k \in bad : i <= k
    BY Least
  <2>2. i \in Nat \ {0} /\ (i <= Len(s) \/ i <= Len(t)) /\ ~Agree(i)
    BY <2>1
  <2>3. ASSUME NEW k \in 1 .. i - 1 PROVE Agree(k)
    <3>1. k \in Nat \ {0} /\ k < i /\ (k <= Len(s) \/ k <= Len(t))
      BY <1>1, <2>2
    <3>2. k \notin bad
      BY <2>1, <3>1
    <3> QED BY <3>1, <3>2
  <2>4. i \in 1 .. Len(s) => i \in 1 .. Len(t) /\ t[i] <= s[i]
    BY <1>1, <1>2, <2>3
  <2>5. i \in 1 .. Len(t) => i \in 1 .. Len(s) /\ s[i] <= t[i]
    BY <1>1, <1>2, <2>3
  <2>6. i \in 1 .. Len(s) /\ i \in 1 .. Len(t)
    BY <1>1, <2>2, <2>4, <2>5
  <2>7. s[i] \in Nat /\ t[i] \in Nat
    BY <1>1, <2>6
  <2> QED BY <2>2, <2>4, <2>5, <2>6, <2>7
<1>4. ASSUME NEW i \in Nat \ {0}, i <= Len(s) \/ i <= Len(t) PROVE Agree(i)
  BY <1>3, <1>4
<1>5. Len(s) = Len(t)
  <2>1. ASSUME Len(s) # 0 PROVE Len(s) <= Len(t)
    <3>1. Len(s) \in Nat \ {0} /\ Len(s) <= Len(s)
      BY <1>1, <2>1
    <3>2. Agree(Len(s))
      BY <1>4, <3>1
    <3> QED BY <1>1, <3>2
  <2>2. ASSUME Len(t) # 0 PROVE Len(t) <= Len(s)
    <3>1. Len(t) \in Nat \ {0} /\ Len(t) <= Len(t)
      BY <1>1, <2>2
    <3>2. Agree(Len(t))
      BY <1>4, <3>1
    <3> QED BY <1>1, <3>2
  <2>3. Len(s) \in Nat /\ Len(t) \in Nat
    BY <1>1
  <2>4. Len(s) <= Len(t) /\ Len(t) <= Len(s)
    BY <2>1, <2>2, <2>3
  <2> QED BY <2>3, <2>4
<1>6. \A i \in 1 .. Len(s) : s[i] = t[i]
  BY <1>1, <1>4
<1> QED BY <1>1, <1>5, <1>6, SeqEqual

\* The query returns the events it finds in the order of their numbers.
LEMMA InOrderLists ==
  ASSUME NEW n \in Nat, NEW es \in SUBSET (1 .. n)
  PROVE  Lists(InOrder(es), es)
<1>1. PICK s : Lists(s, es)
  BY ListExists
<1>2. IsFiniteSet(es) /\ Cardinality(es) \in Nat
  <2>1. IsFiniteSet(1 .. n)
    BY FS_Interval
  <2> QED BY <2>1, FS_Subset, FS_CardinalityType
<1>3. /\ s \in Seq(es) /\ Len(s) \in Nat /\ s \in [1 .. Len(s) -> es]
      /\ DOMAIN s = 1 .. Len(s)
  BY <1>1, LenProperties DEF Lists
<1>4. \A i, k \in 1 .. Len(s) : i # k => s[i] # s[k]
  <2> SUFFICES ASSUME NEW i \in 1 .. Len(s), NEW k \in 1 .. Len(s), i < k
               PROVE  s[i] # s[k]
    BY <1>3
  <2>1. i \in DOMAIN s /\ k \in DOMAIN s /\ Ascending(s)
    BY <1>1, <1>3 DEF Lists
  <2>2. s[i] < s[k]
    BY <2>1 DEF Ascending
  <2>3. s[i] \in es /\ s[k] \in es
    BY <1>3
  <2>4. s[i] \in Nat /\ s[k] \in Nat
    <3>1. \A d \in es : d \in Nat
      OBVIOUS
    <3> QED BY <2>3, <3>1
  <2> QED BY <2>2, <2>4
<1>5. s \in Bijection(1 .. Len(s), es)
  BY <1>1, <1>3, <1>4 DEF Lists, Bijection, Injection, Surjection, IsInjective
<1>6. Cardinality(es) = Len(s)
  BY <1>3, <1>5, FS_CountingElements DEF ExistsBijection
<1>7. s \in SetToSeqs(es)
  BY <1>3, <1>4, <1>6 DEF SetToSeqs
<1> DEFINE t == InOrder(es)
<1>8. t \in SetToSeqs(es) /\ Ascending(t)
  <2>1. \E r \in SetToSeqs(es) : \A i, k \in DOMAIN r : i < k => r[i] < r[k]
    BY <1>1, <1>7 DEF Lists, Ascending
  <2> QED BY <2>1 DEF InOrder, Ascending
<1> HIDE DEF t
<1>9. t \in [1 .. Cardinality(es) -> es] /\ \A i, k \in 1 .. Cardinality(es) : i # k => t[i] # t[k]
  BY <1>8 DEF SetToSeqs
<1>10. t \in Injection(1 .. Cardinality(es), es)
  BY <1>9 DEF Injection, IsInjective
<1>11. Cardinality(1 .. Cardinality(es)) = Cardinality(es)
  BY <1>2, FS_Interval
<1>12. t \in Surjection(1 .. Cardinality(es), es)
  BY <1>2, <1>10, <1>11, FS_Injection
<1>13. t \in Seq(es) /\ Len(t) = Cardinality(es)
  BY <1>2, <1>9
<1>14. \A e \in es : \E i \in 1 .. Len(t) : t[i] = e
  BY <1>12, <1>13 DEF Surjection
<1> QED BY <1>8, <1>13, <1>14 DEF Lists, t

\* The next event of the order is the one that is appended.
LEMMA InOrderAppend ==
  ASSUME NEW n \in Nat, NEW es \in SUBSET (1 .. n), NEW e \in 1 .. n, \A d \in es : d < e
  PROVE  InOrder(es \cup {e}) = Append(InOrder(es), e)
<1>1. es \cup {e} \in SUBSET (1 .. n) /\ es \cup {e} \in SUBSET Nat /\ es \in SUBSET Nat
  OBVIOUS
<1>2. Lists(InOrder(es), es) /\ Lists(InOrder(es \cup {e}), es \cup {e})
  BY <1>1, InOrderLists
<1>3. Lists(Append(InOrder(es), e), es \cup {e})
  BY <1>1, <1>2, ListsAppend
<1> QED BY <1>1, <1>2, <1>3, ListUnique

-----------------------------------------------------------------------------
(* The inductive invariant.  NothingMissed needs that no number below a    *)
(* cursor can still be committed (the writers take turns), and that what   *)
(* is on its way to the browser follows, event by event, on what it has.   *)

\* The configuration row's lock: one writer at a time has inserted anything.
OneWriter ==
  /\ \A t, u \in writing : t = u
  /\ \A t \in Writers : t \notin writing => pending[t] = {}

\* What is not committed yet is later than what is.
PendingAhead == \A t \in Writers : \A e \in pending[t], d \in events : d < e

\* Only the store's current socket can receive.
Live(c) == state[c] \in {"open", "connecting"}
LiveIsCurrent == \A c \in Sockets : Live(c) => c = socket

\* A connection begins with nothing on its way, and ends with nothing.
FreshEmpty ==
  \A c \in Sockets : state[c] \in {"closed", "connecting"} =>
    entries[c] = <<>> /\ wire[c] = <<>>

\* e is the first event after d.
Follows(d, e) == e \in events /\ d < e /\ \A x \in events : ~(d < x /\ x < e)

\* Each of s is the first event after the one before it.
Chain(s, from) ==
  \A i \in 1 .. Len(s) : Follows(IF i = 1 THEN from ELSE s[i - 1], s[i])

LastOf(s, from) == IF s = <<>> THEN from ELSE s[Len(s)]

\* What has been sent continues what the browser has, and what the server is
\* going to send continues what has been sent.
StreamOf(c) ==
  /\ Chain(wire[c], lastSequence)
  /\ cursor[c] = LastOf(wire[c], lastSequence)
  /\ Chain(entries[c], cursor[c])
Streams == \A c \in Sockets : Live(c) => StreamOf(c)

LastCommitted == lastSequence = 0 \/ lastSequence \in events

EventsInv ==
  /\ EventsTypeOK
  /\ OneWriter /\ PendingAhead
  /\ LiveIsCurrent /\ FreshEmpty /\ Streams
  /\ LastCommitted /\ NothingMissed

-----------------------------------------------------------------------------
(* Chains of events.                                                       *)

LEMMA ChainAppend ==
  ASSUME NEW s \in Seq(Nat), NEW from, NEW e \in Nat,
         Chain(s, from), Follows(LastOf(s, from), e)
  PROVE  Chain(Append(s, e), from) /\ LastOf(Append(s, e), from) = e
<1> DEFINE t == Append(s, e)
<1>1. /\ t \in Seq(Nat) /\ t # <<>> /\ Len(t) = Len(s) + 1 /\ Len(s) \in Nat
      /\ \A i \in 1 .. Len(s) : t[i] = s[i]
      /\ t[Len(s) + 1] = e
      /\ (s = <<>> <=> Len(s) = 0)
  BY AppendProperties, LenProperties, EmptySeq
<1> HIDE DEF t
<1>2. ASSUME NEW i \in 1 .. Len(t)
      PROVE  Follows(IF i = 1 THEN from ELSE t[i - 1], t[i])
  <2>1. CASE i \in 1 .. Len(s)
    <3>1. Follows(IF i = 1 THEN from ELSE s[i - 1], s[i])
      BY <2>1 DEF Chain
    <3>2. t[i] = s[i] /\ (i # 1 => t[i - 1] = s[i - 1])
      <4>1. i # 1 => i - 1 \in 1 .. Len(s)
        BY <1>1, <2>1
      <4> QED BY <1>1, <2>1, <4>1
    <3> QED BY <3>1, <3>2
  <2>2. CASE i = Len(s) + 1
    <3>1. t[i] = e /\ (IF i = 1 THEN from ELSE t[i - 1]) = LastOf(s, from)
      BY <1>1, <2>2 DEF LastOf
    <3> QED BY <3>1
  <2> QED BY <1>1, <2>1, <2>2
<1> QED BY <1>1, <1>2 DEF Chain, LastOf, t

LEMMA ChainTail ==
  ASSUME NEW s \in Seq(Nat), NEW from, Chain(s, from), s # <<>>
  PROVE  /\ Follows(from, Head(s)) /\ Head(s) \in Nat
         /\ Tail(s) \in Seq(Nat)
         /\ Chain(Tail(s), Head(s))
         /\ LastOf(Tail(s), Head(s)) = LastOf(s, from)
<1>1. /\ Len(s) \in Nat \ {0} /\ Head(s) = s[1] /\ Head(s) \in Nat
      /\ Tail(s) \in Seq(Nat) /\ Len(Tail(s)) = Len(s) - 1
      /\ \A i \in 1 .. Len(s) - 1 : Tail(s)[i] = s[i + 1]
      /\ (Tail(s) = <<>> <=> Len(s) = 1)
  <2>1. Len(s) \in Nat \ {0}
    BY LenProperties, EmptySeq
  <2>2. Head(s) = s[1] /\ Head(s) \in Nat /\ Tail(s) \in Seq(Nat)
        /\ Len(Tail(s)) = Len(s) - 1
    BY HeadTailProperties
  <2>3. \A i \in 1 .. Len(s) - 1 : Tail(s)[i] = s[i + 1]
    BY <2>1, <2>2, HeadTailProperties
  <2>4. Tail(s) = <<>> <=> Len(s) = 1
    <3>1. Tail(s) # <<>> => Len(Tail(s)) # 0
      BY <2>2, EmptySeq
    <3>2. Tail(s) = <<>> => Len(Tail(s)) = 0
      BY EmptySeq
    <3> QED BY <2>1, <2>2, <3>1, <3>2
  <2> QED BY <2>1, <2>2, <2>3, <2>4
<1>2. Follows(from, Head(s))
  <2>1. 1 \in 1 .. Len(s)
    BY <1>1
  <2> QED BY <1>1, <2>1 DEF Chain
<1>3. ASSUME NEW i \in 1 .. Len(s) - 1
      PROVE  Follows(IF i = 1 THEN Head(s) ELSE Tail(s)[i - 1], Tail(s)[i])
  <2>1. i + 1 \in 1 .. Len(s) /\ i + 1 # 1 /\ i + 1 - 1 = i
    BY <1>1
  <2>2. Follows(s[i], s[i + 1])
    BY <2>1 DEF Chain
  <2>3. Tail(s)[i] = s[i + 1] /\ s[i] = IF i = 1 THEN Head(s) ELSE Tail(s)[i - 1]
    BY <1>1
  <2> QED BY <2>2, <2>3
<1>4. Chain(Tail(s), Head(s))
  BY <1>1, <1>3 DEF Chain
<1>5. LastOf(Tail(s), Head(s)) = LastOf(s, from)
  BY <1>1 DEF LastOf
<1> QED BY <1>1, <1>2, <1>4, <1>5

\* The beginning of what a query for the events after n returns.
LEMMA QueryChain ==
  ASSUME events \in SUBSET Nat, NEW n \in Nat, NEW s, Lists(s, After(n)), NEW k \in 1 .. Len(s)
  PROVE  SubSeq(s, 1, k) \in Seq(events) /\ Chain(SubSeq(s, 1, k), n)
<1>1. /\ s \in Seq(After(n)) /\ Len(s) \in Nat /\ DOMAIN s = 1 .. Len(s)
      /\ \A i \in 1 .. Len(s) : s[i] \in events /\ s[i] \in Nat /\ n < s[i]
  <2>1. s \in Seq(After(n)) /\ Len(s) \in Nat /\ DOMAIN s = 1 .. Len(s)
        /\ \A i \in 1 .. Len(s) : s[i] \in After(n)
    BY LenProperties DEF Lists
  <2>2. \A e \in After(n) : e \in events /\ e \in Nat /\ n < e
    BY DEF After
  <2> QED BY <2>1, <2>2
<1>a. \A i, m \in 1 .. Len(s) : i < m => s[i] < s[m]
  BY <1>1 DEF Lists, Ascending
<1>2. /\ SubSeq(s, 1, k) \in Seq(events) /\ Len(SubSeq(s, 1, k)) = k
      /\ \A i \in 1 .. k : SubSeq(s, 1, k)[i] = s[i]
  BY <1>1, SubSeqProperties
<1>3. ASSUME NEW i \in 1 .. k
      PROVE  Follows(IF i = 1 THEN n ELSE s[i - 1], s[i])
  <2> DEFINE d == IF i = 1 THEN n ELSE s[i - 1]
  <2>1. i \in 1 .. Len(s) /\ (i # 1 => i - 1 \in 1 .. Len(s) /\ i - 1 < i)
    BY <1>1
  <2>2. d < s[i] /\ d \in Nat /\ n <= d
    <3>1. CASE i = 1
      BY <1>1, <2>1, <3>1
    <3>2. CASE i # 1
      <4>1. s[i - 1] < s[i] /\ s[i - 1] \in Nat /\ n < s[i - 1]
        BY <1>1, <1>a, <2>1, <3>2
      <4> QED BY <3>2, <4>1
    <3> QED BY <3>1, <3>2
  <2>3. ASSUME NEW x \in events, d < x, x < s[i] PROVE FALSE
    <3>1. x \in After(n)
      BY <2>2, <2>3 DEF After
    <3>2. PICK m \in 1 .. Len(s) : s[m] = x
      BY <3>1 DEF Lists
    <3>3. i < m => s[i] < s[m]
      BY <1>a, <2>1, <3>2
    <3>4. i # 1 /\ m < i - 1 => s[m] < s[i - 1]
      BY <1>a, <2>1, <3>2
    <3>5. m = i \/ i < m \/ (i # 1 /\ (m = i - 1 \/ m < i - 1))
      BY <1>1, <2>1
    <3>6. s[i] \in Nat /\ x \in Nat /\ (i # 1 => s[i - 1] \in Nat)
      BY <1>1, <2>1
    <3> QED BY <2>2, <2>3, <3>2, <3>3, <3>4, <3>5, <3>6
  <2> QED BY <1>1, <2>1, <2>2, <2>3 DEF Follows
<1>4. \A i \in 1 .. k : i # 1 => i - 1 \in 1 .. k
  BY <1>1
<1> QED BY <1>2, <1>3, <1>4 DEF Chain

\* Events that are committed later are greater, and break no chain.
LEMMA ChainStays ==
  ASSUME events \in SUBSET Nat, events' \in SUBSET Nat, events \subseteq events',
         \A d \in events, e \in events' \ events : d < e,
         NEW s, NEW from, Chain(s, from)
  PROVE  Chain(s, from)'
<1>1. ASSUME NEW d, NEW e, Follows(d, e) PROVE Follows(d, e)'
  BY <1>1 DEF Follows
<1> QED BY <1>1 DEF Chain

-----------------------------------------------------------------------------
(* The invariant holds.                                                    *)

LEMMA InitEventsInv == Init => EventsInv
<1> SUFFICES ASSUME Init PROVE EventsInv
  OBVIOUS
<1> USE DEF Init
<1>1. EventsTypeOK
  <2>1. entries \in [Sockets -> Seq(events)] /\ wire \in [Sockets -> Seq(events)]
    BY EmptySeq
  <2>2. sequence \in 0 .. MaxSequence /\ breaks \in 0 .. MaxBreaks
    BY EventsAssumption
  <2>3. pending \in [Writers -> SUBSET (1 .. sequence)] /\ cursor \in [Sockets -> 0 .. sequence]
    OBVIOUS
  <2> QED BY <2>1, <2>2, <2>3 DEF EventsTypeOK
<1>2. OneWriter /\ PendingAhead /\ LiveIsCurrent /\ FreshEmpty /\ LastCommitted
  BY DEF OneWriter, PendingAhead, LiveIsCurrent, FreshEmpty, LastCommitted, Live
<1>3. Streams
  BY DEF Streams, StreamOf, Chain, LastOf
<1>4. NothingMissed
  <2>1. {e \in events : e <= lastSequence} = {} /\ {} \in SUBSET (1 .. 0)
    OBVIOUS
  <2>2. InOrder({}) \in Seq({})
    BY <2>1, InOrderLists DEF Lists
  <2>3. InOrder({}) = <<>>
    BY <2>2
  <2> QED BY <2>1, <2>3 DEF NothingMissed
<1> QED BY <1>1, <1>2, <1>3, <1>4 DEF EventsInv

\* A step that leaves the ledger alone.
LEMMA DatabaseSame ==
  ASSUME OneWriter, PendingAhead, UNCHANGED database
  PROVE  OneWriter' /\ PendingAhead'
BY DEF OneWriter, PendingAhead, database

\* A step that applies and commits nothing.
LEMMA StoreSame ==
  ASSUME LastCommitted, NothingMissed, UNCHANGED <<store, events>>
  PROVE  LastCommitted' /\ NothingMissed'
BY DEF LastCommitted, NothingMissed, store

\* A step that touches no stream but those of sockets that are dead after it.
LEMMA StreamsSame ==
  ASSUME Streams, UNCHANGED <<events, lastSequence>>,
         \A c \in Sockets : Live(c)' => Live(c)
           /\ cursor'[c] = cursor[c] /\ entries'[c] = entries[c] /\ wire'[c] = wire[c]
  PROVE  Streams'
<1> SUFFICES ASSUME NEW c \in Sockets, Live(c)' PROVE StreamOf(c)'
  BY DEF Streams
<1>1. StreamOf(c)
  BY DEF Streams
<1> QED BY <1>1 DEF StreamOf, Chain, LastOf, Follows

LEMMA WriterKeeps ==
  ASSUME EventsInv, NEW t \in Writers, Begin(t) \/ Insert(t) \/ End(t)
  PROVE  EventsInv'
<1> USE DEF EventsInv, EventsTypeOK
<1>1. CASE Begin(t)
  <2>1. EventsTypeOK' /\ OneWriter' /\ PendingAhead'
    BY <1>1 DEF Begin, LockFree, OneWriter, PendingAhead, server, browser, store, network
  <2>2. LiveIsCurrent' /\ FreshEmpty' /\ Streams' /\ LastCommitted' /\ NothingMissed'
    BY <1>1, StoreSame, StreamsSame
    DEF Begin, LiveIsCurrent, FreshEmpty, Live, server, browser, store
  <2> QED BY <2>1, <2>2
<1>2. CASE Insert(t)
  <2> USE DEF Insert, server, browser, store, network
  <2>1. sequence' = sequence + 1 /\ sequence' \in 0 .. MaxSequence /\ sequence \in Nat
    BY <1>2, EventsAssumption
  <2>2. pending' = [pending EXCEPT ![t] = @ \cup {sequence'}]
        /\ pending' \in [Writers -> SUBSET (1 .. sequence')]
    BY <1>2, <2>1
  <2>3. EventsTypeOK'
    BY <1>2, <2>1, <2>2
  <2>4. OneWriter'
    BY <1>2 DEF OneWriter
  <2>5. PendingAhead'
    BY <1>2, <2>1 DEF PendingAhead
  <2>6. LiveIsCurrent' /\ FreshEmpty' /\ Streams' /\ LastCommitted' /\ NothingMissed'
    BY <1>2, StoreSame, StreamsSame DEF LiveIsCurrent, FreshEmpty, Live
  <2> QED BY <2>3, <2>4, <2>5, <2>6
<1>3. CASE End(t)
  <2> USE DEF End, server, browser, store, network
  <2>1. /\ events \subseteq events' /\ events' \subseteq events \cup pending[t]
        /\ \A d \in events, e \in events' \ events : d < e
        /\ events \in SUBSET Nat /\ events' \in SUBSET (1 .. sequence) /\ sequence \in Nat
    BY <1>3, EventsAssumption DEF PendingAhead
  <2>2. pending' = [pending EXCEPT ![t] = {}]
        /\ pending' \in [Writers -> SUBSET (1 .. sequence)]
    BY <1>3
  <2>3. EventsTypeOK'
    <3>1. Seq(events) \subseteq Seq(events')
      BY <2>1, SeqMonotonic
    <3>2. entries' \in [Sockets -> Seq(events')] /\ wire' \in [Sockets -> Seq(events')]
      BY <1>3, <3>1
    <3> QED BY <1>3, <2>1, <2>2, <3>2
  <2>4. OneWriter'
    BY <1>3, <2>2 DEF OneWriter
  <2>5. PendingAhead'
    <3>1. \A u \in Writers : pending'[u] = {}
      BY <1>3, <2>2 DEF OneWriter
    <3> QED BY <3>1 DEF PendingAhead
  <2>6. LiveIsCurrent' /\ FreshEmpty' /\ LastCommitted'
    BY <1>3, <2>1 DEF LiveIsCurrent, FreshEmpty, Live, LastCommitted
  <2>7. Streams'
    <3> SUFFICES ASSUME NEW c \in Sockets, Live(c)' PROVE StreamOf(c)'
      BY DEF Streams
    <3>1. StreamOf(c) /\ UNCHANGED <<cursor, entries, wire, lastSequence>>
      BY <1>3 DEF Streams, Live
    <3>2. Chain(wire[c], lastSequence)' /\ Chain(entries[c], cursor[c])'
      <4>1. events' \in SUBSET Nat
        BY <2>1
      <4>2. Chain(wire[c], lastSequence) /\ Chain(entries[c], cursor[c])
        BY <3>1 DEF StreamOf
      <4>3. PICK sent, rest, last, at :
              sent = wire[c] /\ rest = entries[c] /\ last = lastSequence /\ at = cursor[c]
        OBVIOUS
      <4>4. Chain(sent, last)' /\ Chain(rest, at)'
        BY <2>1, <4>1, <4>2, <4>3, ChainStays
      <4>5. sent = wire'[c] /\ rest = entries'[c] /\ last = lastSequence' /\ at = cursor'[c]
        BY <3>1, <4>3
      <4> QED BY <4>4, <4>5 DEF Chain, Follows
    <3> QED BY <3>1, <3>2 DEF StreamOf, LastOf
  <2>8. NothingMissed'
    <3>1. {e \in events' : e <= lastSequence} = {e \in events : e <= lastSequence}
      <4> SUFFICES ASSUME NEW e \in events' \ events PROVE ~(e <= lastSequence)
        BY <2>1
      <4>1. e \in Nat \ {0} /\ (lastSequence \in events => lastSequence < e)
        BY <2>1
      <4>2. lastSequence \in Nat
        BY <2>1
      <4> QED BY <4>1, <4>2 DEF LastCommitted
    <3> QED BY <1>3, <3>1 DEF NothingMissed
  <2> QED BY <2>3, <2>4, <2>5, <2>6, <2>7, <2>8
<1> QED BY <1>1, <1>2, <1>3

\* What is on its way are numbers.
LEMMA StreamTypes ==
  ASSUME EventsTypeOK, NEW c \in Sockets
  PROVE  /\ events \in SUBSET Nat /\ events \in SUBSET (1 .. sequence) /\ sequence \in Nat
         /\ cursor[c] \in Nat /\ lastSequence \in Nat
         /\ wire[c] \in Seq(Nat) /\ wire[c] \in Seq(events)
         /\ entries[c] \in Seq(Nat) /\ entries[c] \in Seq(events)
<1>1. /\ sequence \in Nat /\ events \in SUBSET (1 .. sequence)
      /\ cursor[c] \in 0 .. sequence /\ lastSequence \in 0 .. sequence
      /\ wire[c] \in Seq(events) /\ entries[c] \in Seq(events)
  BY EventsAssumption DEF EventsTypeOK
<1>2. events \in SUBSET Nat
  BY <1>1
<1>3. Seq(events) \subseteq Seq(Nat)
  BY <1>2, SeqMonotonic
<1>4. cursor[c] \in Nat /\ lastSequence \in Nat
  BY <1>1
<1> QED BY <1>1, <1>2, <1>3, <1>4

LEMMA FetchKeeps ==
  ASSUME EventsInv, NEW c \in Sockets, Fetch(c)
  PROVE  EventsInv'
<1> USE DEF EventsInv
<1>0. UNCHANGED <<database, cursor, wire, browser, store, network>> /\ Live(c)
  BY DEF Fetch, Live
<1>1. PICK r : /\ r \in Seq(events) /\ Chain(r, cursor[c])
               /\ entries' = [entries EXCEPT ![c] = r]
  <2> DEFINE found == InOrder(After(cursor[c]))
             k == IF Len(found) < BatchLimit THEN Len(found) ELSE BatchLimit
  <2>1. After(cursor[c]) \in SUBSET (1 .. sequence)
    BY StreamTypes DEF After
  <2>2. Lists(found, After(cursor[c]))
    BY <2>1, StreamTypes, InOrderLists
  <2>3. found # <<>> /\ entries' = [entries EXCEPT ![c] = SubSeq(found, 1, k)]
    BY DEF Fetch
  <2> HIDE DEF found
  <2>4. Len(found) \in Nat \ {0}
    BY <2>2, <2>3, EmptySeq DEF Lists
  <2>5. k \in 1 .. Len(found)
    BY <2>4, EventsAssumption
  <2>6. SubSeq(found, 1, k) \in Seq(events) /\ Chain(SubSeq(found, 1, k), cursor[c])
    BY <2>2, <2>5, StreamTypes, QueryChain
  <2> QED BY <2>3, <2>6
<1>2. EventsTypeOK'
  BY <1>0, <1>1 DEF EventsTypeOK, database, browser, store, network
<1>3. OneWriter' /\ PendingAhead' /\ LastCommitted' /\ NothingMissed' /\ LiveIsCurrent'
  BY <1>0, DatabaseSame, StoreSame DEF database, browser, LiveIsCurrent, Live
<1>4. FreshEmpty'
  BY <1>0, <1>1 DEF Fetch, FreshEmpty, EventsTypeOK, browser
<1>5. Streams'
  <2> SUFFICES ASSUME NEW d \in Sockets, Live(d)' PROVE StreamOf(d)'
    BY DEF Streams
  <2>1. StreamOf(d) /\ d = c
    BY <1>0 DEF Streams, LiveIsCurrent, Live, browser
  <2>2. entries'[d] = r /\ UNCHANGED <<events, wire, cursor, lastSequence>>
    BY <1>0, <1>1, <2>1 DEF EventsTypeOK, database, store
  <2> QED BY <1>1, <2>1, <2>2 DEF StreamOf, Chain, LastOf, Follows
<1> QED BY <1>2, <1>3, <1>4, <1>5

LEMMA SendKeeps ==
  ASSUME EventsInv, NEW c \in Sockets, Send(c)
  PROVE  EventsInv'
<1> USE DEF EventsInv
<1> DEFINE e == Head(entries[c])
<1>0. UNCHANGED <<database, browser, store, network>> /\ Live(c)
  BY DEF Send, Live
<1>1. /\ wire' = [wire EXCEPT ![c] = Append(wire[c], e)]
      /\ cursor' = [cursor EXCEPT ![c] = e]
      /\ entries' = [entries EXCEPT ![c] = Tail(entries[c])]
      /\ entries[c] # <<>>
  BY DEF Send
<1>2. e \in events /\ e \in Nat /\ Tail(entries[c]) \in Seq(events)
      /\ Append(wire[c], e) \in Seq(events) /\ e \in 0 .. sequence
  <2>1. e \in events /\ Tail(entries[c]) \in Seq(events)
    BY <1>1, StreamTypes, HeadTailProperties
  <2>2. e \in 1 .. sequence /\ sequence \in Nat
    BY <2>1, StreamTypes
  <2> QED BY <2>1, <2>2, StreamTypes, AppendProperties
<1> HIDE DEF e
<1>3. EventsTypeOK'
  BY <1>0, <1>1, <1>2 DEF EventsTypeOK, database, browser, store, network
<1>4. OneWriter' /\ PendingAhead' /\ LastCommitted' /\ NothingMissed' /\ LiveIsCurrent'
  BY <1>0, DatabaseSame, StoreSame DEF database, browser, LiveIsCurrent, Live
<1>5. FreshEmpty'
  BY <1>0, <1>1 DEF Send, FreshEmpty, EventsTypeOK, browser
<1>6. Streams'
  <2> SUFFICES ASSUME NEW d \in Sockets, Live(d)' PROVE StreamOf(d)'
    BY DEF Streams
  <2>1. StreamOf(c) /\ d = c
    BY <1>0 DEF Streams, LiveIsCurrent, Live, browser
  <2>2. /\ wire'[c] = Append(wire[c], e) /\ cursor'[c] = e /\ entries'[c] = Tail(entries[c])
        /\ UNCHANGED <<events, lastSequence>>
    BY <1>0, <1>1 DEF EventsTypeOK, database, store
  <2>3. Follows(cursor[c], e) /\ Chain(Tail(entries[c]), e)
    BY <1>1, <2>1, StreamTypes, ChainTail DEF StreamOf, e
  <2>4. /\ Chain(Append(wire[c], e), lastSequence)
        /\ LastOf(Append(wire[c], e), lastSequence) = e
    BY <1>2, <2>1, <2>3, StreamTypes, ChainAppend DEF StreamOf
  <2> QED BY <2>1, <2>2, <2>3, <2>4 DEF StreamOf, Chain, LastOf, Follows
<1> QED BY <1>3, <1>4, <1>5, <1>6

\* The browser applies what it receives: it is the next event, whatever broke
\* before.
LEMMA ReceiveKeeps ==
  ASSUME EventsInv, NEW c \in Sockets, Receive(c)
  PROVE  EventsInv'
<1> USE DEF EventsInv
<1> DEFINE e == Head(wire[c])
<1>0. /\ UNCHANGED <<database, cursor, entries, browser, network>> /\ Live(c)
      /\ wire[c] # <<>> /\ wire' = [wire EXCEPT ![c] = Tail(wire[c])]
  BY DEF Receive, Live
<1>1. StreamOf(c)
  BY <1>0 DEF Streams
<1>2. Follows(lastSequence, e) /\ Chain(Tail(wire[c]), e)
      /\ LastOf(Tail(wire[c]), e) = LastOf(wire[c], lastSequence)
  BY <1>0, <1>1, StreamTypes, ChainTail DEF StreamOf
<1>3. e \in events /\ e \in 1 .. sequence /\ e \in 0 .. sequence
      /\ Tail(wire[c]) \in Seq(events)
  <2>1. e \in events /\ Tail(wire[c]) \in Seq(events)
    BY <1>0, StreamTypes, HeadTailProperties
  <2>2. e \in 1 .. sequence /\ sequence \in Nat
    BY <2>1, StreamTypes
  <2> QED BY <2>1, <2>2
<1>4. lastSequence' = e /\ applied' = Append(applied, e)
  BY <1>2 DEF Receive, IsNews, Follows
<1> HIDE DEF e
<1>5. EventsTypeOK'
  BY <1>0, <1>3, <1>4 DEF EventsTypeOK, database, browser, network
<1>6. OneWriter' /\ PendingAhead' /\ LiveIsCurrent' /\ LastCommitted'
  BY <1>0, <1>3, <1>4, DatabaseSame DEF database, browser, LiveIsCurrent, LastCommitted, Live
<1>7. FreshEmpty'
  BY <1>0 DEF Receive, FreshEmpty, EventsTypeOK, browser
<1>8. Streams'
  <2> SUFFICES ASSUME NEW d \in Sockets, Live(d)' PROVE StreamOf(d)'
    BY DEF Streams
  <2>1. d = c
    BY <1>0 DEF LiveIsCurrent, Live, browser
  <2>2. wire'[c] = Tail(wire[c]) /\ UNCHANGED <<events, cursor, entries>>
    BY <1>0 DEF EventsTypeOK, database
  <2> QED BY <1>1, <1>2, <1>4, <2>1, <2>2 DEF StreamOf, Chain, LastOf, Follows
<1>9. NothingMissed'
  <2> DEFINE before == {d \in events : d <= lastSequence}
  <2>1. before \in SUBSET (1 .. sequence) /\ sequence \in Nat
        /\ events \in SUBSET Nat /\ lastSequence \in Nat
    BY StreamTypes
  <2>2. \A d \in before : d < e
    BY <1>2, <1>3, <2>1 DEF Follows
  <2>3. {d \in events : d <= e} = before \cup {e}
    <3>1. \A d \in events : d <= e <=> (d <= lastSequence \/ d = e)
      <4> SUFFICES ASSUME NEW d \in events PROVE d <= e <=> (d <= lastSequence \/ d = e)
        OBVIOUS
      <4>1. d \in Nat /\ e \in Nat /\ lastSequence \in Nat /\ lastSequence < e
        BY <1>2, <1>3, <2>1 DEF Follows
      <4>2. ~(lastSequence < d /\ d < e)
        BY <1>2 DEF Follows
      <4> QED BY <4>1, <4>2
    <3> QED BY <1>3, <3>1
  <2>4. InOrder(before \cup {e}) = Append(InOrder(before), e)
    BY <1>3, <2>1, <2>2, InOrderAppend
  <2>5. events' = events
    BY <1>0 DEF database
  <2> QED BY <1>4, <2>3, <2>4, <2>5 DEF NothingMissed
<1> QED BY <1>5, <1>6, <1>7, <1>8, <1>9

-----------------------------------------------------------------------------
(* Connections that come and go.                                           *)

\* A new connection asks for what comes after the last event applied.
LEMMA ConnectKeeps ==
  ASSUME EventsInv, Connect, network' \in BOOLEAN \X (0 .. MaxBreaks), timers' \in Nat
  PROVE  EventsInv'
<1> USE DEF EventsInv
<1>0. UNCHANGED <<database, entries, wire, connected, store>>
  BY DEF Connect
<1>1. OneWriter' /\ PendingAhead' /\ LastCommitted' /\ NothingMissed'
  BY <1>0, DatabaseSame, StoreSame DEF database
<1>2. online' \in BOOLEAN /\ breaks' \in 0 .. MaxBreaks
  BY DEF network
<1>3. CASE ~SocketFree
  <2>1. UNCHANGED <<state, cursor, socket>>
    BY <1>3 DEF Connect
  <2> QED
    BY <1>0, <1>1, <1>2, <2>1, StreamsSame
    DEF EventsTypeOK, LiveIsCurrent, FreshEmpty, Live, database, store
<1>4. CASE SocketFree
  <2>1. PICK c \in Sockets : /\ state[c] = "closed"
                            /\ state' = [state EXCEPT ![c] = "connecting"]
                            /\ cursor' = [cursor EXCEPT ![c] = lastSequence]
                            /\ socket' = c
    BY <1>4 DEF Connect, ResumeFrom
  <2>2. \A d \in Sockets : ~Live(d)
    BY <1>4 DEF SocketFree, LiveIsCurrent, Live
  <2>3. EventsTypeOK'
    BY <1>0, <1>2, <2>1 DEF EventsTypeOK, database, store
  <2>4. LiveIsCurrent' /\ FreshEmpty'
    BY <1>0, <2>1, <2>2 DEF EventsTypeOK, LiveIsCurrent, FreshEmpty, Live
  <2>5. Streams'
    <3> SUFFICES ASSUME NEW d \in Sockets, Live(d)' PROVE StreamOf(d)'
      BY DEF Streams
    <3>1. d = c
      BY <2>1, <2>2 DEF EventsTypeOK, Live
    <3>2. /\ wire'[d] = <<>> /\ entries'[d] = <<>> /\ cursor'[d] = lastSequence
          /\ lastSequence' = lastSequence
      BY <1>0, <2>1, <3>1 DEF EventsTypeOK, FreshEmpty, store
    <3> QED BY <3>2 DEF StreamOf, Chain, LastOf
  <2> QED BY <1>1, <2>3, <2>4, <2>5
<1> QED BY <1>3, <1>4

LEMMA ClosedKeeps ==
  ASSUME EventsInv, NEW c \in Sockets, Closed(c), network' \in BOOLEAN \X (0 .. MaxBreaks)
  PROVE  EventsInv'
<1> USE DEF EventsInv, Closed, Retry
<1>1. OneWriter' /\ PendingAhead' /\ LastCommitted' /\ NothingMissed'
  BY DatabaseSame, StoreSame DEF database
<1>2. EventsTypeOK'
  <2>1. online' \in BOOLEAN /\ breaks' \in 0 .. MaxBreaks
    BY DEF network
  <2>2. /\ <<>> \in Seq(events)
        /\ UNCHANGED <<writing, sequence, pending, events, cursor, socket, lastSequence>>
    BY EmptySeq DEF database, store
  <2>3. entries' \in [Sockets -> Seq(events)] /\ wire' \in [Sockets -> Seq(events)]
    BY <2>2 DEF EventsTypeOK
  <2>4. timers' \in Nat
    BY DEF EventsTypeOK
  <2>5. state' \in [Sockets -> {"closed", "connecting", "open", "closing"}]
    BY DEF EventsTypeOK
  <2>6. connected' = FALSE
    OBVIOUS
  <2> QED BY <2>1, <2>2, <2>3, <2>4, <2>5, <2>6 DEF EventsTypeOK
<1>3. LiveIsCurrent' /\ FreshEmpty'
  BY DEF EventsTypeOK, LiveIsCurrent, FreshEmpty, Live
<1>4. Streams'
  BY StreamsSame DEF EventsTypeOK, Live, database, store
<1> QED BY <1>1, <1>2, <1>3, <1>4

LEMMA BrowserKeeps ==
  ASSUME EventsInv,
         \/ \E c \in Sockets : Opens(c) \/ Break(c) \/ FinishClosing(c)
         \/ TimerFires \/ GoOffline \/ GoOnline
  PROVE  EventsInv'
<1>0. network \in BOOLEAN \X (0 .. MaxBreaks) /\ timers \in Nat
      /\ (breaks < MaxBreaks => breaks + 1 \in 0 .. MaxBreaks)
  BY EventsAssumption DEF EventsInv, EventsTypeOK, network
<1>1. ASSUME NEW c \in Sockets, Opens(c) PROVE EventsInv'
  <2> USE DEF EventsInv, Opens
  <2>1. OneWriter' /\ PendingAhead' /\ LastCommitted' /\ NothingMissed'
    BY <1>1, DatabaseSame, StoreSame DEF database
  <2>2. EventsTypeOK' /\ LiveIsCurrent' /\ FreshEmpty'
    BY <1>1 DEF EventsTypeOK, LiveIsCurrent, FreshEmpty, Live, database, server, store, network
  <2>3. Streams'
    BY <1>1, StreamsSame DEF EventsTypeOK, Live, database, server, store
  <2> QED BY <2>1, <2>2, <2>3
<1>2. ASSUME NEW c \in Sockets, Break(c) \/ FinishClosing(c) PROVE EventsInv'
  BY <1>0, <1>2, ClosedKeeps DEF Break, FinishClosing, network
<1>3. CASE TimerFires
  <2>1. timers' \in Nat /\ network' \in BOOLEAN \X (0 .. MaxBreaks)
    BY <1>0, <1>3 DEF TimerFires
  <2>2. CASE online
    BY <1>3, <2>1, <2>2, ConnectKeeps DEF TimerFires
  <2>3. CASE ~online
    <3> USE DEF EventsInv
    <3>1. UNCHANGED <<database, server, state, socket, connected, store, network>>
      BY <1>3, <2>3 DEF TimerFires
    <3>2. OneWriter' /\ PendingAhead' /\ LastCommitted' /\ NothingMissed'
      BY <3>1, DatabaseSame, StoreSame DEF database
    <3>3. EventsTypeOK' /\ LiveIsCurrent' /\ FreshEmpty'
      BY <2>1, <3>1 DEF EventsTypeOK, LiveIsCurrent, FreshEmpty, Live, database, server, store, network
    <3>4. Streams'
      BY <3>1, StreamsSame DEF Live, database, server, store
    <3> QED BY <3>2, <3>3, <3>4
  <2> QED BY <2>2, <2>3
<1>4. CASE GoOffline
  <2> USE DEF EventsInv, GoOffline
  <2>1. OneWriter' /\ PendingAhead' /\ LastCommitted' /\ NothingMissed'
    BY <1>4, DatabaseSame, StoreSame DEF database
  <2>2. EventsTypeOK'
    BY <1>0, <1>4 DEF EventsTypeOK, database, server, store
  <2>3. LiveIsCurrent' /\ FreshEmpty'
    BY <1>4 DEF LiveIsCurrent, FreshEmpty, Live, server
  <2>4. Streams'
    BY <1>4, StreamsSame DEF Live, database, server, store
  <2> QED BY <2>1, <2>2, <2>3, <2>4
<1>5. CASE GoOnline
  <2>1. timers' \in Nat /\ network' \in BOOLEAN \X (0 .. MaxBreaks)
    <3>1. timers' \in Nat
      <4>1. \A t \in {timers, timers - 1} : t >= 0 => t \in Nat
        BY <1>0
      <4> QED BY <1>5, <4>1 DEF GoOnline
    <3>2. network' \in BOOLEAN \X (0 .. MaxBreaks)
      BY <1>0, <1>5 DEF GoOnline, network
    <3> QED BY <3>1, <3>2
  <2> QED BY <1>5, <2>1, ConnectKeeps DEF GoOnline
<1> QED BY <1>1, <1>2, <1>3, <1>4, <1>5

LEMMA EventsInvariant == Spec => []EventsInv
<1>1. EventsInv /\ [Next]_vars => EventsInv'
  <2> SUFFICES ASSUME EventsInv, [Next]_vars PROVE EventsInv'
    OBVIOUS
  <2>1. CASE UNCHANGED vars
    <3> USE DEF EventsInv, vars
    <3>1. OneWriter' /\ PendingAhead' /\ LastCommitted' /\ NothingMissed'
      BY <2>1, DatabaseSame, StoreSame DEF database
    <3>2. EventsTypeOK' /\ LiveIsCurrent' /\ FreshEmpty'
      BY <2>1 DEF EventsTypeOK, LiveIsCurrent, FreshEmpty, Live, database, server, browser, store, network
    <3>3. Streams'
      BY <2>1, StreamsSame DEF Live, database, server, browser, store
    <3> QED BY <3>1, <3>2, <3>3
  <2> QED
    BY <2>1, WriterKeeps, FetchKeeps, SendKeeps, ReceiveKeeps, BrowserKeeps DEF Next
<1> QED BY <1>1, InitEventsInv, PTL DEF Spec

\* Sequence numbers are drawn before they are committed, sent or applied, through
\* rollbacks, breaks and reconnects.
THEOREM EventsTypes == Spec => []EventsTypeOK
BY EventsInvariant, PTL DEF EventsInv

\* The browser has applied exactly the committed events up to its cursor, each
\* once and in order, for any number of writers, breaks and reconnects.
THEOREM NoEventMissed == Spec => []NothingMissed
BY EventsInvariant, PTL DEF EventsInv

=============================================================================
