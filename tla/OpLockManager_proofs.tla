----------------------- MODULE OpLockManager_proofs -----------------------
(***************************************************************************)
(* Proofs about the operation lock manager, for any number of sockets,     *)
(* servers, paths and locks.                                               *)
(***************************************************************************)
EXTENDS OpLockManager, FiniteSetTheorems, SequenceTheorems, TLAPS

-----------------------------------------------------------------------------
(* Facts about LastIndex, the end of a vector after its trailing entries    *)
(* are dropped.                                                             *)

\* A nonempty set of naturals has a least element.
LEMMA LeastNatural ==
  ASSUME NEW K \in SUBSET Nat, K # {}
  PROVE  \E m \in K : \A k \in K : m <= k
<1> DEFINE T == {0..k : k \in K}
           R == StrictSubsetOrdering(Nat)
           S == FiniteSubsetsOf(Nat)
<1>1. IsWellFoundedOn(R, S)
  BY FS_StrictSubsetOrderingWellFounded
<1>2. T \subseteq S
  <2>1. ASSUME NEW k \in K PROVE 0..k \in S
    <3>1. IsFiniteSet(0..k) BY FS_Interval
    <3> QED BY <3>1 DEF FiniteSubsetsOf
  <2> QED BY <2>1
<1>3. T # {} OBVIOUS
<1>4. PICK x \in T : \A y \in T : <<y, x>> \notin R
  <2> HIDE DEF T, R, S
  <2> QED BY <1>1, <1>2, <1>3, WFMin
<1>5. PICK m \in K : x = 0..m OBVIOUS
<1>6. ASSUME NEW k \in K, k < m PROVE FALSE
  <2>1. /\ 0..k \subseteq 0..m
        /\ 0..k # 0..m
        /\ 0..k \in SUBSET Nat
        /\ 0..m \in SUBSET Nat
    <3>1. m \in 0..m /\ m \notin 0..k BY <1>6
    <3> QED BY <1>6, <3>1
  <2>2. <<0..k, 0..m>> \in R BY <2>1 DEF StrictSubsetOrdering
  <2> QED BY <2>2, <1>4, <1>5
<1> QED BY <1>6

\* LastIndex of a set of indices is its greatest element, or 0.
LEMMA LastIndexProperties ==
  ASSUME NEW n \in Nat, NEW ix \in SUBSET (1..n)
  PROVE  /\ LastIndex(ix) \in 0..n
         /\ LastIndex(ix) \in ix \cup {0}
         /\ \A k \in ix : k <= LastIndex(ix)
<1> DEFINE K == {n - k : k \in ix \cup {0}}
<1>1. K \in SUBSET Nat /\ K # {} OBVIOUS
<1>2. PICK m \in K : \A k \in K : m <= k
  <2> HIDE DEF K
  <2> QED BY <1>1, LeastNatural
<1>3. PICK x \in ix \cup {0} : m = n - x OBVIOUS
<1>4. ASSUME NEW y \in ix \cup {0} PROVE x >= y
  <2>1. m <= n - y BY <1>2
  <2> QED BY <2>1, <1>3
<1>5. LastIndex(ix) \in ix \cup {0} /\ \A y \in ix \cup {0} : LastIndex(ix) >= y
  BY <1>4 DEF LastIndex, Max
<1>6. ix \cup {0} \subseteq 0..n OBVIOUS
<1> HIDE DEF K
<1>7. LastIndex(ix) \in 0..n BY <1>5, <1>6
<1>8. ASSUME NEW k \in ix PROVE k <= LastIndex(ix)
  <2>1. k \in 0..n BY <1>6
  <2>2. LastIndex(ix) >= k BY <1>5
  <2> QED BY <2>1, <2>2, <1>7
<1> QED BY <1>5, <1>7, <1>8

\* The first n entries of a vector.
LEMMA PrefixOf ==
  ASSUME NEW E, NEW q \in Seq(E), NEW n \in 0..Len(q)
  PROVE  /\ SubSeq(q, 1, n) \in Seq(E)
         /\ DOMAIN SubSeq(q, 1, n) = 1..n
         /\ \A k \in 1..n : SubSeq(q, 1, n)[k] = q[k]
<1>1. 1 \in Int /\ n \in Int /\ n \in Nat /\ \A k \in 1..n : q[k] \in E OBVIOUS
<1>2. /\ SubSeq(q, 1, n) \in Seq(E)
      /\ Len(SubSeq(q, 1, n)) = IF 1 <= n THEN n - 1 + 1 ELSE 0
      /\ \A k \in 1..n - 1 + 1 : SubSeq(q, 1, n)[k] = q[1 + k - 1]
  BY ONLY <1>1, SubSeqProperties
<1> DEFINE d == SubSeq(q, 1, n)
<1> HIDE DEF d
<1>3. Len(d) = n /\ d \in Seq(E) BY <1>1, <1>2 DEF d
<1>4. ASSUME NEW k \in 1..n PROVE d[k] = q[k]
  <2>1. k \in 1..n - 1 + 1 /\ 1 + k - 1 = k BY <1>1
  <2>2. d[k] = q[1 + k - 1] BY <1>2, <2>1 DEF d
  <2> QED BY <2>1, <2>2
<1>5. DOMAIN d = 1..n BY <1>3
<1> QED BY <1>3, <1>4, <1>5 DEF d

\* Dropping the trailing entries of a vector outside ix keeps the others where
\* they are.
LEMMA PrefixProperties ==
  ASSUME NEW E, NEW q \in Seq(E), NEW ix \in SUBSET DOMAIN q
  PROVE  LET d == SubSeq(q, 1, LastIndex(ix)) IN
         /\ d \in Seq(E)
         /\ DOMAIN d \subseteq DOMAIN q
         /\ ix \subseteq DOMAIN d
         /\ \A k \in DOMAIN d : d[k] = q[k]
<1>1. DOMAIN q = 1..Len(q) /\ Len(q) \in Nat OBVIOUS
<1>2. ix \in SUBSET (1..Len(q)) BY <1>1
<1>3. /\ LastIndex(ix) \in 0..Len(q)
      /\ \A k \in ix : k <= LastIndex(ix)
  BY <1>1, <1>2, LastIndexProperties
<1> QED BY <1>1, <1>2, <1>3, PrefixOf

\* DropLast keeps every entry but the last at its index.
LEMMA DropLastProperties ==
  ASSUME NEW E, NEW q \in Seq(E), q # <<>>
  PROVE  /\ DropLast(q) \in Seq(E)
         /\ DOMAIN DropLast(q) = 1..Len(q) - 1
         /\ \A k \in 1..Len(q) - 1 : DropLast(q)[k] = q[k]
<1>1. Len(q) - 1 \in 0..Len(q) BY EmptySeq
<1> QED BY <1>1, PrefixOf DEF DropLast

\* A sequence without indices is the empty sequence.
LEMMA EmptyDomain ==
  ASSUME NEW E, NEW q \in Seq(E), DOMAIN q = {}
  PROVE  q = <<>>
<1>1. Len(q) \in Nat /\ 1..Len(q) = {} BY LenProperties
<1>2. Len(q) = 0 BY <1>1
<1> QED BY <1>2, EmptySeq

\* The inner while loop of Unlock cuts a vector of locks down to a prefix that
\* keeps every unreleased lock at its index.
LEMMA DropReleasedProperties ==
  ASSUME NEW q \in Seq(LockInfo)
  PROVE  /\ DropReleased(q) \in Seq(LockInfo)
         /\ DOMAIN DropReleased(q) \subseteq DOMAIN q
         /\ \A k \in DOMAIN q : ~q[k].released => k \in DOMAIN DropReleased(q)
         /\ \A k \in DOMAIN DropReleased(q) : DropReleased(q)[k] = q[k]
<1> DEFINE ix == {k \in DOMAIN q : ~q[k].released}
<1>1. ix \in SUBSET DOMAIN q OBVIOUS
<1>2. \A k \in DOMAIN q : ~q[k].released => k \in ix OBVIOUS
<1>3. DropReleased(q) = SubSeq(q, 1, LastIndex(ix)) BY DEF DropReleased
<1> HIDE DEF ix
<1> QED BY <1>1, <1>2, <1>3, PrefixProperties

\* The outer while loop of Unlock cuts the slot vector down to a prefix that
\* keeps every slot of a socket at its index.
LEMMA DropVacatedProperties ==
  ASSUME NEW q \in Seq(Slot)
  PROVE  /\ DropVacated(q) \in Seq(Slot)
         /\ DOMAIN DropVacated(q) \subseteq DOMAIN q
         /\ \A i \in DOMAIN q : q[i].socket # NoSocket => i \in DOMAIN DropVacated(q)
         /\ \A i \in DOMAIN DropVacated(q) : DropVacated(q)[i] = q[i]
<1> DEFINE ix == {i \in DOMAIN q : q[i].socket # NoSocket}
<1>1. ix \in SUBSET DOMAIN q OBVIOUS
<1>2. \A i \in DOMAIN q : q[i].socket # NoSocket => i \in ix OBVIOUS
<1>3. DropVacated(q) = SubSeq(q, 1, LastIndex(ix)) BY DEF DropVacated
<1> HIDE DEF ix
<1> QED BY <1>1, <1>2, <1>3, PrefixProperties

\* A slot vector in which one slot is replaced.
LEMMA ReplaceSlot ==
  ASSUME slots \in Seq(Slot), NEW i \in DOMAIN slots, NEW x \in Slot,
         NEW t, t = [slots EXCEPT ![i] = x]
  PROVE  /\ t \in Seq(Slot)
         /\ DOMAIN t = DOMAIN slots
         /\ t[i] = x
         /\ \A a \in DOMAIN slots \ {i} : t[a] = slots[a]
OBVIOUS

-----------------------------------------------------------------------------
(* The inductive invariant.  Beyond the properties themselves: a socket has *)
(* one slot, a vacated slot is empty, and a lock that was released does not *)
(* wait, so that what Unlock drops is neither granted nor waiting.          *)

UniqueSlots ==
  \A i, j \in DOMAIN slots :
     slots[i].socket \in Sockets /\ slots[i].socket = slots[j].socket => i = j
VacatedEmpty ==
  \A i \in DOMAIN slots : slots[i].socket = NoSocket => slots[i].locks = <<>>
ReleasedNotWaiting ==
  \A i \in DOMAIN slots : \A k \in DOMAIN slots[i].locks :
     slots[i].locks[k].released => ~slots[i].locks[k].waiting

IInv ==
  /\ TypeOK
  /\ UniqueSlots
  /\ VacatedEmpty
  /\ ReleasedNotWaiting
  /\ HandlesExact
  /\ MutualExclusion
  /\ NoLostWakeup

\* A place is a lock that is not released.
LEMMA PlacesDef ==
  ASSUME NEW i, NEW k
  PROVE  <<i, k>> \in Places <=> /\ i \in DOMAIN slots
                                /\ k \in DOMAIN slots[i].locks
                                /\ ~slots[i].locks[k].released
BY DEF Places

\* Unlock disturbs no other lock: the entries that remain are those of the old
\* table except the one given up, and every other unreleased lock remains.
LEMMA UnlockFrame ==
  ASSUME TypeOK, VacatedEmpty, NEW i, NEW k, <<i, k>> \in Places,
         NEW t, t = SlotsWithout(i, k)
  PROVE  /\ t \in Seq(Slot)
         /\ DOMAIN t \subseteq DOMAIN slots
         /\ \A a \in DOMAIN t :
               /\ \/ t[a].socket = slots[a].socket
                  \/ t[a].socket = NoSocket /\ t[a].locks = <<>>
               /\ DOMAIN t[a].locks \subseteq DOMAIN slots[a].locks
               /\ \A b \in DOMAIN t[a].locks :
                     IF a = i /\ b = k
                     THEN t[a].locks[b].released /\ ~t[a].locks[b].waiting
                     ELSE t[a].locks[b] = slots[a].locks[b]
         /\ \A a \in DOMAIN slots : \A b \in DOMAIN slots[a].locks :
               ~slots[a].locks[b].released /\ <<a, b>> # <<i, k>>
               => a \in DOMAIN t /\ b \in DOMAIN t[a].locks
<1> DEFINE q == slots[i].locks
           rest == DropReleased(DropLast(q))
<1>1. /\ i \in DOMAIN slots /\ k \in DOMAIN q /\ ~q[k].released
      /\ slots \in Seq(Slot) /\ slots[i] \in Slot /\ q \in Seq(LockInfo)
      /\ DOMAIN slots = 1..Len(slots) /\ Len(slots) \in Nat
      /\ DOMAIN q = 1..Len(q) /\ Len(q) \in Nat /\ q # <<>>
  <2>1. i \in DOMAIN slots /\ k \in DOMAIN q /\ ~q[k].released BY PlacesDef
  <2>2. slots \in Seq(Slot) /\ slots[i] \in Slot BY <2>1 DEF TypeOK
  <2>3. q \in Seq(LockInfo) BY <2>2 DEF Slot
  <2> QED BY <2>1, <2>2, <2>3
<1>2. slots[i] = [socket |-> slots[i].socket, locks |-> q] /\ slots[i].socket \in Sockets \cup {NoSocket}
  BY <1>1 DEF Slot
<1>3. CASE k < Len(q)
  <2> DEFINE e == AsReleased(q[k])
             q1 == [q EXCEPT ![k] = e]
             x == [socket |-> slots[i].socket, locks |-> q1]
  <2>1. t = [slots EXCEPT ![i].locks[k] = AsReleased(@)]
    BY <1>3 DEF SlotsWithout
  <2>2. e \in LockInfo /\ e.released /\ ~e.waiting
    <3>1. q[k] \in LockInfo BY <1>1
    <3> QED BY <3>1 DEF LockInfo, AsReleased
  <2>3. q1 \in Seq(LockInfo) /\ DOMAIN q1 = DOMAIN q
    <3> HIDE DEF e, q
    <3> QED BY <2>2, <1>1
  <2>3a. t = [slots EXCEPT ![i] = x]
    BY <2>1, <1>1, <1>2
  <2>4. q1[k].released /\ ~q1[k].waiting /\ \A b \in DOMAIN q \ {k} : q1[b] = q[b]
    BY <1>1, <2>2
  <2>5. x \in Slot /\ x.socket = slots[i].socket /\ x.locks = q1 BY <2>3, <1>2 DEF Slot
  <2> HIDE DEF q1, x, q
  <2>6. /\ t \in Seq(Slot) /\ DOMAIN t = DOMAIN slots /\ t[i] = x
        /\ \A a \in DOMAIN slots \ {i} : t[a] = slots[a]
    BY <2>3a, <2>5, <1>1, ReplaceSlot
  <2> QED BY <2>3, <2>4, <2>5, <2>6, <1>1, ZenonT(60) DEF q
<1>4. CASE ~(k < Len(q))
  <2>0. k = Len(q) /\ k \in Nat \ {0} BY <1>1, <1>4
  <2>1. /\ DropLast(q) \in Seq(LockInfo)
        /\ DOMAIN DropLast(q) = 1..k - 1
        /\ \A b \in 1..k - 1 : DropLast(q)[b] = q[b]
    BY <1>1, <2>0, DropLastProperties
  <2>2. /\ rest \in Seq(LockInfo)
        /\ DOMAIN rest \subseteq 1..k - 1
        /\ \A b \in 1..k - 1 : ~q[b].released => b \in DOMAIN rest
        /\ \A b \in DOMAIN rest : rest[b] = q[b]
    BY <2>1, DropReleasedProperties
  <2>3. CASE rest # <<>>
    <3> DEFINE x == [socket |-> slots[i].socket, locks |-> rest]
    <3>1. t = [slots EXCEPT ![i].locks = rest] BY <1>4, <2>3 DEF SlotsWithout
    <3> HIDE DEF rest
    <3>2. t = [slots EXCEPT ![i] = x] BY <3>1, <1>1, <1>2
    <3>3. x \in Slot /\ x.socket = slots[i].socket /\ x.locks = rest BY <2>2, <1>2 DEF Slot
    <3> HIDE DEF x, q
    <3>4. /\ t \in Seq(Slot) /\ DOMAIN t = DOMAIN slots /\ t[i] = x
          /\ \A a \in DOMAIN slots \ {i} : t[a] = slots[a]
      BY <3>2, <3>3, <1>1, ReplaceSlot
    <3> QED BY <3>3, <3>4, <2>0, <2>2, <1>1, SMTT(30) DEF q
  <2>4. CASE rest = <<>> /\ i < Len(slots)
    <3> DEFINE x == [socket |-> NoSocket, locks |-> <<>>]
    <3>1. t = [slots EXCEPT ![i] = x] BY <1>4, <2>4 DEF SlotsWithout
    <3>2. x \in Slot /\ x.socket = NoSocket /\ x.locks = <<>> BY DEF Slot
    <3> HIDE DEF x, q, rest
    <3>3. /\ t \in Seq(Slot) /\ DOMAIN t = DOMAIN slots /\ t[i] = x
          /\ \A a \in DOMAIN slots \ {i} : t[a] = slots[a]
      BY <3>1, <3>2, <1>1, ReplaceSlot
    <3>4. \A b \in 1..k - 1 : q[b].released BY <2>2, <2>4
    <3> QED BY <3>2, <3>3, <3>4, <2>0, <1>1 DEF q
  <2>5. CASE rest = <<>> /\ ~(i < Len(slots))
    <3>1. t = DropVacated(DropLast(slots)) BY <1>4, <2>5 DEF SlotsWithout
    <3> DEFINE p == DropLast(slots)
    <3>2. /\ p \in Seq(Slot) /\ DOMAIN p = 1..i - 1
          /\ \A a \in 1..i - 1 : p[a] = slots[a]
      <4>1. slots # <<>> /\ i = Len(slots) BY <1>1, <2>5
      <4> QED BY <4>1, <1>1, DropLastProperties
    <3>3. /\ t \in Seq(Slot) /\ DOMAIN t \subseteq DOMAIN p
          /\ \A a \in DOMAIN p : p[a].socket # NoSocket => a \in DOMAIN t
          /\ \A a \in DOMAIN t : t[a] = p[a]
      BY <3>1, <3>2, DropVacatedProperties
    <3> HIDE DEF p, q, rest
    <3>4. \A b \in 1..k - 1 : q[b].released BY <2>2, <2>5
    <3>5. ASSUME NEW a \in DOMAIN slots, slots[a].locks # <<>>, a # i PROVE a \in DOMAIN t
      <4>1. a \in 1..i - 1 BY <3>5, <1>1, <2>5
      <4>2. slots[a].socket # NoSocket BY <3>5 DEF VacatedEmpty
      <4> QED BY <4>1, <4>2, <3>2, <3>3
    <3>6. \A a \in DOMAIN t : a \in DOMAIN slots \ {i} /\ t[a] = slots[a]
      BY <3>2, <3>3, <1>1
    <3>7. \A b \in DOMAIN q : ~q[b].released => b = k BY <3>4, <1>1, <2>0
    <3>8. ASSUME NEW a \in DOMAIN slots, NEW b \in DOMAIN slots[a].locks,
                 ~slots[a].locks[b].released, <<a, b>> # <<i, k>>
          PROVE  a \in DOMAIN t /\ b \in DOMAIN t[a].locks
      <4>1. a # i BY <3>7, <3>8 DEF q
      <4>2. slots[a].locks # <<>> BY <3>8
      <4> QED BY <4>1, <4>2, <3>5, <3>6
    <3> QED BY <3>3, <3>6, <3>8
  <2> QED BY <2>3, <2>4, <2>5
<1> QED BY <1>3, <1>4

\* The slot of a socket is found or appended, and nothing else changes.
LEMMA SlotsWithProperties ==
  ASSUME TypeOK, NEW s \in Sockets,
         NEW all, all = SlotsWith(s),
         NEW i, i = CHOOSE j \in DOMAIN all : all[j].socket = s
  PROVE  /\ all \in Seq(Slot)
         /\ i \in DOMAIN all
         /\ all[i].socket = s
         /\ DOMAIN slots \subseteq DOMAIN all
         /\ \A a \in DOMAIN slots : all[a] = slots[a]
         /\ \A a \in DOMAIN all \ DOMAIN slots :
               /\ a = i
               /\ all[a].locks = <<>>
               /\ \A b \in DOMAIN slots : slots[b].socket # s
<1>1. slots \in Seq(Slot) BY DEF TypeOK
<1>2. CASE \E a \in DOMAIN slots : slots[a].socket = s
  <2>1. all = slots BY <1>2 DEF SlotsWith
  <2> QED BY <1>1, <1>2, <2>1
<1>3. CASE ~\E a \in DOMAIN slots : slots[a].socket = s
  <2> DEFINE x == [socket |-> s, locks |-> <<>>]
  <2>1. all = Append(slots, x) BY <1>3 DEF SlotsWith
  <2>2. x \in Slot /\ x.socket = s /\ x.locks = <<>> BY DEF Slot
  <2> HIDE DEF x
  <2>3. /\ all \in Seq(Slot)
        /\ DOMAIN all = DOMAIN slots \cup {Len(slots) + 1}
        /\ Len(slots) + 1 \notin DOMAIN slots
        /\ \A a \in DOMAIN slots : all[a] = slots[a]
        /\ all[Len(slots) + 1] = x
    BY <2>1, <2>2, <1>1, AppendProperties
  <2>4. \A a \in DOMAIN all : all[a].socket = s <=> a = Len(slots) + 1
    BY <1>3, <2>2, <2>3
  <2>5. i = Len(slots) + 1 BY <2>3, <2>4
  <2> QED BY <1>3, <2>2, <2>3, <2>5
<1> QED BY <1>2, <1>3

\* What Lock does to the table: the lock becomes entry n of slot i, the slot of
\* the socket.
Appended(s, r, i, n) ==
  /\ slots' \in Seq(Slot)
  /\ DOMAIN slots \subseteq DOMAIN slots'
  /\ i \in DOMAIN slots'
  /\ slots'[i].socket = s
  /\ \A a \in DOMAIN slots' : a # i => a \in DOMAIN slots /\ slots'[a] = slots[a]
  /\ i \notin DOMAIN slots => \A b \in DOMAIN slots : slots[b].socket # s
  /\ i \in DOMAIN slots =>
        /\ slots[i].socket = s
        /\ n \notin DOMAIN slots[i].locks
        /\ DOMAIN slots[i].locks \subseteq DOMAIN slots'[i].locks
  /\ n \in DOMAIN slots'[i].locks
  /\ \A b \in DOMAIN slots'[i].locks : b # n =>
        /\ i \in DOMAIN slots
        /\ b \in DOMAIN slots[i].locks
        /\ slots'[i].locks[b] = slots[i].locks[b]
  /\ slots'[i].locks[n] = [req |-> r, waiting |-> Contended(s, r), released |-> FALSE]
  /\ i \in Nat /\ n \in Nat
  /\ handles' = [handles EXCEPT ![s] = @ \cup {<<i, n>>}]

\* Lock appends one unreleased lock to the slot of its socket and leaves every
\* other lock where it was.
LEMMA LockFrame ==
  ASSUME TypeOK, VacatedEmpty, NEW s \in Sockets, NEW r \in Requests, Lock(s, r)
  PROVE  \E i, n : Appended(s, r, i, n)
<1> DEFINE all == SlotsWith(s)
           i == CHOOSE j \in DOMAIN all : all[j].socket = s
           n == Len(all[i].locks) + 1
           info == [req |-> r, waiting |-> Contended(s, r), released |-> FALSE]
           q == Append(all[i].locks, info)
           x == [socket |-> s, locks |-> q]
<1>1. /\ slots' = [all EXCEPT ![i].locks = q]
      /\ handles' = [handles EXCEPT ![s] = @ \cup {<<i, n>>}]
  BY DEF Lock
<1>2. /\ all \in Seq(Slot)
      /\ i \in DOMAIN all
      /\ all[i].socket = s
      /\ DOMAIN slots \subseteq DOMAIN all
      /\ \A a \in DOMAIN slots : all[a] = slots[a]
      /\ \A a \in DOMAIN all \ DOMAIN slots :
            /\ a = i
            /\ all[a].locks = <<>>
            /\ \A b \in DOMAIN slots : slots[b].socket # s
  BY SlotsWithProperties
<1>3. info \in LockInfo
  <2>1. Contended(s, r) \in BOOLEAN BY DEF Contended
  <2> QED BY <2>1 DEF LockInfo
<1>3a. info = [req |-> r, waiting |-> Contended(s, r), released |-> FALSE] OBVIOUS
<1> HIDE DEF all, i, info
<1>4. all[i] \in Slot /\ all[i].locks \in Seq(LockInfo) /\ all[i] = [socket |-> s, locks |-> all[i].locks]
  <2>1. all[i] \in Slot BY <1>2
  <2> QED BY <2>1, <1>2 DEF Slot
<1>5. /\ q \in Seq(LockInfo)
      /\ DOMAIN q = DOMAIN all[i].locks \cup {n}
      /\ n \notin DOMAIN all[i].locks
      /\ n \in Nat
      /\ \A b \in DOMAIN all[i].locks : q[b] = all[i].locks[b]
      /\ q[n] = info
  BY <1>3, <1>4, AppendProperties
<1> HIDE DEF q, n
<1>6. slots' = [all EXCEPT ![i] = x]
  <2>1. x = [all[i] EXCEPT !.locks = q] BY <1>4
  <2> QED BY <2>1, <1>1, <1>2
<1>7. x \in Slot /\ x.socket = s /\ x.locks = q BY <1>5 DEF Slot
<1> HIDE DEF x
<1>8. /\ slots' \in Seq(Slot) /\ DOMAIN slots' = DOMAIN all /\ slots'[i] = x
      /\ \A a \in DOMAIN all \ {i} : slots'[a] = all[a]
  BY <1>6, <1>7, <1>2
<1>9. i \in Nat BY <1>2
<1>10. \A b \in DOMAIN x.locks : b # n =>
               /\ i \in DOMAIN slots
               /\ b \in DOMAIN slots[i].locks
               /\ x.locks[b] = slots[i].locks[b]
  BY <1>2, <1>5, <1>7
<1>11. i \in DOMAIN slots =>
               /\ slots[i].socket = s
               /\ n \notin DOMAIN slots[i].locks
               /\ DOMAIN slots[i].locks \subseteq DOMAIN x.locks
  BY <1>2, <1>5, <1>7
<1>12. \A a \in DOMAIN slots' : a # i => a \in DOMAIN slots /\ slots'[a] = slots[a]
  BY <1>2, <1>8
<1>13. n \in DOMAIN x.locks /\ x.locks[n] = info BY <1>5, <1>7
<1>14. i \notin DOMAIN slots => \A b \in DOMAIN slots : slots[b].socket # s BY <1>2
<1>15. Appended(s, r, i, n)
  BY <1>1, <1>2, <1>3a, <1>5, <1>7, <1>8, <1>9, <1>10, <1>11, <1>12, <1>13, <1>14, ZenonT(60) DEF Appended
<1> QED BY <1>15

\* What OnObtainLock does to the table: it grants waiting locks of the socket
\* that no other slot blocks.
LEMMA ObtainFrame ==
  ASSUME TypeOK, NEW s \in Sockets, OnObtainLock(s)
  PROVE  /\ slots' \in Seq(Slot)
         /\ DOMAIN slots' = DOMAIN slots
         /\ \A a \in DOMAIN slots :
               /\ slots'[a].socket = slots[a].socket
               /\ DOMAIN slots'[a].locks = DOMAIN slots[a].locks
               /\ \A b \in DOMAIN slots[a].locks :
                     slots'[a].locks[b] =
                       IF /\ slots[a].socket = s
                          /\ slots[a].locks[b].waiting
                          /\ ~BlockedInSlot(a, slots[a].locks[b].req)
                       THEN AsGranted(slots[a].locks[b]) ELSE slots[a].locks[b]
<1> DEFINE New(a, b) == IF /\ slots[a].locks[b].waiting
                          /\ ~BlockedInSlot(a, slots[a].locks[b].req)
                        THEN AsGranted(slots[a].locks[b]) ELSE slots[a].locks[b]
           Locks(a) == [b \in DOMAIN slots[a].locks |-> New(a, b)]
           X(a) == IF slots[a].socket # s THEN slots[a]
                   ELSE [slots[a] EXCEPT !.locks = Locks(a)]
<1>1. slots' = [a \in DOMAIN slots |-> X(a)] BY DEF OnObtainLock
<1>2. slots \in Seq(Slot) BY DEF TypeOK
<1>3. ASSUME NEW a \in DOMAIN slots
      PROVE  /\ X(a) \in Slot
             /\ X(a).socket = slots[a].socket
             /\ DOMAIN X(a).locks = DOMAIN slots[a].locks
             /\ \A b \in DOMAIN slots[a].locks :
                  X(a).locks[b] = IF slots[a].socket = s THEN New(a, b) ELSE slots[a].locks[b]
  <2>0. slots[a] \in Slot BY <1>2
  <2>1. slots[a] \in Slot /\ slots[a].locks \in Seq(LockInfo) BY <2>0 DEF Slot
  <2>2. ASSUME NEW b \in DOMAIN slots[a].locks PROVE New(a, b) \in LockInfo
    <3>1. slots[a].locks[b] \in LockInfo BY <2>1
    <3>2. AsGranted(slots[a].locks[b]) \in LockInfo BY <3>1 DEF AsGranted, LockInfo
    <3> QED BY <3>1, <3>2
  <2> HIDE DEF New
  <2>3. Locks(a) \in Seq(LockInfo) /\ DOMAIN Locks(a) = DOMAIN slots[a].locks
        /\ \A b \in DOMAIN slots[a].locks : Locks(a)[b] = New(a, b)
    BY <2>1, <2>2, IsASeq
  <2> HIDE DEF Locks
  <2>4. CASE slots[a].socket = s
    BY <2>1, <2>3, <2>4 DEF Slot
  <2>5. CASE slots[a].socket # s
    BY <2>1, <2>5
  <2> QED BY <2>4, <2>5
<1> HIDE DEF X
<1>4. slots' \in Seq(Slot) BY <1>1, <1>2, <1>3, IsASeq
<1> QED BY <1>1, <1>3, <1>4

-----------------------------------------------------------------------------
(* The invariant holds initially and every step preserves it.               *)

\* The order in which two requests are compared does not matter: Lock and
\* ObtainWaiting test it from different sides.
LEMMA ConflictSymmetric ==
  ASSUME NEW a, NEW b
  PROVE  Conflict(a, b) <=> Conflict(b, a)
BY DEF Conflict

\* The empty table satisfies the inductive invariant.
LEMMA InitInvariant == Init => IInv
<1> SUFFICES ASSUME Init PROVE IInv OBVIOUS
<1>1. slots = <<>> /\ DOMAIN slots = {} BY DEF Init
<1>2. TypeOK BY <1>1 DEF Init, TypeOK
<1>3. HandlesExact BY <1>1 DEF Init, HandlesExact, Places
<1> QED BY <1>1, <1>2, <1>3
    DEF IInv, UniqueSlots, VacatedEmpty, ReleasedNotWaiting, MutualExclusion, NoLostWakeup

\* OpLockManager::Lock preserves the inductive invariant.
LEMMA LockInvariant ==
  ASSUME IInv, NEW s \in Sockets, NEW r \in Requests, Lock(s, r)
  PROVE  IInv'
<1>1. /\ TypeOK /\ UniqueSlots /\ VacatedEmpty /\ ReleasedNotWaiting
      /\ HandlesExact /\ MutualExclusion /\ NoLostWakeup
  BY DEF IInv
<1>2a. PICK i, n : Appended(s, r, i, n) BY <1>1, LockFrame
<1>2. /\ slots' \in Seq(Slot)
      /\ DOMAIN slots \subseteq DOMAIN slots'
      /\ i \in DOMAIN slots'
      /\ slots'[i].socket = s
      /\ \A a \in DOMAIN slots' : a # i => a \in DOMAIN slots /\ slots'[a] = slots[a]
      /\ i \notin DOMAIN slots => \A b \in DOMAIN slots : slots[b].socket # s
      /\ i \in DOMAIN slots =>
            /\ slots[i].socket = s
            /\ n \notin DOMAIN slots[i].locks
            /\ DOMAIN slots[i].locks \subseteq DOMAIN slots'[i].locks
      /\ n \in DOMAIN slots'[i].locks
      /\ \A b \in DOMAIN slots'[i].locks : b # n =>
            /\ i \in DOMAIN slots
            /\ b \in DOMAIN slots[i].locks
            /\ slots'[i].locks[b] = slots[i].locks[b]
      /\ slots'[i].locks[n] = [req |-> r, waiting |-> Contended(s, r), released |-> FALSE]
      /\ i \in Nat /\ n \in Nat
      /\ handles' = [handles EXCEPT ![s] = @ \cup {<<i, n>>}]
  BY <1>2a DEF Appended
<1> DEFINE l == slots'[i].locks[n]
<1>3. l.req = r /\ l.waiting = Contended(s, r) /\ l.released = FALSE BY <1>2
<1>4. events' = events BY DEF Lock
<1>5. \A a \in DOMAIN slots' : \A b \in DOMAIN slots'[a].locks : <<a, b>> # <<i, n>> =>
         /\ a \in DOMAIN slots
         /\ slots'[a].socket = slots[a].socket
         /\ b \in DOMAIN slots[a].locks
         /\ slots'[a].locks[b] = slots[a].locks[b]
  BY <1>2
<1>6. \A a \in DOMAIN slots : \A b \in DOMAIN slots[a].locks :
         /\ a \in DOMAIN slots'
         /\ b \in DOMAIN slots'[a].locks
         /\ slots'[a].socket = slots[a].socket
         /\ slots'[a].locks[b] = slots[a].locks[b]
  BY <1>2
<1>7. TypeOK'
  <2>1. i \in Index /\ n \in Index
    <3> DEFINE q == slots'
    <3>1. q \in Seq(Slot) /\ i \in DOMAIN q /\ n \in DOMAIN q[i].locks BY <1>2
    <3> HIDE DEF q
    <3>2. q[i] \in Slot /\ i \in Nat /\ i # 0 BY <3>1
    <3>3. q[i].locks \in Seq(LockInfo) BY <3>2 DEF Slot
    <3>4. n \in Nat /\ n # 0 BY <3>1, <3>3
    <3> QED BY <3>2, <3>4 DEF Index
  <2>2. handles' \in [Sockets -> SUBSET (Index \X Index)] BY <1>1, <1>2, <2>1 DEF TypeOK
  <2> QED BY <2>2, <1>1, <1>2, <1>4 DEF TypeOK
<1>8. UniqueSlots' BY <1>1, <1>2 DEF UniqueSlots
<1>9. VacatedEmpty' BY <1>1, <1>2, NullAssumption DEF VacatedEmpty
<1>10. ReleasedNotWaiting' BY <1>1, <1>3, <1>5 DEF ReleasedNotWaiting
<1>11. HandlesExact'
  <2> SUFFICES ASSUME NEW t \in Sockets
               PROVE  handles'[t] = {h \in Places' : slots'[h[1]].socket = t}
    BY DEF HandlesExact
  <2>1. handles[t] = {h \in Places : slots[h[1]].socket = t} BY <1>1 DEF HandlesExact
  <2>2. handles'[t] = IF t = s THEN handles[t] \cup {<<i, n>>} ELSE handles[t]
    BY <1>1, <1>2 DEF TypeOK
  <2>3. ASSUME NEW a, NEW b
        PROVE  <<a, b>> \in Places' <=> <<a, b>> \in Places \/ <<a, b>> = <<i, n>>
    <3>1. <<a, b>> \in Places' <=> /\ a \in DOMAIN slots' /\ b \in DOMAIN slots'[a].locks
                                  /\ ~slots'[a].locks[b].released
      BY DEF Places
    <3> QED BY <3>1, <1>2, <1>3, <1>5, <1>6, PlacesDef
  <2>4. (\A h \in Places : h = <<h[1], h[2]>>) /\ (\A h \in Places' : h = <<h[1], h[2]>>)
    BY DEF Places
  <2>5. <<i, n>> \in Places' BY <2>3
  <2>6. <<i, n>> \notin Places BY <1>2, PlacesDef
  <2>7. \A h \in Places : slots'[h[1]].socket = slots[h[1]].socket
    BY <1>6, <2>4, PlacesDef
  <2>8. Places' = Places \cup {<<i, n>>} BY <2>3, <2>4, <2>5
  <2>9. slots'[<<i, n>>[1]].socket = s BY <1>2
  <2> QED BY <2>1, <2>2, <2>7, <2>8, <2>9
<1>12. MutualExclusion'
  <2> SUFFICES ASSUME NEW a \in DOMAIN slots', NEW b \in DOMAIN slots', a # b,
                      slots'[a].socket \in Sockets, slots'[b].socket \in Sockets,
                      ServerOf[slots'[a].socket] = ServerOf[slots'[b].socket],
                      NEW k \in DOMAIN slots'[a].locks, NEW m \in DOMAIN slots'[b].locks,
                      Held(slots'[a].locks[k]), Held(slots'[b].locks[m]),
                      Conflict(slots'[b].locks[m].req, slots'[a].locks[k].req)
               PROVE  FALSE
    BY DEF MutualExclusion, HeldAgainst, Held
  <2>1. CASE <<a, k>> # <<i, n>> /\ <<b, m>> # <<i, n>>
    BY <2>1, <1>1, <1>5 DEF MutualExclusion, HeldAgainst
  <2>2. ASSUME NEW c \in DOMAIN slots', c # i, slots'[c].socket \in Sockets,
               ServerOf[slots'[c].socket] = ServerOf[s],
               NEW d \in DOMAIN slots'[c].locks,
               Held(slots'[c].locks[d]), Held(l),
               Conflict(slots'[c].locks[d].req, r)
        PROVE  FALSE
    <3>1. c \in DOMAIN slots /\ d \in DOMAIN slots[c].locks /\ slots'[c] = slots[c]
      BY <2>2, <1>2
    <3>2. slots[c].socket # s BY <2>2, <3>1, <1>1, <1>2 DEF UniqueSlots
    <3>3. Contended(s, r) BY <2>2, <3>1, <3>2 DEF Contended, HeldAgainst
    <3> QED BY <3>3, <2>2, <1>3 DEF Held
  <2>3. CASE <<a, k>> = <<i, n>> BY <2>2, <2>3, <1>2, <1>3
  <2>4. CASE <<b, m>> = <<i, n>> BY <2>2, <2>4, <1>2, <1>3, ConflictSymmetric
  <2> QED BY <2>1, <2>3, <2>4
<1>13. NoLostWakeup'
  <2> SUFFICES ASSUME NEW a \in DOMAIN slots', NEW k \in DOMAIN slots'[a].locks,
                      slots'[a].locks[k].waiting,
                      ~BlockedInSlot(a, slots[a].locks[k].req)'
               PROVE  events'[slots'[a].socket] > 0
    BY DEF NoLostWakeup, BlockedInSlot, HeldAgainst
  <2>1. CASE <<a, k>> = <<i, n>>
    <3>1. PICK c \in DOMAIN slots : slots[c].socket # s /\ HeldAgainst(c, r)
      BY <2>1, <1>3 DEF Contended
    <3>2. PICK d \in DOMAIN slots[c].locks :
             Held(slots[c].locks[d]) /\ Conflict(slots[c].locks[d].req, r)
      BY <3>1 DEF HeldAgainst
    <3>3. c # i /\ c \in DOMAIN slots' /\ d \in DOMAIN slots'[c].locks
          /\ slots'[c].locks[d] = slots[c].locks[d]
      BY <3>1, <1>2, <1>6
    <3> QED BY <2>1, <3>2, <3>3, <1>3 DEF BlockedInSlot, HeldAgainst, Held
  <2>2. CASE <<a, k>> # <<i, n>>
    <3>1. /\ a \in DOMAIN slots /\ k \in DOMAIN slots[a].locks
          /\ slots'[a].socket = slots[a].socket
          /\ slots'[a].locks[k] = slots[a].locks[k]
      BY <2>2, <1>5
    <3>2. ASSUME NEW c \in DOMAIN slots, c # a, NEW d \in DOMAIN slots[c].locks,
                 Held(slots[c].locks[d]), Conflict(slots[c].locks[d].req, slots[a].locks[k].req)
          PROVE  FALSE
      BY <3>1, <3>2, <1>6 DEF BlockedInSlot, HeldAgainst, Held
    <3>3. ~BlockedInSlot(a, slots[a].locks[k].req) BY <3>2 DEF BlockedInSlot, HeldAgainst
    <3> QED BY <3>1, <3>3, <1>1, <1>4 DEF NoLostWakeup
  <2> QED BY <2>1, <2>2
<1> QED BY <1>7, <1>8, <1>9, <1>10, <1>11, <1>12, <1>13 DEF IInv

\* OpLockManager::Unlock with its Wakeup preserves the inductive invariant.
LEMMA UnlockInvariant ==
  ASSUME IInv, NEW s \in Sockets, NEW h \in handles[s], Unlock(s, h)
  PROVE  IInv'
<1>1. /\ TypeOK /\ UniqueSlots /\ VacatedEmpty /\ ReleasedNotWaiting
      /\ HandlesExact /\ MutualExclusion /\ NoLostWakeup
  BY DEF IInv
<1>2. h \in Places /\ slots[h[1]].socket = s BY <1>1 DEF HandlesExact
<1>3. PICK i, k : h = <<i, k>> BY <1>2 DEF Places
<1>4. i \in DOMAIN slots /\ k \in DOMAIN slots[i].locks /\ ~slots[i].locks[k].released
      /\ slots[i].socket = s
  BY <1>2, <1>3, PlacesDef
<1>5. /\ slots' \in Seq(Slot)
      /\ DOMAIN slots' \subseteq DOMAIN slots
      /\ \A a \in DOMAIN slots' :
            /\ \/ slots'[a].socket = slots[a].socket
               \/ slots'[a].socket = NoSocket /\ slots'[a].locks = <<>>
            /\ DOMAIN slots'[a].locks \subseteq DOMAIN slots[a].locks
            /\ \A b \in DOMAIN slots'[a].locks :
                  IF a = i /\ b = k
                  THEN slots'[a].locks[b].released /\ ~slots'[a].locks[b].waiting
                  ELSE slots'[a].locks[b] = slots[a].locks[b]
      /\ \A a \in DOMAIN slots : \A b \in DOMAIN slots[a].locks :
            ~slots[a].locks[b].released /\ <<a, b>> # <<i, k>>
            => a \in DOMAIN slots' /\ b \in DOMAIN slots'[a].locks
  <2>1. slots' = SlotsWithout(i, k) BY <1>3 DEF Unlock
  <2>2. <<i, k>> \in Places BY <1>2, <1>3
  <2> QED BY <2>1, <2>2, <1>1, UnlockFrame
<1>6. handles' = [handles EXCEPT ![s] = @ \ {<<i, k>>}] BY <1>3 DEF Unlock
<1>7. events' = IF slots[i].locks[k].waiting THEN events
                ELSE [t \in Sockets |-> IF Waiting(t)' THEN events[t] + 1 ELSE events[t]]
  BY <1>3 DEF Unlock
<1>8. \A a \in DOMAIN slots' : \A b \in DOMAIN slots'[a].locks :
        ~slots'[a].locks[b].released =>
          /\ <<a, b>> # <<i, k>>
          /\ a \in DOMAIN slots /\ b \in DOMAIN slots[a].locks
          /\ slots'[a].socket = slots[a].socket
          /\ slots'[a].locks[b] = slots[a].locks[b]
  BY <1>5
<1>9. \A a \in DOMAIN slots : \A b \in DOMAIN slots[a].locks :
        ~slots[a].locks[b].released /\ <<a, b>> # <<i, k>> =>
          /\ a \in DOMAIN slots' /\ b \in DOMAIN slots'[a].locks
          /\ slots'[a].socket = slots[a].socket
          /\ slots'[a].locks[b] = slots[a].locks[b]
  BY <1>5
<1>10. TypeOK'
  <2>1. handles' \in [Sockets -> SUBSET (Index \X Index)] BY <1>1, <1>6 DEF TypeOK
  <2>2. events' \in [Sockets -> Nat] BY <1>1, <1>7 DEF TypeOK
  <2> QED BY <2>1, <2>2, <1>5 DEF TypeOK
<1>11. UniqueSlots' BY <1>1, <1>5, NullAssumption DEF UniqueSlots
<1>12. VacatedEmpty'
  <2> SUFFICES ASSUME NEW a \in DOMAIN slots', slots'[a].socket = NoSocket
               PROVE  slots'[a].locks = <<>>
    BY DEF VacatedEmpty
  <2>1. CASE slots'[a].socket = slots[a].socket
    <3>1. slots[a].locks = <<>> /\ DOMAIN slots'[a].locks \subseteq DOMAIN slots[a].locks
      BY <2>1, <1>1, <1>5 DEF VacatedEmpty
    <3>2. slots'[a] \in Slot BY <1>5
    <3>3. slots'[a].locks \in Seq(LockInfo) BY <3>2 DEF Slot
    <3>4. DOMAIN slots'[a].locks = {} BY <3>1
    <3> QED BY <3>3, <3>4, EmptyDomain
  <2> QED BY <2>1, <1>5
<1>13. ReleasedNotWaiting' BY <1>1, <1>5 DEF ReleasedNotWaiting
<1>14. HandlesExact'
  <2> SUFFICES ASSUME NEW t \in Sockets
               PROVE  handles'[t] = {g \in Places' : slots'[g[1]].socket = t}
    BY DEF HandlesExact
  <2>1. handles[t] = {g \in Places : slots[g[1]].socket = t} BY <1>1 DEF HandlesExact
  <2>2. handles'[t] = IF t = s THEN handles[t] \ {<<i, k>>} ELSE handles[t]
    BY <1>1, <1>6 DEF TypeOK
  <2>3. ASSUME NEW a, NEW b
        PROVE  <<a, b>> \in Places' <=> <<a, b>> \in Places /\ <<a, b>> # <<i, k>>
    <3>1. <<a, b>> \in Places' <=> /\ a \in DOMAIN slots' /\ b \in DOMAIN slots'[a].locks
                                  /\ ~slots'[a].locks[b].released
      BY DEF Places
    <3> QED BY <3>1, <1>8, <1>9, PlacesDef
  <2>4. (\A g \in Places : g = <<g[1], g[2]>>) /\ (\A g \in Places' : g = <<g[1], g[2]>>)
    BY DEF Places
  <2>5. Places' = Places \ {<<i, k>>} BY <2>3, <2>4
  <2>6. \A g \in Places' : slots'[g[1]].socket = slots[g[1]].socket
    BY <1>9, <2>4, <2>5, PlacesDef
  <2>7. slots[<<i, k>>[1]].socket = s BY <1>4
  <2> QED BY <2>1, <2>2, <2>5, <2>6, <2>7
<1>15. MutualExclusion'
  <2> SUFFICES ASSUME NEW a \in DOMAIN slots', NEW b \in DOMAIN slots', a # b,
                      slots'[a].socket \in Sockets, slots'[b].socket \in Sockets,
                      ServerOf[slots'[a].socket] = ServerOf[slots'[b].socket],
                      NEW c \in DOMAIN slots'[a].locks, NEW d \in DOMAIN slots'[b].locks,
                      Held(slots'[a].locks[c]), Held(slots'[b].locks[d]),
                      Conflict(slots'[b].locks[d].req, slots'[a].locks[c].req)
               PROVE  FALSE
    BY DEF MutualExclusion, HeldAgainst, Held
  <2> QED BY <1>1, <1>8 DEF MutualExclusion, HeldAgainst, Held
<1>16. NoLostWakeup'
  <2> SUFFICES ASSUME NEW a \in DOMAIN slots', NEW b \in DOMAIN slots'[a].locks,
                      slots'[a].locks[b].waiting,
                      ~BlockedInSlot(a, slots[a].locks[b].req)'
               PROVE  events'[slots'[a].socket] > 0
    BY DEF NoLostWakeup, BlockedInSlot, HeldAgainst
  <2>1. ~slots'[a].locks[b].released
    BY <1>13 DEF ReleasedNotWaiting
  <2>2. /\ <<a, b>> # <<i, k>>
        /\ a \in DOMAIN slots /\ b \in DOMAIN slots[a].locks
        /\ slots'[a].socket = slots[a].socket
        /\ slots'[a].locks[b] = slots[a].locks[b]
    BY <2>1, <1>8
  <2>3. slots[a].socket \in Sockets
    <3>1. slots[a] \in Slot BY <2>2, <1>1 DEF TypeOK
    <3>2. slots[a].locks # <<>> BY <2>2
    <3> QED BY <3>1, <3>2, <2>2, <1>1 DEF Slot, VacatedEmpty
  <2>4. CASE slots[i].locks[k].waiting
    <3>1. ASSUME NEW c \in DOMAIN slots, c # a, NEW d \in DOMAIN slots[c].locks,
                 Held(slots[c].locks[d]), Conflict(slots[c].locks[d].req, slots[a].locks[b].req)
          PROVE  FALSE
      <4>1. <<c, d>> # <<i, k>> /\ ~slots[c].locks[d].released BY <3>1, <2>4 DEF Held
      <4>2. /\ c \in DOMAIN slots' /\ d \in DOMAIN slots'[c].locks
            /\ slots'[c].locks[d] = slots[c].locks[d]
        BY <4>1, <1>9
      <4> QED BY <3>1, <4>2, <2>2 DEF BlockedInSlot, HeldAgainst, Held
    <3>2. ~BlockedInSlot(a, slots[a].locks[b].req) BY <3>1 DEF BlockedInSlot, HeldAgainst
    <3> QED BY <3>2, <2>2, <2>4, <1>1, <1>7 DEF NoLostWakeup
  <2>5. CASE ~slots[i].locks[k].waiting
    <3>1. Waiting(slots[a].socket)'
      <4>1. \E x \in DOMAIN slots' : /\ slots'[x].socket = slots'[a].socket
                                     /\ \E y \in DOMAIN slots'[x].locks : slots'[x].locks[y].waiting
        OBVIOUS
      <4> QED BY <4>1 DEF Waiting, HasWaiting
    <3>2. \A t \in Sockets : t = slots'[a].socket => Waiting(t)'
      BY <3>1, <2>2 DEF Waiting, HasWaiting
    <3>3. events'[slots[a].socket] = events[slots[a].socket] + 1
      BY <3>2, <2>2, <2>3, <2>5, <1>7
    <3> QED BY <3>3, <2>2, <2>3, <1>1 DEF TypeOK
  <2> QED BY <2>4, <2>5
<1> QED BY <1>10, <1>11, <1>12, <1>13, <1>14, <1>15, <1>16 DEF IInv

\* The handler OnObtainLock preserves the inductive invariant.
LEMMA ObtainInvariant ==
  ASSUME IInv, NEW s \in Sockets, OnObtainLock(s)
  PROVE  IInv'
<1>1. /\ TypeOK /\ UniqueSlots /\ VacatedEmpty /\ ReleasedNotWaiting
      /\ HandlesExact /\ MutualExclusion /\ NoLostWakeup
  BY DEF IInv
<1> DEFINE Granted(a, b) == /\ slots[a].socket = s
                            /\ slots[a].locks[b].waiting
                            /\ ~BlockedInSlot(a, slots[a].locks[b].req)
<1>2. /\ slots' \in Seq(Slot)
      /\ DOMAIN slots' = DOMAIN slots
      /\ \A a \in DOMAIN slots :
            /\ slots'[a].socket = slots[a].socket
            /\ DOMAIN slots'[a].locks = DOMAIN slots[a].locks
            /\ \A b \in DOMAIN slots[a].locks :
                  slots'[a].locks[b] = IF Granted(a, b) THEN AsGranted(slots[a].locks[b])
                                       ELSE slots[a].locks[b]
  BY <1>1, ObtainFrame
<1>3. \A a \in DOMAIN slots : \A b \in DOMAIN slots[a].locks :
        /\ slots'[a].locks[b].req = slots[a].locks[b].req
        /\ slots'[a].locks[b].released = slots[a].locks[b].released
        /\ slots'[a].locks[b].waiting = (slots[a].locks[b].waiting /\ ~Granted(a, b))
  <2> SUFFICES ASSUME NEW a \in DOMAIN slots, NEW b \in DOMAIN slots[a].locks
               PROVE  /\ slots'[a].locks[b].req = slots[a].locks[b].req
                      /\ slots'[a].locks[b].released = slots[a].locks[b].released
                      /\ slots'[a].locks[b].waiting = (slots[a].locks[b].waiting /\ ~Granted(a, b))
    OBVIOUS
  <2>1. slots[a] \in Slot BY <1>1 DEF TypeOK
  <2>2. slots[a].locks \in Seq(LockInfo) BY <2>1 DEF Slot
  <2>3. slots[a].locks[b] \in LockInfo BY <2>2
  <2>4. slots[a].locks[b].waiting \in BOOLEAN BY <2>3 DEF LockInfo
  <2>5. CASE Granted(a, b)
    <3>1. slots'[a].locks[b] = AsGranted(slots[a].locks[b]) BY <1>2, <2>5
    <3>2. /\ slots'[a].locks[b].req = slots[a].locks[b].req
          /\ slots'[a].locks[b].released = slots[a].locks[b].released
          /\ slots'[a].locks[b].waiting = FALSE
      BY <3>1 DEF AsGranted
    <3> HIDE DEF Granted
    <3> QED BY <3>2, <2>5
  <2>6. CASE ~Granted(a, b)
    <3>1. slots'[a].locks[b] = slots[a].locks[b] BY <1>2, <2>6
    <3> HIDE DEF Granted
    <3> QED BY <3>1, <2>4, <2>6
  <2> QED BY <2>5, <2>6
<1>4. handles' = handles /\ events[s] > 0 /\ events' = [events EXCEPT ![s] = @ - 1]
  BY DEF OnObtainLock
<1>5. TypeOK' BY <1>1, <1>2, <1>4 DEF TypeOK
<1>6. UniqueSlots' BY <1>1, <1>2 DEF UniqueSlots
<1>7. VacatedEmpty'
  <2> SUFFICES ASSUME NEW a \in DOMAIN slots', slots'[a].socket = NoSocket
               PROVE  slots'[a].locks = <<>>
    BY DEF VacatedEmpty
  <2>1. DOMAIN slots'[a].locks = {} BY <1>1, <1>2 DEF VacatedEmpty
  <2>2. slots'[a] \in Slot BY <1>2
  <2>3. slots'[a].locks \in Seq(LockInfo) BY <2>2 DEF Slot
  <2> QED BY <2>1, <2>3, EmptyDomain
<1>8. ReleasedNotWaiting' BY <1>1, <1>2, <1>3 DEF ReleasedNotWaiting
<1>9. HandlesExact'
  <2>1. \A a, b : <<a, b>> \in Places' <=> <<a, b>> \in Places
    <3>1. \A a, b : <<a, b>> \in Places' <=> /\ a \in DOMAIN slots'
                                            /\ b \in DOMAIN slots'[a].locks
                                            /\ ~slots'[a].locks[b].released
      BY DEF Places
    <3> HIDE DEF Granted
    <3> QED BY <3>1, <1>2, <1>3, PlacesDef
  <2>2. (\A g \in Places : g = <<g[1], g[2]>>) /\ (\A g \in Places' : g = <<g[1], g[2]>>)
    BY DEF Places
  <2>3. Places' = Places BY <2>1, <2>2
  <2>4. \A g \in Places : slots'[g[1]].socket = slots[g[1]].socket
    BY <1>2, <2>2, PlacesDef
  <2> QED BY <2>3, <2>4, <1>1, <1>4 DEF HandlesExact
<1>10. MutualExclusion'
  <2> SUFFICES ASSUME NEW a \in DOMAIN slots', NEW b \in DOMAIN slots', a # b,
                      slots'[a].socket \in Sockets, slots'[b].socket \in Sockets,
                      ServerOf[slots'[a].socket] = ServerOf[slots'[b].socket],
                      NEW c \in DOMAIN slots'[a].locks, NEW d \in DOMAIN slots'[b].locks,
                      Held(slots'[a].locks[c]), Held(slots'[b].locks[d]),
                      Conflict(slots'[b].locks[d].req, slots'[a].locks[c].req)
               PROVE  FALSE
    BY DEF MutualExclusion, HeldAgainst, Held
  <2>1. /\ a \in DOMAIN slots /\ c \in DOMAIN slots[a].locks
        /\ b \in DOMAIN slots /\ d \in DOMAIN slots[b].locks
    BY <1>2
  <2>2. ~(Granted(a, c) /\ Granted(b, d)) BY <2>1, <1>1 DEF UniqueSlots
  <2>3. /\ Held(slots[a].locks[c]) \/ Granted(a, c)
        /\ Held(slots[b].locks[d]) \/ Granted(b, d)
        /\ Conflict(slots[b].locks[d].req, slots[a].locks[c].req)
    BY <2>1, <1>3 DEF Held
  <2>4. CASE Granted(a, c)
    <3>1. Held(slots[b].locks[d]) BY <2>2, <2>3, <2>4
    <3> QED BY <2>1, <2>3, <2>4, <3>1 DEF BlockedInSlot, HeldAgainst
  <2>5. CASE Granted(b, d)
    <3>1. Held(slots[a].locks[c]) BY <2>2, <2>3, <2>5
    <3>2. Conflict(slots[a].locks[c].req, slots[b].locks[d].req) BY <2>3, ConflictSymmetric
    <3> QED BY <2>1, <2>5, <3>1, <3>2 DEF BlockedInSlot, HeldAgainst
  <2>6. CASE ~Granted(a, c) /\ ~Granted(b, d)
    <3>1. slots'[a].socket = slots[a].socket /\ slots'[b].socket = slots[b].socket BY <2>1, <1>2
    <3> QED BY <2>1, <2>3, <2>6, <3>1, <1>1 DEF MutualExclusion, HeldAgainst
  <2> QED BY <2>4, <2>5, <2>6
<1>11. NoLostWakeup'
  <2> SUFFICES ASSUME NEW a \in DOMAIN slots', NEW b \in DOMAIN slots'[a].locks,
                      slots'[a].locks[b].waiting,
                      ~BlockedInSlot(a, slots[a].locks[b].req)'
               PROVE  events'[slots'[a].socket] > 0
    BY <1>2, <1>3 DEF NoLostWakeup, BlockedInSlot, HeldAgainst
  <2>1. /\ a \in DOMAIN slots /\ b \in DOMAIN slots[a].locks
        /\ slots[a].locks[b].waiting /\ ~Granted(a, b)
        /\ slots'[a].socket = slots[a].socket
    BY <1>2, <1>3
  <2>2. ~BlockedInSlot(a, slots[a].locks[b].req)
    <3> SUFFICES ASSUME NEW c \in DOMAIN slots, c # a, NEW d \in DOMAIN slots[c].locks,
                        Held(slots[c].locks[d]),
                        Conflict(slots[c].locks[d].req, slots[a].locks[b].req)
                 PROVE  FALSE
      BY DEF BlockedInSlot, HeldAgainst
    <3>1. Held(slots'[c].locks[d]) /\ slots'[c].locks[d].req = slots[c].locks[d].req
      BY <1>3 DEF Held
    <3>2. c \in DOMAIN slots' /\ d \in DOMAIN slots'[c].locks BY <1>2
    <3>3. slots'[a].locks[b].req = slots[a].locks[b].req BY <2>1, <1>3
    <3> QED BY <3>1, <3>2, <3>3 DEF BlockedInSlot, HeldAgainst
  <2>3. slots[a].socket # s BY <2>1, <2>2
  <2>4. events[slots[a].socket] > 0 BY <2>1, <2>2, <1>1 DEF NoLostWakeup
  <2>5. events'[slots[a].socket] = events[slots[a].socket]
    BY <2>3, <1>1, <1>4 DEF TypeOK
  <2> QED BY <2>1, <2>4, <2>5
<1> QED BY <1>5, <1>6, <1>7, <1>8, <1>9, <1>10, <1>11 DEF IInv

\* Every step of the lock table, stuttering included, preserves the inductive
\* invariant.
LEMMA NextInvariant == IInv /\ [Next]_vars => IInv'
<1> SUFFICES ASSUME IInv, [Next]_vars PROVE IInv' OBVIOUS
<1>1. ASSUME NEW s \in Sockets, NEW r \in Requests, Lock(s, r) PROVE IInv'
  BY <1>1, LockInvariant
<1>2. ASSUME NEW s \in Sockets, NEW h \in handles[s], Unlock(s, h) PROVE IInv'
  BY <1>2, UnlockInvariant
<1>3. ASSUME NEW s \in Sockets, OnObtainLock(s) PROVE IInv'
  BY <1>3, ObtainInvariant
<1>4. CASE UNCHANGED vars
  BY <1>4 DEF vars, IInv, TypeOK, UniqueSlots, VacatedEmpty, ReleasedNotWaiting, HandlesExact,
              MutualExclusion, NoLostWakeup, Places, HeldAgainst, BlockedInSlot
<1> QED BY <1>1, <1>2, <1>3, <1>4 DEF Next

\* Every reachable lock table satisfies the inductive invariant.
THEOREM Invariance == Spec => []IInv
<1>1. Init => IInv BY InitInvariant
<1>2. IInv /\ [Next]_vars => IInv' BY NextInvariant
<1> QED BY <1>1, <1>2, PTL DEF Spec

\* The table, the handles and the event counts always have their types.
THEOREM TypeCorrect == Spec => []TypeOK
<1>1. IInv => TypeOK BY DEF IInv
<1> QED BY <1>1, Invariance, PTL

\* OpLockManager::Lock and ObtainWaiting never let two sockets of one server
\* hold locks that exclude each other.
THEOREM Exclusion == Spec => []MutualExclusion
<1>1. IInv => MutualExclusion BY DEF IInv
<1> QED BY <1>1, Invariance, PTL

\* The index pair in an OpLock always names the lock it was made for, although
\* Unlock shrinks both vectors.
THEOREM HandlesCorrect == Spec => []HandlesExact
<1>1. IInv => HandlesExact BY DEF IInv
<1> QED BY <1>1, Invariance, PTL

\* Unlock leaves no operation suspended that it could have resumed.
THEOREM WakeupCorrect == Spec => []NoLostWakeup
<1>1. IInv => NoLostWakeup BY DEF IInv
<1> QED BY <1>1, Invariance, PTL

-----------------------------------------------------------------------------
(***************************************************************************)
(* The lock table of OpLockManager implements the service of OpLocks: the  *)
(* refinement, step by step.  A place <<slot, lock>> of the table is the   *)
(* name of a lock, and what must be shown is that the names, owners and    *)
(* requests survive the shrinking of both vectors, and that a grant is     *)
(* never at odds with a lock granted before.                               *)
(***************************************************************************)

\* The table as the service sees it.
Seen(h) == [socket |-> slots[h[1]].socket,
            req |-> slots[h[1]].locks[h[2]].req,
            granted |-> ~slots[h[1]].locks[h[2]].waiting]
Table == [h \in Places |-> Seen(h)]

\* Places are names of the service: the bounds of Lock are respected by every
\* entry, those already released included.
Bounded ==
  /\ DOMAIN slots \subseteq 1..MaxSlots
  /\ \A i \in DOMAIN slots : DOMAIN slots[i].locks \subseteq 1..MaxLocks

-----------------------------------------------------------------------------
\* Lock respects the bounds of its guards.
LEMMA LockBounded ==
  ASSUME IInv, Bounded, NEW s \in Sockets, NEW r \in Requests, Lock(s, r)
  PROVE  Bounded'
<1> DEFINE all == SlotsWith(s)
           i == CHOOSE j \in DOMAIN all : all[j].socket = s
           info == [req |-> r, waiting |-> Contended(s, r), released |-> FALSE]
<1>1. /\ Len(all) <= MaxSlots
      /\ slots' = [all EXCEPT ![i].locks = Append(@, info)]
      /\ \A a \in DOMAIN slots : slots[a].socket = s => Len(slots[a].locks) < MaxLocks
  BY DEF Lock
<1>2. TypeOK BY DEF IInv
<1>3. /\ all \in Seq(Slot)
      /\ i \in DOMAIN all
      /\ all[i].socket = s
      /\ DOMAIN slots \subseteq DOMAIN all
      /\ \A a \in DOMAIN slots : all[a] = slots[a]
      /\ \A a \in DOMAIN all \ DOMAIN slots : a = i /\ all[a].locks = <<>>
  BY <1>2, SlotsWithProperties
<1>4. info \in LockInfo
  <2>1. Contended(s, r) \in BOOLEAN BY DEF Contended
  <2> QED BY <2>1 DEF LockInfo
<1> HIDE DEF all, i, info
<1>5. MaxSlots \in Nat /\ MaxLocks \in Nat /\ MaxLocks >= 1 BY BoundAssumption
<1>6. DOMAIN slots' = DOMAIN all BY <1>1, <1>3
<1>7. DOMAIN all \subseteq 1..MaxSlots BY <1>1, <1>3, <1>5
<1>8. ASSUME NEW a \in DOMAIN slots' PROVE DOMAIN slots'[a].locks \subseteq 1..MaxLocks
  <2>1. all[a] \in Slot BY <1>3, <1>6
  <2>2. all[a].locks \in Seq(LockInfo) BY <2>1 DEF Slot
  <2>3. CASE a # i
    <3>1. slots'[a] = all[a] /\ a \in DOMAIN slots BY <2>3, <1>1, <1>3, <1>6
    <3> QED BY <3>1, <1>3 DEF Bounded
  <2>4. CASE a = i
    <3>1. slots'[a].locks = Append(all[a].locks, info) BY <2>4, <2>1, <1>1, <1>3 DEF Slot
    <3>2. DOMAIN slots'[a].locks = 1..Len(all[a].locks) + 1
      BY <3>1, <2>2, <1>4, AppendProperties
    <3>3. CASE a \in DOMAIN slots
      <4>1. all[a].locks = slots[a].locks /\ slots[a].socket = s BY <3>3, <2>4, <1>3
      <4>2. Len(slots[a].locks) < MaxLocks BY <4>1, <3>3, <1>1
      <4> QED BY <4>1, <4>2, <3>2, <2>2, <1>5
    <3>4. CASE a \notin DOMAIN slots
      <4>1. all[a].locks = <<>> BY <3>4, <1>3, <1>6
      <4>2. Len(all[a].locks) = 0 BY <4>1
      <4> QED BY <4>2, <3>2, <1>5
    <3> QED BY <3>3, <3>4
  <2> QED BY <2>3, <2>4
<1> QED BY <1>6, <1>7, <1>8 DEF Bounded

\* What Unlock leaves of the table: every place but the one given up, with what
\* stands there.
LEMMA UnlockTable ==
  ASSUME IInv, NEW s \in Sockets, NEW h \in handles[s], Unlock(s, h)
  PROVE  /\ h \in Places
         /\ Places' = Places \ {h}
         /\ \A g \in Places' : Seen(g)' = Seen(g)
         /\ DOMAIN slots' \subseteq DOMAIN slots
         /\ \A a \in DOMAIN slots' : DOMAIN slots'[a].locks \subseteq DOMAIN slots[a].locks
<1>1. TypeOK /\ VacatedEmpty /\ HandlesExact BY DEF IInv
<1>2. h \in Places BY <1>1 DEF HandlesExact
<1>3. PICK i, k : h = <<i, k>> BY <1>2 DEF Places
<1>4. slots' = SlotsWithout(i, k) BY <1>3 DEF Unlock
<1>5. /\ DOMAIN slots' \subseteq DOMAIN slots
      /\ \A a \in DOMAIN slots' :
            /\ \/ slots'[a].socket = slots[a].socket
               \/ slots'[a].socket = NoSocket /\ slots'[a].locks = <<>>
            /\ DOMAIN slots'[a].locks \subseteq DOMAIN slots[a].locks
            /\ \A b \in DOMAIN slots'[a].locks :
                  IF a = i /\ b = k
                  THEN slots'[a].locks[b].released /\ ~slots'[a].locks[b].waiting
                  ELSE slots'[a].locks[b] = slots[a].locks[b]
      /\ \A a \in DOMAIN slots : \A b \in DOMAIN slots[a].locks :
            ~slots[a].locks[b].released /\ <<a, b>> # <<i, k>>
            => a \in DOMAIN slots' /\ b \in DOMAIN slots'[a].locks
  BY <1>1, <1>2, <1>3, <1>4, UnlockFrame
<1>6. ASSUME NEW a, NEW b
      PROVE  <<a, b>> \in Places' <=> <<a, b>> \in Places /\ <<a, b>> # <<i, k>>
  <2>1. <<a, b>> \in Places' <=> /\ a \in DOMAIN slots' /\ b \in DOMAIN slots'[a].locks
                                /\ ~slots'[a].locks[b].released
    BY DEF Places
  <2> QED BY <2>1, <1>5, PlacesDef
<1>7. (\A g \in Places : g = <<g[1], g[2]>>) /\ (\A g \in Places' : g = <<g[1], g[2]>>)
  BY DEF Places
<1>8. Places' = Places \ {h} BY <1>3, <1>6, <1>7
<1>9. ASSUME NEW g \in Places' PROVE Seen(g)' = Seen(g)
  <2>1. PICK a, b : g = <<a, b>> BY <1>7
  <2>2. /\ a \in DOMAIN slots' /\ b \in DOMAIN slots'[a].locks
        /\ <<a, b>> # <<i, k>>
    BY <2>1, <1>6 DEF Places
  <2>3. slots'[a].socket = slots[a].socket /\ slots'[a].locks[b] = slots[a].locks[b]
    BY <2>2, <1>5
  <2> QED BY <2>1, <2>3 DEF Seen
<1> QED BY <1>2, <1>5, <1>8, <1>9

\* What Lock does to the table: one new place.
LEMMA LockTable ==
  ASSUME IInv, NEW s \in Sockets, NEW r \in Requests, Lock(s, r)
  PROVE  \E h : /\ h \notin Places
                /\ Places' = Places \cup {h}
                /\ Seen(h)' = [socket |-> s, req |-> r, granted |-> ~Contended(s, r)]
                /\ \A g \in Places : Seen(g)' = Seen(g)
<1>1. TypeOK /\ VacatedEmpty BY DEF IInv
<1>2. PICK i, n : Appended(s, r, i, n) BY <1>1, LockFrame
<1>3. /\ i \in DOMAIN slots' /\ slots'[i].socket = s
      /\ n \in DOMAIN slots'[i].locks
      /\ slots'[i].locks[n] = [req |-> r, waiting |-> Contended(s, r), released |-> FALSE]
      /\ i \in DOMAIN slots => n \notin DOMAIN slots[i].locks
  BY <1>2 DEF Appended
<1>4. \A a \in DOMAIN slots' : \A b \in DOMAIN slots'[a].locks : <<a, b>> # <<i, n>> =>
         /\ a \in DOMAIN slots
         /\ b \in DOMAIN slots[a].locks
         /\ slots'[a].locks[b] = slots[a].locks[b]
  BY <1>2 DEF Appended
<1>5. \A a \in DOMAIN slots : \A b \in DOMAIN slots[a].locks :
         /\ a \in DOMAIN slots'
         /\ b \in DOMAIN slots'[a].locks
         /\ slots'[a].socket = slots[a].socket
         /\ slots'[a].locks[b] = slots[a].locks[b]
  BY <1>2 DEF Appended
<1>6. ASSUME NEW a, NEW b
      PROVE  <<a, b>> \in Places' <=> <<a, b>> \in Places \/ <<a, b>> = <<i, n>>
  <2>1. <<a, b>> \in Places' <=> /\ a \in DOMAIN slots' /\ b \in DOMAIN slots'[a].locks
                                /\ ~slots'[a].locks[b].released
    BY DEF Places
  <2> QED BY <2>1, <1>3, <1>4, <1>5, PlacesDef
<1>7. (\A g \in Places : g = <<g[1], g[2]>>) /\ (\A g \in Places' : g = <<g[1], g[2]>>)
  BY DEF Places
<1> DEFINE h == <<i, n>>
<1>8. h \notin Places BY <1>3, PlacesDef
<1>9. Places' = Places \cup {h} BY <1>6, <1>7
<1>10. Seen(h)' = [socket |-> s, req |-> r, granted |-> ~Contended(s, r)]
  BY <1>3 DEF Seen
<1>11. ASSUME NEW g \in Places PROVE Seen(g)' = Seen(g)
  <2>1. PICK a, b : g = <<a, b>> BY <1>7
  <2> QED BY <2>1, <1>5, PlacesDef DEF Seen
<1> QED BY <1>8, <1>9, <1>10, <1>11

\* The waiting locks of a socket that no other slot blocks.
GrantedPlaces(s) ==
  {h \in Places : /\ slots[h[1]].socket = s
                  /\ slots[h[1]].locks[h[2]].waiting
                  /\ ~BlockedInSlot(h[1], slots[h[1]].locks[h[2]].req)}

\* What OnObtainLock does to the table: the places stay, and those locks are
\* granted.
LEMMA ObtainTable ==
  ASSUME IInv, NEW s \in Sockets, OnObtainLock(s)
  PROVE  /\ DOMAIN slots' = DOMAIN slots
         /\ \A a \in DOMAIN slots : DOMAIN slots'[a].locks = DOMAIN slots[a].locks
         /\ Places' = Places
         /\ \A h \in Places : Seen(h)' = IF h \in GrantedPlaces(s)
                                         THEN [Seen(h) EXCEPT !.granted = TRUE] ELSE Seen(h)
<1>1. TypeOK BY DEF IInv
<1> DEFINE Granted(a, b) == /\ slots[a].socket = s
                            /\ slots[a].locks[b].waiting
                            /\ ~BlockedInSlot(a, slots[a].locks[b].req)
<1>2. /\ DOMAIN slots' = DOMAIN slots
      /\ \A a \in DOMAIN slots :
            /\ slots'[a].socket = slots[a].socket
            /\ DOMAIN slots'[a].locks = DOMAIN slots[a].locks
            /\ \A b \in DOMAIN slots[a].locks :
                  slots'[a].locks[b] = IF Granted(a, b) THEN AsGranted(slots[a].locks[b])
                                       ELSE slots[a].locks[b]
  BY <1>1, ObtainFrame
<1>3. \A h \in Places : h \in GrantedPlaces(s) <=> Granted(h[1], h[2]) BY DEF GrantedPlaces
<1> HIDE DEF Granted
<1>4. ASSUME NEW a, NEW b PROVE <<a, b>> \in Places' <=> <<a, b>> \in Places
  <2>1. <<a, b>> \in Places' <=> /\ a \in DOMAIN slots' /\ b \in DOMAIN slots'[a].locks
                                /\ ~slots'[a].locks[b].released
    BY DEF Places
  <2>2. a \in DOMAIN slots /\ b \in DOMAIN slots[a].locks
        => slots'[a].locks[b].released = slots[a].locks[b].released
    <3> SUFFICES ASSUME a \in DOMAIN slots, b \in DOMAIN slots[a].locks
                 PROVE  slots'[a].locks[b].released = slots[a].locks[b].released
      OBVIOUS
    <3>1. AsGranted(slots[a].locks[b]).released = slots[a].locks[b].released BY DEF AsGranted
    <3> QED BY <3>1, <1>2
  <2> QED BY <2>1, <2>2, <1>2, PlacesDef
<1>5. (\A g \in Places : g = <<g[1], g[2]>>) /\ (\A g \in Places' : g = <<g[1], g[2]>>)
  BY DEF Places
<1>6. Places' = Places BY <1>4, <1>5
<1>7. ASSUME NEW h \in Places
      PROVE  Seen(h)' = IF h \in GrantedPlaces(s)
                        THEN [Seen(h) EXCEPT !.granted = TRUE] ELSE Seen(h)
  <2>1. PICK a, b : h = <<a, b>> BY <1>5
  <2>2. a \in DOMAIN slots /\ b \in DOMAIN slots[a].locks BY <2>1, PlacesDef
  <2>3. CASE h \in GrantedPlaces(s)
    <3>1. slots'[a].locks[b] = AsGranted(slots[a].locks[b]) BY <2>1, <2>2, <2>3, <1>2, <1>3
    <3>2. /\ slots'[a].locks[b].req = slots[a].locks[b].req
          /\ slots'[a].locks[b].waiting = FALSE
      BY <3>1 DEF AsGranted
    <3> QED BY <2>1, <2>2, <2>3, <3>2, <1>2 DEF Seen
  <2>4. CASE h \notin GrantedPlaces(s)
    <3>1. slots'[a].locks[b] = slots[a].locks[b] BY <2>1, <2>2, <2>4, <1>2, <1>3
    <3> QED BY <2>1, <2>2, <2>4, <3>1, <1>2 DEF Seen
  <2> QED BY <2>3, <2>4
<1> QED BY <1>2, <1>6, <1>7

\* The bounds hold throughout.
LEMMA NextBounded == IInv /\ Bounded /\ [Next]_vars => Bounded'
<1> SUFFICES ASSUME IInv, Bounded, [Next]_vars PROVE Bounded' OBVIOUS
<1>1. ASSUME NEW s \in Sockets, NEW r \in Requests, Lock(s, r) PROVE Bounded'
  BY <1>1, LockBounded
<1>2. ASSUME NEW s \in Sockets, NEW h \in handles[s], Unlock(s, h) PROVE Bounded'
  <2>1. /\ DOMAIN slots' \subseteq DOMAIN slots
        /\ \A a \in DOMAIN slots' : DOMAIN slots'[a].locks \subseteq DOMAIN slots[a].locks
    BY <1>2, UnlockTable
  <2> QED BY <2>1 DEF Bounded
<1>3. ASSUME NEW s \in Sockets, OnObtainLock(s) PROVE Bounded'
  <2>1. /\ DOMAIN slots' = DOMAIN slots
        /\ \A a \in DOMAIN slots : DOMAIN slots'[a].locks = DOMAIN slots[a].locks
    BY <1>3, ObtainTable
  <2> QED BY <2>1 DEF Bounded
<1>4. CASE UNCHANGED vars BY <1>4 DEF vars, Bounded
<1> QED BY <1>1, <1>2, <1>3, <1>4 DEF Next

-----------------------------------------------------------------------------
(* Each operation of the table is an operation of the service.              *)

\* What stands at a place: its owner is a socket, and it is granted when it is
\* held.
LEMMA PlaceProperties ==
  ASSUME IInv, NEW h \in Places
  PROVE  /\ h[1] \in DOMAIN slots
         /\ h[2] \in DOMAIN slots[h[1]].locks
         /\ slots[h[1]].socket \in Sockets
         /\ Seen(h).granted <=> Held(slots[h[1]].locks[h[2]])
<1>1. TypeOK /\ VacatedEmpty BY DEF IInv
<1>2. PICK i, k : h = <<i, k>> BY DEF Places
<1>3. i \in DOMAIN slots /\ k \in DOMAIN slots[i].locks /\ ~slots[i].locks[k].released
  BY <1>2, PlacesDef
<1>4. slots[i] \in Slot BY <1>1, <1>3 DEF TypeOK
<1>5. slots[i].socket # NoSocket BY <1>1, <1>3 DEF VacatedEmpty
<1> QED BY <1>2, <1>3, <1>4, <1>5 DEF Slot, Seen, Held

\* The service's test for a lock in the way never finds more than that of Lock.
LEMMA ServiceContended ==
  ASSUME IInv, NEW s \in Sockets, NEW r, Service!Contended(s, r)
  PROVE  Contended(s, r)
<1>1. PICK h \in Places : /\ Seen(h).granted
                          /\ Seen(h).socket # s
                          /\ ServerOf[Seen(h).socket] = ServerOf[s]
                          /\ Conflict(Seen(h).req, r)
  BY ZenonT(60) DEF Service!Contended, Service!Conflict, Conflict, Seen
<1>2. /\ h[1] \in DOMAIN slots
      /\ h[2] \in DOMAIN slots[h[1]].locks
      /\ slots[h[1]].socket \in Sockets
      /\ Held(slots[h[1]].locks[h[2]])
  BY <1>1, PlaceProperties
<1>3. HeldAgainst(h[1], r) BY <1>1, <1>2 DEF HeldAgainst, Seen
<1> QED BY <1>1, <1>2, <1>3 DEF Contended, Seen

\* Nor does it find more than that of ObtainWaiting, which looks at every other
\* slot.
LEMMA ServiceBlocked ==
  ASSUME IInv, NEW i \in DOMAIN slots, slots[i].socket \in Sockets, NEW r,
         Service!Contended(slots[i].socket, r)
  PROVE  BlockedInSlot(i, r)
<1>1. PICK h \in Places : /\ Seen(h).granted
                          /\ Seen(h).socket # slots[i].socket
                          /\ Conflict(Seen(h).req, r)
  BY DEF Service!Contended, Service!Conflict, Conflict, Seen
<1>2. /\ h[1] \in DOMAIN slots
      /\ h[2] \in DOMAIN slots[h[1]].locks
      /\ Held(slots[h[1]].locks[h[2]])
  BY <1>1, PlaceProperties
<1>3. HeldAgainst(h[1], r) BY <1>1, <1>2 DEF HeldAgainst, Seen
<1>4. h[1] # i BY <1>1 DEF Seen
<1> QED BY <1>2, <1>3, <1>4 DEF BlockedInSlot

\* OpLockManager::Lock is a request of the service, granted at once or not.
LEMMA LockIsRequest ==
  ASSUME IInv, Bounded', NEW s \in Sockets, NEW r \in Requests, Lock(s, r)
  PROVE  Service!Next
<1>1. PICK h : /\ h \notin Places
               /\ Places' = Places \cup {h}
               /\ Seen(h)' = [socket |-> s, req |-> r, granted |-> ~Contended(s, r)]
               /\ \A g \in Places : Seen(g)' = Seen(g)
  BY LockTable
<1>2. h \in (1..MaxSlots) \X (1..MaxLocks)
  <2>1. PICK i, k : h = <<i, k>> /\ i \in DOMAIN slots' /\ k \in DOMAIN slots'[i].locks
    BY <1>1 DEF Places
  <2> QED BY <2>1 DEF Bounded
<1>3. PICK granted \in BOOLEAN : granted = ~Contended(s, r) BY DEF Contended
<1>4. Service!Request(s, r, h, granted)
  <2>1. granted => ~Service!Contended(s, r) BY <1>3, ServiceContended
  <2>2. Table' = [i \in DOMAIN Table \cup {h} |->
                    IF i = h THEN [socket |-> s, req |-> r, granted |-> granted] ELSE Table[i]]
    BY <1>1, <1>3 DEF Table
  <2>3. h \notin DOMAIN Table BY <1>1 DEF Table
  <2> QED BY <2>1, <2>2, <2>3 DEF Service!Request, Table, Seen
<1> QED BY <1>2, <1>4 DEF Service!Next

\* OpLockManager::Unlock is a release of the service.
LEMMA UnlockIsRelease ==
  ASSUME IInv, NEW s \in Sockets, NEW h \in handles[s], Unlock(s, h)
  PROVE  Service!Next
<1>1. /\ h \in Places
      /\ Places' = Places \ {h}
      /\ \A g \in Places' : Seen(g)' = Seen(g)
  BY UnlockTable
<1>2. h \in DOMAIN Table /\ Table' = [i \in DOMAIN Table \ {h} |-> Table[i]]
  BY <1>1 DEF Table
<1>3. Service!Release(h) BY <1>2 DEF Service!Release, Table, Seen
<1> QED BY <1>1, <1>3 DEF Service!Next

\* The handler OnObtainLock is a grant of the service, of no lock at all when
\* every lock of the socket is still blocked.
LEMMA ObtainIsGrant ==
  ASSUME IInv, NEW s \in Sockets, OnObtainLock(s)
  PROVE  Service!Next
<1>0. PICK ids : ids = GrantedPlaces(s) OBVIOUS
<1>1. /\ Places' = Places
      /\ \A h \in Places : Seen(h)' = IF h \in ids
                                      THEN [Seen(h) EXCEPT !.granted = TRUE] ELSE Seen(h)
  BY <1>0, ObtainTable
<1>2. ids \subseteq Places BY <1>0 DEF GrantedPlaces
<1>3. ASSUME NEW h \in ids
      PROVE  Seen(h).socket = s /\ ~Seen(h).granted /\ ~Service!Contended(s, Seen(h).req)
  <2>1. /\ slots[h[1]].socket = s
        /\ slots[h[1]].locks[h[2]].waiting
        /\ ~BlockedInSlot(h[1], slots[h[1]].locks[h[2]].req)
    BY <1>0 DEF GrantedPlaces
  <2>2. h[1] \in DOMAIN slots BY <1>2, PlaceProperties
  <2>3. ~Service!Contended(s, slots[h[1]].locks[h[2]].req) BY <2>1, <2>2, ServiceBlocked
  <2> QED BY <2>1, <2>3 DEF Seen
<1>4. Table' = [i \in DOMAIN Table |->
                  IF i \in ids THEN [Table[i] EXCEPT !.granted = TRUE] ELSE Table[i]]
  BY <1>1 DEF Table
<1>5. \A h \in ids : h \in DOMAIN Table /\ Table[h] = Seen(h) BY <1>2, SMTT(30) DEF Table
<1>6. Service!Grant(s, ids)
  BY <1>3, <1>4, <1>5 DEF Service!Grant, Table, Seen
<1> QED BY <1>2, <1>6 DEF Service!Next

\* The lock table of oplock_manager.cpp implements the service its header
\* promises: for any sockets, servers, paths and numbers of locks, every
\* behaviour of the table is one of the service, in which a lock keeps its name,
\* owner and request, is granted only when no conflicting lock of the server is,
\* and stays granted until its owner releases it.
THEOREM Refinement == Spec => ImplementsService
<1>1. Init => Bounded BY DEF Init, Bounded
<1>2. IInv /\ Bounded /\ [Next]_vars => Bounded' BY NextBounded
<1>3. Spec => []Bounded BY <1>1, <1>2, Invariance, PTL DEF Spec
<1>4. Init => Service!Init
  <2> SUFFICES ASSUME Init PROVE Service!Init OBVIOUS
  <2>1. Places = {} BY DEF Init, Places
  <2> QED BY <2>1 DEF Service!Init
<1>5. IInv /\ Bounded' /\ [Next]_vars => [Service!Next]_Table
  <2> SUFFICES ASSUME IInv, Bounded', [Next]_vars PROVE [Service!Next]_Table OBVIOUS
  <2>1. ASSUME NEW s \in Sockets, NEW r \in Requests, Lock(s, r) PROVE Service!Next
    BY <2>1, LockIsRequest
  <2>2. ASSUME NEW s \in Sockets, NEW h \in handles[s], Unlock(s, h) PROVE Service!Next
    BY <2>2, UnlockIsRelease
  <2>3. ASSUME NEW s \in Sockets, OnObtainLock(s) PROVE Service!Next
    BY <2>3, ObtainIsGrant
  <2>4. CASE UNCHANGED vars
    <3>1. Table' = Table BY <2>4 DEF vars, Table, Seen, Places
    <3> QED BY <3>1
  <2> QED BY <2>1, <2>2, <2>3, <2>4 DEF Next
<1> QED BY <1>3, <1>4, <1>5, Invariance, PTL DEF Spec, ImplementsService, Service!Spec, Table, Seen
=============================================================================
