----------------------------- MODULE TimerProofs -----------------------------
(***************************************************************************)
(* TimerList keeps its promises for any number of timers, any delays and   *)
(* intervals, and keys of any width: its queue and its timers agree, a     *)
(* deleted timer is gone, and timers are called in order.  The lemmas say  *)
(* what each function of TimerList does to a well-formed record.           *)
(***************************************************************************)
EXTENDS Timer, FiniteSetTheorems, SequenceTheorems, WellFoundedInduction, TLAPS

USE TimerAssumption

Pair == Nat \X Nat

Timers == Seq([stamp : Nat, interval : Nat])

Shape == [timer : Timers, que : SUBSET Pair, map : SUBSET Nat, left : Nat, ready : BOOLEAN]

\* A well-formed TimerList.
IsTimers(t) ==
    /\ t \in Shape
    /\ IsFiniteSet(t.que)
    /\ DOMAIN t.timer \subseteq TimerId
    /\ t.map \subseteq DOMAIN t.timer
    /\ \A p \in t.que : p[2] \in DOMAIN t.timer /\ p[1] = Stamp(t, p[2])
    /\ t.left > 0 => ~ t.ready

\* r is well-formed and differs from t in the timerfd at most.
SameTimers(r, t) ==
    IsTimers(r) /\ r.timer = t.timer /\ r.que = t.que /\ r.map = t.map

\* r is well-formed and has one more timer than t, due at the given time.
OneMore(r, t, id, due) ==
    /\ IsTimers(r)
    /\ DOMAIN r.timer = DOMAIN t.timer \cup {id}
    /\ \A p \in r.que : p \in t.que \/ p = <<due, id>>
    /\ r.map = t.map \cup {id}

-----------------------------------------------------------------------------
(* The functions of TimerList. *)

\* Whatever a product of 32 bits leaves of a delay, it is none backwards.
LEMMA MicrosAreNumbers == \A ms \in Nat : Micros(ms) \in Nat
<1> SUFFICES ASSUME NEW ms \in Nat PROVE Micros(ms) \in Nat
  OBVIOUS
<1> DEFINE x == ms * PerMs
<1>1. x \in Int /\ Word \in Nat \ {0}
  OBVIOUS
<1> HIDE DEF x
<1>2. x % Word \in Nat
  BY <1>1
<1> QED BY <1>2 DEF Micros, x

\* The least-number principle, from the library's theorem on well-founded sets.
LEMMA Smallest ==
    ASSUME NEW S, S \subseteq Nat, S # {}
    PROVE  \E n \in S : \A m \in S : n <= m
<1> DEFINE R == OpToRel(<, Nat)
<1>1. IsWellFoundedOn(R, Nat)
  BY NatLessThanWellFounded
<1>2. \A x, y \in Nat : <<y, x>> \in R <=> y < x
  BY DEF OpToRel
<1> HIDE DEF R
<1>3. PICK n \in S : \A m \in S : ~ (<<m, n>> \in R)
  BY <1>1, WFMin
<1>4. ASSUME NEW m \in S PROVE n <= m
  <2>1. ~ (<<m, n>> \in R)
    BY <1>3
  <2>2. ~ (m < n)
    BY <1>2, <2>1, Zenon
  <2> QED BY <2>2
<1> QED BY <1>4

\* Time stamps and intervals are numbers.
LEMMA StampsAreNumbers ==
    ASSUME NEW t, IsTimers(t)
    PROVE  /\ DOMAIN t.timer = 1 .. Len(t.timer) /\ Len(t.timer) \in Nat
           /\ \A id \in DOMAIN t.timer : Stamp(t, id) \in Nat /\ t.timer[id].interval \in Nat
<1>1. t.timer \in Timers
  BY DEF IsTimers, Shape
<1>2. DOMAIN t.timer = 1 .. Len(t.timer) /\ Len(t.timer) \in Nat
  BY <1>1 DEF Timers
<1>3. ASSUME NEW id \in DOMAIN t.timer
      PROVE  t.timer[id] \in [stamp : Nat, interval : Nat]
  BY <1>1, <1>2, ElementOfSeq DEF Timers
<1> QED BY <1>2, <1>3 DEF Stamp

\* The queue has a first pair, its stamp is a number, and none is smaller.
LEMMA FirstStamp ==
    ASSUME NEW t, IsTimers(t), t.que # {}
    PROVE  /\ First(t) \in DOMAIN t.timer /\ Stamp(t, First(t)) \in Nat
           /\ \A p \in t.que : Stamp(t, First(t)) <= p[1]
           /\ \E p \in t.que : p[1] = Stamp(t, First(t))
<1>1. t.que \subseteq Pair
  BY DEF IsTimers, Shape
<1>2. PICK s \in {p[1] : p \in t.que} : \A r \in {p[1] : p \in t.que} : s <= r
  <2>1. {p[1] : p \in t.que} \subseteq Nat /\ {p[1] : p \in t.que} # {}
    BY <1>1 DEF Pair
  <2> QED BY <2>1, Smallest
<1>3. PICK i \in {p[2] : p \in {q \in t.que : q[1] = s}} :
            \A j \in {p[2] : p \in {q \in t.que : q[1] = s}} : i <= j
  <2>1. /\ {p[2] : p \in {q \in t.que : q[1] = s}} \subseteq Nat
        /\ {p[2] : p \in {q \in t.que : q[1] = s}} # {}
    BY <1>1 DEF Pair
  <2> QED BY <2>1, Smallest
<1>4. PICK p \in t.que : p[1] = s /\ p[2] = i
  BY <1>3
<1>5. \A q \in t.que : Before(p, q)
  <2> SUFFICES ASSUME NEW q \in t.que PROVE Before(p, q)
    OBVIOUS
  <2>1. p[1] \in Nat /\ q[1] \in Nat /\ p[2] \in Nat /\ q[2] \in Nat
    BY <1>1 DEF Pair
  <2>2. p[1] <= q[1]
    BY <1>2, <1>4
  <2>3. q[1] = p[1] => p[2] <= q[2]
    BY <1>3, <1>4
  <2> QED BY <2>1, <2>2, <2>3 DEF Before
<1> DEFINE f == CHOOSE q \in t.que : \A r \in t.que : Before(q, r)
<1>6. f \in t.que /\ (\A r \in t.que : Before(f, r)) /\ First(t) = f[2]
  BY <1>5 DEF First
<1> HIDE DEF f
<1>7. First(t) \in DOMAIN t.timer /\ f[1] = Stamp(t, First(t))
  BY <1>6 DEF IsTimers
<1>8. Stamp(t, First(t)) \in Nat
  BY <1>7, StampsAreNumbers
<1>9. ASSUME NEW q \in t.que PROVE Stamp(t, First(t)) <= q[1]
  <2>1. q[1] \in Nat
    BY <1>1 DEF Pair
  <2> QED BY <1>6, <1>7, <1>8, <2>1 DEF Before
<1> QED BY <1>6, <1>7, <1>8, <1>9

LEMMA PairsAreNumbers ==
    ASSUME NEW t, IsTimers(t)
    PROVE  \A p \in t.que : p[1] \in Nat /\ p[2] \in Nat
BY DEF IsTimers, Shape, Pair

LEMMA LargerOf ==
    ASSUME NEW m \in Nat, NEW n \in Nat
    PROVE  Max({m, n}) \in Nat /\ m <= Max({m, n}) /\ n <= Max({m, n})
<1>1. \E x \in {m, n} : \A y \in {m, n} : x >= y
  <2>1. CASE m >= n
    BY <2>1
  <2>2. CASE n >= m
    BY <2>2
  <2> QED BY <2>1, <2>2
<1>2. Max({m, n}) \in {m, n} /\ \A y \in {m, n} : Max({m, n}) >= y
  BY <1>1 DEF Max
<1> QED BY <1>2

\* Arming the timerfd changes nothing else.
LEMMA ResetKeeps ==
    ASSUME NEW t, IsTimers(t), NEW stamp \in Nat, NEW n \in Nat
    PROVE  SameTimers(ResetTimeFd(t, stamp, n), t)
<1> DEFINE r == ResetTimeFd(t, stamp, n)
           w == IF stamp - n < 1 THEN 1 ELSE stamp - n
<1>1. w \in Nat
  OBVIOUS
<1>2. /\ r.timer = t.timer /\ r.que = t.que /\ r.map = t.map /\ r.left = w /\ r.ready = FALSE
      /\ r \in Shape
  BY <1>1 DEF ResetTimeFd, IsTimers, Shape
<1> HIDE DEF r, w
<1>3. IsTimers(r)
  BY <1>2 DEF IsTimers, Stamp
<1> QED BY <1>2, <1>3 DEF r, SameTimers

LEMMA RearmedKeeps ==
    ASSUME NEW t, IsTimers(t), NEW n \in Nat
    PROVE  SameTimers(Rearmed(t, n), t)
<1>1. SameTimers(t, t)
  BY DEF SameTimers
<1> QED BY <1>1, FirstStamp, ResetKeeps DEF Rearmed

\* A timer that is made gets the next id, and waits.
LEMMA RunEveryStarts ==
    ASSUME NEW t, IsTimers(t), NEW after \in Nat, NEW interval \in Nat, NEW n \in Nat,
           NEW id \in TimerId, id = Len(t.timer) + 1, NEW due \in Nat, due = n + Micros(after)
    PROVE  OneMore(RunEvery(t, after, interval, n), t, id, due)
<1> DEFINE new == [stamp |-> n + Micros(after), interval |-> interval]
           u == [t EXCEPT !.timer = Append(@, new)]
           v == DoInsertTimer(u, id)
<1>1. /\ t.timer \in Timers /\ Append(t.timer, new) \in Timers
      /\ DOMAIN Append(t.timer, new) = DOMAIN t.timer \cup {id}
      /\ Append(t.timer, new)[id] = new
      /\ \A i \in DOMAIN t.timer : Append(t.timer, new)[i] = t.timer[i]
  <2>1. t.timer \in Timers /\ new \in [stamp : Nat, interval : Nat]
    <3>1. t.timer \in Timers /\ n + Micros(after) \in Nat
      BY DEF IsTimers, Shape
    <3> QED BY <3>1
  <2> HIDE DEF new
  <2> DEFINE e == t.timer
  <2>2. e \in Seq([stamp : Nat, interval : Nat]) /\ new \in [stamp : Nat, interval : Nat]
        /\ id = Len(e) + 1
    BY <2>1 DEF Timers
  <2> HIDE DEF e
  <2>3. Append(e, new) \in Seq([stamp : Nat, interval : Nat]) /\ Len(e) \in Nat
        /\ Len(Append(e, new)) = Len(e) + 1
    BY <2>2
  <2>4. DOMAIN e = 1 .. Len(e) /\ DOMAIN Append(e, new) = 1 .. Len(e) + 1
    BY <2>2, <2>3
  <2>5. DOMAIN Append(e, new) = DOMAIN e \cup {id}
    BY <2>2, <2>3, <2>4
  <2>6. Append(e, new)[id] = new /\ \A i \in DOMAIN e : Append(e, new)[i] = e[i]
    BY <2>2, <2>3, <2>4
  <2> QED BY <2>2, <2>3, <2>5, <2>6 DEF e, Timers
<1>2. /\ u.timer = Append(t.timer, new)
      /\ u.que = t.que /\ u.map = t.map /\ u.left = t.left /\ u.ready = t.ready
      /\ u \in Shape
  <2> HIDE DEF new
  <2> QED BY <1>1 DEF IsTimers, Shape
<1>a. /\ DOMAIN t.timer = 1 .. Len(t.timer) /\ Len(t.timer) \in Nat
      /\ DOMAIN u.timer = DOMAIN t.timer \cup {id}
      /\ u.timer[id].stamp = due
      /\ \A i \in DOMAIN t.timer : u.timer[i] = t.timer[i]
  BY <1>1, <1>2, StampsAreNumbers
<1>3. IsTimers(u)
  BY <1>2, <1>a DEF IsTimers, Stamp
<1> HIDE DEF u, new
<1>4. /\ v.timer = u.timer /\ v.que = t.que \cup {<<due, id>>} /\ v.map = t.map \cup {id}
      /\ v.left = u.left /\ v.ready = u.ready
      /\ v \in Shape
  <2>1. id \in Nat /\ <<Stamp(u, id), id>> \in Pair /\ Stamp(u, id) = due /\ due \in Nat
    BY <1>a DEF Stamp, Pair
  <2> QED BY <1>2, <2>1 DEF DoInsertTimer, Shape
<1>5. IsFiniteSet(v.que)
  <2>1. IsFiniteSet(t.que)
    BY DEF IsTimers
  <2>2. IsFiniteSet(t.que \cup {<<due, id>>})
    BY <2>1, FS_AddElement
  <2> QED BY <1>4, <2>2
<1> HIDE DEF v
<1>6. IsTimers(v)
  <2>1. DOMAIN v.timer \subseteq TimerId /\ v.map \subseteq DOMAIN v.timer
    BY <1>2, <1>4, <1>a DEF IsTimers
  <2>2. v.left > 0 => ~ v.ready
    BY <1>2, <1>4 DEF IsTimers
  <2>3. \A p \in u.que : p[2] \in DOMAIN v.timer /\ p[1] = Stamp(v, p[2])
    BY <1>3, <1>4 DEF IsTimers, Stamp
  <2>4. id \in DOMAIN v.timer /\ due = Stamp(v, id)
    BY <1>4, <1>a DEF Stamp
  <2>5. ASSUME NEW p \in v.que PROVE p[2] \in DOMAIN v.timer /\ p[1] = Stamp(v, p[2])
    BY <1>2, <1>4, <2>3, <2>4, <2>5
  <2> QED BY <1>4, <1>5, <2>1, <2>2, <2>5 DEF IsTimers
<1>7. SameTimers(ResetTimeFd(v, Stamp(u, id), n), v)
  <2>1. Stamp(u, id) \in Nat
    BY <1>a DEF Stamp
  <2> QED BY <1>6, <2>1, ResetKeeps
<1>8. RunEvery(t, after, interval, n) \in {v, ResetTimeFd(v, Stamp(u, id), n)}
  BY DEF RunEvery, InsertTimer, u, v, new
<1> QED BY <1>2, <1>a, <1>4, <1>6, <1>7, <1>8 DEF SameTimers, OneMore

\* DelTimer takes the pair of a timer it finds out of the queue.
LEMMA DelTimerRemoves ==
    ASSUME NEW t, IsTimers(t), NEW id \in DOMAIN t.timer
    PROVE  LET r == DelTimer(t, id)
           IN  /\ IsTimers(r) /\ r.timer = t.timer
               /\ r.que \subseteq t.que /\ r.left = t.left /\ r.ready = t.ready
               /\ \A i \in t.map : i # id => i \in r.map
               /\ \A p \in r.que : id \in t.map => p[2] # id
<1>1. CASE id \in t.map
  <2> DEFINE r == DelTimer(t, id)
  <2>1. /\ r.timer = t.timer /\ r.que = t.que \ {<<Stamp(t, id), id>>}
        /\ r.map = t.map \ {id} /\ r.left = t.left /\ r.ready = t.ready
        /\ r \in Shape
    BY <1>1 DEF DelTimer, IsTimers, Shape
  <2>2. IsFiniteSet(r.que)
    BY <2>1, FS_Subset DEF IsTimers
  <2>3. IsTimers(r)
    BY <2>1, <2>2 DEF IsTimers, Stamp
  <2>4. ASSUME NEW p \in r.que PROVE p[2] # id
    BY <2>1 DEF IsTimers, Pair, Shape
  <2> QED BY <2>1, <2>3, <2>4
<1>2. CASE id \notin t.map
  BY <1>2 DEF DelTimer
<1> QED BY <1>1, <1>2

\* GetExpired takes out the expired pairs, and the keys that are their stamps.
LEMMA GetExpiredTakes ==
    ASSUME NEW t, IsTimers(t), NEW n \in Nat
    PROVE  LET r == GetExpired(ReadTimerfd(t), n)
           IN  /\ IsTimers(r) /\ r.timer = t.timer
               /\ r.que = t.que \ Expired(t, n)
               /\ r.map = t.map \ ErasedKeys(t, n)
<1> DEFINE r == GetExpired(ReadTimerfd(t), n)
<1>1. /\ Expired(ReadTimerfd(t), n) = Expired(t, n)
      /\ ErasedKeys(ReadTimerfd(t), n) = ErasedKeys(t, n)
  BY DEF ReadTimerfd, Expired, ErasedKeys, IsTimers, Shape
<1>2. /\ r.timer = t.timer /\ r.que = t.que \ Expired(t, n) /\ r.map = t.map \ ErasedKeys(t, n)
      /\ r.left = t.left /\ r.ready = FALSE /\ r \in Shape
  BY <1>1 DEF GetExpired, ReadTimerfd, IsTimers, Shape
<1> HIDE DEF r
<1>3. IsFiniteSet(r.que)
  BY <1>2, FS_Subset DEF IsTimers
<1>4. IsTimers(r)
  BY <1>2, <1>3 DEF IsTimers, Stamp
<1> QED BY <1>2, <1>4 DEF r

\* The timers of a batch: expired ones, each once, by their stamps.
LEMMA ExpiredIsOrdered ==
    ASSUME NEW t, IsTimers(t), NEW n \in Nat, NEW b \in ExpiredInOrder(t, n)
    PROVE  /\ b \in Seq(Pair)
           /\ \A i \in DOMAIN b : b[i] \in t.que /\ b[i][1] <= n /\ b[i] \in Expired(t, n)
           /\ \A i, j \in DOMAIN b : i # j => b[i][2] # b[j][2]
           /\ \A i, j \in DOMAIN b : i < j => b[i][1] <= b[j][1]
<1> DEFINE E == Expired(t, n)
<1>1. E \subseteq t.que /\ (\A p \in E : p[1] <= n) /\ IsFiniteSet(E) /\ t.que \subseteq Pair
  BY FS_Subset DEF Expired, IsTimers, Shape
<1>2. Cardinality(E) \in Nat
  BY <1>1, FS_CardinalityType
<1>3. /\ b \in [1 .. Cardinality(E) -> E]
      /\ \A i, j \in 1 .. Cardinality(E) : i # j => b[i] # b[j]
      /\ \A i, j \in DOMAIN b : i < j => b[i][1] <= b[j][1]
  BY DEF ExpiredInOrder, SetToSeqs
<1> HIDE DEF E
<1>4. b \in Seq(Pair)
  BY <1>1, <1>2, <1>3
<1>5. ASSUME NEW i \in DOMAIN b, NEW j \in DOMAIN b, i # j PROVE b[i][2] # b[j][2]
  <2>1. b[i] \in t.que /\ b[j] \in t.que /\ b[i] # b[j]
    BY <1>1, <1>3, <1>5
  <2>2. b[i] = <<b[i][1], b[i][2]>> /\ b[j] = <<b[j][1], b[j][2]>>
    BY <1>1, <2>1 DEF Pair
  <2> QED BY <2>1, <2>2 DEF IsTimers
<1> QED BY <1>1, <1>3, <1>4, <1>5 DEF E

\* A timer starts again, if at all, behind the time of day, and can be found.
LEMMA RestartedWaits ==
    ASSUME NEW t, IsTimers(t), NEW n \in Nat, NEW id \in DOMAIN t.timer,
           \A p \in t.que : p[2] # id
    PROVE  LET r == Restarted(t, id, n)
           IN  /\ IsTimers(r) /\ DOMAIN r.timer = DOMAIN t.timer
               /\ t.map \subseteq r.map
               /\ \A p \in r.que : p \in t.que \/ (p[2] = id /\ id \in r.map /\ n <= p[1])
<1>1. CASE t.timer[id].interval > 0
  <2> DEFINE s == n + Micros(t.timer[id].interval)
             u == [t EXCEPT !.timer[id].stamp = s]
             v == DoInsertTimer(u, id)
  <2>1. t.timer[id].interval \in Nat /\ s \in Nat /\ n <= s /\ id \in Nat
    <3> DEFINE m == Micros(t.timer[id].interval)
    <3>1. t.timer[id].interval \in Nat /\ id \in Nat
      BY StampsAreNumbers
    <3>2. m \in Nat
      BY <3>1, MicrosAreNumbers
    <3> HIDE DEF m
    <3>3. n + m \in Nat /\ n <= n + m
      BY <3>2
    <3> QED BY <3>1, <3>3 DEF m
  <2> HIDE DEF s
  <2>2. /\ u.timer \in Timers /\ DOMAIN u.timer = DOMAIN t.timer
        /\ Stamp(u, id) = s
        /\ \A i \in DOMAIN t.timer : i # id => u.timer[i] = t.timer[i]
        /\ u.que = t.que /\ u.map = t.map /\ u.left = t.left /\ u.ready = t.ready
        /\ u \in Shape
    <3>1. /\ t.timer \in Timers
          /\ t.timer[id] \in [stamp : Nat, interval : Nat]
      <4>1. t.timer \in Timers
        BY DEF IsTimers, Shape
      <4>2. id \in 1 .. Len(t.timer)
        BY StampsAreNumbers
      <4>3. t.timer[id] \in [stamp : Nat, interval : Nat]
        BY <4>1, <4>2, ElementOfSeq DEF Timers
      <4> QED BY <4>1, <4>3
    <3>2. [t.timer[id] EXCEPT !.stamp = s] \in [stamp : Nat, interval : Nat]
          /\ [t.timer[id] EXCEPT !.stamp = s].stamp = s
      BY <2>1, <3>1
    <3>3. u.timer = [t.timer EXCEPT ![id] = [t.timer[id] EXCEPT !.stamp = s]]
      BY DEF IsTimers, Shape
    <3>4. u.timer \in Timers
      <4> DEFINE e == [t.timer[id] EXCEPT !.stamp = s]
      <4>1. t.timer \in Timers /\ e \in [stamp : Nat, interval : Nat]
        BY <3>1, <3>2
      <4> HIDE DEF e
      <4>2. [t.timer EXCEPT ![id] = e] \in Timers
        BY <4>1, ExceptSeq DEF Timers
      <4> QED BY <3>3, <4>2 DEF e
    <3>5. /\ u.que = t.que /\ u.map = t.map /\ u.left = t.left /\ u.ready = t.ready
          /\ u \in Shape
      <4> DEFINE w == u.timer
      <4>1. u = [t EXCEPT !.timer = w]
        BY DEF IsTimers, Shape
      <4>2. w \in Timers
        BY <3>4
      <4> HIDE DEF w, u
      <4> QED BY <4>1, <4>2 DEF IsTimers, Shape
    <3> HIDE DEF u
    <3> QED BY <3>1, <3>2, <3>3, <3>4, <3>5 DEF Stamp
  <2> HIDE DEF u
  <2>3. /\ v.timer = u.timer /\ v.que = t.que \cup {<<s, id>>} /\ v.map = t.map \cup {id}
        /\ v.left = t.left /\ v.ready = t.ready /\ v \in Shape
    <3>1. <<s, id>> \in Pair
      BY <2>1 DEF Pair
    <3> QED BY <2>1, <2>2, <3>1 DEF DoInsertTimer, Shape
  <2> HIDE DEF v
  <2>4. IsFiniteSet(v.que)
    <3>1. IsFiniteSet(t.que)
      BY DEF IsTimers
    <3>2. IsFiniteSet(t.que \cup {<<s, id>>})
      BY <3>1, FS_AddElement
    <3> QED BY <2>3, <3>2
  <2>5. IsTimers(v)
    BY <2>2, <2>3, <2>4 DEF IsTimers, Stamp
  <2>6. Restarted(t, id, n) = v
    BY <1>1 DEF Restarted, v, u, s
  <2> QED BY <2>1, <2>2, <2>3, <2>5, <2>6
<1>2. CASE ~ (t.timer[id].interval > 0)
  BY <1>2 DEF Restarted
<1> QED BY <1>1, <1>2

LEMMA ElapsedKeeps ==
    ASSUME NEW t, IsTimers(t)
    PROVE  /\ IsTimers(Elapsed(t))
           /\ Elapsed(t).timer = t.timer
           /\ Elapsed(t).que = t.que
           /\ Elapsed(t).map = t.map
           /\ t.ready \/ t.left = 1 => Elapsed(t).ready
           /\ t.left > 1 => Elapsed(t).left = t.left - 1
<1> DEFINE r == Elapsed(t)
           w == IF t.left = 0 THEN 0 ELSE t.left - 1
           e == t.ready \/ t.left = 1
<1>a. t.left \in Nat /\ w \in Nat /\ e \in BOOLEAN
  BY DEF IsTimers, Shape
<1>b. r = [t EXCEPT !.left = w, !.ready = e]
  BY DEF Elapsed, IsTimers, Shape
<1>c. (w > 0 => ~ e)
  BY DEF IsTimers, Shape
<1> HIDE DEF r, w, e
<1>1. /\ r.timer = t.timer /\ r.que = t.que /\ r.map = t.map /\ r \in Shape
      /\ r.left = w /\ r.ready = e
  BY <1>a, <1>b DEF IsTimers, Shape
<1>2. IsTimers(r)
  <2>1. r.left > 0 => ~ r.ready
    BY <1>1, <1>c
  <2> QED BY <1>1, <2>1 DEF IsTimers, Stamp
<1>d. e <=> t.ready \/ t.left = 1
  BY DEF e
<1>3. t.ready \/ t.left = 1 => r.ready
  BY <1>1, <1>d, Zenon
<1>4. t.left > 1 => r.left = t.left - 1
  BY <1>1, <1>a DEF w
<1> QED BY <1>1, <1>2, <1>3, <1>4 DEF r
-----------------------------------------------------------------------------
(* The inductive invariant. *)

Types ==
    /\ IsTimers(tl)
    /\ now \in 0 .. MaxTime /\ at \in 0 .. MaxTime /\ last \in Nat
    /\ pc \in {"wait", "lap", "callback"} /\ event \in BOOLEAN /\ stepped \in BOOLEAN
    /\ deleted \subseteq DOMAIN tl.timer /\ lost \subseteq DOMAIN tl.timer
    /\ pc = "callback" <=> batch # <<>>

\* What waits for its callback is out of the queue, each timer once, and due.
Batched ==
    /\ batch \in Seq(Pair)
    /\ \A i \in DOMAIN batch :
          /\ batch[i][2] \in DOMAIN tl.timer /\ batch[i][1] <= at
          /\ \A p \in tl.que : p[2] # batch[i][2]
    /\ \A i, j \in DOMAIN batch : i # j => batch[i][2] # batch[j][2]

\* DelTimer reaches every waiting timer but the lost ones.
Findable == \A p \in tl.que : p[2] \in tl.map \cup lost

\* As long as nobody sets the clock: nothing waits that should have been called
\* before the last timer, or before the batch.
Sorted ==
    /\ at <= now /\ last <= now
    /\ \A p \in tl.que : last <= p[1]
    /\ \A p \in tl.que, i \in DOMAIN batch : batch[i][1] <= p[1]
    /\ \A i, j \in DOMAIN batch : i < j => batch[i][1] <= batch[j][1]
    /\ batch # <<>> => last = batch[1][1]

TimerInv == Types /\ Batched /\ Findable /\ DeletedIsGone /\ (stepped \/ Sorted)

LEMMA Initially == Init => TimerInv
<1> SUFFICES ASSUME Init PROVE TimerInv
  OBVIOUS
<1>1. IsTimers(tl)
  <2>1. IsFiniteSet({})
    BY FS_EmptySet
  <2>2. tl \in Shape
    BY DEF Init, NoTimers, Shape, Timers
  <2> QED BY <2>1, <2>2 DEF Init, NoTimers, IsTimers
<1>2. Types
  <2>1. now \in 0 .. MaxTime /\ at \in 0 .. MaxTime /\ last \in Nat
    BY DEF Init
  <2>2. pc \in {"wait", "lap", "callback"} /\ event \in BOOLEAN /\ stepped \in BOOLEAN
    BY DEF Init
  <2>3. pc = "callback" <=> batch # <<>>
    BY DEF Init
  <2>4. deleted \subseteq DOMAIN tl.timer /\ lost \subseteq DOMAIN tl.timer
    BY DEF Init
  <2> QED BY <1>1, <2>1, <2>2, <2>3, <2>4 DEF Types
<1>3. batch = <<>> /\ tl.que = {} /\ deleted = {}
  BY DEF Init, NoTimers
<1>4. Batched /\ Findable /\ DeletedIsGone
  BY <1>3 DEF Batched, Findable, DeletedIsGone
<1>5. Sorted
  BY <1>3 DEF Init, Sorted
<1> QED BY <1>2, <1>4, <1>5 DEF TimerInv

\* Steps that leave the timers and the batch alone.
LEMMA QuietKeeps ==
    ASSUME TimerInv, Wake \/ Sleep \/ StepBack \/ UNCHANGED vars
    PROVE  TimerInv'
<1>1. UNCHANGED <<tl, batch, last, deleted, lost>> /\ (stepped => stepped')
  BY DEF Wake, Sleep, StepBack, vars
<1>2. Types'
  <2>1. tl.ready \in BOOLEAN /\ IsTimers(tl)'
    BY <1>1 DEF TimerInv, Types, IsTimers, Shape, Stamp
  <2>2. now' \in 0 .. MaxTime /\ at' \in 0 .. MaxTime
    BY DEF TimerInv, Types, Wake, Sleep, StepBack, vars
  <2>3. event' \in BOOLEAN /\ stepped' \in BOOLEAN
    BY <2>1 DEF TimerInv, Types, Wake, Sleep, StepBack, vars
  <2>4. pc' \in {"wait", "lap", "callback"} /\ (pc' = "callback" <=> batch # <<>>)
    BY DEF TimerInv, Types, Wake, Sleep, StepBack, vars
  <2> QED BY <1>1, <2>1, <2>2, <2>3, <2>4 DEF TimerInv, Types
<1>3. Batched'
  <2>1. CASE UNCHANGED at
    BY <1>1, <2>1 DEF TimerInv, Batched
  <2>2. CASE Wake \/ Sleep
    <3>1. batch = <<>>
      BY <2>2 DEF TimerInv, Types, Wake, Sleep
    <3> QED BY <1>1, <3>1 DEF TimerInv, Batched
  <2> QED BY <2>1, <2>2 DEF StepBack, vars
<1>4. Findable' /\ DeletedIsGone'
  BY <1>1 DEF TimerInv, Findable, DeletedIsGone, InBatch
<1>5. (stepped \/ Sorted)'
  <2>1. CASE StepBack
    BY <2>1 DEF StepBack
  <2>2. CASE ~ StepBack /\ ~ stepped
    <3>1. now' = now /\ at' <= now'
      BY <2>2 DEF TimerInv, Types, Sorted, Wake, Sleep, StepBack, vars
    <3> QED BY <1>1, <2>2, <3>1 DEF TimerInv, Sorted
  <2> QED BY <1>1, <2>1, <2>2
<1> QED BY <1>2, <1>3, <1>4, <1>5 DEF TimerInv

LEMMA TickKeeps ==
    ASSUME TimerInv, Tick
    PROVE  TimerInv'
<1>1. /\ IsTimers(tl') /\ tl'.timer = tl.timer /\ tl'.que = tl.que /\ tl'.map = tl.map
      /\ UNCHANGED <<at, pc, event, batch, stepped, last, deleted, lost>>
      /\ now' \in 0 .. MaxTime /\ now <= now'
  BY ElapsedKeeps DEF TimerInv, Types, Tick
<1>2. Types' /\ Batched' /\ Findable' /\ DeletedIsGone'
  BY <1>1 DEF TimerInv, Types, Batched, Findable, DeletedIsGone, InBatch
<1>3. ASSUME Sorted PROVE Sorted'
  BY <1>1, <1>3 DEF TimerInv, Types, Sorted
<1> QED BY <1>1, <1>2, <1>3 DEF TimerInv

LEMMA StartKeeps ==
    ASSUME TimerInv, NEW after \in Afters, NEW interval \in Intervals, Start(after, interval)
    PROVE  TimerInv'
<1> DEFINE id == Len(tl.timer) + 1
           due == now + Micros(after)
<1>a. /\ IsTimers(tl) /\ now \in Nat /\ after \in Nat /\ interval \in Nat
      /\ id \in TimerId /\ id = Len(tl.timer) + 1 /\ due \in Nat /\ due = now + Micros(after)
      /\ now <= due
  <2> DEFINE m == Micros(after)
  <2>1. IsTimers(tl) /\ now \in Nat /\ after \in Nat /\ interval \in Nat /\ id \in TimerId
    BY DEF TimerInv, Types, Start
  <2>2. m \in Nat
    BY <2>1, MicrosAreNumbers
  <2> HIDE DEF m
  <2>3. now + m \in Nat /\ now <= now + m
    BY <2>1, <2>2
  <2> QED BY <2>1, <2>3 DEF m
<1> HIDE DEF id, due
<1>1. /\ IsTimers(tl') /\ DOMAIN tl'.timer = DOMAIN tl.timer \cup {id}
      /\ (\A p \in tl'.que : p \in tl.que \/ p = <<due, id>>)
      /\ tl'.map = tl.map \cup {id}
      /\ UNCHANGED <<now, at, pc, event, batch, stepped, last, deleted, lost>>
  <2>1. OneMore(RunEvery(tl, after, interval, now), tl, id, due)
    BY <1>a, RunEveryStarts
  <2> QED BY <2>1 DEF Start, OneMore
<1>2. id \notin DOMAIN tl.timer
  BY <1>a, StampsAreNumbers
<1>3. Types'
  BY <1>1 DEF TimerInv, Types
<1>4. Batched'
  BY <1>1, <1>2 DEF TimerInv, Batched
<1>5. Findable'
  BY <1>1 DEF TimerInv, Findable
<1>6. DeletedIsGone'
  BY <1>1, <1>2 DEF TimerInv, Types, DeletedIsGone, InBatch
<1>7. ASSUME Sorted PROVE Sorted'
  <2>1. last <= due /\ \A i \in DOMAIN batch : batch[i][1] <= due
    BY <1>a, <1>7 DEF TimerInv, Types, Batched, Sorted, Pair
  <2> QED BY <1>1, <1>7, <2>1 DEF Sorted
<1> QED BY <1>1, <1>3, <1>4, <1>5, <1>6, <1>7 DEF TimerInv

LEMMA DeleteKeeps ==
    ASSUME TimerInv, NEW id \in TimerId, Delete(id)
    PROVE  TimerInv'
<1>1. id \in DOMAIN tl.timer
  BY StampsAreNumbers DEF TimerInv, Types, Delete
<1>2. /\ IsTimers(tl') /\ tl'.timer = tl.timer /\ tl'.que \subseteq tl.que
      /\ \A i \in tl.map : i # id => i \in tl'.map
      /\ \A p \in tl'.que : id \in tl.map => p[2] # id
      /\ UNCHANGED <<now, at, pc, event, batch, stepped, last, lost>>
      /\ deleted' = IF id \in InBatch \cup lost THEN deleted ELSE deleted \cup {id}
  BY <1>1, DelTimerRemoves DEF TimerInv, Types, Delete
<1>3. Types'
  BY <1>1, <1>2 DEF TimerInv, Types
<1>4. Batched'
  BY <1>2 DEF TimerInv, Batched
<1>5. Findable'
  BY <1>2 DEF TimerInv, Findable
<1>6. DeletedIsGone'
  <2>1. InBatch' = InBatch
    BY <1>2 DEF InBatch
  <2>2. ASSUME NEW i \in deleted PROVE i \notin InBatch /\ \A p \in tl'.que : p[2] # i
    BY <1>2 DEF TimerInv, DeletedIsGone
  <2>3. ASSUME id \notin InBatch \cup lost PROVE \A p \in tl'.que : p[2] # id
    BY <1>2, <2>3 DEF TimerInv, Findable
  <2> QED BY <1>2, <2>1, <2>2, <2>3 DEF DeletedIsGone
<1>7. ASSUME Sorted PROVE Sorted'
  BY <1>2, <1>7 DEF Sorted
<1> QED BY <1>2, <1>3, <1>4, <1>5, <1>6, <1>7 DEF TimerInv

\* What Continue leaves of the timers it is given.
LEMMA ContinueKeeps ==
    ASSUME NEW b, NEW t, IsTimers(t), now \in Nat, Continue(b, t)
    PROVE  /\ IsTimers(tl') /\ tl'.timer = t.timer /\ tl'.que = t.que /\ tl'.map = t.map
           /\ batch' = b /\ pc' \in {"lap", "callback"} /\ (pc' = "callback" <=> b # <<>>)
           /\ last' = IF b = <<>> THEN last ELSE b[1][1]
BY RearmedKeeps DEF Continue, SameTimers

LEMMA OnTimeKeeps ==
    ASSUME TimerInv, OnTime
    PROVE  /\ TimerInv'
           /\ batch' # <<>> => last' <= at /\ (stepped \/ last' >= last)
<1>1. PICK b \in ExpiredInOrder(tl, at) : Continue(b, GetExpired(ReadTimerfd(tl), at))
  BY DEF OnTime
<1>2. IsTimers(tl) /\ at \in Nat /\ now \in Nat /\ batch = <<>>
  BY DEF TimerInv, Types, OnTime
<1>3. /\ b \in Seq(Pair)
      /\ \A i \in DOMAIN b : b[i] \in tl.que /\ b[i][1] <= at /\ b[i] \in Expired(tl, at)
      /\ \A i, j \in DOMAIN b : i # j => b[i][2] # b[j][2]
      /\ \A i, j \in DOMAIN b : i < j => b[i][1] <= b[j][1]
  BY <1>2, ExpiredIsOrdered
<1>4. /\ IsTimers(tl') /\ tl'.timer = tl.timer
      /\ tl'.que = tl.que \ Expired(tl, at) /\ tl'.map = tl.map \ ErasedKeys(tl, at)
      /\ batch' = b /\ pc' \in {"lap", "callback"} /\ (pc' = "callback" <=> b # <<>>)
      /\ last' = IF b = <<>> THEN last ELSE b[1][1]
  <2>1. LET t == GetExpired(ReadTimerfd(tl), at)
        IN  /\ IsTimers(t) /\ t.timer = tl.timer
            /\ t.que = tl.que \ Expired(tl, at) /\ t.map = tl.map \ ErasedKeys(tl, at)
    BY <1>2, GetExpiredTakes
  <2> QED BY <1>1, <1>2, <2>1, ContinueKeeps
<1>5. /\ event' = FALSE /\ UNCHANGED <<now, at, stepped, deleted>>
      /\ lost' = lost \cup (ErasedKeys(tl, at) \cap {p[2] : p \in tl.que \ Expired(tl, at)})
  BY DEF OnTime
<1>6. b # <<>> => 1 \in DOMAIN b
  BY <1>3
<1>7. \A p \in tl.que : p[1] \in Nat /\ p[2] \in DOMAIN tl.timer
  BY <1>2 DEF IsTimers, Shape, Pair
<1>8. Types'
  <2>1. last' \in Nat
    BY <1>3, <1>4, <1>6, <1>7 DEF TimerInv, Types
  <2>2. lost' \subseteq DOMAIN tl'.timer
    BY <1>4, <1>5, <1>7 DEF TimerInv, Types
  <2> QED BY <1>4, <1>5, <2>1, <2>2 DEF TimerInv, Types
<1>9. Batched'
  <2>1. ASSUME NEW i \in DOMAIN b, NEW p \in tl'.que PROVE p[2] # b[i][2]
    <3>1. p \in tl.que /\ b[i] \in tl.que /\ p # b[i]
      BY <1>3, <1>4
    <3>2. p = <<p[1], p[2]>> /\ b[i] = <<b[i][1], b[i][2]>>
      BY <1>2, <3>1 DEF IsTimers, Shape, Pair
    <3> QED BY <1>2, <3>1, <3>2 DEF IsTimers
  <2> QED BY <1>3, <1>4, <1>5, <1>7, <2>1 DEF Batched
<1>10. Findable'
  BY <1>4, <1>5 DEF TimerInv, Findable
<1>11. DeletedIsGone'
  BY <1>3, <1>4, <1>5 DEF TimerInv, DeletedIsGone, InBatch
<1>12. ASSUME Sorted, ~ stepped PROVE Sorted' /\ (b # <<>> => last' >= last)
  <2>1. \A p \in tl'.que : p \in tl.que /\ at <= p[1]
    BY <1>2, <1>4, <1>7 DEF Expired
  <2>2. \A i \in DOMAIN b : last <= b[i][1] /\ b[i][1] <= at /\ b[i][1] \in Nat
    BY <1>3, <1>7, <1>12 DEF Sorted
  <2>3. at <= now /\ last <= now /\ last \in Nat
    BY <1>12 DEF TimerInv, Types, Sorted
  <2>4. last' <= now /\ (b # <<>> => last' >= last)
    BY <1>2, <1>4, <1>6, <2>2, <2>3
  <2>5. \A p \in tl'.que : last' <= p[1]
    BY <1>2, <1>4, <1>6, <1>7, <1>12, <2>1, <2>2 DEF Sorted
  <2>6. \A p \in tl'.que, i \in DOMAIN b : b[i][1] <= p[1]
    BY <1>2, <1>7, <2>1, <2>2
  <2> QED BY <1>3, <1>4, <1>5, <2>3, <2>4, <2>5, <2>6 DEF Sorted
<1>13. b # <<>> => last' <= at
  BY <1>3, <1>4, <1>6
<1>14. TimerInv'
  BY <1>5, <1>8, <1>9, <1>10, <1>11, <1>12 DEF TimerInv
<1> QED BY <1>4, <1>12, <1>13, <1>14 DEF TimerInv

LEMMA ReturnKeeps ==
    ASSUME TimerInv, Return
    PROVE  /\ TimerInv'
           /\ batch' # <<>> => last' <= at /\ (stepped \/ last' >= last)
<1> DEFINE b == Tail(batch)
           id == batch[1][2]
           t == Restarted(tl, id, now)
<1>1. /\ IsTimers(tl) /\ at \in Nat /\ now \in Nat
      /\ batch \in Seq(Pair) /\ batch # <<>> /\ 1 \in DOMAIN batch
      /\ Continue(b, t)
      /\ UNCHANGED <<now, at, event, stepped, deleted, lost>>
  BY DEF TimerInv, Types, Batched, Return, Called
<1>2. /\ b \in Seq(Pair)
      /\ \A i \in DOMAIN b : i \in Nat /\ i + 1 \in DOMAIN batch /\ b[i] = batch[i + 1] /\ i + 1 # 1
      /\ b # <<>> => 1 \in DOMAIN b
  BY <1>1
<1>3. id \in DOMAIN tl.timer /\ \A p \in tl.que : p[2] # id
  BY <1>1 DEF TimerInv, Batched
<1>4. /\ IsTimers(t) /\ DOMAIN t.timer = DOMAIN tl.timer /\ tl.map \subseteq t.map
      /\ \A p \in t.que : p \in tl.que \/ (p[2] = id /\ id \in t.map /\ now <= p[1])
  BY <1>1, <1>3, RestartedWaits
<1> HIDE DEF t, b
<1>5. /\ IsTimers(tl') /\ DOMAIN tl'.timer = DOMAIN tl.timer /\ tl.map \subseteq tl'.map
      /\ \A p \in tl'.que : p \in tl.que \/ (p[2] = id /\ id \in tl'.map /\ now <= p[1])
      /\ batch' = b /\ pc' \in {"lap", "callback"} /\ (pc' = "callback" <=> b # <<>>)
      /\ last' = IF b = <<>> THEN last ELSE b[1][1]
  BY <1>1, <1>4, ContinueKeeps
<1>6. \A i \in DOMAIN b : /\ b[i][2] \in DOMAIN tl.timer /\ b[i][2] # id
                          /\ b[i][1] <= at /\ b[i][1] \in Nat
                          /\ b[i][2] \in InBatch
                          /\ \A p \in tl.que : p[2] # b[i][2]
  <2> SUFFICES ASSUME NEW i \in DOMAIN b
               PROVE  /\ b[i][2] \in DOMAIN tl.timer /\ b[i][2] # id
                      /\ b[i][1] <= at /\ b[i][1] \in Nat
                      /\ b[i][2] \in InBatch
                      /\ \A p \in tl.que : p[2] # b[i][2]
    OBVIOUS
  <2>1. i + 1 \in DOMAIN batch /\ b[i] = batch[i + 1] /\ i + 1 # 1
    BY <1>2
  <2>2. batch[i + 1] \in Pair
    BY <1>1, <2>1
  <2>3. /\ batch[i + 1][2] \in DOMAIN tl.timer /\ batch[i + 1][1] <= at
        /\ \A p \in tl.que : p[2] # batch[i + 1][2]
    BY <2>1 DEF TimerInv, Batched
  <2>4. batch[i + 1][2] # batch[1][2]
    BY <1>1, <2>1 DEF TimerInv, Batched
  <2>5. b[i][2] \in InBatch
    BY <2>1 DEF InBatch
  <2> QED BY <2>1, <2>2, <2>3, <2>4, <2>5 DEF Pair
<1>7. Types'
  BY <1>1, <1>2, <1>5, <1>6 DEF TimerInv, Types
<1>8. Batched'
  <2>1. \A i, j \in DOMAIN b : i # j => b[i][2] # b[j][2]
    BY <1>2 DEF TimerInv, Batched
  <2> QED BY <1>1, <1>2, <1>5, <1>6, <2>1 DEF Batched
<1>9. Findable'
  BY <1>1, <1>5 DEF TimerInv, Findable
<1>10. DeletedIsGone'
  <2>1. id \in InBatch
    BY <1>1 DEF InBatch
  <2>2. InBatch' \subseteq InBatch
    BY <1>5, <1>6 DEF InBatch
  <2> QED BY <1>1, <1>5, <2>1, <2>2 DEF TimerInv, DeletedIsGone
<1>11. ASSUME Sorted PROVE Sorted' /\ (b # <<>> => last' >= last)
  <2>1. /\ at <= now /\ last <= now /\ last \in Nat /\ last = batch[1][1]
        /\ \A p \in tl.que : last <= p[1]
    BY <1>1, <1>11 DEF TimerInv, Types, Sorted
  <2>2. \A i \in DOMAIN b : last <= b[i][1] /\ \A p \in tl.que : b[i][1] <= p[1]
    BY <1>1, <1>2, <1>11, <2>1 DEF Sorted
  <2>3. \A i, j \in DOMAIN b : i < j => b[i][1] <= b[j][1]
    <3> SUFFICES ASSUME NEW i \in DOMAIN b, NEW j \in DOMAIN b, i < j
                 PROVE  b[i][1] <= b[j][1]
      OBVIOUS
    <3>1. i + 1 < j + 1
      BY <1>2
    <3> QED BY <1>2, <1>11, <3>1 DEF Sorted
  <2>4. \A p \in tl'.que : p[1] \in Nat
    BY <1>5 DEF IsTimers, Shape, Pair
  <2>5. \A p \in tl'.que, i \in DOMAIN b : b[i][1] <= p[1]
    BY <1>1, <1>5, <1>6, <2>1, <2>2, <2>4
  <2>6. \A p \in tl'.que : last' <= p[1]
    BY <1>1, <1>2, <1>5, <2>1, <2>4, <2>5
  <2>7. last' <= now /\ (b # <<>> => last' >= last)
    BY <1>1, <1>2, <1>5, <1>6, <2>1, <2>2
  <2> QED BY <1>1, <1>5, <2>1, <2>3, <2>5, <2>6, <2>7 DEF Sorted
<1>12. b # <<>> => last' <= at
  BY <1>2, <1>5, <1>6
<1>13. TimerInv'
  BY <1>1, <1>7, <1>8, <1>9, <1>10, <1>11 DEF TimerInv
<1> QED BY <1>5, <1>11, <1>12, <1>13 DEF TimerInv

\* Every step keeps the invariant and, when it calls a timer, the order.
LEMMA EveryStepKeeps ==
    ASSUME TimerInv, [Next]_vars
    PROVE  /\ TimerInv'
           /\ batch' # batch /\ batch' # <<>> => last' <= at /\ (stepped \/ last' >= last)
<1>1. CASE Wake \/ Sleep \/ StepBack \/ UNCHANGED vars
  <2>1. batch' = batch
    BY <1>1 DEF Wake, Sleep, StepBack, vars
  <2> QED BY <1>1, <2>1, QuietKeeps
<1>2. CASE Tick
  BY <1>2, TickKeeps DEF Tick
<1>3. CASE OnTime
  BY <1>3, OnTimeKeeps
<1>4. CASE Return
  BY <1>4, ReturnKeeps
<1>5. ASSUME NEW after \in Afters, NEW interval \in Intervals, Start(after, interval)
      PROVE  TimerInv' /\ batch' = batch
  BY <1>5, StartKeeps DEF Start
<1>6. ASSUME NEW id \in TimerId, Delete(id)
      PROVE  TimerInv' /\ batch' = batch
  BY <1>6, DeleteKeeps DEF Delete
<1> QED BY <1>1, <1>2, <1>3, <1>4, <1>5, <1>6 DEF Next, Loop

-----------------------------------------------------------------------------
(* The theorems. *)

LEMMA InvariantHolds == Spec => []TimerInv
<1>1. TimerInv /\ [Next]_vars => TimerInv'
  BY EveryStepKeeps
<1> QED BY <1>1, Initially, PTL DEF Spec

\* Whatever callbacks start and delete, every pair of _queTimer carries the
\* time stamp its Timer has, the keys of _mapFindTimer are ids of timers, and
\* an armed timerfd has not gone off.
THEOREM TypeCorrect == Spec => []TypeOK
<1>1. TimerInv => TypeOK
  BY DEF TimerInv, Types, TypeOK, IsTimers, Shape
<1> QED BY <1>1, InvariantHolds, PTL

\* DelTimer, where it reaches the timer, takes it out for good: it is neither
\* waiting nor about to be called.
THEOREM DeletedIsGoneCorrect == Spec => []DeletedIsGone
<1>1. TimerInv => DeletedIsGone
  BY DEF TimerInv
<1> QED BY <1>1, InvariantHolds, PTL

\* OnTime calls timers in the order of their time stamps over all batches, and
\* none before its time, as long as nobody sets the time of day.
THEOREM FiresInOrderCorrect == Spec => FiresInOrder
<1>1. TimerInv /\ [Next]_vars
        => [batch' # batch /\ batch' # <<>> =>
              /\ last' <= at
              /\ stepped \/ last' >= last]_vars
  BY EveryStepKeeps
<1> QED BY <1>1, InvariantHolds, PTL DEF Spec, FiresInOrder

-----------------------------------------------------------------------------
(* The timerfd. *)

\* The timerfd goes off at once, or no later than anything is due.
Timely(t, n) == t.left <= 1 \/ \A p \in t.que : n + t.left <= p[1]

\* A timerfd that went off is handled in the lap that saw it.
Armed ==
    /\ event => pc = "lap"
    /\ pc # "callback" /\ tl.que # {} =>
          tl.ready \/ event \/ (tl.left > 0 /\ (stepped \/ Timely(tl, now)))

LEMMA ResetArms ==
    ASSUME NEW t, IsTimers(t), NEW stamp \in Nat, NEW n \in Nat, \A p \in t.que : stamp <= p[1]
    PROVE  ResetTimeFd(t, stamp, n).left > 0 /\ Timely(ResetTimeFd(t, stamp, n), n)
<1> DEFINE r == ResetTimeFd(t, stamp, n)
           w == IF stamp - n < 1 THEN 1 ELSE stamp - n
<1>1. r.que = t.que /\ r.left = w
  BY DEF ResetTimeFd, IsTimers, Shape
<1>2. w \in Nat /\ w > 0 /\ (w <= 1 \/ n + w = stamp)
  OBVIOUS
<1> HIDE DEF r, w
<1>3. r.left > 0 /\ Timely(r, n)
  BY <1>1, <1>2 DEF Timely
<1> QED BY <1>3 DEF r

LEMMA RearmedArms ==
    ASSUME NEW t, IsTimers(t), NEW n \in Nat, t.que # {}
    PROVE  Rearmed(t, n).left > 0 /\ Timely(Rearmed(t, n), n)
<1>1. Rearmed(t, n) = ResetTimeFd(t, Stamp(t, First(t)), n)
  BY DEF Rearmed
<1> QED BY <1>1, FirstStamp, ResetArms

\* A timer that is due before the others arms the timerfd; another one need not.
LEMMA RunEveryArms ==
    ASSUME NEW t, IsTimers(t), NEW after \in Nat, NEW interval \in Nat, NEW n \in Nat,
           NEW id \in TimerId, id = Len(t.timer) + 1
    PROVE  LET r == RunEvery(t, after, interval, n)
           IN  \/ r.left > 0 /\ Timely(r, n)
               \/ /\ t.que # {} /\ r.left = t.left /\ r.ready = t.ready
                  /\ Timely(t, n) => Timely(r, n)
<1> DEFINE due == n + Micros(after)
           new == [stamp |-> due, interval |-> interval]
           u == [t EXCEPT !.timer = Append(@, new)]
           v == DoInsertTimer(u, id)
           r == RunEvery(t, after, interval, n)
<1>1. due \in Nat
  BY MicrosAreNumbers
<1>2. /\ DOMAIN t.timer = 1 .. Len(t.timer) /\ Append(t.timer, new)[id] = new
      /\ \A i \in DOMAIN t.timer : Append(t.timer, new)[i] = t.timer[i]
  <2>1. t.timer \in Timers /\ new \in [stamp : Nat, interval : Nat]
    BY <1>1 DEF IsTimers, Shape
  <2> HIDE DEF new
  <2> QED BY <2>1 DEF Timers
<1>3. /\ u.timer = Append(t.timer, new) /\ u.que = t.que /\ u.map = t.map
      /\ u.left = t.left /\ u.ready = t.ready
  <2> HIDE DEF new
  <2> QED BY DEF IsTimers, Shape
<1>4. Stamp(u, id) = due /\ \A i \in DOMAIN t.timer : Stamp(u, i) = Stamp(t, i)
  BY <1>2, <1>3 DEF Stamp
<1>5. First(u) = First(t)
  BY <1>3 DEF First
<1>6. /\ OneMore(r, t, id, due)
      /\ r = IF u.que = {} \/ Stamp(u, id) < Stamp(u, First(u)) THEN ResetTimeFd(v, Stamp(u, id), n)
             ELSE v
  <2>1. OneMore(r, t, id, due)
    BY <1>1, RunEveryStarts
  <2> QED BY <2>1 DEF RunEvery, InsertTimer
<1>7. /\ v.que = t.que \cup {<<due, id>>} /\ v.left = t.left /\ v.ready = t.ready
  <2> HIDE DEF new
  <2>1. /\ u \in [timer : {u.timer}, que : {t.que}, map : {t.map}, left : {t.left}, ready : {t.ready}]
    BY <1>3 DEF IsTimers, Shape
  <2> HIDE DEF u
  <2> QED BY <1>3, <1>4, <2>1 DEF DoInsertTimer
<1> HIDE DEF due, new, u, r
<1>8. CASE t.que = {} \/ due < Stamp(t, First(t))
  <2>1. \A p \in t.que : due <= p[1]
    BY <1>1, <1>8, FirstStamp, PairsAreNumbers
  <2>2. \A p \in v.que : due <= p[1]
    BY <1>1, <1>7, <2>1
  <2>3. t.que # {} => Stamp(u, First(u)) = Stamp(t, First(t))
    BY <1>4, <1>5, FirstStamp
  <2>4. r = ResetTimeFd(v, due, n)
    BY <1>3, <1>4, <1>6, <1>8, <2>3
  <2>5. r.left > 0 /\ Timely(r, n)
    <3> DEFINE w == IF due - n < 1 THEN 1 ELSE due - n
    <3>1. v \in [timer : {v.timer}, que : {v.que}, map : {v.map}, left : {v.left}, ready : {v.ready}]
      BY <1>3, <1>7 DEF IsTimers, Shape, DoInsertTimer, u
    <3>2. w \in Nat /\ w > 0 /\ (w <= 1 \/ n + w = due)
      BY <1>1
    <3> HIDE DEF v
    <3>3. r.que = v.que /\ r.left = w
      BY <2>4, <3>1 DEF ResetTimeFd
    <3> HIDE DEF w
    <3> QED BY <2>2, <3>2, <3>3 DEF Timely
  <2> QED BY <2>5 DEF r
<1>9. CASE t.que # {} /\ ~ (due < Stamp(t, First(t)))
  <2>1. Stamp(u, First(u)) = Stamp(t, First(t)) /\ Stamp(t, First(t)) \in Nat
    BY <1>4, <1>5, <1>9, FirstStamp
  <2>2. r = v
    BY <1>3, <1>4, <1>6, <1>9, <2>1
  <2>3. r.que = t.que \cup {<<due, id>>} /\ r.left = t.left /\ r.ready = t.ready
    BY <1>7, <2>2
  <2>4. PICK p \in t.que : p[1] = Stamp(t, First(t))
    BY <1>9, FirstStamp
  <2>5. ASSUME Timely(t, n) PROVE Timely(r, n)
    <3>1. t.left \in Nat
      BY DEF IsTimers, Shape
    <3>2. CASE t.left <= 1
      BY <2>3, <3>2 DEF Timely
    <3>3. CASE \A q \in t.que : n + t.left <= q[1]
      <4>1. n + t.left <= due
        BY <1>1, <1>9, <2>1, <2>4, <3>1, <3>3
      <4> QED BY <2>3, <3>3, <4>1 DEF Timely
    <3> QED BY <2>5, <3>2, <3>3 DEF Timely
  <2> QED BY <1>9, <2>3, <2>5 DEF r
<1> QED BY <1>8, <1>9

LEMMA ArmedKeeps ==
    ASSUME TimerInv, Armed, [Next]_vars
    PROVE  Armed'
<1>1. /\ IsTimers(tl) /\ now \in Nat /\ now \in 0 .. MaxTime /\ tl.left \in Nat
      /\ pc \in {"wait", "lap", "callback"}
  BY DEF TimerInv, Types, IsTimers, Shape
<1>2. ASSUME NEW b, NEW t, IsTimers(t), Continue(b, t), now' = now, event' = FALSE
      PROVE  Armed'
  <2>1. CASE pc' = "callback"
    BY <1>2, <2>1 DEF Armed
  <2>2. CASE pc' = "lap" /\ tl' = Rearmed(t, now)
    <3>1. tl'.que = t.que
      BY <1>1, <1>2, <2>2, RearmedKeeps DEF SameTimers
    <3>2. tl'.que # {} => tl'.left > 0 /\ Timely(tl', now)
      BY <1>1, <1>2, <2>2, <3>1, RearmedArms
    <3> QED BY <1>2, <2>2, <3>2 DEF Armed, Timely
  <2> QED BY <1>2, <2>1, <2>2 DEF Continue
<1>3. CASE Wake \/ Sleep \/ UNCHANGED vars
  BY <1>3 DEF Armed, Timely, Wake, Sleep, vars
<1>4. CASE OnTime
  <2>1. IsTimers(GetExpired(ReadTimerfd(tl), at))
    BY <1>1, GetExpiredTakes DEF TimerInv, Types
  <2>2. \E b : Continue(b, GetExpired(ReadTimerfd(tl), at))
    BY <1>4 DEF OnTime
  <2> QED BY <1>2, <1>4, <2>1, <2>2 DEF OnTime
<1>5. CASE Return
  <2>1. event = FALSE
    BY <1>5 DEF Armed, Return, TimerInv, Types
  <2>2. batch # <<>> /\ batch[1][2] \in DOMAIN tl.timer /\ \A p \in tl.que : p[2] # batch[1][2]
    BY <1>5 DEF TimerInv, Types, Batched, Return
  <2>3. IsTimers(Restarted(tl, Called, now))
    BY <1>1, <1>5, <2>2, RestartedWaits DEF Return, Called
  <2> QED BY <1>2, <1>5, <2>1, <2>3 DEF Return
<1>6. CASE StepBack
  BY <1>6 DEF Armed, StepBack
<1>7. CASE Tick
  <2>1. /\ tl'.que = tl.que /\ UNCHANGED <<pc, event, stepped>>
        /\ tl.ready \/ tl.left = 1 => tl'.ready
        /\ tl.left > 1 => tl'.left = tl.left - 1
        /\ now' \in {now, now + 1}
    BY <1>1, <1>7, ElapsedKeeps DEF Tick
  <2>2. ASSUME tl.left > 1, Timely(tl, now) PROVE Timely(tl, now)'
    <3>1. tl'.left = tl.left - 1 /\ \A p \in tl.que : now + tl.left <= p[1] /\ p[1] \in Nat
      BY <1>1, <2>1, <2>2, PairsAreNumbers DEF Timely
    <3>2. \A p \in tl'.que : now' + tl'.left <= p[1]
      BY <1>1, <2>1, <2>2, <3>1
    <3> QED BY <3>2 DEF Timely
  <2>3. tl.left > 0 => tl.left = 1 \/ tl.left > 1
    BY <1>1
  <2>4. tl.left > 1 => tl'.left > 0
    BY <1>1, <2>1
  <2> QED BY <2>1, <2>2, <2>3, <2>4 DEF Armed
<1>8. ASSUME NEW after \in Afters, NEW interval \in Intervals, Start(after, interval)
      PROVE  Armed'
  <2>1. /\ tl' = RunEvery(tl, after, interval, now) /\ Len(tl.timer) + 1 \in TimerId
        /\ UNCHANGED <<now, pc, event, stepped>> /\ after \in Nat /\ interval \in Nat
    BY <1>8 DEF Start
  <2>2. \/ tl'.left > 0 /\ Timely(tl', now)
        \/ /\ tl.que # {} /\ tl'.left = tl.left /\ tl'.ready = tl.ready
           /\ Timely(tl, now) => Timely(tl', now)
    BY <1>1, <2>1, RunEveryArms
  <2>3. Timely(tl', now) => Timely(tl, now)'
    BY <2>1 DEF Timely
  <2> QED BY <2>1, <2>2, <2>3 DEF Armed
<1>9. ASSUME NEW id \in TimerId, Delete(id)
      PROVE  Armed'
  <2>1. tl' = DelTimer(tl, id) /\ id \in DOMAIN tl.timer /\ UNCHANGED <<now, pc, event, stepped>>
    BY <1>1, <1>9, StampsAreNumbers DEF Delete
  <2>2. tl'.que \subseteq tl.que /\ tl'.left = tl.left /\ tl'.ready = tl.ready
    BY <1>1, <2>1, DelTimerRemoves
  <2> QED BY <2>1, <2>2 DEF Armed, Timely
<1> QED BY <1>3, <1>4, <1>5, <1>6, <1>7, <1>8, <1>9 DEF Next, Loop

\* No timer is forgotten: while timers wait and OnTime does not run, the timerfd is
\* armed for the first of them or has gone off, whatever was started and deleted
\* (InsertTimer, DelTimer, OnTime).
THEOREM StaysArmedCorrect == Spec => []StaysArmed
<1>1. Init => Armed
  BY DEF Init, NoTimers, Armed
<1>2. TimerInv /\ Armed => StaysArmed
  <2> SUFFICES ASSUME TimerInv, Armed, pc # "callback", tl.que # {}, ~ tl.ready, ~ event
               PROVE  tl.left > 0 /\ (stepped \/ now + tl.left <= Max({now + 1, Stamp(tl, First(tl))}))
    BY DEF StaysArmed
  <2> DEFINE due == Stamp(tl, First(tl))
  <2>1. IsTimers(tl) /\ now \in Nat /\ tl.left \in Nat
    BY DEF TimerInv, Types, IsTimers, Shape
  <2>2. due \in Nat /\ \E p \in tl.que : p[1] = due
    BY <2>1, FirstStamp
  <2>3. tl.left > 0 /\ (stepped \/ Timely(tl, now))
    BY DEF Armed
  <2> HIDE DEF due
  <2>4. Timely(tl, now) => now + tl.left <= now + 1 \/ now + tl.left <= due
    BY <2>1, <2>2 DEF Timely
  <2>5. LET m == Max({now + 1, due}) IN m \in Nat /\ now + 1 <= m /\ due <= m
    BY <2>1, <2>2, LargerOf
  <2>6. Timely(tl, now) => now + tl.left <= Max({now + 1, due})
    BY <2>1, <2>2, <2>4, <2>5
  <2> QED BY <2>3, <2>6 DEF due
<1>3. TimerInv /\ Armed /\ [Next]_vars => Armed'
  BY ArmedKeeps
<1> QED BY <1>1, <1>2, <1>3, InvariantHolds, PTL DEF Spec
=============================================================================
