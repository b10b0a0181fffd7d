---------------------------- MODULE TcpServerProofs ----------------------------
(***************************************************************************)
(* What TcpServer promises for every set of connections, every limit of    *)
(* connections, every time-out and every pair of threads; and what DouList *)
(* does for its list of idle connections, at the end of the module.        *)
(*                                                                         *)
(* The argument is one inductive invariant, ServerInv.  A step of the loop *)
(* runs the bodies of many calls one after the other, so the lemmas say of *)
(* each body what it keeps of LoopInv, of which one connection may be      *)
(* exempt while its own call runs; the lemmas on the actions then put the  *)
(* parts together.                                                         *)
(***************************************************************************)
EXTENDS TcpServer, DouList, SequenceTheorems, FiniteSetTheorems, WellFoundedInduction, TLAPS

-----------------------------------------------------------------------------
(* Lists of connections. *)

\* No connection is in the list twice.
Distinct(s) == \A i, j \in 1 .. Len(s) : i # j => s[i] # s[j]

\* What r holds, s holds in the same order.
InOrderOf(r, s) ==
    \A i, j \in 1 .. Len(r) : i < j => \E p, q \in 1 .. Len(s) : p < q /\ s[p] = r[i] /\ s[q] = r[j]

\* Place of the element of s that is at place i of s without the k-th.
Skip(k, i) == IF i < k THEN i ELSE i + 1

\* The least-number principle, from the library's theorem on well-founded sets.
LEMMA Smallest ==
    ASSUME NEW S, S \subseteq Nat, S # {}
    PROVE  \E n \in S : \A m \in S : n <= m
<1> DEFINE R == OpToRel(<, Nat)
<1>1. IsWellFoundedOn(R, Nat)
  BY NatLessThanWellFounded
<1>2. \A x, y \in Nat : <<y, x>> \in R <=> y < x
  BY DEF OpToRel
<1> HIDE DEF R
<1>3. PICK n \in S : \A m \in S : ~ (<<m, n>> \in R)
  BY <1>1, WFMin
<1>4. ASSUME NEW m \in S PROVE n <= m
  <2>1. ~ (<<m, n>> \in R)
    BY <1>3
  <2>2. ~ (m < n)
    BY <1>2, <2>1, Zenon
  <2> QED BY <2>2
<1> QED BY <1>4

LEMMA RemoveAtSkips ==
    ASSUME NEW S, NEW s \in Seq(S), NEW k \in 1 .. Len(s)
    PROVE  /\ RemoveAt(s, k) \in Seq(S) /\ Len(RemoveAt(s, k)) = Len(s) - 1
           /\ \A i \in 1 .. Len(s) - 1 : RemoveAt(s, k)[i] = s[Skip(k, i)]
<1> DEFINE a == SubSeq(s, 1, k - 1)
           b == SubSeq(s, k + 1, Len(s))
<1>1. a \in Seq(S) /\ Len(a) = k - 1 /\ \A i \in 1 .. k - 1 : a[i] = s[i]
  OBVIOUS
<1>2. b \in Seq(S) /\ Len(b) = Len(s) - k /\ \A i \in 1 .. Len(s) - k : b[i] = s[k + i]
  OBVIOUS
<1>3. RemoveAt(s, k) = a \o b
  BY DEF RemoveAt
<1> HIDE DEF a, b
<1>4. /\ a \o b \in Seq(S) /\ Len(a \o b) = Len(a) + Len(b)
      /\ \A i \in 1 .. Len(a) + Len(b) : (a \o b)[i] = IF i <= Len(a) THEN a[i] ELSE b[i - Len(a)]
  BY <1>1, <1>2, ConcatProperties
<1>5. ASSUME NEW i \in 1 .. Len(s) - 1 PROVE (a \o b)[i] = s[Skip(k, i)]
  <2>1. CASE i < k
    BY <1>1, <1>2, <1>4, <2>1 DEF Skip
  <2>2. CASE ~ (i < k)
    <3>1. i - (k - 1) \in 1 .. Len(s) - k /\ k + (i - (k - 1)) = i + 1 /\ ~ (i <= k - 1)
      BY <2>2
    <3>2. (a \o b)[i] = b[i - (k - 1)]
      BY <1>1, <1>2, <1>4, <3>1
    <3>3. b[i - (k - 1)] = s[i + 1]
      BY <1>2, <3>1
    <3> QED BY <2>2, <3>2, <3>3 DEF Skip
  <2> QED BY <2>1, <2>2
<1>6. Len(a) + Len(b) = Len(s) - 1
  BY <1>1, <1>2
<1> QED BY <1>3, <1>4, <1>5, <1>6

\* Taking a connection out takes one place out, or none when it is not there.
LEMMA RemoveFirstIs ==
    ASSUME NEW S, NEW s \in Seq(S), NEW e
    PROVE  \/ e \notin ToSet(s) /\ RemoveFirst(s, e) = s
           \/ \E k \in 1 .. Len(s) : s[k] = e /\ RemoveFirst(s, e) = RemoveAt(s, k)
<1> DEFINE I == {i \in 1 .. Len(s) : s[i] = e}
<1>1. CASE I = {}
  <2>1. \A i \in 1 .. Len(s) : s[i] # e
    BY <1>1
  <2>2. e \notin ToSet(s)
    BY <2>1 DEF ToSet
  <2> QED BY <2>1, <2>2 DEF RemoveFirst
<1>2. CASE I # {}
  <2>1. RemoveFirst(s, e) = RemoveAt(s, Min(I))
    BY <1>2 DEF RemoveFirst, SelectInSeq
  <2>2. I \subseteq Nat
    OBVIOUS
  <2>3. \E n \in I : \A m \in I : n <= m
    <3> HIDE DEF I
    <3> QED BY <1>2, <2>2, Smallest
  <2>4. Min(I) \in I
    BY <2>3 DEF Min
  <2> QED BY <2>1, <2>4
<1> QED BY <1>1, <1>2

\* What is left when a connection is taken out: the others, in their order.
LEMMA RemoveFirstKeeps ==
    ASSUME NEW S, NEW s \in Seq(S), Distinct(s), NEW e
    PROVE  /\ RemoveFirst(s, e) \in Seq(S) /\ Distinct(RemoveFirst(s, e))
           /\ ToSet(RemoveFirst(s, e)) = ToSet(s) \ {e}
           /\ InOrderOf(RemoveFirst(s, e), s)
<1> DEFINE r == RemoveFirst(s, e)
<1>1. CASE e \notin ToSet(s) /\ r = s
  BY <1>1 DEF InOrderOf
<1>2. ASSUME NEW k \in 1 .. Len(s), s[k] = e, r = RemoveAt(s, k)
      PROVE  /\ r \in Seq(S) /\ Distinct(r) /\ ToSet(r) = ToSet(s) \ {e}
             /\ InOrderOf(r, s)
  <2> HIDE DEF r
  <2>1. r \in Seq(S) /\ Len(r) = Len(s) - 1 /\ \A i \in 1 .. Len(r) : r[i] = s[Skip(k, i)]
    BY <1>2, RemoveAtSkips
  <2>2. \A i, j \in 1 .. Len(r) :
           /\ Skip(k, i) \in 1 .. Len(s) /\ Skip(k, i) # k
           /\ i < j => Skip(k, i) < Skip(k, j)
    BY <2>1 DEF Skip
  <2>3. \A i, j \in 1 .. Len(r) : i # j => Skip(k, i) # Skip(k, j)
    BY <2>1 DEF Skip
  <2>4. Distinct(r)
    BY <2>1, <2>2, <2>3 DEF Distinct
  <2>5. \A p \in 1 .. Len(s) : p # k => \E i \in 1 .. Len(r) : Skip(k, i) = p
    <3> SUFFICES ASSUME NEW p \in 1 .. Len(s), p # k
                 PROVE  \E i \in 1 .. Len(r) : Skip(k, i) = p
      OBVIOUS
    <3>1. CASE p < k
      BY <2>1, <3>1 DEF Skip
    <3>2. CASE p > k
      <4>1. p - 1 \in 1 .. Len(r) /\ Skip(k, p - 1) = p
        BY <2>1, <3>2 DEF Skip
      <4> QED BY <4>1
    <3> QED BY <3>1, <3>2
  <2>6. ToSet(r) = ToSet(s) \ {e}
    <3>1. DOMAIN r = 1 .. Len(r) /\ DOMAIN s = 1 .. Len(s)
      BY <2>1
    <3>2. ASSUME NEW i \in 1 .. Len(r) PROVE r[i] \in ToSet(s) /\ r[i] # e
      BY <1>2, <2>1, <2>2, <3>1 DEF ToSet, Distinct
    <3>3. ASSUME NEW p \in 1 .. Len(s), s[p] # e PROVE s[p] \in ToSet(r)
      <4>1. PICK i \in 1 .. Len(r) : Skip(k, i) = p
        BY <1>2, <2>5, <3>3
      <4> QED BY <2>1, <3>1, <4>1 DEF ToSet
    <3> QED BY <3>1, <3>2, <3>3 DEF ToSet
  <2>7. InOrderOf(r, s)
    BY <2>1, <2>2 DEF InOrderOf
  <2> QED BY <2>1, <2>4, <2>6, <2>7
<1>3. (e \notin ToSet(s) /\ r = s) \/ \E k \in 1 .. Len(s) : s[k] = e /\ r = RemoveAt(s, k)
  BY RemoveFirstIs
<1> QED BY <1>1, <1>2, <1>3

-----------------------------------------------------------------------------
(* TcpServer. *)

States == {"none", "csConnecting", "csConnected", "csDisConnecting", "csDisConnected"}

ConnRec ==
    [state : States, interest : {"none", "in", "out", "off"}, retOut : BOOLEAN, unsent : BOOLEAN,
     shut : BOOLEAN, age : Nat, closes : Nat, late : BOOLEAN]

Loop == [conn : [Conn -> ConnRec], idle : Seq(Conn), vecFree : Seq(Conn)]

\* Not enabled yet.
Fresh(s, c) == s.conn[c].state \in {"none", "csConnecting"}

\* The idle list goes from the longest silent to the last heard.
Sorted(s) ==
    \A i, j \in 1 .. Len(s.idle) :
        i < j => s.conn[s.idle[i]].age >= s.conn[s.idle[j]].age

\* What holds of a connection c: interest and list membership follow its state.
\* An open one is in the map and, unless it is x, whose call runs, in the list.
ConnInv(s, c, map, x) ==
    /\ Fresh(s, c) => s.conn[c].interest = "none" /\ s.conn[c].closes = 0
    /\ s.conn[c].closes > 0 => s.conn[c].interest = "none"
    /\ Is(s, c, "csDisConnected") => s.conn[c].closes > 0
    /\ ~ Fresh(s, c) /\ s.conn[c].closes = 0 => c \in map /\ (c \in ToSet(s.idle) \/ c = x)
    /\ c \in ToSet(s.idle) => c \in map /\ ~ Fresh(s, c)
    /\ c \in ToSet(s.vecFree) => s.conn[c].closes > 0

\* What the loop keeps whatever other threads do.
LoopInv(s, map, x) ==
    /\ s \in Loop /\ Distinct(s.idle) /\ Sorted(s)
    /\ \A c \in Conn : ConnInv(s, c, map, x)

\* No connection is closed twice nor freed twice.
LoopOnce(s, map) ==
    /\ \A c \in Conn : s.conn[c].closes <= 1 /\ (s.conn[c].closes > 0 => Is(s, c, "csDisConnected"))
    /\ Distinct(s.vecFree) /\ ToSet(s.vecFree) \subseteq map

Functor == [kind : {"OnEnableConnect", "OnShutdown", "SendInLoop"}, conn : Conn]

\* The functors of q are good for the connections of s: n is the last one made,
\* busy while its functor is yet to be queued, h are those of the foreign thread.
QueueIn(q, s, map, n, busy, h) ==
    /\ q \in Seq(Functor)
    /\ \A i \in 1 .. Len(q) :
          /\ q[i].kind = "OnEnableConnect" =>
                /\ Is(s, q[i].conn, "csConnecting") /\ q[i].conn \in map
                /\ q[i].conn = n => ~ busy
          /\ q[i].kind = "SendInLoop" => q[i].conn \in h
    /\ \A i, j \in 1 .. Len(q) :
          i < j /\ q[i].kind = "OnEnableConnect" /\ q[j].kind = "OnEnableConnect"
             => q[i].conn # q[j].conn

QueueInv(q) == QueueIn(q, io, mapConn, created, acceptPc \in {"insert", "queue"}, held)

HandlerEvent == {"read", "error", "close", "connect"}

Types ==
    /\ given \in Settings
    /\ pc \in {"wait", "events", "functors", "check", "free"}
    /\ acceptPc \in {"wait", "check", "insert", "queue"}
    /\ DOMAIN batch \subseteq Conn
    /\ inside \in [conn : Conn, event : HandlerEvent] \cup {NoHandler}
    /\ lag \in Nat /\ (pc = "events" => lag <= given.maxLag)
    /\ functors \in Seq(Functor) /\ running \in Seq(Functor)
    /\ created \in 0 .. Cardinality(Conn) /\ curCount \in Nat
    /\ foreign \in [kind : {"OnShutdown", "SendInLoop"}, conn : Conn] \cup {NoCall}

\* Where the loop is in its turn: the events of a batch are of connections that
\* were enabled and are not freed before the batch is done.
Laps ==
    /\ pc # "events" => DOMAIN batch = {}
    /\ pc # "functors" => running = <<>>
    /\ pc = "events" => \A c \in ToSet(io.idle) : io.conn[c].age >= lag
    /\ \A c \in DOMAIN batch : c \in mapConn /\ ~ Fresh(io, c)

\* A handler that called back is that of a connection in the map, whose event was
\* taken out of the batch; OnEnableConnect is a functor.
Calling ==
    /\ inside # NoHandler =>
          /\ pc \in {"events", "functors", "check"}
          /\ inside.conn \in mapConn /\ ~ Fresh(io, inside.conn)
          /\ inside.conn \notin DOMAIN batch
    /\ inside.event = "connect" => pc = "functors"

\* The connection whose OnConnect runs is open and not in the list yet.
Exempt == IF inside.event = "connect" THEN inside.conn ELSE 0

\* Connections are made in the order of their numbers, and the accept thread is
\* at the last one between making it and queueing its functor.
Accepting ==
    /\ \A c \in Conn : Is(io, c, "none") <=> c > created
    /\ mapConn \subseteq 1 .. created
    /\ acceptPc \in {"insert", "queue"} => created > 0 /\ Is(io, created, "csConnecting")
    /\ acceptPc = "check" => created < Cardinality(Conn)
    /\ acceptPc = "insert" => created \notin mapConn
    /\ acceptPc = "queue" => created \in mapConn

\* The thread of the user keeps connections it was given, so they are enabled.
Holding ==
    /\ held \subseteq Conn /\ \A c \in held : ~ Fresh(io, c)
    /\ foreign # NoCall => foreign.conn \in held
    /\ ~ given.foreign => held = {} /\ foreign = NoCall

\* The count, and that the test of the limit still holds when the map is changed.
Count ==
    /\ CountMatches
    /\ acceptPc = "insert" => Cardinality(mapConn) < given.limit

\* A batch has no event of a connection that is closed.
Quiet ==
    /\ \A c \in Conn : ~ io.conn[c].late
    /\ pc = "events" => \A c \in DOMAIN batch : io.conn[c].closes = 0

\* The inductive invariant.
ServerInv ==
    /\ Types /\ LoopInv(io, mapConn, Exempt) /\ QueueInv(running \o functors)
    /\ Laps /\ Calling /\ Accepting /\ Holding
    /\ ~ given.foreign => LoopOnce(io, mapConn) /\ Count
    /\ ~ given.foreign /\ given.reach = "own" => Quiet

-----------------------------------------------------------------------------
(* The handlers of a connection. *)

LEMMA ConnRecord ==
    ASSUME NEW r \in ConnRec
    PROVE  /\ r.state \in States /\ r.interest \in {"none", "in", "out", "off"}
           /\ r.retOut \in BOOLEAN /\ r.unsent \in BOOLEAN /\ r.shut \in BOOLEAN
           /\ r.late \in BOOLEAN /\ r.age \in Nat /\ r.closes \in Nat
BY DEF ConnRec

\* One connection of the loop is changed.
Changed(s, t, c) ==
    /\ t \in Loop /\ t.idle = s.idle
    /\ \A d \in Conn \ {c} : t.conn[d] = s.conn[d]

\* A change of the record of a connection that neither opens nor closes it.
Mild(r, q) ==
    /\ q \in ConnRec /\ q.age = r.age /\ q.closes = r.closes
    /\ r.interest = "none" => q.interest = "none"
    /\ q.state = r.state \/ {r.state, q.state} \subseteq {"csConnected", "csDisConnecting"}

Kept(s, t, c) == Changed(s, t, c) /\ t.vecFree = s.vecFree /\ Mild(s.conn[c], t.conn[c])

\* The connection is closed, once.
Closed(s, t, c) ==
    /\ Changed(s, t, c) /\ t.vecFree = Append(s.vecFree, c)
    /\ s.conn[c].state # "csDisConnected" /\ t.conn[c].state = "csDisConnected"
    /\ t.conn[c].interest = "none"
    /\ t.conn[c].age = s.conn[c].age /\ t.conn[c].closes = s.conn[c].closes + 1

Handled(s, t, c) == Kept(s, t, c) \/ Closed(s, t, c)

With(s, c, r) == [s EXCEPT !.conn[c] = r]

LEMMA Put ==
    ASSUME NEW s \in Loop, NEW c \in Conn, NEW r \in ConnRec
    PROVE  /\ Changed(s, With(s, c, r), c) /\ With(s, c, r).vecFree = s.vecFree
           /\ With(s, c, r).conn[c] = r
BY DEF Loop, Changed, With

LEMMA Parts ==
    ASSUME NEW s \in Loop
    PROVE  /\ s.idle \in Seq(Conn) /\ s.vecFree \in Seq(Conn)
           /\ \A c \in Conn : s.conn[c] \in ConnRec
BY DEF Loop

LEMMA MildIsKept ==
    ASSUME NEW s \in Loop, NEW c \in Conn, NEW r, Mild(s.conn[c], r)
    PROVE  /\ With(s, c, r) \in Loop /\ Kept(s, With(s, c, r), c)
           /\ Handled(s, With(s, c, r), c)
<1>1. r \in ConnRec
  BY DEF Mild
<1>2. /\ Changed(s, With(s, c, r), c) /\ With(s, c, r).vecFree = s.vecFree
      /\ With(s, c, r).conn[c] = r
  BY <1>1, Put
<1> QED BY <1>2 DEF Handled, Kept, Changed

LEMMA SameIsHandled ==
    ASSUME NEW s \in Loop, NEW c \in Conn
    PROVE  Kept(s, s, c) /\ Handled(s, s, c)
BY Parts DEF Handled, Kept, Changed, Mild

LEMMA HandledTransitive ==
    ASSUME NEW s \in Loop, NEW t, NEW u, NEW c \in Conn, Handled(s, t, c), Handled(t, u, c)
    PROVE  u \in Loop /\ Handled(s, u, c)
<1>1. Changed(s, t, c) /\ Changed(t, u, c)
  BY DEF Handled, Kept, Closed
<1>2. t \in Loop /\ u \in Loop /\ Changed(s, u, c)
  BY <1>1 DEF Changed
<1>3. s.conn[c].closes \in Nat /\ t.conn[c].closes \in Nat
  BY <1>2, Parts, ConnRecord
<1>4. CASE Kept(s, t, c) /\ Kept(t, u, c)
  <2>1. Mild(s.conn[c], t.conn[c]) /\ Mild(t.conn[c], u.conn[c])
    BY <1>4 DEF Kept
  <2>2. Mild(s.conn[c], u.conn[c])
    BY <2>1 DEF Mild
  <2> QED BY <1>2, <1>4, <2>2 DEF Handled, Kept
<1>5. CASE Kept(s, t, c) /\ Closed(t, u, c)
  <2>1. Mild(s.conn[c], t.conn[c])
    BY <1>5 DEF Kept
  <2>2. s.conn[c].state # "csDisConnected"
    BY <1>5, <2>1 DEF Mild, Closed
  <2>3. /\ t.conn[c].age = s.conn[c].age /\ t.conn[c].closes = s.conn[c].closes
    BY <2>1 DEF Mild
  <2>4. t.vecFree = s.vecFree
    BY <1>5 DEF Kept
  <2>5. Closed(s, u, c)
    BY <1>2, <1>5, <2>2, <2>3, <2>4 DEF Closed
  <2> QED BY <1>2, <2>5 DEF Handled
<1>6. CASE Closed(s, t, c) /\ Kept(t, u, c)
  <2>1. Mild(t.conn[c], u.conn[c]) /\ u.vecFree = t.vecFree
    BY <1>6 DEF Kept
  <2>2. /\ u.conn[c].state = "csDisConnected" /\ u.conn[c].interest = "none"
        /\ u.conn[c].age = t.conn[c].age /\ u.conn[c].closes = t.conn[c].closes
    BY <1>6, <2>1 DEF Mild, Closed
  <2>5. Closed(s, u, c)
    BY <1>2, <1>6, <2>1, <2>2 DEF Closed
  <2> QED BY <1>2, <2>5 DEF Handled
<1>7. CASE Closed(s, t, c) /\ Closed(t, u, c)
  BY <1>7 DEF Closed
<1> QED BY <1>2, <1>4, <1>5, <1>6, <1>7 DEF Handled, Changed

\* A callback changes nothing of the connection but what is remembered of it.
LEMMA CalledIs ==
    ASSUME NEW s \in Loop, NEW c \in Conn
    PROVE  /\ Called(s, c) \in Loop /\ Handled(s, Called(s, c), c)
           /\ s.conn[c].closes = 0 => Called(s, c).conn[c].late = s.conn[c].late
<1> DEFINE l == s.conn[c].late \/ s.conn[c].closes > 0
           r == [s.conn[c] EXCEPT !.late = l]
<1>1. s.conn[c] \in ConnRec /\ l \in BOOLEAN
  BY Parts
<1>2. s.conn[c].closes = 0 => l = s.conn[c].late
  BY <1>1, ConnRecord
<1> HIDE DEF l
<1>3. Mild(s.conn[c], r) /\ r.late = l /\ r \in ConnRec
  BY <1>1 DEF Mild, ConnRec
<1>4. Called(s, c) = With(s, c, r)
  BY DEF Called, With, l
<1> HIDE DEF r
<1> QED BY <1>2, <1>3, <1>4, MildIsKept, Put

LEMMA CloseIs ==
    ASSUME NEW s \in Loop, NEW c \in Conn
    PROVE  /\ HandleClose(s, c) \in Loop /\ Handled(s, HandleClose(s, c), c)
           /\ HandleClose(s, c).conn[c].late = s.conn[c].late
           /\ Is(HandleClose(s, c), c, "csDisConnected")
<1>1. CASE Is(s, c, "csDisConnected")
  BY <1>1, SameIsHandled DEF HandleClose
<1>2. CASE ~ Is(s, c, "csDisConnected")
  <2> DEFINE a == DisableAll(s, c)
             p == [s.conn[c] EXCEPT !.interest = "none"]
             q == [p EXCEPT !.state = "csDisConnected"]
             r == [q EXCEPT !.closes = s.conn[c].closes + 1]
             t == HandleClose(s, c)
  <2>1. s.conn[c] \in ConnRec /\ s.vecFree \in Seq(Conn)
    BY Parts
  <2>2. /\ p \in ConnRec /\ p.interest = "none" /\ p.closes = s.conn[c].closes
        /\ p.age = s.conn[c].age /\ p.late = s.conn[c].late
    BY <2>1 DEF ConnRec
  <2>3. a = With(s, c, p)
    BY DEF DisableAll, With
  <2>4. t = [a EXCEPT !.conn[c].state = "csDisConnected", !.conn[c].closes = @ + 1,
                      !.vecFree = Append(@, c)]
    BY <1>2 DEF HandleClose
  <2> HIDE DEF p, a
  <2>5. Changed(s, a, c) /\ a.vecFree = s.vecFree /\ a.conn[c] = p
    BY <2>2, <2>3, Put
  <2>6. /\ q \in ConnRec /\ q.interest = "none" /\ q.state = "csDisConnected"
        /\ q.closes = s.conn[c].closes /\ q.age = s.conn[c].age /\ q.late = s.conn[c].late
    BY <2>2 DEF ConnRec, States
  <2> HIDE DEF q, t
  <2>7. s.conn[c].closes + 1 \in Nat
    BY <2>1 DEF ConnRec
  <2>8. /\ r \in ConnRec /\ r.interest = "none" /\ r.state = "csDisConnected"
        /\ r.closes = s.conn[c].closes + 1 /\ r.age = s.conn[c].age /\ r.late = s.conn[c].late
    BY <2>6, <2>7 DEF ConnRec
  <2>9. t = [a EXCEPT !.conn[c] = r, !.vecFree = Append(@, c)]
    BY <2>2, <2>4, <2>5 DEF Changed, Loop, q
  <2> HIDE DEF r
  <2>10. Append(s.vecFree, c) \in Seq(Conn)
    BY <2>1
  <2>11. Changed(s, t, c) /\ t.vecFree = Append(s.vecFree, c) /\ t.conn[c] = r
    BY <2>5, <2>8, <2>9, <2>10 DEF Changed, Loop
  <2>12. Closed(s, t, c)
    BY <1>2, <2>8, <2>11 DEF Closed, Is
  <2>13. t \in Loop
    BY <2>11 DEF Changed
  <2> QED BY <2>8, <2>11, <2>12, <2>13 DEF Handled, Is, t
<1> QED BY <1>1, <1>2

LEMMA OnShutdownIs ==
    ASSUME NEW s \in Loop, NEW c \in Conn
    PROVE  /\ OnShutdown(s, c) \in Loop /\ Kept(s, OnShutdown(s, c), c)
           /\ Handled(s, OnShutdown(s, c), c)
           /\ OnShutdown(s, c).conn[c].late = s.conn[c].late
<1> DEFINE r == [s.conn[c] EXCEPT !.shut = TRUE]
<1>1. Mild(s.conn[c], r) /\ r.late = s.conn[c].late /\ r \in ConnRec
  BY Parts DEF Mild, ConnRec
<1>2. OnShutdown(s, c) = s \/ OnShutdown(s, c) = With(s, c, r)
  BY DEF OnShutdown, With
<1> HIDE DEF r
<1> QED BY <1>1, <1>2, MildIsKept, Put, SameIsHandled

LEMMA ShutdownIs ==
    ASSUME NEW s \in Loop, NEW c \in Conn
    PROVE  /\ Shutdown(s, c) \in Loop /\ Handled(s, Shutdown(s, c), c)
           /\ Shutdown(s, c).conn[c].late = s.conn[c].late
<1> DEFINE r == [s.conn[c] EXCEPT !.state = "csDisConnecting"]
<1>1. CASE ~ Is(s, c, "csConnected")
  BY <1>1, SameIsHandled DEF Shutdown
<1>2. CASE Is(s, c, "csConnected")
  <2>1. Mild(s.conn[c], r) /\ r.late = s.conn[c].late /\ r \in ConnRec
    BY <1>2, Parts DEF Mild, ConnRec, States, Is
  <2>2. Shutdown(s, c) = OnShutdown(With(s, c, r), c)
    BY <1>2 DEF Shutdown, With
  <2> HIDE DEF r
  <2>3. /\ With(s, c, r) \in Loop /\ Handled(s, With(s, c, r), c)
        /\ With(s, c, r).conn[c].late = s.conn[c].late
    BY <2>1, MildIsKept, Put
  <2> QED BY <2>2, <2>3, OnShutdownIs, HandledTransitive
<1> QED BY <1>1, <1>2

LEMMA ModifiedIs ==
    ASSUME NEW r \in ConnRec, NEW new \in {"out", "off"}, NEW b \in BOOLEAN
    PROVE  /\ Mild(r, [r EXCEPT !.unsent = b, !.interest = Modified(@, new)])
           /\ [r EXCEPT !.unsent = b, !.interest = Modified(@, new)].late = r.late
<1> DEFINE i == Modified(r.interest, new)
           p == [r EXCEPT !.unsent = b]
           q == [p EXCEPT !.interest = i]
<1>1. i \in {"none", "in", "out", "off"} /\ (r.interest = "none" => i = "none")
  BY DEF Modified
<1> HIDE DEF i
<1>2. Mild(r, p) /\ p.interest = r.interest /\ p \in ConnRec /\ p.late = r.late
  BY DEF Mild, ConnRec
<1>3. [r EXCEPT !.unsent = b, !.interest = Modified(@, new)] = q
  BY DEF i
<1> HIDE DEF p
<1>4. q \in ConnRec /\ q.late = p.late /\ q.age = p.age /\ q.closes = p.closes /\ q.interest = i
      /\ q.state = p.state
  BY <1>1, <1>2 DEF ConnRec
<1> HIDE DEF q
<1>5. Mild(r, q) /\ q.late = r.late
  BY <1>1, <1>2, <1>4 DEF Mild
<1> QED BY <1>3, <1>5

LEMMA SendInLoopIs ==
    ASSUME NEW s \in Loop, NEW c \in Conn, NEW result
    PROVE  /\ SendInLoop(s, c, result) \in Loop /\ Kept(s, SendInLoop(s, c, result), c)
           /\ Handled(s, SendInLoop(s, c, result), c)
           /\ SendInLoop(s, c, result).conn[c].late = s.conn[c].late
<1> DEFINE r == [s.conn[c] EXCEPT !.unsent = TRUE, !.interest = Modified(@, "out")]
<1>1. Mild(s.conn[c], r) /\ r.late = s.conn[c].late
  BY Parts, ModifiedIs
<1>2. SendInLoop(s, c, result) = s \/ SendInLoop(s, c, result) = With(s, c, r)
  BY DEF SendInLoop, Waiting, With, Loop
<1> HIDE DEF r
<1>3. r \in ConnRec
  BY <1>1 DEF Mild
<1> QED BY <1>1, <1>2, <1>3, MildIsKept, Put, SameIsHandled

LEMMA OnWriteEventIs ==
    ASSUME NEW s \in Loop, NEW c \in Conn, NEW result
    PROVE  /\ OnWriteEvent(s, c, result) \in Loop /\ Handled(s, OnWriteEvent(s, c, result), c)
           /\ OnWriteEvent(s, c, result).conn[c].late = s.conn[c].late
<1> DEFINE r == [s.conn[c] EXCEPT !.unsent = FALSE, !.interest = Modified(@, "off")]
<1>1. Mild(s.conn[c], r) /\ r.late = s.conn[c].late
  BY Parts, ModifiedIs
<1>2. Flushed(s, c) = With(s, c, r)
  BY DEF Flushed, With, Loop
<1> HIDE DEF r
<1>3. r \in ConnRec
  BY <1>1 DEF Mild
<1>4. /\ Flushed(s, c) \in Loop /\ Handled(s, Flushed(s, c), c)
      /\ Flushed(s, c).conn[c].late = s.conn[c].late
  BY <1>1, <1>2, <1>3, MildIsKept, Put
<1>5. \/ OnWriteEvent(s, c, result) \in {s, Flushed(s, c)}
      \/ OnWriteEvent(s, c, result) = OnShutdown(Flushed(s, c), c)
  BY DEF OnWriteEvent
<1> QED BY <1>4, <1>5, SameIsHandled, OnShutdownIs, HandledTransitive

LEMMA UserCallsIs ==
    ASSUME NEW s \in Loop, NEW c \in Conn, NEW call \in UserCall
    PROVE  /\ UserCalls(s, call, c) \in Loop /\ Handled(s, UserCalls(s, call, c), c)
           /\ UserCalls(s, call, c).conn[c].late = s.conn[c].late
<1>1. UserCalls(s, call, c) \in {s, HandleClose(s, c), Shutdown(s, c), SendInLoop(s, c, call)}
  BY DEF UserCalls, UserCall, SendResult
<1> QED BY <1>1, SameIsHandled, CloseIs, ShutdownIs, SendInLoopIs

-----------------------------------------------------------------------------
(* What the handlers leave true of the loop. *)

\* Nothing happens to the state of a connection before it is enabled, and it
\* does not go back there.
Steady(s, t) ==
    \A d \in Conn : /\ Fresh(s, d) => t.conn[d].state = s.conn[d].state
                    /\ ~ Fresh(s, d) => ~ Fresh(t, d)

SameList(s, t) == t.idle = s.idle /\ \A d \in Conn : t.conn[d].age = s.conn[d].age

LEMMA Members ==
    ASSUME NEW S, NEW q \in Seq(S)
    PROVE  /\ ToSet(q) \subseteq S /\ \A x : x \in ToSet(q) <=> \E i \in 1 .. Len(q) : q[i] = x
           /\ \A i \in 1 .. Len(q) : q[i] \in ToSet(q)
BY DEF ToSet

LEMMA InSequence ==
    ASSUME NEW S, NEW q \in Seq(S), NEW e \in S
    PROVE  /\ ToSet(q) \subseteq S /\ \A x : x \in ToSet(q) <=> \E i \in 1 .. Len(q) : q[i] = x
           /\ Append(q, e) \in Seq(S) /\ ToSet(Append(q, e)) = ToSet(q) \cup {e}
           /\ Distinct(q) /\ e \notin ToSet(q) => Distinct(Append(q, e))
<1>1. DOMAIN q = 1 .. Len(q) /\ \A i \in 1 .. Len(q) : q[i] \in S
  OBVIOUS
<1>2. \A x : x \in ToSet(q) <=> \E i \in 1 .. Len(q) : q[i] = x
  BY <1>1 DEF ToSet
<1> DEFINE a == Append(q, e)
<1>3. /\ a \in Seq(S) /\ Len(a) = Len(q) + 1 /\ a[Len(q) + 1] = e
      /\ \A i \in 1 .. Len(q) : a[i] = q[i]
      /\ Len(q) \in Nat
  OBVIOUS
<1> HIDE DEF a
<1>4. DOMAIN a = 1 .. Len(q) + 1
  BY <1>3
<1>5. ToSet(a) = ToSet(q) \cup {e}
  <2>1. ASSUME NEW x \in ToSet(a) PROVE x \in ToSet(q) \cup {e}
    <3>1. PICK i \in 1 .. Len(q) + 1 : a[i] = x
      BY <1>4 DEF ToSet
    <3>2. i \in 1 .. Len(q) \/ i = Len(q) + 1
      BY <1>3
    <3> QED BY <1>2, <1>3, <3>1, <3>2
  <2>2. ASSUME NEW x \in ToSet(q) PROVE x \in ToSet(a)
    <3>1. PICK i \in 1 .. Len(q) : q[i] = x
      BY <1>2
    <3>2. i \in 1 .. Len(q) + 1 /\ a[i] = x
      BY <1>3, <3>1
    <3> QED BY <1>4, <3>2 DEF ToSet
  <2>3. e \in ToSet(a)
    <3>1. Len(q) + 1 \in 1 .. Len(q) + 1
      BY <1>3
    <3> QED BY <1>3, <1>4, <3>1 DEF ToSet
  <2> QED BY <2>1, <2>2, <2>3
<1>6. ASSUME Distinct(q), e \notin ToSet(q) PROVE Distinct(a)
  BY <1>2, <1>3, <1>6 DEF Distinct
<1> QED BY <1>1, <1>2, <1>3, <1>5, <1>6 DEF a

LEMMA HandledSame ==
    ASSUME NEW s \in Loop, NEW t, NEW c \in Conn, Handled(s, t, c)
    PROVE  /\ t \in Loop /\ t.idle = s.idle /\ SameList(s, t)
           /\ \A d \in Conn \ {c} : t.conn[d] = s.conn[d]
           /\ ~ Fresh(s, c) => Steady(s, t)
<1>1. Changed(s, t, c)
  BY DEF Handled, Kept, Closed
<1>2. t \in Loop /\ t.idle = s.idle /\ \A d \in Conn \ {c} : t.conn[d] = s.conn[d]
  BY <1>1 DEF Changed
<1>3. t.conn[c].age = s.conn[c].age
  BY DEF Handled, Kept, Closed, Mild
<1>4. ~ Fresh(s, c) => ~ Fresh(t, c)
  BY DEF Handled, Kept, Closed, Mild, Fresh
<1>5. SameList(s, t)
  BY <1>2, <1>3 DEF SameList
<1>6. ASSUME ~ Fresh(s, c) PROVE Steady(s, t)
  BY <1>2, <1>4, <1>6 DEF Steady, Fresh
<1> QED BY <1>2, <1>5, <1>6

LEMMA HandledKeeps ==
    ASSUME NEW map, NEW x, NEW s, LoopInv(s, map, x), NEW t, NEW c \in Conn, Handled(s, t, c)
    PROVE  LoopInv(t, map, x)
<1>1. s \in Loop /\ s.idle \in Seq(Conn) /\ s.vecFree \in Seq(Conn)
  BY Parts DEF LoopInv
<1>2. t \in Loop /\ t.idle = s.idle /\ SameList(s, t) /\ \A d \in Conn \ {c} : t.conn[d] = s.conn[d]
  BY <1>1, HandledSame
<1>3. Distinct(t.idle)
  BY <1>2 DEF LoopInv
<1>4. Sorted(t)
  <2>1. \A i \in 1 .. Len(s.idle) : s.idle[i] \in Conn
    BY <1>1
  <2> QED BY <1>2, <2>1 DEF LoopInv, Sorted, SameList
<1>5. ToSet(t.vecFree) = ToSet(s.vecFree) \/ (Closed(s, t, c) /\ ToSet(t.vecFree) = ToSet(s.vecFree) \cup {c})
  <2>1. ToSet(Append(s.vecFree, c)) = ToSet(s.vecFree) \cup {c}
    BY <1>1, InSequence
  <2> QED BY <2>1 DEF Handled, Kept, Closed
<1>6. ASSUME NEW d \in Conn, d # c PROVE ConnInv(t, d, map, x)
  <2>1. ConnInv(s, d, map, x)
    BY DEF LoopInv
  <2>2. t.conn[d] = s.conn[d]
    BY <1>2, <1>6
  <2>3. d \in ToSet(t.vecFree) => d \in ToSet(s.vecFree)
    BY <1>5, <1>6
  <2> QED BY <1>2, <2>1, <2>2, <2>3 DEF ConnInv, Fresh, Is
<1>7. ConnInv(t, c, map, x)
  <2>1. ConnInv(s, c, map, x)
    BY DEF LoopInv
  <2>2. CASE Kept(s, t, c)
    <3>1. /\ t.conn[c].closes = s.conn[c].closes /\ t.vecFree = s.vecFree
          /\ s.conn[c].interest = "none" => t.conn[c].interest = "none"
          /\ Fresh(t, c) <=> Fresh(s, c)
          /\ Is(t, c, "csDisConnected") <=> Is(s, c, "csDisConnected")
      BY <2>2 DEF Kept, Mild, Fresh, Is
    <3> QED BY <1>2, <2>1, <3>1 DEF ConnInv
  <2>3. CASE Closed(s, t, c)
    <3>1. s.conn[c].closes \in Nat
      BY <1>1, Parts, ConnRecord
    <3>2. /\ t.conn[c].closes > 0 /\ t.conn[c].closes # 0 /\ t.conn[c].interest = "none"
          /\ ~ Fresh(t, c)
      BY <2>3, <3>1 DEF Closed, Fresh
    <3> QED BY <1>2, <2>1, <3>2 DEF ConnInv
  <2> QED BY <2>2, <2>3 DEF Handled
<1> QED BY <1>2, <1>3, <1>4, <1>6, <1>7 DEF LoopInv

LEMMA HandledOnce ==
    ASSUME NEW map, NEW x, NEW s, LoopInv(s, map, x), LoopOnce(s, map),
           NEW t, NEW c \in Conn, ~ Fresh(s, c), Handled(s, t, c)
    PROVE  LoopOnce(t, map)
<1>1. s \in Loop /\ s.vecFree \in Seq(Conn) /\ ConnInv(s, c, map, x)
  BY Parts DEF LoopInv
<1>2. \A d \in Conn \ {c} : t.conn[d] = s.conn[d]
  BY <1>1, HandledSame
<1>3. \A d \in Conn : s.conn[d].closes \in Nat
  BY <1>1, Parts, ConnRecord
<1>4. CASE Kept(s, t, c)
  <2>1. t.vecFree = s.vecFree /\ t.conn[c].closes = s.conn[c].closes
        /\ (Is(t, c, "csDisConnected") <=> Is(s, c, "csDisConnected"))
    BY <1>4 DEF Kept, Mild, Is
  <2> QED BY <1>2, <2>1 DEF LoopOnce, Is
<1>5. CASE Closed(s, t, c)
  <2>1. s.conn[c].closes = 0
    BY <1>3, <1>5 DEF LoopOnce, Closed, Is
  <2>2. c \in map /\ c \notin ToSet(s.vecFree)
    BY <1>1, <2>1 DEF ConnInv
  <2>3. Distinct(t.vecFree) /\ ToSet(t.vecFree) \subseteq map
    BY <1>1, <1>5, <2>2, InSequence DEF LoopOnce, Closed
  <2>4. t.conn[c].closes = 1 /\ Is(t, c, "csDisConnected")
    BY <1>5, <2>1 DEF Closed, Is
  <2> QED BY <1>2, <2>3, <2>4 DEF LoopOnce, Is
<1> QED BY <1>4, <1>5 DEF Handled

LEMMA ConnAreFinite == 0 \notin Conn /\ IsFiniteSet(Conn)
<1>1. IsFiniteSet(Conn) /\ Conn = 1 .. Cardinality(Conn)
  BY TcpServerAssumption
<1>2. Cardinality(Conn) \in Nat
  BY <1>1, FS_CardinalityType
<1>3. 0 \notin Conn
  BY <1>1, <1>2
<1> QED BY <1>1, <1>3

TouchedIn(s, t, c, age) ==
    /\ t \in Loop /\ Distinct(t.idle) /\ ToSet(t.idle) = ToSet(s.idle) \cup {c}
    /\ t.vecFree = s.vecFree
    /\ \A d \in Conn \ {c} : t.conn[d] = s.conn[d]
    /\ t.conn[c].age = age /\ t.conn[c].state = s.conn[c].state
    /\ t.conn[c].interest = s.conn[c].interest /\ t.conn[c].closes = s.conn[c].closes
    /\ t.conn[c].late = s.conn[c].late
    /\ t.idle = Append(RemoveFirst(s.idle, c), c)

\* A connection heard from goes to the end of the list of idle connections.
LEMMA TouchIs ==
    ASSUME NEW s \in Loop, Distinct(s.idle), NEW c \in Conn, NEW age \in Nat, NEW t,
           t = UpdateTimeTcpConn(s, c, age)
    PROVE  TouchedIn(s, t, c, age)
<1> DEFINE q == [s.conn[c] EXCEPT !.age = age]
           a == With(s, c, q)
           r == RemoveFirst(s.idle, c)
           l == Append(r, c)
<1>1. s \in Loop /\ s.idle \in Seq(Conn) /\ s.conn[c] \in ConnRec
  BY Parts
<1>2. /\ q \in ConnRec /\ q.age = age /\ q.state = s.conn[c].state
      /\ q.interest = s.conn[c].interest /\ q.closes = s.conn[c].closes
      /\ q.late = s.conn[c].late
  BY <1>1 DEF ConnRec
<1>3. t = [a EXCEPT !.idle = l]
  BY <1>1 DEF UpdateTimeTcpConn, With, Loop
<1> HIDE DEF q
<1>4. Changed(s, a, c) /\ a.vecFree = s.vecFree /\ a.conn[c] = q
  BY <1>1, <1>2, Put
<1> HIDE DEF a, r
<1>5. r \in Seq(Conn) /\ Distinct(r) /\ ToSet(r) = ToSet(s.idle) \ {c}
  BY <1>1, RemoveFirstKeeps DEF r
<1>6. l \in Seq(Conn) /\ Distinct(l) /\ ToSet(l) = ToSet(s.idle) \cup {c}
  BY <1>5, InSequence
<1> HIDE DEF l
<1>7. t \in Loop /\ t.idle = l /\ t.vecFree = s.vecFree /\ t.conn = a.conn
  BY <1>3, <1>4, <1>6 DEF Changed, Loop
<1> QED BY <1>2, <1>4, <1>6, <1>7 DEF Changed, TouchedIn, l, r

LEMMA TouchSorted ==
    ASSUME NEW s \in Loop, Distinct(s.idle), Sorted(s), NEW c \in Conn, NEW age \in Nat,
           \A d \in ToSet(s.idle) : s.conn[d].age >= age
    PROVE  Sorted(UpdateTimeTcpConn(s, c, age))
<1> DEFINE t == UpdateTimeTcpConn(s, c, age)
           r == RemoveFirst(s.idle, c)
           l == Append(r, c)
<1>1. s.idle \in Seq(Conn)
  BY Parts
<1>2. /\ r \in Seq(Conn) /\ Distinct(r) /\ ToSet(r) = ToSet(s.idle) \ {c}
      /\ InOrderOf(r, s.idle)
  BY <1>1, RemoveFirstKeeps
<1>3. /\ \A d \in Conn \ {c} : t.conn[d] = s.conn[d]
      /\ t.conn[c].age = age /\ t.idle = l
  <2>1. TouchedIn(s, t, c, age)
    BY TouchIs
  <2> HIDE DEF t
  <2> QED BY <2>1 DEF TouchedIn
<1> HIDE DEF r, t
<1>4. /\ Len(l) = Len(r) + 1 /\ l[Len(r) + 1] = c /\ Len(r) \in Nat
      /\ \A i \in 1 .. Len(r) : l[i] = r[i]
  BY <1>2
<1> HIDE DEF l
<1>5. \A i \in 1 .. Len(r) : r[i] \in ToSet(s.idle) /\ r[i] # c /\ r[i] \in Conn
  <2>1. \A i \in 1 .. Len(r) : r[i] \in ToSet(r)
    BY <1>2, InSequence
  <2> QED BY <1>2, <2>1
<1>6. \A d \in Conn \ {c} : t.conn[d].age = s.conn[d].age
  BY <1>3
<1>7. ASSUME NEW i \in 1 .. Len(l), NEW j \in 1 .. Len(l), i < j
      PROVE  t.conn[l[i]].age >= t.conn[l[j]].age
  <2>1. i \in 1 .. Len(r) /\ l[i] = r[i]
    BY <1>4, <1>7
  <2>2. CASE j \in 1 .. Len(r)
    <3>1. PICK p, k \in 1 .. Len(s.idle) : p < k /\ s.idle[p] = r[i] /\ s.idle[k] = r[j]
      BY <1>2, <1>7, <2>1, <2>2 DEF InOrderOf
    <3>2. s.conn[r[i]].age >= s.conn[r[j]].age
      BY <3>1 DEF Sorted
    <3> QED BY <1>4, <1>5, <1>6, <2>1, <2>2, <3>2
  <2>3. CASE j = Len(r) + 1
    <3>1. s.conn[r[i]].age >= age
      BY <1>5, <2>1
    <3> QED BY <1>3, <1>4, <1>5, <1>6, <2>1, <2>3, <3>1
  <2> QED BY <1>4, <2>2, <2>3
<1> QED BY <1>3, <1>7 DEF Sorted, t

LEMMA TouchKeeps ==
    ASSUME NEW map, NEW x, NEW s, LoopInv(s, map, x), NEW c \in Conn, c \in map, ~ Fresh(s, c),
           NEW age \in Nat, \A d \in ToSet(s.idle) : s.conn[d].age >= age,
           NEW t, t = UpdateTimeTcpConn(s, c, age)
    PROVE  /\ LoopInv(t, map, x) /\ (x = c => LoopInv(t, map, 0))
           /\ LoopOnce(s, map) => LoopOnce(t, map)
           /\ Steady(s, t)
           /\ \A d \in ToSet(t.idle) : t.conn[d].age >= age
           /\ \A d \in Conn : /\ t.conn[d].late = s.conn[d].late
                              /\ t.conn[d].closes = s.conn[d].closes
<1>1. s \in Loop /\ Distinct(s.idle) /\ Sorted(s) /\ s.idle \in Seq(Conn)
  BY Parts DEF LoopInv
<1>2. /\ t \in Loop /\ Distinct(t.idle) /\ ToSet(t.idle) = ToSet(s.idle) \cup {c}
      /\ t.vecFree = s.vecFree
      /\ \A d \in Conn \ {c} : t.conn[d] = s.conn[d]
      /\ t.conn[c].age = age /\ t.conn[c].state = s.conn[c].state
      /\ t.conn[c].interest = s.conn[c].interest /\ t.conn[c].closes = s.conn[c].closes
      /\ t.conn[c].late = s.conn[c].late
  <2>1. TouchedIn(s, t, c, age)
    BY <1>1, TouchIs
  <2> QED BY <2>1 DEF TouchedIn
<1>3. Sorted(t)
  BY <1>1, TouchSorted
<1>4. \A d \in Conn : /\ t.conn[d].state = s.conn[d].state /\ t.conn[d].late = s.conn[d].late
                      /\ t.conn[d].closes = s.conn[d].closes
                      /\ t.conn[d].interest = s.conn[d].interest
  BY <1>2
<1>5. Steady(s, t)
  BY <1>4 DEF Steady, Fresh
<1>6. ASSUME NEW d \in Conn
      PROVE  ConnInv(t, d, map, x) /\ (x = c => ConnInv(t, d, map, 0))
  <2>1. ConnInv(s, d, map, x)
    BY DEF LoopInv
  <2> QED BY <1>2, <1>4, <2>1 DEF ConnInv, Fresh, Is
<1>7. LoopInv(t, map, x) /\ (x = c => LoopInv(t, map, 0))
  BY <1>2, <1>3, <1>6 DEF LoopInv
<1>8. LoopOnce(s, map) => LoopOnce(t, map)
  BY <1>2, <1>4 DEF LoopOnce, Is
<1>9. ASSUME NEW d \in ToSet(t.idle) PROVE t.conn[d].age >= age
  <2>1. d \in ToSet(s.idle) \/ d = c
    BY <1>2
  <2>2. ToSet(s.idle) \subseteq Conn
    BY <1>1, InSequence
  <2> QED BY <1>2, <2>1, <2>2
<1> QED BY <1>4, <1>5, <1>7, <1>8, <1>9

\* What is left of a list without its head.
LEMMA TailKeeps ==
    ASSUME NEW S, NEW s \in Seq(S), s # <<>>
    PROVE  /\ Head(s) \in ToSet(s) /\ Tail(s) \in Seq(S) /\ ToSet(Tail(s)) \subseteq ToSet(s)
           /\ InOrderOf(Tail(s), s)
           /\ Distinct(s) => /\ Distinct(Tail(s))
                                /\ ToSet(Tail(s)) = ToSet(s) \ {Head(s)}
<1> DEFINE r == Tail(s)
<1>1. /\ r \in Seq(S) /\ Len(s) \in Nat \ {0} /\ Len(r) = Len(s) - 1 /\ Head(s) = s[1]
      /\ \A i \in 1 .. Len(r) : r[i] = s[i + 1]
  OBVIOUS
<1> HIDE DEF r
<1>2. /\ \A x : x \in ToSet(s) <=> \E i \in 1 .. Len(s) : s[i] = x
      /\ \A x : x \in ToSet(r) <=> \E i \in 1 .. Len(r) : r[i] = x
  BY <1>1, InSequence
<1>3. Head(s) \in ToSet(s)
  <2>1. 1 \in 1 .. Len(s)
    BY <1>1
  <2> QED BY <1>1, <1>2, <2>1
<1>4. \A i \in 1 .. Len(r) : i + 1 \in 1 .. Len(s)
  BY <1>1
<1>5. ToSet(r) \subseteq ToSet(s)
  BY <1>1, <1>2, <1>4
<1>6. InOrderOf(r, s)
  BY <1>1, <1>4 DEF InOrderOf
<1>7. ASSUME Distinct(s)
      PROVE  Distinct(r) /\ ToSet(r) = ToSet(s) \ {Head(s)}
  <2>1. Distinct(r)
    <3>1. \A i, j \in 1 .. Len(r) : i # j => i + 1 # j + 1
      BY <1>1
    <3> QED BY <1>1, <1>4, <1>7, <3>1 DEF Distinct
  <2>2. \A i \in 1 .. Len(s) : i = 1 \/ (i - 1 \in 1 .. Len(r) /\ (i - 1) + 1 = i)
    BY <1>1
  <2>3. \A i \in 1 .. Len(r) : r[i] # Head(s)
    <3>1. \A i \in 1 .. Len(r) : i + 1 # 1 /\ 1 \in 1 .. Len(s)
      BY <1>1
    <3> QED BY <1>1, <1>4, <1>7, <3>1 DEF Distinct
  <2>4. ASSUME NEW x \in ToSet(s), x # Head(s) PROVE x \in ToSet(r)
    <3>1. PICK i \in 1 .. Len(s) : s[i] = x
      BY <1>2
    <3>2. i - 1 \in 1 .. Len(r) /\ r[i - 1] = x
      BY <1>1, <2>2, <2>4, <3>1
    <3> QED BY <1>2, <3>2
  <2>5. \A x \in ToSet(r) : x \in ToSet(s) \ {Head(s)}
    BY <1>2, <1>5, <2>3
  <2> QED BY <2>1, <2>4, <2>5
<1> QED BY <1>1, <1>3, <1>5, <1>6, <1>7 DEF r

\* A connection is taken out of the list.
LEMMA UnlinkedKeeps ==
    ASSUME NEW map, NEW s, LoopInv(s, map, 0), NEW l \in Seq(Conn), NEW h \in Conn,
           Distinct(l), InOrderOf(l, s.idle), ToSet(l) = ToSet(s.idle) \ {h},
           NEW t, t = [s EXCEPT !.idle = l]
    PROVE  /\ LoopInv(t, map, h) /\ t.conn = s.conn /\ t.vecFree = s.vecFree /\ t.idle = l
           /\ LoopOnce(s, map) => LoopOnce(t, map)
<1>1. /\ s \in Loop /\ s.idle \in Seq(Conn) /\ Sorted(s)
  BY Parts DEF LoopInv
<1>2. t \in Loop /\ t.conn = s.conn /\ t.vecFree = s.vecFree /\ t.idle = l
  BY <1>1 DEF Loop
<1>3. Sorted(t)
  <2>1. ASSUME NEW i \in 1 .. Len(l), NEW j \in 1 .. Len(l), i < j
        PROVE  s.conn[l[i]].age >= s.conn[l[j]].age
    <3>1. PICK p, k \in 1 .. Len(s.idle) : p < k /\ s.idle[p] = l[i] /\ s.idle[k] = l[j]
      BY <2>1 DEF InOrderOf
    <3> QED BY <1>1, <3>1 DEF Sorted
  <2> QED BY <1>2, <2>1 DEF Sorted
<1>4. ASSUME NEW d \in Conn PROVE ConnInv(t, d, map, h)
  <2>1. ConnInv(s, d, map, 0) /\ d # 0
    BY ConnAreFinite DEF LoopInv
  <2> QED BY <1>2, <2>1 DEF ConnInv, Fresh, Is
<1> QED BY <1>2, <1>3, <1>4 DEF LoopInv, LoopOnce, Is

\* One that is closed need not be in it.
LEMMA ExemptNot ==
    ASSUME NEW map, NEW s, NEW x \in Conn, LoopInv(s, map, x), s.conn[x].closes > 0
    PROVE  LoopInv(s, map, 0)
<1>1. s \in Loop /\ s.conn[x].closes \in Nat
  BY Parts, ConnRecord DEF LoopInv
<1>2. ASSUME NEW d \in Conn PROVE ConnInv(s, d, map, 0)
  <2>1. ConnInv(s, d, map, x)
    BY DEF LoopInv
  <2>2. s.conn[d].closes = 0 => d # x
    BY <1>1
  <2> QED BY <2>1, <2>2 DEF ConnInv
<1> QED BY <1>2 DEF LoopInv

\* CheckTimeout closes the head of the list.
LEMMA ExpireKeeps ==
    ASSUME NEW map, NEW s, LoopInv(s, map, 0), s.idle # <<>>,
           NEW t, t = HandleClose([s EXCEPT !.idle = Tail(@)], Head(s.idle))
    PROVE  /\ LoopInv(t, map, 0) /\ (LoopOnce(s, map) => LoopOnce(t, map)) /\ Steady(s, t)
           /\ \A d \in Conn : t.conn[d].late = s.conn[d].late
<1> DEFINE h == Head(s.idle)
           l == Tail(s.idle)
           u == [s EXCEPT !.idle = l]
<1>1. s \in Loop /\ s.idle \in Seq(Conn) /\ Distinct(s.idle)
  BY Parts DEF LoopInv
<1>2. /\ h \in ToSet(s.idle) /\ l \in Seq(Conn) /\ InOrderOf(l, s.idle)
      /\ Distinct(l) /\ ToSet(l) = ToSet(s.idle) \ {h}
  BY <1>1, TailKeeps
<1>3. h \in Conn
  BY <1>1
<1>4. ~ Fresh(s, h)
  BY <1>2, <1>3 DEF LoopInv, ConnInv
<1>5. t = HandleClose(u, h)
  OBVIOUS
<1> HIDE DEF h, l
<1>6. /\ LoopInv(u, map, h) /\ u.conn = s.conn
      /\ LoopOnce(s, map) => LoopOnce(u, map)
  BY <1>2, <1>3, UnlinkedKeeps
<1>7. u \in Loop /\ ~ Fresh(u, h)
  BY <1>4, <1>6 DEF LoopInv, Fresh
<1> HIDE DEF u
<1>8. t \in Loop /\ Handled(u, t, h) /\ t.conn[h].late = u.conn[h].late /\ Is(t, h, "csDisConnected")
  BY <1>3, <1>5, <1>7, CloseIs
<1>9. LoopInv(t, map, h)
  BY <1>3, <1>6, <1>8, HandledKeeps
<1>10. t.conn[h].closes > 0
  BY <1>3, <1>8, <1>9 DEF LoopInv, ConnInv
<1>11. LoopInv(t, map, 0)
  BY <1>3, <1>9, <1>10, ExemptNot
<1>12. LoopOnce(s, map) => LoopOnce(t, map)
  BY <1>3, <1>6, <1>7, <1>8, HandledOnce
<1>13. Steady(u, t) /\ \A d \in Conn \ {h} : t.conn[d] = u.conn[d]
  BY <1>3, <1>7, <1>8, HandledSame
<1>14. Steady(s, t)
  BY <1>6, <1>13 DEF Steady, Fresh
<1> QED BY <1>6, <1>8, <1>11, <1>12, <1>13, <1>14

\* DestoryConn takes the first of vecFree out of everything.
LEMMA DestroyKeeps ==
    ASSUME NEW map, NEW s, LoopInv(s, map, 0), s.vecFree # <<>>,
           NEW t, t = [s EXCEPT !.vecFree = Tail(@), !.idle = RemoveFirst(@, Head(s.vecFree))]
    PROVE  /\ LoopInv(t, map \ {Head(s.vecFree)}, 0)
           /\ LoopOnce(s, map) => LoopOnce(t, map \ {Head(s.vecFree)})
           /\ t.conn = s.conn /\ s.conn[Head(s.vecFree)].closes > 0
<1> DEFINE h == Head(s.vecFree)
           l == RemoveFirst(s.idle, h)
           v == Tail(s.vecFree)
           u == [s EXCEPT !.idle = l]
           m == map \ {h}
<1>1. /\ s \in Loop /\ s.idle \in Seq(Conn) /\ s.vecFree \in Seq(Conn) /\ Distinct(s.idle)
  BY Parts DEF LoopInv
<1>2. /\ h \in ToSet(s.vecFree) /\ v \in Seq(Conn) /\ ToSet(v) \subseteq ToSet(s.vecFree)
      /\ Distinct(s.vecFree) => Distinct(v) /\ ToSet(v) = ToSet(s.vecFree) \ {h}
  BY <1>1, TailKeeps
<1>3. h \in Conn
  BY <1>1
<1>4. l \in Seq(Conn) /\ Distinct(l) /\ InOrderOf(l, s.idle) /\ ToSet(l) = ToSet(s.idle) \ {h}
  BY <1>1, RemoveFirstKeeps
<1>5. t = [u EXCEPT !.vecFree = v]
  BY <1>1 DEF Loop
<1>6. s.conn[h].closes > 0
  BY <1>2, <1>3 DEF LoopInv, ConnInv
<1> HIDE DEF h, l, v
<1>7. /\ LoopInv(u, map, h) /\ u.conn = s.conn /\ u.vecFree = s.vecFree /\ u.idle = l
      /\ LoopOnce(s, map) => LoopOnce(u, map)
  BY <1>3, <1>4, UnlinkedKeeps
<1> HIDE DEF u
<1>8. u \in Loop
  BY <1>7 DEF LoopInv
<1>9. t \in Loop /\ t.conn = u.conn /\ t.idle = u.idle /\ t.vecFree = v
  BY <1>2, <1>5, <1>8 DEF Loop
<1>10. u.conn[h].closes \in Nat
  BY <1>3, <1>8, Parts, ConnRecord
<1>11. ASSUME NEW d \in Conn PROVE ConnInv(t, d, m, 0)
  <2>1. ConnInv(u, d, map, h)
    BY <1>7 DEF LoopInv
  <2>2. d \in ToSet(t.vecFree) => d \in ToSet(u.vecFree)
    BY <1>2, <1>7, <1>9
  <2>3. d \in ToSet(t.idle) => d # h
    BY <1>4, <1>7, <1>9
  <2>4. t.conn[d].closes = 0 => d # h
    BY <1>6, <1>7, <1>9, <1>10
  <2> QED BY <1>9, <2>1, <2>2, <2>3, <2>4 DEF ConnInv, Fresh, Is
<1>12. Distinct(t.idle) /\ Sorted(t)
  BY <1>7, <1>9 DEF LoopInv, Sorted
<1>13. LoopInv(t, m, 0)
  BY <1>9, <1>11, <1>12 DEF LoopInv
<1>14. ASSUME LoopOnce(s, map) PROVE LoopOnce(t, m)
  BY <1>2, <1>7, <1>9, <1>14 DEF LoopOnce, Is
<1> QED BY <1>6, <1>7, <1>9, <1>13, <1>14 DEF h

\* Create and Insert.
LEMMA CreateKeeps ==
    ASSUME NEW map, NEW x, NEW s, LoopInv(s, map, x), NEW n \in Conn, Is(s, n, "none"),
           NEW t, t = With(s, n, NewConn)
    PROVE  /\ LoopInv(t, map, x) /\ (LoopOnce(s, map) => LoopOnce(t, map))
           /\ \A d \in Conn \ {n} : t.conn[d] = s.conn[d]
           /\ Is(t, n, "csConnecting") /\ ~ t.conn[n].late
           /\ \A d \in ToSet(t.idle) : d \in ToSet(s.idle) /\ t.conn[d] = s.conn[d]
<1>1. s \in Loop /\ NewConn \in ConnRec /\ s.idle \in Seq(Conn)
  BY Parts DEF NewConn, ConnRec, States, LoopInv
<1>3. Changed(s, t, n) /\ t.vecFree = s.vecFree /\ t.conn[n] = NewConn
  BY <1>1, Put
<1>4. /\ NewConn.state = "csConnecting" /\ NewConn.interest = "none" /\ NewConn.closes = 0
      /\ NewConn.late = FALSE
  BY DEF NewConn
<1>5. t \in Loop /\ t.idle = s.idle /\ \A d \in Conn \ {n} : t.conn[d] = s.conn[d]
  BY <1>3 DEF Changed
<1>6. n \notin ToSet(s.idle) /\ n \notin ToSet(s.vecFree) /\ s.conn[n].closes = 0
  BY DEF LoopInv, ConnInv, Fresh, Is
<1>7. ASSUME NEW d \in Conn PROVE ConnInv(t, d, map, x)
  <2>1. ConnInv(s, d, map, x)
    BY DEF LoopInv
  <2>2. CASE d # n
    BY <1>3, <1>5, <2>1, <2>2 DEF ConnInv, Fresh, Is
  <2>3. CASE d = n
    BY <1>3, <1>4, <1>5, <1>6, <2>3 DEF ConnInv, Fresh, Is
  <2> QED BY <2>2, <2>3
<1>8. ToSet(s.idle) \subseteq Conn \ {n}
  BY <1>1, <1>6, InSequence
<1>9. Sorted(t)
  <2>1. \A i \in 1 .. Len(s.idle) : s.idle[i] \in Conn \ {n}
    BY <1>1, <1>8, InSequence
  <2> QED BY <1>5, <2>1 DEF LoopInv, Sorted
<1>10. LoopInv(t, map, x)
  BY <1>5, <1>7, <1>9 DEF LoopInv
<1>11. LoopOnce(s, map) => LoopOnce(t, map)
  BY <1>3, <1>4, <1>5 DEF LoopOnce, Is
<1> QED BY <1>3, <1>4, <1>5, <1>8, <1>10, <1>11 DEF Is

LEMMA InsertKeeps ==
    ASSUME NEW map, NEW x, NEW s, LoopInv(s, map, x), NEW n
    PROVE  LoopInv(s, map \cup {n}, x) /\ (LoopOnce(s, map) => LoopOnce(s, map \cup {n}))
BY DEF LoopInv, ConnInv, LoopOnce

LEMMA HandledServes ==
    ASSUME NEW map, NEW x, NEW s, LoopInv(s, map, x), NEW c \in Conn, ~ Fresh(s, c),
           NEW t, Handled(s, t, c)
    PROVE  /\ LoopInv(t, map, x) /\ (LoopOnce(s, map) => LoopOnce(t, map))
           /\ Steady(s, t) /\ SameList(s, t)
           /\ \A d \in Conn \ {c} : t.conn[d] = s.conn[d]
<1>1. s \in Loop
  BY DEF LoopInv
<1> QED BY <1>1, HandledKeeps, HandledOnce, HandledSame

\* OnEnableConnect, up to its callback: the connection is open and not in the list.
LEMMA EnableKeeps ==
    ASSUME NEW map, NEW s, LoopInv(s, map, 0), NEW c \in Conn, c \in map, Is(s, c, "csConnecting"),
           NEW t, t = OnEnableConnect(s, c)
    PROVE  /\ LoopInv(t, map, c) /\ (LoopOnce(s, map) => LoopOnce(t, map))
           /\ \A d \in Conn \ {c} : t.conn[d] = s.conn[d]
           /\ ~ Fresh(t, c) /\ t.conn[c].late = s.conn[c].late
<1> DEFINE p == [s.conn[c] EXCEPT !.interest = "in"]
           q == [p EXCEPT !.state = "csConnected"]
           e == EnableRead(s, c)
           open == [e EXCEPT !.conn[c].state = "csConnected"]
<1>1. s \in Loop /\ s.conn[c] \in ConnRec /\ s.idle \in Seq(Conn)
  BY Parts DEF LoopInv
<1>2. /\ p \in ConnRec /\ p.interest = "in" /\ p.state = s.conn[c].state /\ p.age = s.conn[c].age
      /\ p.closes = s.conn[c].closes /\ p.late = s.conn[c].late
  BY <1>1 DEF ConnRec
<1>3. e = With(s, c, p)
  BY DEF EnableRead, With
<1>4. t = Called(open, c)
  BY DEF OnEnableConnect
<1> HIDE DEF p, e
<1>5. Changed(s, e, c) /\ e.vecFree = s.vecFree /\ e.conn[c] = p
  BY <1>1, <1>2, <1>3, Put
<1>6. /\ q \in ConnRec /\ q.interest = "in" /\ q.state = "csConnected" /\ q.age = p.age
      /\ q.closes = p.closes /\ q.late = p.late
  BY <1>2 DEF ConnRec, States
<1>7. e \in Loop
  BY <1>5 DEF Changed
<1>8. open = With(e, c, q)
  BY <1>5 DEF With
<1> HIDE DEF q, open
<1>9. Changed(e, open, c) /\ open.vecFree = e.vecFree /\ open.conn[c] = q
  BY <1>6, <1>7, <1>8, Put
<1>10. /\ open \in Loop /\ open.idle = s.idle /\ open.vecFree = s.vecFree
       /\ \A d \in Conn \ {c} : open.conn[d] = s.conn[d]
       /\ open.conn[c].age = s.conn[c].age /\ open.conn[c].late = s.conn[c].late
  BY <1>2, <1>5, <1>6, <1>9 DEF Changed
<1>11. /\ c \notin ToSet(s.idle) /\ c \notin ToSet(s.vecFree) /\ s.conn[c].closes = 0
  BY DEF LoopInv, ConnInv, Fresh, Is
<1>12. open.conn[c].closes = 0 /\ Is(open, c, "csConnected")
  BY <1>2, <1>6, <1>9, <1>11 DEF Is
<1>13. ~ Fresh(open, c)
  BY <1>12 DEF Fresh, Is
<1>14. ASSUME NEW d \in Conn PROVE ConnInv(open, d, map, c)
  <2>1. ConnInv(s, d, map, 0) /\ d # 0
    BY ConnAreFinite DEF LoopInv
  <2>2. CASE d # c
    BY <1>10, <2>1, <2>2 DEF ConnInv, Fresh, Is
  <2>3. CASE d = c
    BY <1>10, <1>11, <1>12, <1>13, <2>3 DEF ConnInv, Is
  <2> QED BY <2>2, <2>3
<1>15. Sorted(open)
  <2>1. \A i \in 1 .. Len(s.idle) : s.idle[i] \in Conn
    BY <1>1
  <2>2. \A d \in Conn : open.conn[d].age = s.conn[d].age
    BY <1>10
  <2> QED BY <1>10, <2>1, <2>2 DEF LoopInv, Sorted
<1>16. LoopInv(open, map, c)
  BY <1>10, <1>14, <1>15 DEF LoopInv
<1>17. LoopOnce(s, map) => LoopOnce(open, map)
  BY <1>10, <1>12 DEF LoopOnce, Is
<1>18. t \in Loop /\ Handled(open, t, c) /\ t.conn[c].late = open.conn[c].late
  BY <1>4, <1>10, <1>12, CalledIs
<1>19. /\ LoopInv(t, map, c) /\ (LoopOnce(open, map) => LoopOnce(t, map)) /\ Steady(open, t)
       /\ \A d \in Conn \ {c} : t.conn[d] = open.conn[d]
  BY <1>13, <1>16, <1>18, HandledServes
<1>20. ~ Fresh(t, c)
  BY <1>13, <1>19 DEF Steady
<1> QED BY <1>10, <1>17, <1>18, <1>19, <1>20

LEMMA SteadyTransitive ==
    ASSUME NEW s, NEW t, NEW u, Steady(s, t), Steady(t, u)
    PROVE  Steady(s, u)
BY DEF Steady, Fresh

\* Every age in the list is at least that.
AtLeast(s, age) == \A d \in ToSet(s.idle) : s.conn[d].age >= age

LEMMA SameListAtLeast ==
    ASSUME NEW s \in Loop, NEW t, SameList(s, t), NEW age, AtLeast(s, age)
    PROVE  AtLeast(t, age)
<1>1. s.idle \in Seq(Conn)
  BY Parts
<1>2. ToSet(s.idle) \subseteq Conn
  BY <1>1, Members
<1> QED BY <1>2 DEF AtLeast, SameList

LEMMA ReadKeeps ==
    ASSUME NEW map, NEW s, LoopInv(s, map, 0), NEW c \in Conn, c \in map, ~ Fresh(s, c),
           NEW age \in Nat, AtLeast(s, age),
           NEW t, t = OnReadEvent(s, c, age)
    PROVE  /\ LoopInv(t, map, 0) /\ (LoopOnce(s, map) => LoopOnce(t, map)) /\ Steady(s, t)
           /\ AtLeast(t, age)
           /\ s.conn[c].closes = 0 => t.conn[c].late = s.conn[c].late
           /\ \A d \in Conn \ {c} : t.conn[d] = s.conn[d]
<1> DEFINE a == UpdateTimeTcpConn(s, c, age)
<1>1. t = Called(a, c)
  BY DEF OnReadEvent
<1>2. s \in Loop /\ Distinct(s.idle)
  BY DEF LoopInv
<1>3. \A d \in ToSet(s.idle) : s.conn[d].age >= age
  BY DEF AtLeast
<1>4. /\ LoopInv(a, map, 0) /\ (LoopOnce(s, map) => LoopOnce(a, map)) /\ Steady(s, a)
      /\ \A d \in ToSet(a.idle) : a.conn[d].age >= age
      /\ \A d \in Conn : a.conn[d].late = s.conn[d].late /\ a.conn[d].closes = s.conn[d].closes
  BY <1>3, TouchKeeps
<1>5. TouchedIn(s, a, c, age)
  BY <1>2, TouchIs
<1> HIDE DEF a
<1>6. a \in Loop /\ AtLeast(a, age) /\ \A d \in Conn \ {c} : a.conn[d] = s.conn[d]
  BY <1>4, <1>5 DEF TouchedIn, AtLeast
<1>7. ~ Fresh(a, c)
  BY <1>4 DEF Steady
<1>8. t \in Loop /\ Handled(a, t, c) /\ (a.conn[c].closes = 0 => t.conn[c].late = a.conn[c].late)
  BY <1>1, <1>6, CalledIs
<1>9. /\ LoopInv(t, map, 0) /\ (LoopOnce(a, map) => LoopOnce(t, map))
      /\ Steady(a, t) /\ SameList(a, t)
      /\ \A d \in Conn \ {c} : t.conn[d] = a.conn[d]
  BY <1>4, <1>7, <1>8, HandledServes
<1>10. Steady(s, t)
  BY <1>4, <1>9, SteadyTransitive
<1>11. AtLeast(t, age)
  BY <1>6, <1>9, SameListAtLeast
<1> QED BY <1>4, <1>6, <1>8, <1>9, <1>10, <1>11

\* Everybody in the list grows older at the same rate, up to the bound.
Older(age, bound) == IF age <= bound THEN age + 1 ELSE age

LEMMA TickKeeps ==
    ASSUME NEW map, NEW x, LoopInv(io, map, x), given.maxLag \in Nat,
           NEW bound, bound = DEF_CONN_TIME_OUT + given.maxLag,
           NEW t, t = [io EXCEPT !.conn = [c \in Conn |-> [@[c] EXCEPT !.age = Aged(c)]]]
    PROVE  /\ LoopInv(t, map, x) /\ (LoopOnce(io, map) => LoopOnce(t, map)) /\ Steady(io, t)
           /\ t.idle = io.idle
           /\ \A d \in ToSet(io.idle) : t.conn[d].age = Older(io.conn[d].age, bound)
           /\ \A d \in Conn : /\ t.conn[d].state = io.conn[d].state
                              /\ t.conn[d].closes = io.conn[d].closes
                              /\ t.conn[d].late = io.conn[d].late
<1> DEFINE e(c) == Aged(c)
           r(c) == [io.conn[c] EXCEPT !.age = e(c)]
           f == [c \in Conn |-> r(c)]
<1>1. io \in Loop /\ io.idle \in Seq(Conn) /\ \A c \in Conn : io.conn[c] \in ConnRec
  BY Parts DEF LoopInv
<1>2. t = [io EXCEPT !.conn = f]
  OBVIOUS
<1>3. bound \in Nat /\ \A c \in Conn : io.conn[c].age \in Nat
  BY <1>1, ConnRecord, TcpServerAssumption
<1>4. \A c \in Conn : e(c) \in Nat /\ (Ages(c) => e(c) = Older(io.conn[c].age, bound))
  BY <1>3 DEF Older, Aged
<1> HIDE DEF e
<1>5. ASSUME NEW c \in Conn
      PROVE  /\ r(c) \in ConnRec /\ r(c).age = e(c) /\ r(c).state = io.conn[c].state
             /\ r(c).interest = io.conn[c].interest /\ r(c).closes = io.conn[c].closes
             /\ r(c).late = io.conn[c].late
  BY <1>1, <1>4 DEF ConnRec
<1> HIDE DEF r
<1>6. f \in [Conn -> ConnRec] /\ \A c \in Conn : f[c] = r(c)
  BY <1>5
<1> HIDE DEF f
<1>7. /\ t \in Loop /\ t.idle = io.idle /\ t.vecFree = io.vecFree
      /\ \A c \in Conn : t.conn[c] = r(c)
  BY <1>1, <1>2, <1>6 DEF Loop
<1>8. \A d \in Conn : /\ t.conn[d].state = io.conn[d].state
                      /\ t.conn[d].closes = io.conn[d].closes
                      /\ t.conn[d].late = io.conn[d].late
                      /\ t.conn[d].interest = io.conn[d].interest
  BY <1>5, <1>7
<1>9. ToSet(io.idle) \subseteq Conn /\ \A i \in 1 .. Len(io.idle) : io.idle[i] \in ToSet(io.idle)
  BY <1>1, Members
<1>10. \A d \in ToSet(io.idle) : t.conn[d].age = Older(io.conn[d].age, bound)
  BY <1>4, <1>5, <1>7, <1>9 DEF Ages
<1>11. \A m, n \in Nat : m >= n => Older(m, bound) >= Older(n, bound)
  BY <1>3 DEF Older
<1>12. Sorted(t)
  <2>1. ASSUME NEW i \in 1 .. Len(io.idle), NEW j \in 1 .. Len(io.idle), i < j
        PROVE  t.conn[io.idle[i]].age >= t.conn[io.idle[j]].age
    <3>1. io.conn[io.idle[i]].age >= io.conn[io.idle[j]].age
      BY <2>1 DEF LoopInv, Sorted
    <3>2. io.idle[i] \in Conn /\ io.idle[j] \in Conn
      BY <1>9
    <3> QED BY <1>3, <1>9, <1>10, <1>11, <3>1, <3>2
  <2> QED BY <1>7, <2>1 DEF Sorted
<1>13. ASSUME NEW d \in Conn PROVE ConnInv(t, d, map, x)
  <2>1. ConnInv(io, d, map, x)
    BY DEF LoopInv
  <2> QED BY <1>7, <1>8, <2>1 DEF ConnInv, Fresh, Is
<1>14. LoopInv(t, map, x)
  BY <1>7, <1>12, <1>13 DEF LoopInv
<1>15. LoopOnce(io, map) => LoopOnce(t, map)
  BY <1>7, <1>8 DEF LoopOnce, Is
<1>16. Steady(io, t)
  BY <1>8 DEF Steady, Fresh
<1> QED BY <1>7, <1>8, <1>10, <1>14, <1>15, <1>16

\* Shutdown of another thread changes the state, whatever it is by now.
LEMMA ShutKeeps ==
    ASSUME NEW map, NEW x, LoopInv(io, map, x), NEW c \in Conn, ~ Fresh(io, c),
           NEW t, t = [io EXCEPT !.conn[c].state = "csDisConnecting"]
    PROVE  /\ LoopInv(t, map, x) /\ Steady(io, t) /\ SameList(io, t)
           /\ \A d \in Conn \ {c} : t.conn[d] = io.conn[d]
<1> DEFINE r == [io.conn[c] EXCEPT !.state = "csDisConnecting"]
<1>1. io \in Loop /\ io.conn[c] \in ConnRec /\ io.idle \in Seq(Conn)
  BY Parts DEF LoopInv
<1>2. /\ r \in ConnRec /\ r.state = "csDisConnecting" /\ r.age = io.conn[c].age
      /\ r.interest = io.conn[c].interest /\ r.closes = io.conn[c].closes
  BY <1>1 DEF ConnRec, States
<1>3. t = With(io, c, r)
  BY DEF With
<1> HIDE DEF r
<1>4. Changed(io, t, c) /\ t.vecFree = io.vecFree /\ t.conn[c] = r
  <2>1. \A w : w = With(io, c, r) => Changed(io, w, c) /\ w.vecFree = io.vecFree /\ w.conn[c] = r
    BY <1>1, <1>2, Put
  <2> QED BY <1>3, <2>1
<1>5. t \in Loop /\ t.idle = io.idle /\ \A d \in Conn \ {c} : t.conn[d] = io.conn[d]
  BY <1>4 DEF Changed
<1>6. ~ Fresh(t, c) /\ ~ Is(t, c, "csDisConnected")
  BY <1>2, <1>4 DEF Fresh, Is
<1>7. ASSUME NEW d \in Conn PROVE ConnInv(t, d, map, x)
  <2>1. ConnInv(io, d, map, x)
    BY DEF LoopInv
  <2>2. CASE d # c
    BY <1>4, <1>5, <2>1, <2>2 DEF ConnInv, Fresh, Is
  <2>3. CASE d = c
    BY <1>2, <1>4, <1>5, <1>6, <2>1, <2>3 DEF ConnInv
  <2> QED BY <2>2, <2>3
<1>8. SameList(io, t)
  BY <1>2, <1>4, <1>5 DEF SameList
<1>9. Sorted(t)
  <2>1. \A i \in 1 .. Len(io.idle) : io.idle[i] \in Conn
    BY <1>1
  <2> QED BY <1>5, <1>8, <2>1 DEF LoopInv, Sorted, SameList
<1>10. LoopInv(t, map, x)
  BY <1>5, <1>7, <1>9 DEF LoopInv
<1>11. Steady(io, t)
  BY <1>5, <1>6 DEF Steady, Fresh
<1> QED BY <1>5, <1>8, <1>10, <1>11

LEMMA FunctorParts ==
    ASSUME NEW f \in Functor
    PROVE  f.kind \in {"OnEnableConnect", "OnShutdown", "SendInLoop"} /\ f.conn \in Conn
BY DEF Functor

\* Nothing that matters to the functors has changed.
LEMMA QueueSame ==
    ASSUME NEW q, NEW s, NEW map, NEW n, NEW busy, NEW h, QueueIn(q, s, map, n, busy, h),
           NEW t, NEW map2, NEW n2, NEW busy2, NEW h2,
           \A d \in Conn : Is(s, d, "csConnecting") /\ d \in map /\ (d = n => ~ busy)
              => Is(t, d, "csConnecting") /\ d \in map2 /\ (d = n2 => ~ busy2),
           \A i \in 1 .. Len(q) : q[i].kind = "SendInLoop" => q[i].conn \in h2
    PROVE  QueueIn(q, t, map2, n2, busy2, h2)
<1>1. \A i \in 1 .. Len(q) : q[i] \in Functor
  BY DEF QueueIn
<1>2. \A i \in 1 .. Len(q) : q[i].conn \in Conn
  BY <1>1, FunctorParts
<1> QED BY <1>2 DEF QueueIn

\* The connections that wait to be enabled are as they were.
LEMMA QueueOther ==
    ASSUME NEW q, NEW s, NEW map, NEW n, NEW busy, NEW h, QueueIn(q, s, map, n, busy, h),
           NEW t, NEW h2,
           \A i \in 1 .. Len(q) : q[i].kind = "OnEnableConnect" => Is(t, q[i].conn, "csConnecting"),
           \A i \in 1 .. Len(q) : q[i].kind = "SendInLoop" => q[i].conn \in h2
    PROVE  QueueIn(q, t, map, n, busy, h2)
BY DEF QueueIn

LEMMA QueueAppend ==
    ASSUME NEW q, NEW s, NEW map, NEW n, NEW busy, NEW h, QueueIn(q, s, map, n, busy, h),
           NEW f \in Functor,
           f.kind = "OnEnableConnect" =>
              /\ Is(s, f.conn, "csConnecting") /\ f.conn \in map
              /\ f.conn = n => ~ busy
              /\ \A i \in 1 .. Len(q) : q[i].kind = "OnEnableConnect" => q[i].conn # f.conn,
           f.kind = "SendInLoop" => f.conn \in h
    PROVE  QueueIn(Append(q, f), s, map, n, busy, h)
<1> DEFINE a == Append(q, f)
<1>1. q \in Seq(Functor)
  BY DEF QueueIn
<1>2. /\ a \in Seq(Functor) /\ Len(a) = Len(q) + 1 /\ a[Len(q) + 1] = f
      /\ \A i \in 1 .. Len(q) : a[i] = q[i]
      /\ Len(q) \in Nat
  BY <1>1
<1> HIDE DEF a
<1>3. \A i \in 1 .. Len(a) : i \in 1 .. Len(q) \/ i = Len(q) + 1
  BY <1>2
<1>4. ASSUME NEW i \in 1 .. Len(a)
      PROVE  /\ a[i].kind = "OnEnableConnect" =>
                   /\ Is(s, a[i].conn, "csConnecting") /\ a[i].conn \in map
                   /\ a[i].conn = n => ~ busy
             /\ a[i].kind = "SendInLoop" => a[i].conn \in h
  BY <1>2, <1>3 DEF QueueIn
<1>5. ASSUME NEW i \in 1 .. Len(a), NEW j \in 1 .. Len(a), i < j,
             a[i].kind = "OnEnableConnect", a[j].kind = "OnEnableConnect"
      PROVE  a[i].conn # a[j].conn
  <2>1. i \in 1 .. Len(q)
    BY <1>2, <1>3, <1>5
  <2> QED BY <1>2, <1>3, <1>5, <2>1 DEF QueueIn
<1> QED BY <1>2, <1>4, <1>5 DEF QueueIn, a

LEMMA QueueTail ==
    ASSUME NEW q, NEW s, NEW map, NEW n, NEW busy, NEW h, QueueIn(q, s, map, n, busy, h), q # <<>>
    PROVE  /\ QueueIn(Tail(q), s, map, n, busy, h)
           /\ Head(q) \in Functor
           /\ Head(q).kind = "OnEnableConnect" =>
                 /\ Is(s, Head(q).conn, "csConnecting") /\ Head(q).conn \in map
                 /\ Head(q).conn = n => ~ busy
                 /\ \A i \in 1 .. Len(Tail(q)) :
                       Tail(q)[i].kind = "OnEnableConnect" => Tail(q)[i].conn # Head(q).conn
<1> DEFINE r == Tail(q)
<1>1. q \in Seq(Functor)
  BY DEF QueueIn
<1>2. /\ r \in Seq(Functor) /\ Len(q) \in Nat \ {0} /\ Len(r) = Len(q) - 1 /\ Head(q) = q[1]
      /\ \A i \in 1 .. Len(r) : r[i] = q[i + 1]
  BY <1>1
<1> HIDE DEF r
<1>3. /\ \A i \in 1 .. Len(r) : i + 1 \in 1 .. Len(q) /\ 1 < i + 1
      /\ \A i, j \in 1 .. Len(r) : i < j => i + 1 < j + 1
      /\ 1 \in 1 .. Len(q)
  BY <1>2
<1>4. QueueIn(r, s, map, n, busy, h)
  <2>1. ASSUME NEW i \in 1 .. Len(r)
        PROVE  /\ r[i].kind = "OnEnableConnect" =>
                     /\ Is(s, r[i].conn, "csConnecting") /\ r[i].conn \in map
                     /\ r[i].conn = n => ~ busy
               /\ r[i].kind = "SendInLoop" => r[i].conn \in h
    <3>1. i + 1 \in 1 .. Len(q) /\ r[i] = q[i + 1]
      BY <1>2, <1>3
    <3> QED BY <3>1 DEF QueueIn
  <2>2. ASSUME NEW i \in 1 .. Len(r), NEW j \in 1 .. Len(r), i < j,
               r[i].kind = "OnEnableConnect", r[j].kind = "OnEnableConnect"
        PROVE  r[i].conn # r[j].conn
    <3>1. /\ i + 1 \in 1 .. Len(q) /\ r[i] = q[i + 1] /\ i + 1 < j + 1
          /\ j + 1 \in 1 .. Len(q) /\ r[j] = q[j + 1]
      BY <1>2, <1>3, <2>2
    <3> QED BY <2>2, <3>1 DEF QueueIn
  <2> QED BY <1>2, <2>1, <2>2 DEF QueueIn
<1>5. Head(q) \in Functor
  BY <1>1, <1>2, <1>3
<1>6. Head(q).kind = "OnEnableConnect" =>
         /\ Is(s, Head(q).conn, "csConnecting") /\ Head(q).conn \in map
         /\ Head(q).conn = n => ~ busy
         /\ \A i \in 1 .. Len(r) : r[i].kind = "OnEnableConnect" => r[i].conn # Head(q).conn
  BY <1>2, <1>3 DEF QueueIn
<1> QED BY <1>4, <1>5, <1>6 DEF r

LEMMA Concatenation ==
    ASSUME NEW S, NEW r \in Seq(S), NEW f \in Seq(S)
    PROVE  /\ r \o f \in Seq(S) /\ <<>> \o f = f /\ r \o <<>> = r
           /\ \A x \in S : r \o Append(f, x) = Append(r \o f, x)
           /\ r # <<>> => r \o f # <<>> /\ Head(r \o f) = Head(r) /\ Tail(r \o f) = Tail(r) \o f
<1>1. r \o f \in Seq(S) /\ <<>> \o f = f /\ r \o <<>> = r
  BY ConcatProperties, ConcatEmptySeq
<1>2. ASSUME NEW x \in S PROVE r \o Append(f, x) = Append(r \o f, x)
  <2>1. <<x>> \in Seq(S) /\ Append(f, x) = f \o <<x>>
    BY AppendIsConcat
  <2>2. Append(r \o f, x) = (r \o f) \o <<x>>
    BY <1>1, AppendIsConcat
  <2> QED BY <2>1, <2>2, ConcatAssociative
<1>3. ASSUME r # <<>>
      PROVE  r \o f # <<>> /\ Head(r \o f) = Head(r) /\ Tail(r \o f) = Tail(r) \o f
  <2> DEFINE a == r \o f
             b == Tail(r) \o f
  <2>1. Len(r) \in Nat \ {0} /\ Len(f) \in Nat
    BY <1>3
  <2>2. /\ a \in Seq(S) /\ Len(a) = Len(r) + Len(f)
        /\ \A i \in 1 .. Len(r) + Len(f) : a[i] = IF i <= Len(r) THEN r[i] ELSE f[i - Len(r)]
    BY ConcatProperties
  <2>3. /\ Tail(r) \in Seq(S) /\ Len(Tail(r)) = Len(r) - 1
        /\ \A i \in 1 .. Len(r) - 1 : Tail(r)[i] = r[i + 1]
    BY <1>3
  <2>4. /\ b \in Seq(S) /\ Len(b) = Len(r) - 1 + Len(f)
        /\ \A i \in 1 .. Len(r) - 1 + Len(f) :
              b[i] = IF i <= Len(r) - 1 THEN Tail(r)[i] ELSE f[i - (Len(r) - 1)]
    BY <2>3, ConcatProperties
  <2> HIDE DEF a, b
  <2>5. a # <<>> /\ Head(a) = a[1] /\ Head(r) = r[1]
    BY <1>3, <2>1, <2>2
  <2>6. a[1] = r[1]
    BY <2>1, <2>2
  <2>7. /\ Tail(a) \in Seq(S) /\ Len(Tail(a)) = Len(a) - 1
        /\ \A i \in 1 .. Len(a) - 1 : Tail(a)[i] = a[i + 1]
    BY <2>2, <2>5
  <2>8. ASSUME NEW i \in 1 .. Len(a) - 1 PROVE a[i + 1] = b[i]
    <3>1. i \in 1 .. Len(r) - 1 + Len(f) /\ i + 1 \in 1 .. Len(r) + Len(f)
      BY <2>1, <2>2
    <3>2. CASE i <= Len(r) - 1
      <4>1. i + 1 <= Len(r)
        BY <2>1, <3>2
      <4>2. a[i + 1] = r[i + 1]
        BY <2>2, <3>1, <4>1
      <4>3. i \in 1 .. Len(r) - 1
        BY <2>1, <3>1, <3>2
      <4>4. b[i] = Tail(r)[i]
        BY <2>4, <3>1, <3>2
      <4> QED BY <2>3, <4>2, <4>3, <4>4
    <3>3. CASE ~ (i <= Len(r) - 1)
      <4>1. ~ (i + 1 <= Len(r)) /\ (i + 1) - Len(r) = i - (Len(r) - 1)
        BY <2>1, <3>3
      <4>2. a[i + 1] = f[(i + 1) - Len(r)]
        BY <2>2, <3>1, <4>1
      <4>3. b[i] = f[i - (Len(r) - 1)]
        BY <2>4, <3>1, <3>3
      <4> QED BY <4>1, <4>2, <4>3
    <3> QED BY <3>2, <3>3
  <2>9. Tail(a) = b
    <3>1. Len(Tail(a)) = Len(b) /\ \A i \in 1 .. Len(Tail(a)) : Tail(a)[i] = b[i]
      BY <2>1, <2>2, <2>4, <2>7, <2>8
    <3> QED BY <2>4, <2>7, <3>1, SeqEqual
  <2> QED BY <2>5, <2>6, <2>9 DEF a, b
<1> QED BY <1>1, <1>2, <1>3

\* A functor is in the queue as long as it is in one of its parts.
LEMMA InConcatenation ==
    ASSUME NEW S, NEW r \in Seq(S), NEW f \in Seq(S), NEW x \in ToSet(r) \cup ToSet(f)
    PROVE  \E i \in 1 .. Len(r \o f) : (r \o f)[i] = x
<1>1. /\ Len(r \o f) = Len(r) + Len(f) /\ Len(r) \in Nat /\ Len(f) \in Nat
      /\ \A i \in 1 .. Len(r) + Len(f) : (r \o f)[i] = IF i <= Len(r) THEN r[i] ELSE f[i - Len(r)]
  BY ConcatProperties
<1>2. CASE x \in ToSet(r)
  <2>1. PICK i \in 1 .. Len(r) : r[i] = x
    BY <1>2, Members
  <2>2. i \in 1 .. Len(r) + Len(f) /\ i <= Len(r)
    BY <1>1
  <2> QED BY <1>1, <2>1, <2>2
<1>3. CASE x \in ToSet(f)
  <2>1. PICK i \in 1 .. Len(f) : f[i] = x
    BY <1>3, Members
  <2>2. /\ i + Len(r) \in 1 .. Len(r) + Len(f) /\ ~ (i + Len(r) <= Len(r))
        /\ (i + Len(r)) - Len(r) = i
    BY <1>1
  <2>3. (r \o f)[i + Len(r)] = x
    BY <1>1, <2>1, <2>2
  <2> QED BY <1>1, <2>2, <2>3
<1> QED BY <1>2, <1>3

LEMMA OutOfConcatenation ==
    ASSUME NEW S, NEW r \in Seq(S), NEW f \in Seq(S), NEW i \in 1 .. Len(r \o f)
    PROVE  \/ \E j \in 1 .. Len(r) : (r \o f)[i] = r[j]
           \/ \E j \in 1 .. Len(f) : (r \o f)[i] = f[j]
<1>1. /\ Len(r \o f) = Len(r) + Len(f) /\ Len(r) \in Nat /\ Len(f) \in Nat
      /\ \A k \in 1 .. Len(r) + Len(f) : (r \o f)[k] = IF k <= Len(r) THEN r[k] ELSE f[k - Len(r)]
  BY ConcatProperties
<1>2. CASE i <= Len(r)
  <2>1. i \in 1 .. Len(r) /\ (r \o f)[i] = r[i]
    BY <1>1, <1>2
  <2> QED BY <2>1
<1>3. CASE ~ (i <= Len(r))
  <2>1. i - Len(r) \in 1 .. Len(f) /\ (r \o f)[i] = f[i - Len(r)]
    BY <1>1, <1>3
  <2> QED BY <2>1
<1> QED BY <1>2, <1>3

LEMMA Given ==
    ASSUME Types
    PROVE  /\ given.limit \in Nat /\ given.limit < MaxCount /\ MaxCount \in Nat
           /\ given.maxLag \in Nat /\ DEF_CONN_TIME_OUT \in Nat
           /\ given.reach \in {"own", "any"} /\ given.foreign \in BOOLEAN
           /\ Cardinality(Conn) \in Nat /\ Conn = 1 .. Cardinality(Conn) /\ created \in Nat
           /\ created > 0 => created \in Conn
<1>1. IsFiniteSet(Conn) /\ Conn = 1 .. Cardinality(Conn)
  BY TcpServerAssumption
<1>2. Cardinality(Conn) \in Nat
  BY <1>1, FS_CardinalityType
<1>3. given \in Settings /\ created \in 0 .. Cardinality(Conn)
  BY DEF Types
<1>4. created \in Nat /\ (created > 0 => created \in 1 .. Cardinality(Conn))
  BY <1>2, <1>3
<1> QED BY <1>1, <1>2, <1>3, <1>4, TcpServerAssumption

LEMMA SteadyAccepting ==
    ASSUME Types, Accepting, Steady(io, io'), UNCHANGED <<mapConn, acceptPc, created>>
    PROVE  Accepting'
<1>1. created > 0 => created \in Conn
  BY Given
<1>2. \A c \in Conn : Is(io', c, "none") <=> Is(io, c, "none")
  BY DEF Steady, Fresh, Is
<1>3. \A c \in Conn : Is(io, c, "csConnecting") => Is(io', c, "csConnecting")
  BY DEF Steady, Fresh, Is
<1> QED BY <1>1, <1>2, <1>3 DEF Accepting

LEMMA SteadyHolding ==
    ASSUME Holding, Steady(io, io'), UNCHANGED <<given, held, foreign>>
    PROVE  Holding'
BY DEF Holding, Steady

LEMMA SteadyQueue ==
    ASSUME NEW q, QueueInv(q), NEW t, Steady(io, t)
    PROVE  QueueIn(q, t, mapConn, created, acceptPc \in {"insert", "queue"}, held)
<1>1. \A d \in Conn : Is(io, d, "csConnecting") => Is(t, d, "csConnecting")
  BY DEF Steady, Fresh, Is
<1>2. \A i \in 1 .. Len(q) : q[i].kind = "SendInLoop" => q[i].conn \in held
  BY DEF QueueInv, QueueIn
<1> QED BY <1>1, <1>2, QueueSame DEF QueueInv

LEMMA SteadyStep ==
    ASSUME ServerInv, Steady(io, io'),
           UNCHANGED <<given, mapConn, acceptPc, created, held, foreign, running, functors>>
    PROVE  Accepting' /\ Holding' /\ QueueInv(running \o functors)'
<1>1. Types /\ Accepting /\ Holding /\ QueueInv(running \o functors)
  BY DEF ServerInv
<1>2. Accepting' /\ Holding'
  BY <1>1, SteadyAccepting, SteadyHolding
<1>3. QueueIn(running \o functors, io', mapConn, created, acceptPc \in {"insert", "queue"}, held)
  BY <1>1, SteadyQueue
<1> QED BY <1>2, <1>3 DEF QueueInv

\* The handler that called back is still there.
LEMMA CallingKeeps ==
    ASSUME Types, Calling, UNCHANGED <<pc, batch, inside>>, mapConn \subseteq mapConn',
           \A d \in Conn : ~ Fresh(io, d) => ~ Fresh(io', d)
    PROVE  Calling' /\ Exempt' = Exempt
<1>1. inside # NoHandler => inside.conn \in Conn
  BY DEF Types
<1> QED BY <1>1 DEF Calling, Exempt

LEMMA NotCalling ==
    ASSUME inside = NoHandler
    PROVE  Calling /\ Exempt = 0
BY DEF Calling, Exempt, NoHandler

LEMMA NotCallingThen ==
    ASSUME inside' = NoHandler
    PROVE  Calling' /\ Exempt' = 0
BY DEF Calling, Exempt, NoHandler

LEMMA CountSame ==
    ASSUME Count, UNCHANGED <<given, curCount, mapConn, acceptPc>>
    PROVE  Count'
BY DEF Count, CountMatches

LEMMA PeerStep ==
    ASSUME ServerInv, UNCHANGED given, Peer
    PROVE  ServerInv'
<1>1. UNCHANGED <<given, io, pc, batch, inside, lag, running, acceptPc, created, functors, mapConn, curCount,
                  raced, held, foreign>>
  BY DEF Peer, loopVars, acceptVars, sharedVars
<1> QED BY <1>1 DEF ServerInv, Types, LoopInv, ConnInv, Fresh, Is, Sorted,
                    LoopOnce, Laps, Calling, Exempt, Accepting, Holding, Count, CountMatches, Quiet,
                    QueueInv, QueueIn

LEMMA Modulo ==
    ASSUME NEW M \in Nat
    PROVE  /\ \A n \in 0 .. M - 1 : (n + 1) % (M + 1) = n + 1
           /\ \A n \in 1 .. M : (n + M) % (M + 1) = n - 1
<1>1. ASSUME NEW n \in 1 .. M PROVE (n + M) % (M + 1) = n - 1
  <2>1. n + M = (n - 1) + (M + 1) * 1 /\ n - 1 \in 0 .. M
    OBVIOUS
  <2> QED BY <2>1
<1> QED BY <1>1

LEMMA CountFacts ==
    ASSUME Types, Accepting
    PROVE  /\ IsFiniteSet(mapConn) /\ Cardinality(mapConn) \in Nat
           /\ \A c : c \notin mapConn => Cardinality(mapConn \cup {c}) = Cardinality(mapConn) + 1
           /\ \A c \in mapConn : /\ Cardinality(mapConn \ {c}) = Cardinality(mapConn) - 1
                                 /\ Cardinality(mapConn) > 0
<1>1. created \in Nat
  BY Given
<1>2. IsFiniteSet(mapConn)
  <2>1. IsFiniteSet(1 .. created) /\ mapConn \subseteq 1 .. created
    BY <1>1, FS_Interval DEF Accepting
  <2> QED BY <2>1, FS_Subset
<1>3. Cardinality(mapConn) \in Nat
  BY <1>2, FS_CardinalityType
<1>4. ASSUME NEW c \in mapConn PROVE Cardinality(mapConn) > 0
  BY <1>2, <1>3, FS_EmptySet
<1> QED BY <1>2, <1>3, <1>4, FS_AddElement, FS_RemoveElement

LEMMA AcceptStep ==
    ASSUME ServerInv, UNCHANGED given, Accept
    PROVE  ServerInv'
<1>1. /\ acceptPc = "wait" /\ created < Cardinality(Conn)
      /\ curCount' = (curCount + 1) % (MaxCount + 1) /\ acceptPc' = "check"
      /\ UNCHANGED <<given, io, pc, batch, inside, lag, running, created, functors, mapConn, held, foreign>>
  BY DEF Accept, loopVars
<1>2. /\ Types /\ LoopInv(io, mapConn, Exempt) /\ QueueInv(running \o functors)
      /\ Laps /\ Calling /\ Accepting /\ Holding
  BY DEF ServerInv
<1>3. curCount \in Nat /\ curCount' \in Nat
  BY <1>1, <1>2, Given DEF Types
<1>4. Types'
  BY <1>1, <1>2, <1>3 DEF Types
<1>5. Accepting'
  BY <1>1, <1>2 DEF Accepting
<1>6. QueueInv(running \o functors)'
  BY <1>1, <1>2 DEF QueueInv
<1>7. ASSUME ~ given.foreign PROVE Count'
  <2>1. curCount = Cardinality(mapConn) /\ Cardinality(mapConn) <= given.limit
    BY <1>1, <1>2, <1>7, CountFacts DEF ServerInv, Count, CountMatches
  <2>2. curCount \in 0 .. MaxCount - 1
    BY <1>2, <1>3, <2>1, Given
  <2>3. curCount' = curCount + 1
    BY <1>1, <1>2, <2>2, Given, Modulo
  <2> QED BY <1>1, <2>1, <2>3 DEF Count, CountMatches
<1> QED BY <1>1, <1>2, <1>4, <1>5, <1>6, <1>7
        DEF ServerInv, Laps, Calling, Exempt, Holding, Quiet, LoopInv, LoopOnce, ConnInv,
            Fresh, Is, Sorted

LEMMA RefuseStep ==
    ASSUME ServerInv, UNCHANGED given, Refuse
    PROVE  ServerInv'
<1>1. /\ acceptPc = "check" /\ curCount > given.limit
      /\ curCount' = curCount - 1 /\ acceptPc' = "wait"
      /\ UNCHANGED <<given, io, pc, batch, inside, lag, running, created, functors, mapConn, held, foreign>>
  BY DEF Refuse, loopVars
<1>2. /\ Types /\ LoopInv(io, mapConn, Exempt) /\ QueueInv(running \o functors)
      /\ Laps /\ Calling /\ Accepting /\ Holding
  BY DEF ServerInv
<1>3. curCount \in Nat /\ curCount' \in Nat
  BY <1>1, <1>2, Given DEF Types
<1>4. Types'
  BY <1>1, <1>2, <1>3 DEF Types
<1>5. Accepting'
  BY <1>1, <1>2 DEF Accepting
<1>6. QueueInv(running \o functors)'
  BY <1>1, <1>2 DEF QueueInv
<1>7. ASSUME ~ given.foreign PROVE Count'
  <2>1. curCount = Cardinality(mapConn) + 1 /\ Cardinality(mapConn) <= given.limit
    BY <1>1, <1>7 DEF ServerInv, Count, CountMatches
  <2>2. Cardinality(mapConn) \in Nat
    BY <1>2, CountFacts
  <2> QED BY <1>1, <2>1, <2>2 DEF Count, CountMatches
<1> QED BY <1>1, <1>2, <1>4, <1>5, <1>6, <1>7
        DEF ServerInv, Laps, Calling, Exempt, Holding, Quiet, LoopInv, LoopOnce, ConnInv,
            Fresh, Is, Sorted

LEMMA CreateStep ==
    ASSUME ServerInv, UNCHANGED given, Create
    PROVE  ServerInv'
<1> DEFINE n == created + 1
<1>1. /\ acceptPc = "check" /\ curCount <= given.limit
      /\ created' = n /\ acceptPc' = "insert"
      /\ UNCHANGED <<given, pc, batch, inside, lag, running, curCount, functors, mapConn, held, foreign>>
  BY DEF Create, sharedVars
<1>2. io' = [io EXCEPT !.conn[n] = NewConn]
  BY DEF Create
<1>3. /\ Types /\ LoopInv(io, mapConn, Exempt) /\ QueueInv(running \o functors)
      /\ Laps /\ Calling /\ Accepting /\ Holding
  BY DEF ServerInv
<1>4. created \in Nat /\ n \in Conn /\ n > created /\ n > 0
  BY <1>1, <1>3, Given DEF Accepting
<1>5. Is(io, n, "none")
  BY <1>3, <1>4 DEF Accepting
<1> HIDE DEF n
<1>6. /\ LoopInv(io', mapConn, Exempt) /\ (LoopOnce(io, mapConn) => LoopOnce(io', mapConn))
      /\ \A d \in Conn \ {n} : io'.conn[d] = io.conn[d]
      /\ Is(io', n, "csConnecting") /\ ~ io'.conn[n].late
      /\ \A d \in ToSet(io'.idle) : d \in ToSet(io.idle) /\ io'.conn[d] = io.conn[d]
  <2> DEFINE t == io'
  <2>1. t = With(io, n, NewConn)
    BY <1>2 DEF With
  <2> HIDE DEF t
  <2>2. /\ LoopInv(t, mapConn, Exempt) /\ (LoopOnce(io, mapConn) => LoopOnce(t, mapConn))
        /\ \A d \in Conn \ {n} : t.conn[d] = io.conn[d]
        /\ Is(t, n, "csConnecting") /\ ~ t.conn[n].late
        /\ \A d \in ToSet(t.idle) : d \in ToSet(io.idle) /\ t.conn[d] = io.conn[d]
    BY <1>3, <1>4, <1>5, <2>1, CreateKeeps
  <2> QED BY <2>2 DEF t
<1>7. Types'
  <2>1. n \in 0 .. Cardinality(Conn)
    BY <1>3, <1>4, Given
  <2> QED BY <1>1, <1>3, <2>1 DEF Types
<1>8. \A d \in Conn : d # n => (Is(io', d, "none") <=> Is(io, d, "none"))
  BY <1>6 DEF Is
<1>9. \A d \in Conn : ~ Fresh(io, d) => d # n /\ ~ Fresh(io', d)
  BY <1>5, <1>6 DEF Fresh, Is
<1>10. Accepting'
  <2>1. \A c \in Conn : Is(io', c, "none") <=> c > n
    <3>1. ASSUME NEW c \in Conn, c # n PROVE Is(io', c, "none") <=> c > n
      <4>1. c \in Int /\ (c > created <=> c > n)
        BY <1>3, <1>4, <3>1, Given DEF n
      <4> QED BY <1>3, <1>8, <3>1, <4>1 DEF Accepting
    <3>2. ~ Is(io', n, "none") /\ ~ (n > n)
      BY <1>3, <1>4, <1>6, Given DEF Is, n
    <3> QED BY <3>1, <3>2
  <2>2. mapConn \subseteq 1 .. n /\ n \notin mapConn
    BY <1>3, <1>4 DEF Accepting, n
  <2> QED BY <1>1, <1>4, <1>6, <2>1, <2>2 DEF Accepting
<1>11. Laps'
  <2>1. \A c \in DOMAIN batch : c \in Conn /\ ~ Fresh(io, c)
    BY <1>3 DEF Laps, Types
  <2> QED BY <1>1, <1>3, <1>6, <1>9, <2>1 DEF Laps
<1>12. Holding'
  BY <1>1, <1>3, <1>9 DEF Holding
<1>13. QueueInv(running \o functors)'
  <2>1. \A d \in Conn : Is(io, d, "csConnecting") => d # n /\ Is(io', d, "csConnecting")
    BY <1>5, <1>6 DEF Is
  <2> DEFINE q == running \o functors
  <2>2. \A i \in 1 .. Len(q) : q[i].kind = "SendInLoop" => q[i].conn \in held
    BY <1>3 DEF QueueInv, QueueIn
  <2>3. QueueIn(q, io', mapConn, n, acceptPc' \in {"insert", "queue"}, held)
    <3> HIDE DEF q
    <3>1. QueueIn(q, io, mapConn, created, acceptPc \in {"insert", "queue"}, held)
      BY <1>3 DEF QueueInv, q
    <3> QED BY <2>1, <2>2, <3>1, QueueSame
  <2> QED BY <1>1, <2>3 DEF QueueInv
<1>14. ASSUME ~ given.foreign PROVE Count'
  <2>1. curCount = Cardinality(mapConn) + 1 /\ Cardinality(mapConn) <= given.limit
    BY <1>1, <1>14 DEF ServerInv, Count, CountMatches
  <2>2. Cardinality(mapConn) \in Nat
    BY <1>3, CountFacts
  <2> QED BY <1>1, <1>3, <2>1, <2>2, Given DEF Count, CountMatches
<1>15. Quiet => Quiet'
  <2>1. \A c \in DOMAIN batch : c \in Conn /\ c # n
    BY <1>3, <1>9 DEF Laps, Types
  <2> QED BY <1>1, <1>6, <2>1 DEF Quiet
<1>16. Calling' /\ Exempt' = Exempt
  BY <1>1, <1>3, <1>9, CallingKeeps
<1> QED BY <1>1, <1>3, <1>6, <1>7, <1>10, <1>11, <1>12, <1>13, <1>14, <1>15, <1>16 DEF ServerInv

LEMMA InsertStep ==
    ASSUME ServerInv, UNCHANGED given, Insert
    PROVE  ServerInv'
<1>1. /\ acceptPc = "insert" /\ mapConn' = mapConn \cup {created} /\ acceptPc' = "queue"
      /\ UNCHANGED <<given, io, pc, batch, inside, lag, running, created, curCount, functors, held, foreign>>
  BY DEF Insert, loopVars
<1>2. /\ Types /\ LoopInv(io, mapConn, Exempt) /\ QueueInv(running \o functors)
      /\ Laps /\ Calling /\ Accepting /\ Holding
  BY DEF ServerInv
<1>3. created \in Conn /\ created \notin mapConn
  BY <1>1, <1>2, Given DEF Accepting
<1>4. LoopInv(io, mapConn', Exempt) /\ (LoopOnce(io, mapConn) => LoopOnce(io, mapConn'))
  BY <1>1, <1>2, InsertKeeps
<1>5. Types'
  BY <1>1, <1>2 DEF Types
<1>6. Accepting'
  <2>1. created \in 1 .. created
    BY <1>2, <1>3, Given
  <2>2. mapConn' \subseteq 1 .. created
    BY <1>1, <1>2, <2>1 DEF Accepting
  <2> QED BY <1>1, <1>2, <2>2 DEF Accepting
<1>7. Laps' /\ Holding' /\ (Quiet => Quiet')
  BY <1>1, <1>2 DEF Laps, Holding, Quiet
<1>8. QueueInv(running \o functors)'
  <2> DEFINE q == running \o functors
  <2>2. \A i \in 1 .. Len(q) : q[i].kind = "SendInLoop" => q[i].conn \in held
    BY <1>2 DEF QueueInv, QueueIn
  <2>3. QueueIn(q, io, mapConn', created, acceptPc' \in {"insert", "queue"}, held)
    <3> HIDE DEF q
    <3>1. QueueIn(q, io, mapConn, created, acceptPc \in {"insert", "queue"}, held)
      BY <1>2 DEF QueueInv, q
    <3> QED BY <1>1, <2>2, <3>1, QueueSame
  <2> QED BY <1>1, <2>3 DEF QueueInv
<1>9. ASSUME ~ given.foreign PROVE Count'
  <2>1. curCount = Cardinality(mapConn) + 1 /\ Cardinality(mapConn) < given.limit
    BY <1>1, <1>9 DEF ServerInv, Count, CountMatches
  <2>2. Cardinality(mapConn) \in Nat /\ Cardinality(mapConn') = Cardinality(mapConn) + 1
    BY <1>1, <1>2, <1>3, CountFacts
  <2> QED BY <1>1, <1>2, <2>1, <2>2, Given DEF Count, CountMatches
<1>10. Calling' /\ Exempt' = Exempt
  BY <1>1, <1>2, CallingKeeps DEF Fresh
<1> QED BY <1>1, <1>2, <1>4, <1>5, <1>6, <1>7, <1>8, <1>9, <1>10 DEF ServerInv

LEMMA QueueStep ==
    ASSUME ServerInv, UNCHANGED given, Queue
    PROVE  ServerInv'
<1> DEFINE f == [kind |-> "OnEnableConnect", conn |-> created]
           q == running \o functors
<1>1. /\ acceptPc = "queue" /\ functors' = Append(functors, f) /\ acceptPc' = "wait"
      /\ UNCHANGED <<given, io, pc, batch, inside, lag, running, created, curCount, mapConn, held, foreign>>
  BY DEF Queue, loopVars
<1>2. /\ Types /\ LoopInv(io, mapConn, Exempt) /\ QueueInv(q) /\ Laps /\ Calling
      /\ Accepting /\ Holding
  BY DEF ServerInv
<1>3. created \in Conn /\ created \in mapConn /\ Is(io, created, "csConnecting")
  BY <1>1, <1>2, Given DEF Accepting
<1>4. f \in Functor /\ f.kind = "OnEnableConnect" /\ f.conn = created
  BY <1>3 DEF Functor
<1>5. functors \in Seq(Functor) /\ running \in Seq(Functor)
  BY <1>2 DEF Types
<1> HIDE DEF f
<1>6. functors' \in Seq(Functor) /\ (running \o functors)' = Append(q, f)
  BY <1>1, <1>4, <1>5, Concatenation
<1>7. Types'
  BY <1>1, <1>2, <1>6 DEF Types
<1>8. Accepting'
  BY <1>1, <1>2 DEF Accepting
<1>9. QueueInv(running \o functors)'
  <2> HIDE DEF q
  <2>1. QueueIn(q, io, mapConn, created, acceptPc \in {"insert", "queue"}, held)
    BY <1>2 DEF QueueInv
  <2>2. \A i \in 1 .. Len(q) : q[i].kind = "OnEnableConnect" => q[i].conn # created
    BY <1>1, <2>1 DEF QueueIn
  <2>3. \A i \in 1 .. Len(q) : q[i].kind = "SendInLoop" => q[i].conn \in held
    BY <2>1 DEF QueueIn
  <2>4. QueueIn(q, io, mapConn, created, acceptPc' \in {"insert", "queue"}, held)
    <3> DEFINE b == acceptPc' \in {"insert", "queue"}
    <3>1. ~ b
      BY <1>1
    <3> HIDE DEF b
    <3>2. QueueIn(q, io, mapConn, created, b, held)
      BY <2>1, <2>3, <3>1, QueueSame
    <3> QED BY <3>2 DEF b
  <2>5. QueueIn(Append(q, f), io, mapConn, created, acceptPc' \in {"insert", "queue"}, held)
    BY <1>1, <1>3, <1>4, <2>2, <2>4, QueueAppend
  <2> QED BY <1>1, <1>6, <2>5 DEF QueueInv
<1>10. Laps' /\ Holding' /\ (Quiet => Quiet') /\ (Count => Count')
  BY <1>1, <1>2 DEF Laps, Holding, Quiet, Count, CountMatches
<1>11. Calling' /\ Exempt' = Exempt
  BY <1>1, <1>2, CallingKeeps DEF Fresh
<1> QED BY <1>1, <1>2, <1>7, <1>8, <1>9, <1>10, <1>11 DEF ServerInv

LEMMA ReturnedIs ==
    ASSUME NEW c \in Conn, NEW event, io \in Loop
    PROVE  /\ Returned(c, event) \in Loop /\ Handled(io, Returned(c, event), c)
           /\ Returned(c, event).conn[c].late = io.conn[c].late
           /\ Returned(c, event).conn[c].closes = io.conn[c].closes
<1> DEFINE b == (event = "write")
           r == [io.conn[c] EXCEPT !.retOut = b]
<1>1. io.conn[c] \in ConnRec /\ b \in BOOLEAN
  BY Parts
<1>2. Returned(c, event) = With(io, c, r)
  BY DEF Returned, With
<1> HIDE DEF b
<1>3. Mild(io.conn[c], r) /\ r.late = io.conn[c].late /\ r.closes = io.conn[c].closes /\ r \in ConnRec
  BY <1>1 DEF Mild, ConnRec
<1> HIDE DEF r
<1> QED BY <1>2, <1>3, MildIsKept, Put

\* What is left to show of the handler of an event.
LEMMA Serving ==
    ASSUME ServerInv, UNCHANGED given, NEW c \in Conn, NEW event, Handling(c, event),
           NEW e \in {"read", "error", "close"}, inside' = NoHandler \/ CallsBack(c, e),
           LoopInv(io', mapConn, 0), LoopOnce(io, mapConn) => LoopOnce(io', mapConn),
           Steady(io, io'), AtLeast(io', lag),
           io.conn[c].closes = 0 => io'.conn[c].late = io.conn[c].late,
           \A d \in Conn \ {c} : io'.conn[d] = io.conn[d]
    PROVE  ServerInv'
<1>1. /\ pc = "events" /\ c \in DOMAIN batch
      /\ batch' = [d \in DOMAIN batch \ {c} |-> batch[d]]
      /\ UNCHANGED <<given, pc, lag, running, acceptPc, created, functors, mapConn, curCount, held, foreign>>
  BY DEF Handling, acceptVars, sharedVars
<1>2. Types /\ Laps
  BY DEF ServerInv
<1>3. DOMAIN batch' = DOMAIN batch \ {c}
  BY <1>1
<1>4. inside' = NoHandler \/ inside' = [conn |-> c, event |-> e]
  BY DEF CallsBack
<1>5. Types'
  <2>1. inside' \in [conn : Conn, event : HandlerEvent] \cup {NoHandler}
    BY <1>4 DEF HandlerEvent
  <2> QED BY <1>1, <1>2, <1>3, <2>1 DEF Types
<1>6. Accepting' /\ Holding' /\ QueueInv(running \o functors)'
  BY <1>1, SteadyStep
<1>7. Laps'
  BY <1>1, <1>2, <1>3 DEF Laps, AtLeast, Steady, Types
<1>8. Calling' /\ Exempt' = 0
  <2>1. CASE inside' = NoHandler
    BY <2>1, NotCallingThen
  <2>2. CASE inside' = [conn |-> c, event |-> e]
    <3>1. inside'.conn = c /\ inside'.event # "connect"
      BY <2>2
    <3>2. c \in mapConn /\ ~ Fresh(io', c)
      BY <1>1, <1>2 DEF Laps, Steady
    <3> QED BY <1>1, <1>3, <3>1, <3>2 DEF Calling, Exempt
  <2> QED BY <1>4, <2>1, <2>2
<1>9. Count => Count'
  BY <1>1, CountSame
<1>10. ASSUME Quiet PROVE Quiet'
  <2>1. io.conn[c].closes = 0
    BY <1>1, <1>10 DEF Quiet
  <2> QED BY <1>1, <1>2, <1>3, <1>10, <2>1 DEF Quiet, Types
<1> QED BY <1>1, <1>5, <1>6, <1>7, <1>8, <1>9, <1>10 DEF ServerInv

\* The handlers that change nothing but the connection.
LEMMA ServingOne ==
    ASSUME ServerInv, UNCHANGED given, NEW c \in Conn, NEW event, Handling(c, event),
           NEW e \in {"read", "error", "close"}, inside' = NoHandler \/ CallsBack(c, e),
           Handled(Returned(c, event), io', c),
           io.conn[c].closes = 0 => io'.conn[c].late = Returned(c, event).conn[c].late
    PROVE  ServerInv'
<1> DEFINE t == io'
<1>1. Types /\ Laps /\ LoopInv(io, mapConn, 0) /\ io \in Loop
  BY NotCalling DEF ServerInv, LoopInv, Handling
<1>2. pc = "events" /\ c \in DOMAIN batch
  BY DEF Handling
<1>3. ~ Fresh(io, c) /\ AtLeast(io, lag)
  BY <1>1, <1>2 DEF Laps, AtLeast
<1>4. /\ Returned(c, event) \in Loop /\ Handled(io, Returned(c, event), c)
      /\ Returned(c, event).conn[c].late = io.conn[c].late
  BY <1>1, ReturnedIs
<1> HIDE DEF t
<1>5. Handled(io, t, c)
  BY <1>1, <1>4, HandledTransitive DEF t
<1>6. /\ LoopInv(t, mapConn, 0) /\ (LoopOnce(io, mapConn) => LoopOnce(t, mapConn))
      /\ Steady(io, t) /\ SameList(io, t)
      /\ \A d \in Conn \ {c} : t.conn[d] = io.conn[d]
  BY <1>1, <1>3, <1>5, HandledServes
<1>7. AtLeast(t, lag)
  BY <1>1, <1>3, <1>6, SameListAtLeast
<1> QED BY <1>4, <1>6, <1>7, Serving DEF t

LEMMA HandleCloseStep ==
    ASSUME ServerInv, UNCHANGED given, NEW c \in Conn, HandleReadEnd(c) \/ HandleHangUp(c)
    PROVE  ServerInv'
<1>1. PICK event : Handling(c, event) /\ Closes(Returned(c, event), c)
  BY DEF HandleReadEnd, HandleHangUp
<1>2. /\ io' = HandleClose(Returned(c, event), c)
      /\ inside' = NoHandler \/ CallsBack(c, "close")
  BY <1>1 DEF Closes
<1>3. io \in Loop
  BY DEF ServerInv, LoopInv
<1>4. Returned(c, event) \in Loop
  BY <1>3, ReturnedIs
<1>5. /\ Handled(Returned(c, event), io', c)
      /\ io'.conn[c].late = Returned(c, event).conn[c].late
  BY <1>2, <1>4, CloseIs
<1> QED BY <1>1, <1>2, <1>5, ServingOne

LEMMA HandleWriteStep ==
    ASSUME ServerInv, UNCHANGED given, NEW c \in Conn, HandleWrite(c)
    PROVE  ServerInv'
<1>1. PICK result \in SendResult : io' = OnWriteEvent(Returned(c, "write"), c, result)
  BY DEF HandleWrite
<1>2. Handling(c, "write") /\ inside' = NoHandler
  BY DEF HandleWrite, Handling
<1>3. io \in Loop
  BY DEF ServerInv, LoopInv
<1>4. Returned(c, "write") \in Loop
  BY <1>3, ReturnedIs
<1>5. /\ Handled(Returned(c, "write"), io', c)
      /\ io'.conn[c].late = Returned(c, "write").conn[c].late
  BY <1>1, <1>4, OnWriteEventIs
<1> QED BY <1>2, <1>5, ServingOne

LEMMA HandleErrorStep ==
    ASSUME ServerInv, UNCHANGED given, NEW c \in Conn, HandleError(c)
    PROVE  ServerInv'
<1>1. io' = Called(Returned(c, "error"), c)
  BY DEF HandleError, OnErrorEvent
<1>2. Handling(c, "error") /\ CallsBack(c, "error")
  BY DEF HandleError
<1>3. io \in Loop
  BY DEF ServerInv, LoopInv
<1>4. Returned(c, "error") \in Loop /\ Returned(c, "error").conn[c].closes = io.conn[c].closes
  BY <1>3, ReturnedIs
<1>5. /\ Handled(Returned(c, "error"), io', c)
      /\ Returned(c, "error").conn[c].closes = 0
           => io'.conn[c].late = Returned(c, "error").conn[c].late
  BY <1>1, <1>4, CalledIs
<1> QED BY <1>2, <1>4, <1>5, ServingOne

LEMMA HandleReadStep ==
    ASSUME ServerInv, UNCHANGED given, NEW c \in Conn, HandleRead(c)
    PROVE  ServerInv'
<1> DEFINE u == Returned(c, "read")
           t == io'
<1>1. t = OnReadEvent(u, c, lag)
  BY DEF HandleRead
<1>2. Handling(c, "read") /\ CallsBack(c, "read")
  BY DEF HandleRead
<1>3. Types /\ Laps /\ LoopInv(io, mapConn, 0) /\ io \in Loop
  BY NotCalling DEF ServerInv, LoopInv, HandleRead, Handling
<1>4. pc = "events" /\ c \in DOMAIN batch
  BY <1>2 DEF Handling
<1>5. ~ Fresh(io, c) /\ AtLeast(io, lag) /\ c \in mapConn /\ lag \in Nat
  BY <1>3, <1>4 DEF Laps, AtLeast, Types
<1>6. /\ u \in Loop /\ Handled(io, u, c) /\ u.conn[c].late = io.conn[c].late
      /\ u.conn[c].closes = io.conn[c].closes
  BY <1>3, ReturnedIs
<1> HIDE DEF u, t
<1>7. /\ LoopInv(u, mapConn, 0) /\ (LoopOnce(io, mapConn) => LoopOnce(u, mapConn))
      /\ Steady(io, u) /\ SameList(io, u)
      /\ \A d \in Conn \ {c} : u.conn[d] = io.conn[d]
  BY <1>3, <1>5, <1>6, HandledServes
<1>8. AtLeast(u, lag) /\ ~ Fresh(u, c)
  BY <1>3, <1>5, <1>7, SameListAtLeast DEF Steady
<1>9. /\ LoopInv(t, mapConn, 0) /\ (LoopOnce(u, mapConn) => LoopOnce(t, mapConn)) /\ Steady(u, t)
      /\ AtLeast(t, lag)
      /\ u.conn[c].closes = 0 => t.conn[c].late = u.conn[c].late
      /\ \A d \in Conn \ {c} : t.conn[d] = u.conn[d]
  BY <1>1, <1>5, <1>7, <1>8, ReadKeeps
<1>10. Steady(io, t)
  BY <1>7, <1>9, SteadyTransitive
<1>11. /\ io.conn[c].closes = 0 => t.conn[c].late = io.conn[c].late
       /\ \A d \in Conn \ {c} : t.conn[d] = io.conn[d]
  BY <1>6, <1>7, <1>9
<1> QED BY <1>2, <1>7, <1>9, <1>10, <1>11, Serving DEF t

\* What goes on in a callback and when it returns, but for the end of OnConnect:
\* one connection is handled, and OnClose may be called back after it.
LEMMA InsideStep ==
    ASSUME ServerInv, UNCHANGED given, inside # NoHandler,
           UNCHANGED <<pc, batch, lag, running, acceptVars, sharedVars, held, foreign>>,
           \/ inside' = inside
           \/ /\ inside.event # "connect"
              /\ inside' = NoHandler \/ CallsBack(inside.conn, "close"),
           NEW on \in Conn, ~ Fresh(io, on), given.reach = "own" => on = inside.conn,
           Handled(io, io', on), io'.conn[on].late = io.conn[on].late
    PROVE  ServerInv'
<1> DEFINE t == io'
<1>1. UNCHANGED <<given, pc, batch, lag, running, acceptPc, created, functors, mapConn, curCount,
                  held, foreign>>
  BY DEF acceptVars, sharedVars
<1>2. Types /\ Laps /\ Calling /\ LoopInv(io, mapConn, Exempt) /\ io \in Loop
  BY DEF ServerInv, LoopInv
<1> HIDE DEF t
<1>3. /\ LoopInv(t, mapConn, Exempt) /\ (LoopOnce(io, mapConn) => LoopOnce(t, mapConn))
      /\ Steady(io, t) /\ SameList(io, t)
      /\ \A d \in Conn \ {on} : t.conn[d] = io.conn[d]
  BY <1>2, HandledServes DEF t
<1>4. /\ inside.conn \in Conn /\ inside.conn \in mapConn /\ inside.conn \notin DOMAIN batch
      /\ pc \in {"events", "functors", "check"} /\ ~ Fresh(io, inside.conn)
  BY <1>2 DEF Types, Calling
<1>5. \/ inside' = inside
      \/ inside.event # "connect" /\ inside' = NoHandler
      \/ inside.event # "connect" /\ inside' = [conn |-> inside.conn, event |-> "close"]
  BY DEF CallsBack
<1>6. Types'
  <2>1. inside' \in [conn : Conn, event : HandlerEvent] \cup {NoHandler}
    BY <1>2, <1>4, <1>5 DEF Types, HandlerEvent
  <2> QED BY <1>1, <1>2, <2>1 DEF Types
<1>7. Accepting' /\ Holding' /\ QueueInv(running \o functors)'
  BY <1>1, <1>3, SteadyStep DEF t
<1>8. Calling' /\ Exempt' = Exempt
  <2>1. CASE inside' = inside
    BY <1>1, <1>2, <1>3, <2>1, CallingKeeps DEF Steady, t
  <2>2. CASE inside.event # "connect" /\ inside' = NoHandler
    BY <2>2, NotCallingThen DEF Exempt
  <2>3. CASE inside.event # "connect" /\ inside' = [conn |-> inside.conn, event |-> "close"]
    <3>1. inside'.conn = inside.conn /\ inside'.event = "close"
      BY <2>3
    <3> QED BY <1>1, <1>3, <1>4, <2>3, <3>1 DEF Calling, Exempt, Steady, t
  <2> QED BY <1>5, <2>1, <2>2, <2>3
<1>9. Laps'
  <2>1. AtLeast(io, lag) => AtLeast(t, lag)
    BY <1>2, <1>3, SameListAtLeast
  <2>2. \A c \in DOMAIN batch : c \in Conn /\ c \in mapConn /\ ~ Fresh(t, c)
    BY <1>2, <1>3 DEF Laps, Types, Steady
  <2> QED BY <1>1, <1>2, <2>1, <2>2 DEF Laps, AtLeast, t
<1>10. Count => Count'
  BY <1>1, CountSame
<1>11. ASSUME given.reach = "own", Quiet PROVE Quiet'
  <2>1. \A d \in Conn : t.conn[d].late = io.conn[d].late
    BY <1>3 DEF t
  <2>2. \A d \in DOMAIN batch : d \in Conn \ {on}
    BY <1>2, <1>4, <1>11 DEF Types
  <2> QED BY <1>1, <1>3, <1>11, <2>1, <2>2 DEF Quiet, t
<1> QED BY <1>1, <1>3, <1>6, <1>7, <1>8, <1>9, <1>10, <1>11 DEF ServerInv, t

LEMMA CallInsideStep ==
    ASSUME ServerInv, UNCHANGED given, CallInside
    PROVE  ServerInv'
<1>1. PICK call \in UserCall, on \in Reach(inside.conn) : io' = UserCalls(io, call, on)
  BY DEF CallInside
<1>2. /\ inside # NoHandler /\ inside' = inside
      /\ UNCHANGED <<pc, batch, lag, running, acceptVars, sharedVars, held, foreign>>
  BY DEF CallInside
<1>3. Types /\ Holding /\ Accepting /\ io \in Loop
  BY DEF ServerInv, LoopInv
<1>4. on \in Conn /\ ~ Fresh(io, on) /\ (given.reach = "own" => on = inside.conn)
  <2>1. on \in mapConn \cup held /\ io.conn[on].state \notin {"none", "csConnecting"}
    BY DEF Reach, Known
  <2>2. mapConn \subseteq Conn
    BY <1>3, Given DEF Accepting
  <2>3. given.reach = "own" => on = inside.conn
    BY DEF Reach
  <2> QED BY <1>3, <2>1, <2>2, <2>3 DEF Holding, Fresh
<1>5. Handled(io, io', on) /\ io'.conn[on].late = io.conn[on].late
  BY <1>1, <1>3, <1>4, UserCallsIs
<1> QED BY <1>2, <1>4, <1>5, InsideStep

LEMMA ReturnClosingStep ==
    ASSUME ServerInv, UNCHANGED given, ReturnClosing
    PROVE  ServerInv'
<1> DEFINE c == inside.conn
<1>1. /\ inside.event \in {"read", "error"} /\ io' = HandleClose(io, c)
      /\ inside' = NoHandler \/ CallsBack(c, "close")
      /\ UNCHANGED <<pc, batch, lag, running, acceptVars, sharedVars, held, foreign>>
  BY DEF ReturnClosing, Closes
<1>2. inside # NoHandler /\ inside.event # "connect"
  BY <1>1 DEF NoHandler
<1>3. io \in Loop /\ c \in Conn /\ ~ Fresh(io, c)
  BY <1>2 DEF ServerInv, LoopInv, Types, Calling
<1>4. Handled(io, io', c) /\ io'.conn[c].late = io.conn[c].late
  BY <1>1, <1>3, CloseIs
<1> QED BY <1>1, <1>2, <1>3, <1>4, InsideStep

\* OnConnect has returned: the connection enters the list, closed or not.
LEMMA ReturnStep ==
    ASSUME ServerInv, UNCHANGED given, Return
    PROVE  ServerInv'
<1> DEFINE c == inside.conn
           t == io'
<1>1. /\ inside.event \in {"read", "close", "connect"} /\ inside' = NoHandler
      /\ t = IF inside.event = "connect" THEN Enabled(io, c) ELSE io
      /\ UNCHANGED <<pc, batch, lag, running, acceptVars, sharedVars, held, foreign>>
  BY DEF Return
<1>2. inside # NoHandler
  BY <1>1 DEF NoHandler
<1>3. /\ Types /\ Laps /\ Calling /\ LoopInv(io, mapConn, Exempt) /\ io \in Loop
      /\ c \in Conn /\ c \in mapConn /\ ~ Fresh(io, c)
  BY <1>2 DEF ServerInv, LoopInv, Types, Calling
<1>4. CASE inside.event # "connect"
  <2>1. t = io /\ Handled(io, io, c)
    BY <1>1, <1>3, <1>4, SameIsHandled
  <2> QED BY <1>1, <1>2, <1>3, <1>4, <2>1, InsideStep
<1>5. CASE inside.event = "connect"
  <2>1. pc = "functors" /\ Exempt = c
    BY <1>3, <1>5 DEF Calling, Exempt
  <2>2. t = UpdateTimeTcpConn(io, c, 0)
    BY <1>1, <1>5 DEF Enabled
  <2>3. \A d \in ToSet(io.idle) : io.conn[d].age >= 0
    <3>1. io.idle \in Seq(Conn)
      BY <1>3, Parts
    <3>2. ToSet(io.idle) \subseteq Conn
      BY <3>1, Members
    <3> QED BY <1>3, <3>2, Parts, ConnRecord
  <2>4. LoopInv(io, mapConn, c)
    BY <1>3, <2>1
  <2> HIDE DEF t, c
  <2>5. /\ LoopInv(t, mapConn, 0) /\ (LoopOnce(io, mapConn) => LoopOnce(t, mapConn)) /\ Steady(io, t)
        /\ \A d \in Conn : t.conn[d].late = io.conn[d].late
    BY <1>3, <2>2, <2>3, <2>4, TouchKeeps
  <2>6. UNCHANGED <<given, pc, batch, lag, running, acceptPc, created, functors, mapConn, curCount,
                    held, foreign>>
    BY <1>1 DEF acceptVars, sharedVars
  <2>7. Accepting' /\ Holding' /\ QueueInv(running \o functors)'
    BY <2>5, <2>6, SteadyStep DEF t
  <2>8. Calling' /\ Exempt' = 0
    BY <1>1, NotCallingThen
  <2>9. Laps'
    <3>1. \A d \in DOMAIN batch : d \in mapConn /\ ~ Fresh(t, d)
      BY <1>3, <2>5 DEF Laps, Types, Steady
    <3> QED BY <1>3, <2>1, <2>6, <3>1 DEF Laps, t
  <2>10. Types' /\ (Count => Count') /\ (Quiet => Quiet')
    BY <1>1, <1>3, <2>1, <2>5, <2>6 DEF Types, Count, CountMatches, Quiet, t
  <2> QED BY <2>5, <2>6, <2>7, <2>8, <2>9, <2>10 DEF ServerInv, t
<1> QED BY <1>4, <1>5

LEMMA KeptServes ==
    ASSUME NEW map, NEW x, NEW s, LoopInv(s, map, x), NEW c \in Conn, NEW t, Kept(s, t, c)
    PROVE  /\ LoopInv(t, map, x) /\ (LoopOnce(s, map) => LoopOnce(t, map)) /\ Steady(s, t)
           /\ \A d \in Conn \ {c} : t.conn[d] = s.conn[d]
<1>1. Handled(s, t, c) /\ LoopInv(t, map, x)
  BY HandledKeeps DEF Handled
<1>2. \A d \in Conn \ {c} : t.conn[d] = s.conn[d]
  BY DEF Kept, Changed
<1>3. /\ t.vecFree = s.vecFree /\ t.conn[c].closes = s.conn[c].closes
      /\ t.conn[c].state = s.conn[c].state
         \/ {t.conn[c].state, s.conn[c].state} \subseteq {"csConnected", "csDisConnecting"}
  BY DEF Kept, Mild
<1>4. Is(t, c, "csDisConnected") <=> Is(s, c, "csDisConnected")
  BY <1>3 DEF Is
<1>5. LoopOnce(s, map) => LoopOnce(t, map)
  BY <1>2, <1>3, <1>4 DEF LoopOnce, Is
<1>6. Steady(s, t)
  BY <1>2, <1>3 DEF Steady, Fresh
<1> QED BY <1>1, <1>2, <1>5, <1>6

LEMMA WaitStep ==
    ASSUME ServerInv, UNCHANGED given, Wait
    PROVE  ServerInv'
<1>1. /\ pc = "wait" /\ pc' = "events" /\ lag' = 0
      /\ UNCHANGED <<given, io, inside, running, acceptPc, created, functors, mapConn, curCount, held, foreign>>
  BY DEF Wait, acceptVars, sharedVars
<1>2. DOMAIN batch' = {d \in Conn : Events(d) # {}}
  BY DEF Wait
<1>3. /\ Types /\ LoopInv(io, mapConn, Exempt) /\ QueueInv(running \o functors)
      /\ Laps /\ Calling /\ Accepting /\ Holding /\ io \in Loop
  BY DEF ServerInv, LoopInv
<1>4. ASSUME NEW d \in DOMAIN batch'
      PROVE  d \in mapConn /\ ~ Fresh(io, d) /\ io.conn[d].closes = 0
  <2>1. d \in Conn /\ io.conn[d].interest # "none"
    BY <1>2, <1>4 DEF Events
  <2>2. ConnInv(io, d, mapConn, Exempt) /\ io.conn[d].closes \in Nat
    BY <1>3, <2>1, Parts, ConnRecord DEF LoopInv
  <2> QED BY <2>1, <2>2 DEF ConnInv
<1>5. Types'
  BY <1>1, <1>2, <1>3, Given DEF Types
<1>6. Laps'
  <2>1. io.idle \in Seq(Conn)
    BY <1>3, Parts
  <2>2. ToSet(io.idle) \subseteq Conn
    BY <2>1, Members
  <2>3. \A c \in ToSet(io.idle) : io.conn[c].age >= 0
    BY <1>3, <2>2, Parts, ConnRecord
  <2> QED BY <1>1, <1>3, <1>4, <2>3 DEF Laps
<1>7. Accepting' /\ Holding' /\ (Count => Count')
  BY <1>1, <1>3 DEF Accepting, Holding, Count, CountMatches
<1>8. QueueInv(running \o functors)'
  BY <1>1, <1>3 DEF QueueInv
<1>9. Quiet => Quiet'
  BY <1>1, <1>4 DEF Quiet
<1>10. inside = NoHandler
  BY <1>1, <1>3 DEF Calling
<1>11. Exempt = 0 /\ Calling' /\ Exempt' = 0
  BY <1>1, <1>10, NotCalling, NotCallingThen
<1> QED BY <1>1, <1>3, <1>5, <1>6, <1>7, <1>8, <1>9, <1>11 DEF ServerInv

LEMMA SwapStep ==
    ASSUME ServerInv, UNCHANGED given, SwapFunctors
    PROVE  ServerInv'
<1>1. /\ pc = "events" /\ inside = NoHandler /\ DOMAIN batch = {} /\ pc' = "functors"
      /\ running' = functors /\ functors' = <<>>
      /\ UNCHANGED <<given, io, batch, inside, lag, acceptPc, created, mapConn, curCount, held, foreign>>
  BY DEF SwapFunctors, acceptVars
<1>2. /\ Types /\ LoopInv(io, mapConn, Exempt) /\ QueueInv(running \o functors)
      /\ Laps /\ Calling /\ Accepting /\ Holding
  BY DEF ServerInv
<1>3. functors \in Seq(Functor) /\ running = <<>>
  BY <1>1, <1>2 DEF Types, Laps
<1>4. running \o functors = functors /\ running' \o functors' = functors
  BY <1>1, <1>3, ConcatEmptySeq
<1>5. QueueInv(running \o functors)'
  BY <1>1, <1>2, <1>4 DEF QueueInv
<1>6. Types'
  BY <1>1, <1>2 DEF Types
<1>7. Laps' /\ Accepting' /\ Holding' /\ (Count => Count') /\ (Quiet => Quiet')
  BY <1>1, <1>2 DEF Laps, Accepting, Holding, Count, CountMatches, Quiet
<1>8. Exempt = 0 /\ Calling' /\ Exempt' = 0
  BY <1>1, NotCalling, NotCallingThen
<1> QED BY <1>1, <1>2, <1>5, <1>6, <1>7, <1>8 DEF ServerInv

\* The first of the functors is run.
LEMMA RunningHead ==
    ASSUME Types, QueueInv(running \o functors), running # <<>>,
           UNCHANGED functors, running' = Tail(running)
    PROVE  /\ QueueInv((running \o functors)')
           /\ running' \in Seq(Functor) /\ Head(running) \in Functor
           /\ Head(running).kind = "OnEnableConnect" =>
                 /\ Is(io, Head(running).conn, "csConnecting") /\ Head(running).conn \in mapConn
                 /\ Head(running).conn = created => acceptPc \notin {"insert", "queue"}
                 /\ \A i \in 1 .. Len((running \o functors)') :
                       (running \o functors)'[i].kind = "OnEnableConnect"
                          => (running \o functors)'[i].conn # Head(running).conn
<1> DEFINE q == running \o functors
           r == (running \o functors)'
           b == acceptPc \in {"insert", "queue"}
<1>1. functors \in Seq(Functor) /\ running \in Seq(Functor)
  BY DEF Types
<1>2. q # <<>> /\ Head(q) = Head(running) /\ Tail(q) = r /\ running' \in Seq(Functor)
  BY <1>1, Concatenation
<1>3. QueueIn(q, io, mapConn, created, b, held)
  BY DEF QueueInv
<1> HIDE DEF q, r
<1>4. /\ QueueIn(Tail(q), io, mapConn, created, b, held)
      /\ Head(q) \in Functor
      /\ Head(q).kind = "OnEnableConnect" =>
            /\ Is(io, Head(q).conn, "csConnecting") /\ Head(q).conn \in mapConn
            /\ Head(q).conn = created => ~ b
            /\ \A i \in 1 .. Len(Tail(q)) :
                  Tail(q)[i].kind = "OnEnableConnect" => Tail(q)[i].conn # Head(q).conn
  <2> HIDE DEF b
  <2> QED BY <1>2, <1>3, QueueTail
<1>5. QueueIn(r, io, mapConn, created, b, held)
  BY <1>2, <1>4
<1>6. QueueInv(r)
  BY <1>5 DEF QueueInv
<1> QED BY <1>2, <1>4, <1>6 DEF r

LEMMA RunOneStep ==
    ASSUME ServerInv, UNCHANGED given, pc = "functors", inside = NoHandler, running # <<>>,
           running' = Tail(running),
           UNCHANGED <<pc, batch, inside, lag, acceptVars, sharedVars, held, foreign>>,
           LoopInv(io', mapConn, 0), LoopOnce(io, mapConn) => LoopOnce(io', mapConn),
           Steady(io, io'), \A d \in Conn : io'.conn[d].late = io.conn[d].late
    PROVE  ServerInv'
<1>1. UNCHANGED <<given, pc, batch, inside, lag, acceptPc, created, functors, mapConn, curCount, held, foreign>>
  BY DEF acceptVars, sharedVars
<1>2. /\ Types /\ QueueInv(running \o functors) /\ Laps /\ Accepting /\ Holding
  BY DEF ServerInv
<1>3. QueueInv((running \o functors)') /\ running' \in Seq(Functor)
  BY <1>1, <1>2, RunningHead
<1>4. QueueIn((running \o functors)', io', mapConn, created, acceptPc \in {"insert", "queue"}, held)
  BY <1>3, SteadyQueue
<1>5. QueueInv(running \o functors)'
  BY <1>1, <1>4 DEF QueueInv
<1>6. Types'
  BY <1>1, <1>2, <1>3 DEF Types
<1>7. Accepting' /\ Holding'
  BY <1>1, <1>2, SteadyAccepting, SteadyHolding
<1>8. Laps' /\ (Count => Count') /\ (Quiet => Quiet')
  BY <1>1, <1>2 DEF Laps, Count, CountMatches, Quiet
<1>9. Exempt = 0 /\ Calling' /\ Exempt' = 0
  BY <1>1, NotCalling, NotCallingThen
<1> QED BY <1>1, <1>5, <1>6, <1>7, <1>8, <1>9 DEF ServerInv

LEMMA RunFailsStep ==
    ASSUME ServerInv, UNCHANGED given, RunEnableFails
    PROVE  ServerInv'
<1>1. /\ pc = "functors" /\ inside = NoHandler /\ running # <<>> /\ running' = Tail(running)
      /\ io' = io
      /\ UNCHANGED <<pc, batch, inside, lag, acceptVars, sharedVars, held, foreign>>
  BY DEF RunEnableFails, RunningKind
<1>2. LoopInv(io', mapConn, 0) /\ (LoopOnce(io, mapConn) => LoopOnce(io', mapConn))
  BY <1>1, NotCalling DEF ServerInv
<1>3. Steady(io, io') /\ \A d \in Conn : io'.conn[d].late = io.conn[d].late
  BY <1>1 DEF Steady
<1> QED BY <1>1, <1>2, <1>3, RunOneStep

\* The functors that look at the connection and do not close it.
LEMMA RunKeptStep ==
    ASSUME ServerInv, UNCHANGED given, RunShutdown \/ RunSend
    PROVE  ServerInv'
<1> DEFINE c == Head(running).conn
           t == io'
<1>1. /\ pc = "functors" /\ inside = NoHandler /\ running # <<>> /\ running' = Tail(running)
      /\ UNCHANGED <<pc, batch, inside, lag, acceptVars, sharedVars, held, foreign>>
      /\ t = OnShutdown(io, c) \/ \E result \in SendResult : t = SendInLoop(io, c, result)
  BY DEF RunShutdown, RunSend, RunningKind
<1>2. Types /\ LoopInv(io, mapConn, 0) /\ io \in Loop
  BY <1>1, NotCalling DEF ServerInv, LoopInv
<1>3. c \in Conn
  <2>1. Head(running) \in Functor
    BY <1>1, <1>2 DEF Types
  <2> QED BY <2>1, FunctorParts
<1> HIDE DEF c, t
<1>4. Kept(io, t, c) /\ t.conn[c].late = io.conn[c].late
  BY <1>1, <1>2, <1>3, OnShutdownIs, SendInLoopIs
<1>5. /\ LoopInv(t, mapConn, 0) /\ (LoopOnce(io, mapConn) => LoopOnce(t, mapConn)) /\ Steady(io, t)
      /\ \A d \in Conn \ {c} : t.conn[d] = io.conn[d]
  BY <1>2, <1>3, <1>4, KeptServes
<1>6. \A d \in Conn : t.conn[d].late = io.conn[d].late
  BY <1>4, <1>5
<1> QED BY <1>1, <1>5, <1>6, RunOneStep DEF t

LEMMA RunEnableStep ==
    ASSUME ServerInv, UNCHANGED given, RunEnable
    PROVE  ServerInv'
<1> DEFINE c == Head(running).conn
           r == (running \o functors)'
           t == io'
           b == acceptPc \in {"insert", "queue"}
<1>1. /\ pc = "functors" /\ inside = NoHandler /\ running # <<>>
      /\ Head(running).kind = "OnEnableConnect" /\ running' = Tail(running)
      /\ UNCHANGED <<given, pc, batch, lag, acceptPc, created, functors, mapConn, curCount, foreign>>
  BY DEF RunEnable, RunningKind, acceptVars, sharedVars
<1>2. /\ t = OnEnableConnect(io, c) /\ inside' = [conn |-> c, event |-> "connect"]
      /\ held' \in {held} \cup (IF given.foreign THEN {held \cup {c}} ELSE {})
  BY DEF RunEnable, CallsBack
<1>3. /\ Types /\ LoopInv(io, mapConn, 0) /\ QueueInv(running \o functors)
      /\ Laps /\ Accepting /\ Holding
  BY <1>1, NotCalling DEF ServerInv
<1>4. /\ QueueInv(r) /\ running' \in Seq(Functor) /\ Head(running) \in Functor
      /\ Is(io, c, "csConnecting") /\ c \in mapConn
      /\ c = created => acceptPc \notin {"insert", "queue"}
      /\ \A i \in 1 .. Len(r) : r[i].kind = "OnEnableConnect" => r[i].conn # c
  BY <1>1, <1>3, RunningHead
<1>5. c \in Conn
  BY <1>4, FunctorParts
<1> HIDE DEF c, r, t
<1>6. /\ LoopInv(t, mapConn, c) /\ (LoopOnce(io, mapConn) => LoopOnce(t, mapConn))
      /\ \A d \in Conn \ {c} : t.conn[d] = io.conn[d]
      /\ ~ Fresh(t, c) /\ t.conn[c].late = io.conn[c].late
  BY <1>2, <1>3, <1>4, <1>5, EnableKeeps
<1>7. Fresh(io, c) /\ ~ Is(io, c, "none")
  BY <1>4 DEF Fresh, Is
<1>8. \A d \in Conn : ~ Fresh(io, d) => d # c /\ ~ Fresh(t, d)
  BY <1>6, <1>7 DEF Fresh
<1>9. held' \subseteq held \cup {c} /\ held \subseteq held' /\ (~ given.foreign => held' = held)
  BY <1>2
<1>10. Types'
  <2>1. inside' \in [conn : Conn, event : HandlerEvent] \cup {NoHandler}
    BY <1>2, <1>5 DEF HandlerEvent
  <2> QED BY <1>1, <1>3, <1>4, <2>1 DEF Types
<1>11. Holding'
  <2>1. held' \subseteq Conn /\ \A d \in held' : ~ Fresh(t, d)
    BY <1>3, <1>5, <1>6, <1>8, <1>9 DEF Holding
  <2> QED BY <1>1, <1>3, <1>9, <2>1 DEF Holding, t
<1>12. Accepting'
  <2>1. \A d \in Conn : Is(t, d, "none") <=> Is(io, d, "none")
    <3>1. ~ Is(t, c, "none")
      BY <1>6 DEF Fresh, Is
    <3> QED BY <1>6, <1>7, <3>1 DEF Is
  <2>2. ASSUME acceptPc \in {"insert", "queue"}
        PROVE  created > 0 /\ Is(t, created, "csConnecting")
    <3>1. created > 0 /\ created \in Conn /\ Is(io, created, "csConnecting") /\ created # c
      BY <1>3, <1>4, <2>2, Given DEF Accepting
    <3> QED BY <1>6, <3>1 DEF Is
  <2> QED BY <1>1, <1>3, <2>1, <2>2 DEF Accepting, t
<1>13. QueueInv(running \o functors)'
  <2>1. QueueIn(r, io, mapConn, created, b, held)
    BY <1>4 DEF QueueInv
  <2> HIDE DEF b
  <2>2. \A i \in 1 .. Len(r) : r[i] \in Functor
    BY <2>1 DEF QueueIn
  <2>3. \A i \in 1 .. Len(r) : r[i].kind = "OnEnableConnect" => Is(t, r[i].conn, "csConnecting")
    <3>1. \A i \in 1 .. Len(r) : r[i].conn \in Conn
      BY <2>2, FunctorParts
    <3> QED BY <1>4, <1>6, <2>1, <3>1 DEF QueueIn, Is
  <2>4. \A i \in 1 .. Len(r) : r[i].kind = "SendInLoop" => r[i].conn \in held'
    BY <1>9, <2>1 DEF QueueIn
  <2>5. QueueIn(r, t, mapConn, created, b, held')
    BY <2>1, <2>3, <2>4, QueueOther
  <2> QED BY <1>1, <2>5 DEF QueueInv, r, t, b
<1>14. Laps' /\ (Count => Count')
  BY <1>1, <1>3 DEF Laps, Count, CountMatches
<1>15. Quiet => Quiet'
  <2>1. \A d \in Conn : t.conn[d].late = io.conn[d].late
    BY <1>6
  <2> QED BY <1>1, <2>1 DEF Quiet, t
<1>16. Calling' /\ Exempt' = c
  <2>1. inside'.conn = c /\ inside'.event = "connect" /\ DOMAIN batch = {}
    BY <1>1, <1>2, <1>3 DEF Laps
  <2> QED BY <1>1, <1>4, <1>6, <2>1 DEF Calling, Exempt, t
<1> QED BY <1>1, <1>6, <1>10, <1>11, <1>12, <1>13, <1>14, <1>15, <1>16 DEF ServerInv, t

\* Steps of the loop that change where it is.
LEMMA TurnStep ==
    ASSUME ServerInv, UNCHANGED given, FunctorsDone \/ CheckDone \/ FreeDone
    PROVE  ServerInv'
<1>1. /\ pc \in {"functors", "check", "free"} /\ pc' \in {"check", "free", "wait"}
      /\ pc = "functors" => running = <<>>
      /\ UNCHANGED <<given, io, batch, inside, lag, running, acceptPc, created, functors, mapConn, curCount,
                     held, foreign>>
  BY DEF FunctorsDone, CheckDone, FreeDone, acceptVars, sharedVars
<1>2. /\ Types /\ LoopInv(io, mapConn, Exempt) /\ QueueInv(running \o functors)
      /\ Laps /\ Calling /\ Accepting /\ Holding
  BY DEF ServerInv
<1>3. Types'
  BY <1>1, <1>2 DEF Types
<1>4. QueueInv(running \o functors)'
  BY <1>1, <1>2 DEF QueueInv
<1>5. Laps' /\ Accepting' /\ Holding' /\ (Count => Count') /\ (Quiet => Quiet')
  BY <1>1, <1>2 DEF Laps, Accepting, Holding, Count, CountMatches, Quiet
<1>6. inside = NoHandler
  BY <1>2 DEF FunctorsDone, CheckDone, FreeDone, Calling
<1>7. Exempt = 0 /\ Calling' /\ Exempt' = 0
  BY <1>1, <1>6, NotCalling, NotCallingThen
<1> QED BY <1>1, <1>2, <1>3, <1>4, <1>5, <1>7 DEF ServerInv

LEMMA CheckTimeoutStep ==
    ASSUME ServerInv, UNCHANGED given, CheckTimeout
    PROVE  ServerInv'
<1> DEFINE t == io'
           h == Head(io.idle)
<1>1. /\ pc = "check" /\ inside = NoHandler /\ io.idle # <<>>
      /\ UNCHANGED <<given, pc, batch, lag, running, acceptPc, created, functors, mapConn, curCount,
                     held, foreign>>
      /\ t = HandleClose([io EXCEPT !.idle = Tail(@)], h)
      /\ inside' = NoHandler \/ inside' = [conn |-> h, event |-> "close"]
  BY DEF CheckTimeout, Closes, CallsBack, HeadExpired, acceptVars, sharedVars
<1>2. Types /\ LoopInv(io, mapConn, 0) /\ Laps
  BY <1>1, NotCalling DEF ServerInv
<1> HIDE DEF t
<1>3. /\ LoopInv(t, mapConn, 0) /\ (LoopOnce(io, mapConn) => LoopOnce(t, mapConn)) /\ Steady(io, t)
      /\ \A d \in Conn : t.conn[d].late = io.conn[d].late
  BY <1>1, <1>2, ExpireKeeps
<1>4. Accepting' /\ Holding' /\ QueueInv(running \o functors)'
  BY <1>1, <1>3, SteadyStep DEF t
<1>5. h \in Conn /\ h \in mapConn /\ ~ Fresh(io, h)
  <2>1. io.idle \in Seq(Conn)
    BY <1>2, Parts DEF LoopInv
  <2>2. h \in ToSet(io.idle) /\ h \in Conn
    BY <1>1, <2>1, TailKeeps
  <2> QED BY <1>2, <2>2 DEF LoopInv, ConnInv
<1> HIDE DEF h
<1>6. Types' /\ Laps' /\ (Count => Count') /\ (Quiet => Quiet')
  <2>1. inside' \in [conn : Conn, event : HandlerEvent] \cup {NoHandler}
    BY <1>1, <1>5 DEF HandlerEvent
  <2> QED BY <1>1, <1>2, <1>3, <2>1 DEF Types, Laps, Count, CountMatches, Quiet, t
<1>7. Calling' /\ Exempt' = 0
  <2>1. CASE inside' = NoHandler
    BY <2>1, NotCallingThen
  <2>2. CASE inside' = [conn |-> h, event |-> "close"]
    <3>1. inside'.conn = h /\ inside'.event = "close" /\ DOMAIN batch = {}
      BY <1>1, <1>2, <2>2 DEF Laps
    <3> QED BY <1>1, <1>3, <1>5, <3>1 DEF Calling, Exempt, Steady, t
  <2> QED BY <1>1, <2>1, <2>2
<1> QED BY <1>1, <1>3, <1>4, <1>6, <1>7 DEF ServerInv, t

LEMMA DestoryStep ==
    ASSUME ServerInv, UNCHANGED given, DestoryConn
    PROVE  ServerInv'
<1> DEFINE t == io'
           h == Head(io.vecFree)
<1>1. /\ pc = "free" /\ io.vecFree # <<>> /\ mapConn' = mapConn \ {h}
      /\ curCount' = (curCount + MaxCount) % (MaxCount + 1)
      /\ UNCHANGED <<given, pc, batch, inside, lag, running, acceptPc, created, functors, held, foreign>>
      /\ t = [io EXCEPT !.vecFree = Tail(@), !.idle = RemoveFirst(@, Head(io.vecFree))]
  BY DEF DestoryConn, acceptVars
<1>2. /\ Types /\ LoopInv(io, mapConn, 0) /\ QueueInv(running \o functors)
      /\ Laps /\ Accepting /\ Holding /\ inside = NoHandler
  BY <1>1, NotCalling DEF ServerInv, Calling
<1> HIDE DEF t
<1>3. /\ LoopInv(t, mapConn \ {h}, 0) /\ (LoopOnce(io, mapConn) => LoopOnce(t, mapConn \ {h}))
      /\ t.conn = io.conn /\ io.conn[h].closes > 0
  BY <1>1, <1>2, DestroyKeeps
<1>4. h \in Conn /\ h \in ToSet(io.vecFree)
  <2>1. io.vecFree \in Seq(Conn)
    BY <1>2, Parts DEF LoopInv
  <2> QED BY <1>1, <2>1, TailKeeps
<1> HIDE DEF h
<1>5. ~ Fresh(io, h)
  BY <1>2, <1>3, <1>4 DEF LoopInv, ConnInv
<1>6. Types'
  <2>1. curCount' \in Nat
    BY <1>1, <1>2, Given DEF Types
  <2> QED BY <1>1, <1>2, <2>1 DEF Types
<1>7. Accepting'
  <2>1. acceptPc \in {"insert", "queue"} => h # created
    BY <1>2, <1>5 DEF Accepting, Fresh, Is
  <2> QED BY <1>1, <1>2, <1>3, <2>1 DEF Accepting, Is, t
<1>8. Holding' /\ Laps' /\ (Quiet => Quiet')
  BY <1>1, <1>2, <1>3 DEF Holding, Fresh, Laps, Quiet, t
<1>9. QueueInv(running \o functors)'
  <2> DEFINE q == running \o functors
             b == acceptPc \in {"insert", "queue"}
  <2>1. QueueIn(q, io, mapConn, created, b, held)
    BY <1>2 DEF QueueInv
  <2>2. \A d \in Conn : Is(io, d, "csConnecting") => d # h /\ Is(t, d, "csConnecting")
    BY <1>3, <1>5 DEF Fresh, Is
  <2>3. \A i \in 1 .. Len(q) : q[i].kind = "SendInLoop" => q[i].conn \in held
    BY <2>1 DEF QueueIn
  <2> HIDE DEF q, b
  <2>4. QueueIn(q, t, mapConn \ {h}, created, b, held)
    BY <2>1, <2>2, <2>3, QueueSame
  <2> QED BY <1>1, <2>4 DEF QueueInv, q, b, t
<1>10. ASSUME ~ given.foreign PROVE Count'
  <2> DEFINE n == Cardinality(mapConn)
             k == IF acceptPc \in {"check", "insert"} THEN 1 ELSE 0
  <2>1. /\ curCount = n + k /\ n <= given.limit
        /\ acceptPc = "insert" => n < given.limit
        /\ h \in mapConn
    BY <1>4, <1>10 DEF ServerInv, Count, CountMatches, LoopOnce
  <2>2. n \in Nat \ {0} /\ Cardinality(mapConn') = n - 1 /\ k \in 0 .. 1
    BY <1>1, <1>2, <2>1, CountFacts
  <2> HIDE DEF n, k
  <2>3. curCount \in 1 .. MaxCount
    BY <1>2, <2>1, <2>2, Given
  <2>4. curCount' = curCount - 1
    BY <1>1, <1>2, <2>3, Given, Modulo
  <2>5. curCount' = (n - 1) + k
    BY <2>1, <2>2, <2>4, <2>3
  <2>6. n - 1 <= given.limit /\ (acceptPc = "insert" => n - 1 < given.limit)
    BY <1>2, <2>1, <2>2, Given
  <2> QED BY <1>1, <2>2, <2>5, <2>6 DEF Count, CountMatches, k
<1>11. Calling' /\ Exempt' = 0
  BY <1>1, <1>2, NotCallingThen
<1> QED BY <1>1, <1>3, <1>6, <1>7, <1>8, <1>9, <1>10, <1>11 DEF ServerInv, t

LEMMA ForeignCallsStep ==
    ASSUME ServerInv, UNCHANGED given,
           NEW kind \in {"OnShutdown", "SendInLoop"}, NEW c \in Conn, ForeignCalls(kind, c)
    PROVE  ServerInv'
<1>1. /\ c \in held /\ foreign' = [kind |-> kind, conn |-> c]
      /\ UNCHANGED <<given, io, pc, batch, inside, lag, running, acceptPc, created, functors, mapConn, curCount,
                     held>>
  BY DEF ForeignCalls, loopVars, acceptVars, sharedVars
<1>2. /\ Types /\ LoopInv(io, mapConn, Exempt) /\ QueueInv(running \o functors)
      /\ Laps /\ Calling /\ Accepting /\ Holding
  BY DEF ServerInv
<1>3. /\ foreign' \in [kind : {"OnShutdown", "SendInLoop"}, conn : Conn] /\ foreign'.conn = c
  BY <1>1
<1>4. Types'
  BY <1>1, <1>2, <1>3 DEF Types
<1>5. Holding'
  BY <1>1, <1>2, <1>3 DEF Holding
<1>6. QueueInv(running \o functors)'
  BY <1>1, <1>2 DEF QueueInv
<1>7. Laps' /\ Accepting' /\ (Count => Count') /\ (Quiet => Quiet')
  BY <1>1, <1>2 DEF Laps, Accepting, Count, CountMatches, Quiet
<1>8. Calling' /\ Exempt' = Exempt
  BY <1>1, <1>2, CallingKeeps
<1> QED BY <1>1, <1>2, <1>4, <1>5, <1>6, <1>7, <1>8 DEF ServerInv

\* The functor of the call is queued; io' is io, or has the state set.
LEMMA ForeignQueues ==
    ASSUME ServerInv, UNCHANGED given, foreign.kind # "none",
           functors' = Append(functors, foreign), foreign' = NoCall,
           UNCHANGED <<pc, batch, inside, lag, running, acceptPc, created, mapConn, curCount, held>>,
           LoopInv(io', mapConn, Exempt), Steady(io, io'), SameList(io, io')
    PROVE  ServerInv'
<1> DEFINE q == running \o functors
           b == acceptPc \in {"insert", "queue"}
           t == io'
<1>1. /\ Types /\ LoopInv(io, mapConn, Exempt) /\ io \in Loop /\ QueueInv(q)
      /\ Laps /\ Calling /\ Accepting /\ Holding
  BY DEF ServerInv, LoopInv
<1>2. foreign \in [kind : {"OnShutdown", "SendInLoop"}, conn : Conn] /\ foreign # NoCall
  BY <1>1 DEF Types, NoCall
<1>3. foreign \in Functor /\ foreign.kind # "OnEnableConnect" /\ foreign.conn \in held
  BY <1>1, <1>2 DEF Holding, Functor
<1>4. given.foreign
  BY <1>1, <1>2, Given DEF Holding
<1>5. functors' \in Seq(Functor) /\ (running \o functors)' = Append(q, foreign)
  <2>1. functors \in Seq(Functor) /\ running \in Seq(Functor)
    BY <1>1 DEF Types
  <2> QED BY <1>3, <2>1, Concatenation
<1>6. Types'
  BY <1>1, <1>5 DEF Types
<1> HIDE DEF q, b, t
<1>7. QueueInv(running \o functors)'
  <2>1. QueueIn(q, t, mapConn, created, b, held)
    BY <1>1, SteadyQueue DEF b, t
  <2>2. QueueIn(Append(q, foreign), t, mapConn, created, b, held)
    BY <1>3, <2>1, QueueAppend
  <2> QED BY <1>5, <2>2 DEF QueueInv, b, t
<1>8. Accepting'
  BY <1>1, SteadyAccepting
<1>9. Holding'
  BY <1>1, <1>4 DEF Holding, Steady
<1>10. Laps'
  <2>1. AtLeast(io, lag) => AtLeast(t, lag)
    BY <1>1, SameListAtLeast DEF t
  <2>2. \A c \in DOMAIN batch : c \in Conn /\ c \in mapConn /\ ~ Fresh(t, c)
    BY <1>1 DEF Laps, Types, Steady, t
  <2> QED BY <1>1, <2>1, <2>2 DEF Laps, AtLeast, t
<1>11. Calling' /\ Exempt' = Exempt
  BY <1>1, CallingKeeps DEF Steady
<1> QED BY <1>4, <1>6, <1>7, <1>8, <1>9, <1>10, <1>11 DEF ServerInv

LEMMA ForeignShutdownStep ==
    ASSUME ServerInv, UNCHANGED given, ForeignShutdown
    PROVE  ServerInv'
<1> DEFINE t == io'
           c == foreign.conn
<1>1. /\ foreign.kind # "none" /\ functors' = Append(functors, foreign) /\ foreign' = NoCall
      /\ UNCHANGED <<given, pc, batch, inside, lag, running, acceptPc, created, mapConn, curCount, held>>
      /\ t = [io EXCEPT !.conn[c].state = "csDisConnecting"]
  BY DEF ForeignShutdown, acceptVars
<1>2. Types /\ Holding /\ LoopInv(io, mapConn, Exempt)
  BY DEF ServerInv
<1>3. c \in Conn /\ ~ Fresh(io, c)
  BY <1>1, <1>2 DEF Types, Holding, NoCall
<1> HIDE DEF t, c
<1>4. LoopInv(t, mapConn, Exempt) /\ Steady(io, t) /\ SameList(io, t)
  BY <1>1, <1>2, <1>3, ShutKeeps
<1> QED BY <1>1, <1>4, ForeignQueues DEF t

LEMMA ForeignSendStep ==
    ASSUME ServerInv, UNCHANGED given, ForeignSend
    PROVE  ServerInv'
<1>1. /\ foreign.kind # "none" /\ functors' = Append(functors, foreign) /\ foreign' = NoCall
      /\ UNCHANGED <<given, io, pc, batch, inside, lag, running, acceptPc, created, mapConn, curCount, held>>
  BY DEF ForeignSend, loopVars, acceptVars
<1>2. LoopInv(io', mapConn, Exempt) /\ Steady(io, io') /\ SameList(io, io')
  BY <1>1 DEF ServerInv, Steady, SameList
<1> QED BY <1>1, <1>2, ForeignQueues

LEMMA ForeignDropsStep ==
    ASSUME ServerInv, UNCHANGED given, NEW c \in Conn, ForeignDrops(c)
    PROVE  ServerInv'
<1> DEFINE q == running \o functors
           b == acceptPc \in {"insert", "queue"}
           f == [kind |-> "SendInLoop", conn |-> c]
<1>1. /\ c \in held /\ foreign = NoCall /\ held' = held \ {c}
      /\ \A i \in 1 .. Len(functors) : functors[i] # f
      /\ \A i \in 1 .. Len(running) : running[i] # f
      /\ UNCHANGED <<given, io, pc, batch, inside, lag, running, acceptPc, created, functors, mapConn, curCount,
                     foreign>>
  BY DEF ForeignDrops, loopVars, acceptVars, sharedVars
<1>2. /\ Types /\ LoopInv(io, mapConn, Exempt) /\ QueueInv(q) /\ Laps /\ Calling
      /\ Accepting /\ Holding
  BY DEF ServerInv
<1>3. functors \in Seq(Functor) /\ running \in Seq(Functor)
  BY <1>2 DEF Types
<1>4. QueueIn(q, io, mapConn, created, b, held)
  BY <1>2 DEF QueueInv
<1>5. ASSUME NEW i \in 1 .. Len(q), q[i].kind = "SendInLoop" PROVE q[i].conn \in held'
  <2>1. q[i] # f
    BY <1>1, <1>3, OutOfConcatenation
  <2>2. q[i] \in Functor
    BY <1>4 DEF QueueIn
  <2>3. q[i].conn # c
    BY <1>5, <2>1, <2>2 DEF Functor
  <2> QED BY <1>1, <1>4, <1>5, <2>3 DEF QueueIn
<1> HIDE DEF q, b
<1>6. QueueIn(q, io, mapConn, created, b, held')
  <2>1. \A i \in 1 .. Len(q) : q[i].kind = "OnEnableConnect" => Is(io, q[i].conn, "csConnecting")
    BY <1>4 DEF QueueIn
  <2> QED BY <1>4, <1>5, <2>1, QueueOther
<1>7. QueueInv(running \o functors)'
  BY <1>1, <1>6 DEF QueueInv, q, b
<1>8. Types' /\ Holding' /\ Laps' /\ Accepting' /\ (Count => Count') /\ (Quiet => Quiet')
  BY <1>1, <1>2 DEF Types, Holding, Laps, Accepting, Count, CountMatches, Quiet
<1>9. Calling' /\ Exempt' = Exempt
  BY <1>1, <1>2, CallingKeeps
<1> QED BY <1>1, <1>2, <1>7, <1>8, <1>9 DEF ServerInv

LEMMA TickStep ==
    ASSUME ServerInv, UNCHANGED given, Tick
    PROVE  ServerInv'
<1> DEFINE t == io'
           bound == DEF_CONN_TIME_OUT + given.maxLag
<1>1. /\ pc # "wait" => lag < given.maxLag
      /\ lag' = IF pc = "wait" THEN 0 ELSE lag + 1
      /\ UNCHANGED <<given, pc, batch, inside, running, acceptPc, created, functors, mapConn, curCount, held,
                     foreign>>
      /\ t = [io EXCEPT !.conn = [c \in Conn |-> [@[c] EXCEPT !.age = Aged(c)]]]
  BY DEF Tick, acceptVars, sharedVars
<1>2. Types /\ LoopInv(io, mapConn, Exempt) /\ Laps /\ Calling /\ io \in Loop
  BY DEF ServerInv, LoopInv
<1>3. given.maxLag \in Nat /\ bound \in Nat /\ bound >= given.maxLag /\ lag \in Nat
  BY <1>2, Given DEF Types
<1> HIDE DEF t
<1>4. /\ LoopInv(t, mapConn, Exempt) /\ (LoopOnce(io, mapConn) => LoopOnce(t, mapConn)) /\ Steady(io, t)
      /\ t.idle = io.idle
      /\ \A d \in ToSet(io.idle) : t.conn[d].age = Older(io.conn[d].age, bound)
      /\ \A d \in Conn : /\ t.conn[d].closes = io.conn[d].closes
                         /\ t.conn[d].late = io.conn[d].late
  BY <1>1, <1>2, <1>3, TickKeeps
<1> HIDE DEF bound
<1>5. Types'
  BY <1>1, <1>2, <1>3 DEF Types
<1>6. Accepting' /\ Holding' /\ QueueInv(running \o functors)'
  BY <1>1, <1>4, SteadyStep DEF t
<1>7. Laps'
  <2>1. ASSUME pc = "events", NEW c \in ToSet(io.idle) PROVE t.conn[c].age >= lag'
    <3>1. io.idle \in Seq(Conn)
      BY <1>2, Parts
    <3>2. c \in Conn
      BY <3>1, Members
    <3>3. io.conn[c].age \in Nat /\ io.conn[c].age >= lag
      BY <1>2, <2>1, <3>2, Parts, ConnRecord DEF Laps
    <3>4. lag' = lag + 1 /\ lag + 1 <= bound
      BY <1>1, <1>3, <2>1
    <3> QED BY <1>3, <1>4, <3>3, <3>4 DEF Older
  <2>2. \A c \in DOMAIN batch : c \in mapConn /\ ~ Fresh(t, c)
    BY <1>2, <1>4 DEF Laps, Types, Steady
  <2> QED BY <1>1, <1>2, <1>4, <2>1, <2>2 DEF Laps, t
<1>8. Count => Count'
  BY <1>1, CountSame
<1>9. Quiet => Quiet'
  <2>1. \A c \in DOMAIN batch : c \in Conn
    BY <1>2 DEF Types
  <2> QED BY <1>1, <1>4, <2>1 DEF Quiet, t
<1>10. Calling' /\ Exempt' = Exempt
  BY <1>1, <1>2, <1>4, CallingKeeps DEF Steady, t
<1> QED BY <1>1, <1>4, <1>5, <1>6, <1>7, <1>8, <1>9, <1>10 DEF ServerInv, t

-----------------------------------------------------------------------------

LEMMA StutterStep ==
    ASSUME ServerInv, UNCHANGED vars
    PROVE  ServerInv'
<1>1. UNCHANGED <<given, io, pc, batch, inside, lag, running, acceptPc, created, functors, mapConn, curCount,
                  held, foreign>>
  BY DEF vars, loopVars, acceptVars, sharedVars
<1> QED BY <1>1 DEF ServerInv, Types, LoopInv, ConnInv, Fresh, Is, Sorted, LoopOnce, Laps, Calling, Exempt,
                    Accepting, Holding, Count, CountMatches, Quiet, QueueInv, QueueIn

LEMMA ServerInit ==
    ASSUME Init
    PROVE  ServerInv
<1>1. /\ given \in Settings
      /\ io = [conn |-> [c \in Conn |-> NoConn], idle |-> <<>>, vecFree |-> <<>>]
      /\ pc = "wait" /\ batch = <<>> /\ inside = NoHandler /\ lag = 0 
      /\ functors = <<>> /\ running = <<>>
      /\ mapConn = {} /\ acceptPc = "wait" /\ created = 0 /\ curCount = 0
      /\ held = {} /\ foreign = NoCall
  BY DEF Init
<1>2. /\ NoConn \in ConnRec /\ NoConn.state = "none" /\ NoConn.interest = "none"
      /\ NoConn.closes = 0 /\ ~ NoConn.late
  BY DEF NoConn, NewConn, ConnRec, States
<1>3. DOMAIN batch = {}
  BY <1>1
<1>4. Types
  <2>1. Cardinality(Conn) \in Nat
    BY TcpServerAssumption, FS_CardinalityType
  <2>2. 0 \in 0 .. Cardinality(Conn)
    BY <2>1
  <2> QED BY <1>1, <1>3, <2>2 DEF Types
<1>5. io \in Loop /\ \A c \in Conn : io.conn[c] = NoConn
  BY <1>1, <1>2 DEF Loop
<1>6. io.idle = <<>> /\ io.vecFree = <<>> /\ ToSet(<<>>) = {}
  BY <1>1 DEF ToSet
<1>7. LoopInv(io, mapConn, 0)
  <2>1. Distinct(io.idle) /\ Sorted(io)
    BY <1>6 DEF Distinct, Sorted
  <2> QED BY <1>2, <1>5, <1>6, <2>1 DEF LoopInv, ConnInv, Fresh, Is
<1>8. LoopOnce(io, mapConn)
  <2>1. Distinct(io.vecFree)
    BY <1>6 DEF Distinct
  <2> QED BY <1>2, <1>5, <1>6, <2>1 DEF LoopOnce
<1>9. QueueInv(running \o functors)
  <2>1. running \o functors = <<>>
    BY <1>1
  <2> QED BY <2>1 DEF QueueInv, QueueIn
<1>10. Accepting
  <2>1. \A c \in Conn : c > 0
    BY <1>4, Given
  <2> QED BY <1>1, <1>2, <1>5, <2>1 DEF Accepting, Is
<1>11. Laps /\ Holding /\ Quiet
  BY <1>1, <1>2, <1>3, <1>5, <1>6 DEF Laps, Holding, Quiet
<1>12. Count
  <2>1. Cardinality({}) = 0
    BY FS_EmptySet
  <2> QED BY <1>1, <1>4, <2>1, Given DEF Count, CountMatches
<1>13. Calling /\ Exempt = 0
  BY <1>1, NotCalling
<1> QED BY <1>4, <1>7, <1>8, <1>9, <1>10, <1>11, <1>12, <1>13 DEF ServerInv

LEMMA ServerStep ==
    ASSUME ServerInv, [Next]_vars
    PROVE  ServerInv'
<1>1. ASSUME UNCHANGED given, AcceptThread PROVE ServerInv'
  BY <1>1, AcceptStep, RefuseStep, CreateStep, InsertStep, QueueStep DEF AcceptThread
<1>2. ASSUME UNCHANGED given, LoopThread PROVE ServerInv'
  <2>1. ASSUME NEW c \in Conn, HandleRead(c) \/ HandleReadEnd(c) \/ HandleWrite(c)
                               \/ HandleHangUp(c) \/ HandleError(c)
        PROVE  ServerInv'
    BY <1>2, <2>1, HandleReadStep, HandleCloseStep, HandleWriteStep, HandleErrorStep
  <2> QED BY <1>2, <2>1, WaitStep, CallInsideStep, ReturnClosingStep, ReturnStep, SwapStep,
             RunEnableStep, RunFailsStep, RunKeptStep, TurnStep, CheckTimeoutStep, DestoryStep DEF LoopThread
<1>3. ASSUME UNCHANGED given, ForeignThread PROVE ServerInv'
  BY <1>3, ForeignCallsStep, ForeignShutdownStep, ForeignSendStep, ForeignDropsStep DEF ForeignThread
<1> QED BY <1>1, <1>2, <1>3, PeerStep, TickStep, StutterStep DEF Next

LEMMA ServerInvariant == Spec => []ServerInv
<1>1. Init => ServerInv
  BY ServerInit
<1>2. ServerInv /\ [Next]_vars => ServerInv'
  BY ServerStep
<1> QED BY <1>1, <1>2, PTL DEF Spec

\* OnClose comes once to a connection, whatever its peer does and whatever
\* connections the callbacks call, as long as no other thread of the user does
\* (TcpConn::HandleClose, DestoryConn).
THEOREM OnCloseComesOnce == Spec => []ClosedOnce
<1>1. ServerInv => ClosedOnce
  BY DEF ServerInv, LoopOnce, ClosedOnce
<1> QED BY <1>1, ServerInvariant, PTL

\* The list, the batch of events and the functors that are queued or running hold
\* only connections that are not freed: also with a thread of the user that calls
\* the connections it keeps (EventLoop::DestoryConn, RunInLoop).
THEOREM PointersStayValid == Spec => []NoDanglingPointer
<1>1. ASSUME ServerInv PROVE NoDanglingPointer
  <2> DEFINE q == running \o functors
  <2>1. /\ Types /\ LoopInv(io, mapConn, Exempt) /\ Laps /\ Calling
        /\ QueueIn(q, io, mapConn, created, acceptPc \in {"insert", "queue"}, held)
    BY <1>1 DEF ServerInv, QueueInv
  <2>2. ASSUME NEW c \in ToSet(io.idle) PROVE c \in mapConn
    <3>1. io.idle \in Seq(Conn)
      BY <2>1, Parts DEF LoopInv
    <3>2. c \in Conn
      BY <3>1, Members
    <3> QED BY <2>1, <3>2 DEF LoopInv, ConnInv
  <2>3. \A c \in DOMAIN batch : c \in mapConn
    BY <2>1 DEF Laps
  <2>4. ASSUME NEW f \in ToSet(functors) \cup ToSet(running) PROVE Alive(f.conn)
    <3>1. functors \in Seq(Functor) /\ running \in Seq(Functor)
      BY <2>1 DEF Types
    <3>2. PICK i \in 1 .. Len(q) : q[i] = f
      BY <3>1, InConcatenation
    <3>3. f \in Functor
      BY <2>1, <3>2 DEF QueueIn
    <3>4. CASE f.kind = "OnEnableConnect"
      BY <2>1, <3>2, <3>4 DEF QueueIn, Alive
    <3>5. CASE f.kind = "SendInLoop"
      BY <2>1, <3>2, <3>5 DEF QueueIn, Alive
    <3>6. CASE f.kind = "OnShutdown"
      <4>1. f = [kind |-> "OnShutdown", conn |-> f.conn]
        BY <3>3, <3>6 DEF Functor
      <4> QED BY <4>1 DEF Alive
    <3> QED BY <3>3, <3>4, <3>5, <3>6, FunctorParts
  <2>5. \A c \in mapConn : Alive(c)
    BY DEF Alive
  <2>6. \A c \in {inside.conn} \ {0} : c \in mapConn
    BY <2>1 DEF Calling, NoHandler
  <2> QED BY <2>2, <2>3, <2>4, <2>5, <2>6 DEF NoDanglingPointer
<1> QED BY <1>1, ServerInvariant, PTL

\* The idle list has every open connection once, the longest silent first, so that
\* CheckNodeList may stop at the first that has not expired (DouList::UpdateNode,
\* EventLoop::CheckTimeout).
THEOREM IdleListStaysInOrder == Spec => []IdleListInOrder
<1>1. ASSUME ServerInv PROVE IdleListInOrder
  <2>1. LoopInv(io, mapConn, Exempt) /\ Types
    BY <1>1 DEF ServerInv
  <2>2. \A i, j \in 1 .. Len(io.idle) :
           i < j => io.idle[i] # io.idle[j] /\ io.conn[io.idle[i]].age >= io.conn[io.idle[j]].age
    <3>1. io.idle \in Seq(Conn)
      BY <2>1, Parts DEF LoopInv
    <3>2. \A i, j \in 1 .. Len(io.idle) : i < j => i # j
      BY <3>1
    <3> QED BY <2>1, <3>2 DEF LoopInv, Sorted, Distinct
  <2>3. ASSUME NEW c \in Conn, io.conn[c].state \in {"csConnected", "csDisConnecting"},
               io.conn[c].closes = 0
        PROVE  c \in ToSet(io.idle) \/ inside = [conn |-> c, event |-> "connect"]
    <3>1. ConnInv(io, c, mapConn, Exempt) /\ c # 0
      BY <2>1, ConnAreFinite DEF LoopInv
    <3>2. c \in ToSet(io.idle) \/ c = Exempt
      BY <2>3, <3>1 DEF ConnInv, Fresh
    <3>3. c = Exempt => inside.conn = c /\ inside.event = "connect"
      BY <3>1 DEF Exempt
    <3>4. c = Exempt => inside \in [conn : Conn, event : HandlerEvent]
      BY <2>1, <3>3 DEF Types, NoHandler
    <3> QED BY <3>2, <3>3, <3>4
  <2> QED BY <2>2, <2>3 DEF IdleListInOrder
<1> QED BY <1>1, ServerInvariant, PTL

\* The count of connections is the size of the map, or one more while the accept
\* thread has yet to enter the connection it made, as long as no thread of the
\* user calls Shutdown (TcpServer::OnAccept, OnConnDestory; see TcpServer.tla).
THEOREM CountIsExact == Spec => [](~ given.foreign => CountMatches)
<1>1. ServerInv => (~ given.foreign => CountMatches)
  BY DEF ServerInv, Count
<1> QED BY <1>1, ServerInvariant, PTL

\* No event of a connection is handled after its OnClose, be it of the same batch,
\* of a later one or a functor, when each callback calls only its own connection
\* and no other thread of the user calls any.  The handler that OnClose came in
\* still goes on: with the packs of the same read, say (TcpConn::OnReadEvent,
\* PackCodec::OnRawBuf).
THEOREM NoCallbackAfterClose ==
    Spec => [](given.reach = "own" /\ ~ given.foreign => QuietAfterClose)
<1>1. ServerInv => (given.reach = "own" /\ ~ given.foreign => QuietAfterClose)
  BY DEF ServerInv, Quiet, QuietAfterClose
<1> QED BY <1>1, ServerInvariant, PTL
-----------------------------------------------------------------------------
(***************************************************************************)
(* The pointers of DouList, over any number of connections: they make up   *)
(* the list that io.idle is, and CheckNodeList passes no node over,        *)
(* although each is taken out, and its pointers cleared, before the next   *)
(* is looked at.                                                           *)
(*                                                                         *)
(* The invariant is that some sequence is what the pointers represent.     *)
(* Forward is computed by following them, so ForwardIs shows first that it *)
(* is that sequence; then AddNode and DelNode are each related to what     *)
(* they do to it.                                                          *)
(***************************************************************************)

(* The pointers. *)

Links == [head : Pointer, tail : Pointer, prev : [Node -> Pointer], next : [Node -> Pointer]]

\* The node looked at is the head; DelNode of the head leaves its successor as
\* the head, which is what CheckExpired read before.
CursorInv == links \in Links /\ checking \in BOOLEAN /\ CursorAtHead

LEMMA ClearedKeeps ==
    ASSUME NEW l \in Links, NEW n \in Node
    PROVE  Cleared(l, n) \in Links /\ Cleared(l, n).head = l.head
BY DEF Cleared, Links, Pointer

LEMMA SetKeeps ==
    ASSUME NEW l \in Links, NEW p \in Pointer, NEW n \in Pointer
    PROVE  SetNext(l, p, n) \in Links /\ SetPrev(l, p, n) \in Links
BY DEF SetNext, SetPrev, Links, Pointer

LEMMA AddNodeKeeps ==
    ASSUME NEW l \in Links, NEW n \in Node
    PROVE  AddNode(l, n) \in Links
<1>1. Cleared(l, n) \in Links
  BY ClearedKeeps
<1>2. SetNext(Cleared(l, n), l.tail, n) \in Links /\ l.tail \in Pointer
  BY <1>1, SetKeeps DEF Links, Pointer
<1>3. ASSUME NEW k \in Links PROVE [k EXCEPT !.head = n, !.tail = n] \in Links
  BY DEF Links, Pointer
<1>4. ASSUME NEW k \in Links, NEW p \in Pointer
      PROVE  [k EXCEPT !.prev[n] = p, !.tail = n] \in Links
  BY DEF Links, Pointer
<1> QED BY <1>1, <1>2, <1>3, <1>4 DEF AddNode

LEMMA DelHeadKeeps ==
    ASSUME NEW l \in Links, NEW n \in Node
    PROVE  DelHead(l, n) \in Links /\ DelHead(l, n).head = l.next[n]
<1>1. Cleared(l, n) \in Links /\ l.next[n] \in Pointer
  BY ClearedKeeps DEF Links
<1> QED BY <1>1 DEF DelHead, Links, Pointer

LEMMA DelNodeKeeps ==
    ASSUME NEW l \in Links, NEW n \in Node
    PROVE  DelNode(l, n) \in Links
<1>1. l.prev[n] \in Pointer /\ l.next[n] \in Pointer /\ NULL \in Pointer
  BY DEF Links, Pointer
<1>2. DelTail(l, n) \in Links
  <2>1. [l EXCEPT !.tail = l.prev[n]] \in Links
    BY <1>1 DEF Links
  <2> QED BY <1>1, <2>1, SetKeeps, ClearedKeeps DEF DelTail
<1>3. DelMiddle(l, n) \in Links
  <2>1. SetPrev(l, l.next[n], l.prev[n]) \in Links
    BY <1>1, SetKeeps
  <2> QED BY <1>1, <2>1, SetKeeps, ClearedKeeps DEF DelMiddle
<1> QED BY <1>2, <1>3, DelHeadKeeps DEF DelNode

LEMMA CursorInit ==
    ASSUME ListInit
    PROVE  CursorInv
<1>1. [n \in Node |-> NULL] \in [Node -> Pointer] /\ NULL \in Pointer
  BY DEF Pointer
<1> DEFINE none == [n \in Node |-> NULL]
<1>2. links = [head |-> NULL, tail |-> NULL, prev |-> none, next |-> none] /\ checking = FALSE
  BY DEF ListInit
<1> HIDE DEF none
<1>3. none \in [Node -> Pointer]
  BY <1>1 DEF none
<1> QED BY <1>1, <1>2, <1>3 DEF CursorInv, CursorAtHead, Links

LEMMA CursorStep ==
    ASSUME CursorInv, [ListNext]_listVars
    PROVE  CursorInv'
<1> USE DEF CursorInv, CursorAtHead
<1>1. ASSUME NEW n \in Node, UpdateNode(n) PROVE CursorInv'
  BY <1>1, DelNodeKeeps, AddNodeKeeps DEF UpdateNode
<1>2. ASSUME NEW n \in Node, DelConn(n) PROVE CursorInv'
  BY <1>2, DelNodeKeeps DEF DelConn
<1>3. CASE CheckNodeList
  BY <1>3 DEF CheckNodeList
<1>4. CASE CheckExpired
  <2>1. cursor = links.head /\ cursor \in Node /\ checking
    BY <1>4 DEF CheckExpired, Links, Pointer
  <2>2. links' = DelHead(links, cursor)
    BY <1>4, <2>1 DEF CheckExpired, DelNode
  <2> QED BY <1>4, <2>1, <2>2, DelHeadKeeps DEF CheckExpired
<1>5. CASE CheckEnds
  BY <1>5 DEF CheckEnds
<1>6. CASE UNCHANGED listVars
  BY <1>6 DEF listVars
<1> QED BY <1>1, <1>2, <1>3, <1>4, <1>5, <1>6 DEF ListNext

\* No connection is passed over: at every turn of CheckNodeList its cursor is the
\* head of the list, the connection heard from least recently.
THEOREM CursorCorrect == ListSpec => []CursorAtHead
<1>1. ListInit => CursorInv
  BY CursorInit
<1>2. CursorInv /\ [ListNext]_listVars => CursorInv'
  BY CursorStep
<1>3. CursorInv => CursorAtHead
  BY DEF CursorInv
<1> QED BY <1>1, <1>2, <1>3, PTL DEF ListSpec

-----------------------------------------------------------------------------
(* The list that the pointers represent. *)

\* The pointers make up the list s.  Nothing is said of the prev of the head.
Represents(l, s) ==
    /\ l \in Links /\ s \in Seq(Node) /\ Distinct(s)
    /\ l.head = IF s = <<>> THEN NULL ELSE s[1]
    /\ l.tail = IF s = <<>> THEN NULL ELSE s[Len(s)]
    /\ \A i \in 1 .. Len(s) : l.next[s[i]] = IF i = Len(s) THEN NULL ELSE s[i + 1]
    /\ \A i \in 2 .. Len(s) : l.prev[s[i]] = s[i - 1]
    /\ \A n \in Node : (\A i \in 1 .. Len(s) : s[i] # n) => l.next[n] = NULL /\ l.prev[n] = NULL

\* What Chain adds at its i-th turn to what it has seen.
Following(seen, i, first, link) ==
    LET here == IF i = 1 THEN first ELSE link[seen[i - 1]]
    IN  IF Len(seen) < i - 1 \/ here = NULL THEN seen ELSE Append(seen, here)

Prefix(s, i) == SubSeq(s, 1, IF i <= Len(s) THEN i ELSE Len(s))

LEMMA PrefixIs ==
    ASSUME NEW S, NEW s \in Seq(S), NEW i \in Nat
    PROVE  /\ Prefix(s, i) \in Seq(S)
           /\ Len(Prefix(s, i)) = IF i <= Len(s) THEN i ELSE Len(s)
           /\ \A j \in 1 .. Len(Prefix(s, i)) : Prefix(s, i)[j] = s[j]
           /\ i >= Len(s) => Prefix(s, i) = s
           /\ i = 0 => Prefix(s, i) = <<>>
<1> DEFINE m == IF i <= Len(s) THEN i ELSE Len(s)
<1>1. m \in 0 .. Len(s) /\ Len(s) \in Nat
  OBVIOUS
<1>2. Prefix(s, i) = SubSeq(s, 1, m)
  BY DEF Prefix
<1> HIDE DEF m
<1>3. /\ SubSeq(s, 1, m) \in Seq(S) /\ Len(SubSeq(s, 1, m)) = m
      /\ \A j \in 1 .. m : SubSeq(s, 1, m)[j] = s[j]
  BY <1>1
<1>4. i >= Len(s) => m = Len(s)
  BY <1>1 DEF m
<1>5. m = Len(s) => SubSeq(s, 1, m) = s
  BY <1>1
<1>6. i = 0 => m = 0 /\ SubSeq(s, 1, 0) = <<>>
  BY <1>1 DEF m
<1> QED BY <1>2, <1>3, <1>4, <1>5, <1>6 DEF m

LEMMA ChainFollows ==
    ASSUME NEW l, NEW s, Represents(l, s), NEW i \in Nat \ {0}
    PROVE  Following(Prefix(s, i - 1), i, l.head, l.next) = Prefix(s, i)
<1> DEFINE p == Prefix(s, i - 1)
           here == IF i = 1 THEN l.head ELSE l.next[p[i - 1]]
<1>1. s \in Seq(Node) /\ Len(s) \in Nat /\ i - 1 \in Nat
  BY DEF Represents
<1>2. /\ p \in Seq(Node) /\ Len(p) = IF i - 1 <= Len(s) THEN i - 1 ELSE Len(s)
      /\ \A j \in 1 .. Len(p) : p[j] = s[j]
      /\ i - 1 >= Len(s) => p = s
  BY <1>1, PrefixIs
<1>3. Following(p, i, l.head, l.next) = IF Len(p) < i - 1 \/ here = NULL THEN p ELSE Append(p, here)
  BY DEF Following
<1>4. CASE i - 1 > Len(s)
  <2>1. Len(p) < i - 1 /\ p = s /\ i >= Len(s)
    BY <1>1, <1>2, <1>4
  <2>2. Prefix(s, i) = s
    BY <1>1, <2>1, PrefixIs
  <2> HIDE DEF p, here
  <2> QED BY <1>3, <2>1, <2>2 DEF p
<1>5. CASE i - 1 = Len(s)
  <2>1. p = s /\ i >= Len(s)
    BY <1>1, <1>2, <1>5
  <2>2. Prefix(s, i) = s
    BY <1>1, <2>1, PrefixIs
  <2>3. CASE i = 1
    <3>1. s = <<>>
      BY <1>1, <1>5, <2>3
    <3>2. here = NULL
      BY <2>3, <3>1 DEF Represents
    <3> HIDE DEF p, here
    <3> QED BY <1>3, <2>1, <2>2, <3>2 DEF p
  <2>4. CASE i # 1
    <3>1. i - 1 \in 1 .. Len(s)
      BY <1>1, <1>5, <2>4
    <3> HIDE DEF p
    <3>2. here = NULL
      BY <1>5, <2>1, <2>4, <3>1 DEF Represents
    <3> HIDE DEF here
    <3> QED BY <1>3, <2>1, <2>2, <3>2 DEF p
  <2> QED BY <2>3, <2>4
<1>6. CASE i - 1 < Len(s)
  <2>1. i \in 1 .. Len(s) /\ Len(p) = i - 1
    BY <1>1, <1>2, <1>6
  <2>2. s[i] \in Node /\ s[i] # NULL
    BY <1>1, <2>1, DouListAssumption
  <2>3. here = s[i]
    <3>1. CASE i = 1
      BY <1>1, <2>1, <3>1 DEF Represents
    <3>2. CASE i # 1
      <4>1. i - 1 \in 1 .. Len(s) /\ i - 1 # Len(s) /\ (i - 1) + 1 = i /\ i - 1 \in 1 .. Len(p)
        BY <1>1, <2>1, <3>2
      <4> HIDE DEF p
      <4>2. p[i - 1] = s[i - 1]
        BY <1>2, <4>1
      <4> QED BY <3>2, <4>1, <4>2 DEF Represents
    <3> QED BY <3>1, <3>2
  <2> HIDE DEF p, here
  <2>4. Following(p, i, l.head, l.next) = Append(p, s[i])
    BY <1>3, <2>1, <2>2, <2>3
  <2>5. Append(p, s[i]) = Prefix(s, i)
    <3>1. /\ Prefix(s, i) \in Seq(Node) /\ Len(Prefix(s, i)) = i
          /\ \A j \in 1 .. i : Prefix(s, i)[j] = s[j]
      BY <1>1, <2>1, PrefixIs
    <3>2. /\ Append(p, s[i]) \in Seq(Node) /\ Len(Append(p, s[i])) = i
          /\ \A j \in 1 .. i - 1 : Append(p, s[i])[j] = p[j]
          /\ Append(p, s[i])[i] = s[i]
      BY <1>2, <2>1, <2>2
    <3>3. \A j \in 1 .. i : j = i \/ j \in 1 .. Len(p)
      BY <2>1
    <3>4. \A j \in 1 .. i : Append(p, s[i])[j] = Prefix(s, i)[j]
      BY <1>2, <2>1, <3>1, <3>2, <3>3
    <3> QED BY <3>1, <3>2, <3>4, SeqEqual
  <2> QED BY <2>4, <2>5 DEF p
<1> QED BY <1>1, <1>4, <1>5, <1>6

LEMMA DistinctIsShort ==
    ASSUME NEW s \in Seq(Node), Distinct(s)
    PROVE  Len(s) <= Cardinality(Node) /\ Cardinality(Node) \in Nat
<1>1. Len(s) \in Nat /\ s \in [1 .. Len(s) -> Node]
  OBVIOUS
<1>2. s \in Injection(1 .. Len(s), Node)
  BY <1>1 DEF Distinct, Injection, IsInjective
<1>3. Cardinality(1 .. Len(s)) = Len(s)
  BY <1>1, FS_Interval
<1>4. Cardinality(1 .. Len(s)) <= Cardinality(Node) /\ Cardinality(Node) \in Nat
  BY <1>2, DouListAssumption, FS_Injection, FS_CardinalityType
<1> QED BY <1>3, <1>4

\* The recursive function of Chain is the one function that meets its definition.
LEMMA ForwardIs ==
    ASSUME NEW l, NEW s, Represents(l, s)
    PROVE  Chain(l.head, l.next) = s
<1> DEFINE C == Cardinality(Node)
           Body(f) == [i \in 0 .. C |-> IF i = 0 THEN <<>>
                                        ELSE Following(f[i - 1], i, l.head, l.next)]
           g == [i \in 0 .. C |-> Prefix(s, i)]
           f == CHOOSE h : h = Body(h)
<1>1. s \in Seq(Node) /\ Len(s) <= C /\ C \in Nat
  BY DistinctIsShort DEF Represents
<1>2. Chain(l.head, l.next) = f[C]
  BY DEF Chain, Following
<1>3. g = Body(g)
  <2>1. ASSUME NEW i \in 0 .. C
        PROVE  Prefix(s, i) = IF i = 0 THEN <<>>
                              ELSE Following(g[i - 1], i, l.head, l.next)
    <3>1. CASE i = 0
      BY <1>1, <3>1, PrefixIs
    <3>2. CASE i # 0
      <4>1. i \in Nat \ {0} /\ i - 1 \in 0 .. C
        BY <1>1, <3>2
      <4>2. g[i - 1] = Prefix(s, i - 1)
        BY <4>1
      <4> HIDE DEF g
      <4> QED BY <3>2, <4>1, <4>2, ChainFollows
    <3> QED BY <3>1, <3>2
  <2> QED BY <2>1
<1>4. f = Body(f)
  <2> HIDE DEF Body, g
  <2> QED BY <1>3
<1> HIDE DEF f
<1>5. \A i \in 0 .. C : f[i] = IF i = 0 THEN <<>>
                               ELSE Following(f[i - 1], i, l.head, l.next)
  BY <1>4
<1> HIDE DEF Body, g
<1>6. ASSUME NEW i \in 0 .. C, f[i] # Prefix(s, i) PROVE FALSE
  <2> DEFINE B == {j \in 0 .. C : f[j] # Prefix(s, j)}
  <2>1. B \subseteq Nat /\ B # {}
    BY <1>1, <1>6
  <2>2. PICK n \in B : \A m \in B : n <= m
    <3> HIDE DEF B
    <3> QED BY <2>1, Smallest
  <2>3. n \in 0 .. C /\ f[n] # Prefix(s, n)
    OBVIOUS
  <2>4. n # 0
    BY <1>1, <1>5, <2>3, PrefixIs
  <2>5. n - 1 \in 0 .. C /\ n \in Nat \ {0} /\ ~ (n <= n - 1)
    BY <1>1, <2>3, <2>4
  <2>6. f[n - 1] = Prefix(s, n - 1)
    BY <2>2, <2>5
  <2>7. f[n] = Prefix(s, n)
    BY <1>5, <2>3, <2>4, <2>5, <2>6, ChainFollows
  <2> QED BY <2>3, <2>7
<1>7. f[C] = Prefix(s, C)
  <2>1. C \in 0 .. C
    BY <1>1
  <2> QED BY <1>6, <2>1
<1>8. Prefix(s, C) = s
  BY <1>1, PrefixIs
<1> QED BY <1>2, <1>7, <1>8

-----------------------------------------------------------------------------
(* DelNode and AddNode. *)

\* What assigning through pointers changes.
ClearedIn(t, l, n) ==
    /\ t \in Links /\ t.head = l.head /\ t.tail = l.tail
    /\ t.prev = [l.prev EXCEPT ![n] = NULL] /\ t.next = [l.next EXCEPT ![n] = NULL]

NextSet(t, l, p, q) ==
    /\ t \in Links /\ t.head = l.head /\ t.tail = l.tail
    /\ t.prev = l.prev /\ t.next = [l.next EXCEPT ![p] = q]

PrevSet(t, l, p, q) ==
    /\ t \in Links /\ t.head = l.head /\ t.tail = l.tail
    /\ t.next = l.next /\ t.prev = [l.prev EXCEPT ![p] = q]

LEMMA ClearedIs ==
    ASSUME NEW l \in Links, NEW n \in Node
    PROVE  ClearedIn(Cleared(l, n), l, n)
BY ClearedKeeps DEF Cleared, Links, ClearedIn

LEMMA SetIs ==
    ASSUME NEW l \in Links, NEW p \in Node, NEW q \in Pointer
    PROVE  NextSet(SetNext(l, p, q), l, p, q) /\ PrevSet(SetPrev(l, p, q), l, p, q)
<1>1. p \in Pointer /\ p # NULL
  BY DouListAssumption DEF Pointer
<1>2. SetNext(l, p, q) \in Links /\ SetPrev(l, p, q) \in Links
  BY <1>1, SetKeeps
<1> QED BY <1>1, <1>2 DEF SetNext, SetPrev, Links, NextSet, PrevSet

\* l after a node was taken out: the neighbours of the k-th node of s are linked to
\* each other, the node has none.
Unlinked(l, t, s, k) ==
    /\ t \in Links
    /\ t.head = IF Len(s) = 1 THEN NULL ELSE IF k = 1 THEN s[2] ELSE s[1]
    /\ t.tail = IF Len(s) = 1 THEN NULL ELSE IF k = Len(s) THEN s[Len(s) - 1] ELSE s[Len(s)]
    /\ t.next[s[k]] = NULL /\ t.prev[s[k]] = NULL
    /\ \A n \in Node : n # s[k] =>
          /\ t.next[n] = IF k > 1 /\ n = s[k - 1] THEN l.next[s[k]] ELSE l.next[n]
          /\ k = 1 \/ k = Len(s) \/ n # s[k + 1] => t.prev[n] = l.prev[n]
    /\ k > 1 /\ k < Len(s) => t.prev[s[k + 1]] = s[k - 1]

LEMMA RepresentsParts ==
    ASSUME NEW l, NEW s, Represents(l, s), NEW k \in 1 .. Len(s)
    PROVE  /\ l \in Links /\ Len(s) \in Nat /\ s[k] \in Node
           /\ l.next \in [Node -> Pointer] /\ l.prev \in [Node -> Pointer]
           /\ l.head = s[1] /\ l.tail = s[Len(s)] /\ s # <<>>
           /\ l.next[s[k]] = IF k = Len(s) THEN NULL ELSE s[k + 1]
           /\ k > 1 => l.prev[s[k]] = s[k - 1] /\ s[k - 1] \in Node /\ s[k - 1] # s[k] /\ s[k] # s[1]
           /\ k < Len(s) => s[k + 1] \in Node /\ s[k + 1] # s[k] /\ s[k] # s[Len(s)]
           /\ k > 1 /\ k < Len(s) => s[k - 1] # s[k + 1]
<1>1. l \in Links /\ s \in Seq(Node) /\ Len(s) \in Nat /\ Distinct(s) /\ s # <<>>
  BY DEF Represents
<1>2. 1 \in 1 .. Len(s) /\ Len(s) \in 1 .. Len(s)
  BY <1>1
<1>3. \A i \in 1 .. Len(s) : s[i] \in Node
  BY <1>1
<1>4. l.head = s[1] /\ l.tail = s[Len(s)] /\ l.next[s[k]] = IF k = Len(s) THEN NULL ELSE s[k + 1]
  BY <1>1 DEF Represents
<1>5. ASSUME k > 1
      PROVE  l.prev[s[k]] = s[k - 1] /\ s[k - 1] \in Node /\ s[k - 1] # s[k] /\ s[k] # s[1]
  <2>1. k \in 2 .. Len(s) /\ k - 1 \in 1 .. Len(s) /\ k - 1 # k /\ k # 1
    BY <1>1, <1>5
  <2> QED BY <1>1, <1>2, <1>3, <2>1 DEF Represents, Distinct
<1>6. ASSUME k < Len(s) PROVE s[k + 1] \in Node /\ s[k + 1] # s[k] /\ s[k] # s[Len(s)]
  <2>1. k + 1 \in 1 .. Len(s) /\ k + 1 # k /\ k # Len(s)
    BY <1>1, <1>6
  <2> QED BY <1>1, <1>2, <1>3, <2>1 DEF Distinct
<1>7. ASSUME k > 1, k < Len(s) PROVE s[k - 1] # s[k + 1]
  <2>1. k + 1 \in 1 .. Len(s) /\ k - 1 \in 1 .. Len(s) /\ k + 1 # k - 1
    BY <1>1, <1>7
  <2> QED BY <1>1, <2>1 DEF Distinct
<1>8. l.next \in [Node -> Pointer] /\ l.prev \in [Node -> Pointer]
  BY <1>1 DEF Links
<1> QED BY <1>1, <1>3, <1>4, <1>5, <1>6, <1>7, <1>8

LEMMA DelNodeUnlinks ==
    ASSUME NEW l, NEW s, Represents(l, s), NEW k \in 1 .. Len(s)
    PROVE  Unlinked(l, DelNode(l, s[k]), s, k)
<1> DEFINE n == s[k]
           t == DelNode(l, n)
<1>1. /\ l \in Links /\ Len(s) \in Nat /\ n \in Node
      /\ l.next \in [Node -> Pointer] /\ l.prev \in [Node -> Pointer]
      /\ l.head = s[1] /\ l.tail = s[Len(s)]
      /\ l.next[n] = IF k = Len(s) THEN NULL ELSE s[k + 1]
      /\ k > 1 => l.prev[n] = s[k - 1] /\ s[k - 1] \in Node /\ s[k - 1] # n /\ n # s[1]
      /\ k < Len(s) => s[k + 1] \in Node /\ s[k + 1] # n /\ n # s[Len(s)]
      /\ k > 1 /\ k < Len(s) => s[k - 1] # s[k + 1]
  BY RepresentsParts
<1>2. t \in Links /\ NULL \in Pointer /\ NULL \notin Node /\ Node \subseteq Pointer
  BY <1>1, DelNodeKeeps, DouListAssumption DEF Pointer
<1>3. CASE k = 1
  <2>1. t = DelHead(l, n)
    BY <1>1, <1>3 DEF DelNode
  <2>2. /\ Cleared(l, n) \in Links
        /\ Cleared(l, n).tail = l.tail
        /\ Cleared(l, n).prev = [l.prev EXCEPT ![n] = NULL]
        /\ Cleared(l, n).next = [l.next EXCEPT ![n] = NULL]
    BY <1>1, ClearedIs DEF ClearedIn
  <2>3. CASE Len(s) = 1
    <3>1. t = [Cleared(l, n) EXCEPT !.head = NULL, !.tail = NULL]
      BY <1>1, <1>3, <2>1, <2>3 DEF DelHead
    <3>2. /\ t.head = NULL /\ t.tail = NULL /\ t.prev = [l.prev EXCEPT ![n] = NULL]
          /\ t.next = [l.next EXCEPT ![n] = NULL]
      BY <2>2, <3>1 DEF Links
    <3> HIDE DEF t
    <3> QED BY <1>1, <1>2, <1>3, <2>3, <3>2 DEF Unlinked, t
  <2>4. CASE Len(s) # 1
    <3>1. l.next[n] = s[2] /\ s[2] \in Node
      <4>1. k < Len(s) /\ k # Len(s) /\ k + 1 = 2
        BY <1>1, <1>3, <2>4
      <4> QED BY <1>1, <4>1
    <3>2. t = [Cleared(l, n) EXCEPT !.head = s[2]]
      BY <1>2, <2>1, <3>1 DEF DelHead
    <3>3. /\ t.head = s[2] /\ t.tail = l.tail /\ t.prev = [l.prev EXCEPT ![n] = NULL]
          /\ t.next = [l.next EXCEPT ![n] = NULL]
      BY <2>2, <3>2 DEF Links
    <3> HIDE DEF t
    <3> QED BY <1>1, <1>2, <1>3, <2>4, <3>3 DEF Unlinked, t
  <2> QED BY <2>3, <2>4
<1>4. CASE k > 1 /\ k = Len(s)
  <2> DEFINE p == s[k - 1]
             a == [l EXCEPT !.tail = p]
             b == SetNext(a, p, NULL)
  <2>1. p \in Node /\ p # n /\ l.prev[n] = p /\ l.head # n /\ l.tail = n
    BY <1>1, <1>4
  <2>2. t = Cleared(b, n)
    BY <2>1 DEF DelNode, DelTail
  <2> HIDE DEF p
  <2>3. a \in Links /\ a.head = l.head /\ a.tail = p /\ a.prev = l.prev /\ a.next = l.next
    BY <1>1, <1>2, <2>1 DEF Links
  <2> HIDE DEF a
  <2>4. b \in Links /\ b.head = l.head /\ b.tail = p /\ b.prev = l.prev /\ b.next = [l.next EXCEPT ![p] = NULL]
    <3>1. NextSet(b, a, p, NULL)
      BY <1>2, <2>1, <2>3, SetIs
    <3> HIDE DEF b
    <3> QED BY <2>3, <3>1 DEF NextSet
  <2> HIDE DEF b
  <2>5. /\ t.head = l.head /\ t.tail = p /\ t.prev = [l.prev EXCEPT ![n] = NULL]
        /\ t.next = [[l.next EXCEPT ![p] = NULL] EXCEPT ![n] = NULL]
    <3>1. ClearedIn(t, b, n)
      BY <1>1, <2>2, <2>4, ClearedIs
    <3> HIDE DEF t
    <3> QED BY <2>4, <3>1 DEF ClearedIn
  <2> HIDE DEF t
  <2> QED BY <1>1, <1>2, <1>4, <2>1, <2>5 DEF Unlinked, t, p
<1>5. CASE k > 1 /\ k < Len(s)
  <2> DEFINE p == s[k - 1]
             q == s[k + 1]
             a == SetPrev(l, q, p)
             b == SetNext(a, p, q)
  <2>1. /\ p \in Node /\ p # n /\ l.prev[n] = p /\ q \in Node /\ q # n /\ l.next[n] = q /\ p # q
        /\ l.head # n /\ l.tail # n
    BY <1>1, <1>5
  <2>2. t = Cleared(b, n)
    BY <2>1 DEF DelNode, DelMiddle
  <2> HIDE DEF p, q
  <2>3. /\ a \in Links /\ a.head = l.head /\ a.tail = l.tail /\ a.next = l.next
        /\ a.prev = [l.prev EXCEPT ![q] = p]
    <3>1. p \in Pointer
      BY <1>2, <2>1
    <3>2. PrevSet(a, l, q, p)
      BY <1>1, <2>1, <3>1, SetIs
    <3> HIDE DEF a
    <3> QED BY <3>2 DEF PrevSet
  <2> HIDE DEF a
  <2>4. /\ b \in Links /\ b.head = l.head /\ b.tail = l.tail /\ b.next = [l.next EXCEPT ![p] = q]
        /\ b.prev = [l.prev EXCEPT ![q] = p]
    <3>1. NextSet(b, a, p, q)
      BY <1>2, <2>1, <2>3, SetIs
    <3> HIDE DEF b
    <3> QED BY <2>3, <3>1 DEF NextSet
  <2> HIDE DEF b
  <2>5. /\ t.head = l.head /\ t.tail = l.tail
        /\ t.prev = [[l.prev EXCEPT ![q] = p] EXCEPT ![n] = NULL]
        /\ t.next = [[l.next EXCEPT ![p] = q] EXCEPT ![n] = NULL]
    <3>1. ClearedIn(t, b, n)
      BY <1>1, <2>2, <2>4, ClearedIs
    <3> HIDE DEF t
    <3> QED BY <2>4, <3>1 DEF ClearedIn
  <2> HIDE DEF t
  <2> QED BY <1>1, <1>2, <1>5, <2>1, <2>5 DEF Unlinked, t, p, q
<1> QED BY <1>1, <1>3, <1>4, <1>5

\* Taking out the k-th node of the list takes its place out.
LEMMA UnlinkedIs ==
    ASSUME NEW l, NEW s, Represents(l, s), NEW k \in 1 .. Len(s), NEW t, Unlinked(l, t, s, k)
    PROVE  Represents(t, RemoveAt(s, k))
<1> DEFINE r == RemoveAt(s, k)
           m == Len(s)
<1>1. l \in Links /\ s \in Seq(Node) /\ Distinct(s) /\ m \in Nat /\ m >= 1 /\ k \in Nat
  BY DEF Represents
<1>2. r \in Seq(Node) /\ Len(r) = m - 1 /\ \A i \in 1 .. m - 1 : r[i] = s[Skip(k, i)]
  BY <1>1, RemoveAtSkips
<1>3. /\ \A i \in 1 .. m : l.next[s[i]] = IF i = m THEN NULL ELSE s[i + 1]
      /\ \A i \in 2 .. m : l.prev[s[i]] = s[i - 1]
      /\ \A n \in Node : (\A i \in 1 .. m : s[i] # n) => l.next[n] = NULL /\ l.prev[n] = NULL
  BY DEF Represents
<1>4. /\ t \in Links
      /\ t.head = IF m = 1 THEN NULL ELSE IF k = 1 THEN s[2] ELSE s[1]
      /\ t.tail = IF m = 1 THEN NULL ELSE IF k = m THEN s[m - 1] ELSE s[m]
      /\ t.next[s[k]] = NULL /\ t.prev[s[k]] = NULL
      /\ \A n \in Node : n # s[k] =>
            /\ t.next[n] = IF k > 1 /\ n = s[k - 1] THEN l.next[s[k]] ELSE l.next[n]
            /\ k = 1 \/ k = m \/ n # s[k + 1] => t.prev[n] = l.prev[n]
      /\ k > 1 /\ k < m => t.prev[s[k + 1]] = s[k - 1]
  BY DEF Unlinked
<1>5. \A i \in 1 .. m : s[i] \in Node
  BY <1>1
<1>6. \A i, j \in 1 .. m : s[i] = s[j] => i = j
  BY DEF Represents, Distinct
<1>7. \A i \in 1 .. m - 1 : /\ Skip(k, i) = (IF i < k THEN i ELSE i + 1)
                            /\ Skip(k, i) \in 1 .. m /\ Skip(k, i) # k
  BY <1>1 DEF Skip
<1>8. Distinct(r)
  <2>1. \A i, j \in 1 .. m - 1 : i # j => Skip(k, i) # Skip(k, j)
    BY <1>1 DEF Skip
  <2> QED BY <1>2, <1>6, <1>7, <2>1 DEF Distinct
<1> HIDE DEF r, m
<1>9. t.head = IF r = <<>> THEN NULL ELSE r[1]
  <2>1. CASE m = 1
    BY <1>2, <1>4, <2>1
  <2>2. CASE m # 1
    <3>1. 1 \in 1 .. m - 1 /\ r # <<>>
      BY <1>1, <1>2, <2>2
    <3>2. r[1] = IF k = 1 THEN s[2] ELSE s[1]
      BY <1>1, <1>2, <1>7, <3>1, k = 1 \/ 1 < k DEF m
    <3> QED BY <1>4, <2>2, <3>1, <3>2
  <2> QED BY <2>1, <2>2
<1>10. t.tail = IF r = <<>> THEN NULL ELSE r[Len(r)]
  <2>1. CASE m = 1
    BY <1>2, <1>4, <2>1
  <2>2. CASE m # 1
    <3>1. m - 1 \in 1 .. m - 1 /\ r # <<>> /\ Len(r) = m - 1
      BY <1>1, <1>2, <2>2
    <3>2. Skip(k, m - 1) = IF k = m THEN m - 1 ELSE m
      BY <1>1, <1>7, <3>1 DEF m
    <3> QED BY <1>2, <1>4, <2>2, <3>1, <3>2
  <2> QED BY <2>1, <2>2
<1>11. ASSUME NEW i \in 1 .. m - 1
       PROVE  t.next[r[i]] = IF i = m - 1 THEN NULL ELSE r[i + 1]
  <2>1. i \in 1 .. m /\ i \in Nat /\ r[i] = s[Skip(k, i)] /\ k \in 1 .. m
    BY <1>1, <1>2 DEF m
  <2>2. i # m - 1 => i + 1 \in 1 .. m - 1 /\ r[i + 1] = s[Skip(k, i + 1)]
    BY <1>1, <1>2
  <2>3. CASE i < k
    <3>1. r[i] = s[i] /\ s[i] \in Node /\ s[i] # s[k]
      BY <1>5, <1>6, <1>7, <2>1, <2>3
    <3>2. CASE i = k - 1
      <4>1. k > 1 /\ t.next[s[i]] = l.next[s[k]]
        BY <1>1, <1>4, <2>1, <3>1, <3>2
      <4>2. (i = m - 1 <=> k = m) /\ (i # m - 1 => Skip(k, i + 1) = k + 1)
        BY <1>1, <1>7, <2>1, <2>2, <3>2
      <4> QED BY <1>3, <2>1, <2>2, <3>1, <4>1, <4>2
    <3>3. CASE i # k - 1
      <4>1. k > 1 => k - 1 \in 1 .. m
        BY <1>1, <2>1
      <4>2. t.next[s[i]] = l.next[s[i]]
        BY <1>4, <1>6, <2>1, <3>1, <3>3, <4>1
      <4>3. i # m /\ i # m - 1 /\ i + 1 < k
        BY <1>1, <2>1, <2>3, <3>3
      <4> QED BY <1>3, <1>7, <2>1, <2>2, <3>1, <4>2, <4>3
    <3> QED BY <3>2, <3>3
  <2>4. CASE ~ (i < k)
    <3>1. r[i] = s[i + 1] /\ i + 1 \in 1 .. m /\ i + 1 # k
      BY <1>1, <1>7, <2>1, <2>4
    <3>2. s[i + 1] \in Node /\ s[i + 1] # s[k]
      BY <1>5, <1>6, <2>1, <3>1
    <3>3. k > 1 => k - 1 \in 1 .. m /\ i + 1 # k - 1
      BY <1>1, <2>1, <2>4
    <3>4. t.next[s[i + 1]] = l.next[s[i + 1]]
      BY <1>4, <1>6, <3>1, <3>2, <3>3
    <3>5. (i = m - 1 <=> i + 1 = m) /\ (i + 1) + 1 = i + 2
      BY <1>1, <2>1
    <3>6. i # m - 1 => Skip(k, i + 1) = i + 2
      BY <1>1, <1>7, <2>1, <2>2, <2>4, <3>5
    <3> QED BY <1>3, <2>2, <3>1, <3>4, <3>5, <3>6
  <2> QED BY <2>3, <2>4
<1>12. ASSUME NEW i \in 2 .. m - 1
       PROVE  t.prev[r[i]] = r[i - 1]
  <2>1. /\ i \in 1 .. m - 1 /\ i \in 1 .. m /\ i - 1 \in 1 .. m - 1 /\ k \in 1 .. m
        /\ r[i] = s[Skip(k, i)] /\ r[i - 1] = s[Skip(k, i - 1)]
    BY <1>1, <1>2 DEF m
  <2>2. k < m => k + 1 \in 1 .. m
    BY <1>1, <2>1
  <2>3. CASE i < k
    <3>1. r[i] = s[i] /\ r[i - 1] = s[i - 1] /\ s[i] \in Node /\ s[i] # s[k] /\ i # k + 1
      BY <1>1, <1>5, <1>6, <1>7, <2>1, <2>3
    <3>2. k = m \/ s[i] # s[k + 1]
      BY <1>1, <1>6, <2>1, <2>2, <3>1
    <3>3. l.prev[s[i]] = s[i - 1]
      BY <1>1, <1>3, <2>1
    <3>4. t.prev[s[i]] = l.prev[s[i]]
      BY <1>4, <3>1, <3>2
    <3> QED BY <3>1, <3>3, <3>4
  <2>4. CASE i = k
    <3>1. k > 1 /\ k < m /\ r[i] = s[k + 1] /\ r[i - 1] = s[k - 1]
      BY <1>1, <1>7, <2>1, <2>4
    <3> QED BY <1>4, <3>1
  <2>5. CASE i > k
    <3>1. /\ r[i] = s[i + 1] /\ r[i - 1] = s[i] /\ i + 1 \in 2 .. m /\ (i + 1) - 1 = i
          /\ i + 1 # k /\ i + 1 # k + 1 /\ i + 1 \in 1 .. m
      <4>1. ~ (i < k) /\ ~ (i - 1 < k) /\ (i - 1) + 1 = i
        BY <1>1, <2>1, <2>5
      <4> QED BY <1>1, <1>7, <2>1, <2>5, <4>1
    <3>2. s[i + 1] \in Node /\ s[i + 1] # s[k]
      BY <1>5, <1>6, <2>1, <3>1
    <3>3. k = m \/ s[i + 1] # s[k + 1]
      BY <1>1, <1>6, <2>1, <2>2, <3>1
    <3>4. l.prev[s[i + 1]] = s[i]
      BY <1>3, <3>1
    <3>5. t.prev[s[i + 1]] = l.prev[s[i + 1]]
      BY <1>4, <3>2, <3>3
    <3> QED BY <3>1, <3>4, <3>5
  <2> QED BY <1>1, <2>1, <2>3, <2>4, <2>5
<1>13. ASSUME NEW n \in Node, \A i \in 1 .. m - 1 : r[i] # n
       PROVE  t.next[n] = NULL /\ t.prev[n] = NULL
  <2>1. CASE n = s[k]
    BY <1>4, <2>1
  <2>2. CASE n # s[k]
    <3>1. ASSUME NEW p \in 1 .. m PROVE s[p] # n
      <4>1. CASE p < k
        <5>1. p \in 1 .. m - 1
          BY <1>1, <4>1 DEF m
        <5> QED BY <1>2, <1>7, <1>13, <4>1, <5>1
      <4>2. CASE p > k
        <5>1. p - 1 \in 1 .. m - 1 /\ ~ (p - 1 < k) /\ (p - 1) + 1 = p
          BY <1>1, <4>2 DEF m
        <5> QED BY <1>2, <1>7, <1>13, <5>1
      <4>3. p < k \/ p > k \/ p = k
        BY <1>1
      <4> QED BY <2>2, <4>1, <4>2, <4>3
    <3>2. l.next[n] = NULL /\ l.prev[n] = NULL
      BY <1>3, <3>1
    <3>3. k > 1 => s[k - 1] # n
      <4>1. k > 1 => k - 1 \in 1 .. m
        BY <1>1 DEF m
      <4> QED BY <3>1, <4>1
    <3>4. k < m => s[k + 1] # n
      <4>1. k < m => k + 1 \in 1 .. m
        BY <1>1 DEF m
      <4> QED BY <3>1, <4>1
    <3>5. k = m \/ k < m
      BY <1>1 DEF m
    <3> QED BY <1>4, <2>2, <3>2, <3>3, <3>4, <3>5
  <2> QED BY <2>1, <2>2
<1>14. Represents(t, r)
  BY <1>2, <1>4, <1>8, <1>9, <1>10, <1>11, <1>12, <1>13 DEF Represents
<1> QED BY <1>14 DEF r

\* A node that is not in the list has no pointers to clear.
LEMMA DelNodeSpares ==
    ASSUME NEW l, NEW s, Represents(l, s), NEW n \in Node, \A i \in 1 .. Len(s) : s[i] # n
    PROVE  Represents(DelNode(l, n), s)
<1> DEFINE t == DelNode(l, n)
<1>1. /\ l \in Links /\ s \in Seq(Node) /\ Len(s) \in Nat
      /\ l.next[n] = NULL /\ l.prev[n] = NULL
      /\ l.head = (IF s = <<>> THEN NULL ELSE s[1])
      /\ l.tail = IF s = <<>> THEN NULL ELSE s[Len(s)]
  BY DEF Represents
<1>2. l.head # n /\ l.tail # n
  <2>1. s # <<>> => 1 \in 1 .. Len(s) /\ Len(s) \in 1 .. Len(s)
    BY <1>1
  <2> QED BY <1>1, <2>1, DouListAssumption
<1>3. t = Cleared(l, n)
  BY <1>1, <1>2 DEF DelNode, DelMiddle, SetNext, SetPrev
<1> HIDE DEF t
<1>4. ClearedIn(t, l, n)
  BY <1>1, <1>3, ClearedIs
<1>5. l.next \in [Node -> Pointer] /\ l.prev \in [Node -> Pointer]
  BY <1>1 DEF Links
<1>6. t \in Links /\ t.head = l.head /\ t.tail = l.tail /\ t.prev = l.prev /\ t.next = l.next
  BY <1>1, <1>4, <1>5 DEF ClearedIn
<1>7. Represents(t, s)
  BY <1>6 DEF Represents
<1> QED BY <1>7 DEF t

\* A node that is not in the list is added at its end.
LEMMA AddNodeAppends ==
    ASSUME NEW l, NEW s, Represents(l, s), NEW n \in Node, \A i \in 1 .. Len(s) : s[i] # n
    PROVE  Represents(AddNode(l, n), Append(s, n))
<1> DEFINE t == AddNode(l, n)
           r == Append(s, n)
           a == Cleared(l, n)
           m == Len(s)
<1>1. /\ l \in Links /\ s \in Seq(Node) /\ m \in Nat /\ Distinct(s)
      /\ l.head = (IF s = <<>> THEN NULL ELSE s[1])
      /\ l.tail = (IF s = <<>> THEN NULL ELSE s[m])
      /\ \A i \in 1 .. m : l.next[s[i]] = IF i = m THEN NULL ELSE s[i + 1]
      /\ \A i \in 2 .. m : l.prev[s[i]] = s[i - 1]
      /\ \A e \in Node : (\A i \in 1 .. m : s[i] # e) => l.next[e] = NULL /\ l.prev[e] = NULL
  BY DEF Represents
<1>2. r \in Seq(Node) /\ Len(r) = m + 1 /\ r[m + 1] = n /\ \A i \in 1 .. m : r[i] = s[i]
  BY <1>1
<1>3. \A i \in 1 .. m + 1 : i \in 1 .. m \/ i = m + 1
  BY <1>1
<1>4. \A i \in 1 .. m : s[i] \in Node
  BY <1>1
<1>5. Distinct(r)
  BY <1>1, <1>2, <1>3 DEF Distinct
<1>6. l.next \in [Node -> Pointer] /\ l.prev \in [Node -> Pointer] /\ l.tail \in Pointer
  BY <1>1 DEF Links
<1>7. t \in Links
  BY <1>1, AddNodeKeeps
<1> HIDE DEF a, r
<1>8. /\ a \in Links /\ a.head = l.head /\ a.tail = l.tail
      /\ a.prev = [l.prev EXCEPT ![n] = NULL] /\ a.next = [l.next EXCEPT ![n] = NULL]
  <2>1. ClearedIn(a, l, n)
    BY <1>1, ClearedIs DEF a
  <2> QED BY <2>1 DEF ClearedIn
<1>9. a.next \in [Node -> Pointer] /\ a.prev \in [Node -> Pointer]
  BY <1>8 DEF Links
<1>10. CASE s = <<>>
  <2>1. t = [a EXCEPT !.head = n, !.tail = n]
    BY <1>1, <1>10 DEF AddNode, a
  <2>2. t.head = n /\ t.tail = n /\ t.prev = a.prev /\ t.next = a.next
    BY <1>8, <2>1 DEF Links
  <2>3. m = 0 /\ Len(r) = 1 /\ r[1] = n /\ r # <<>>
    <3>1. m = 0
      BY <1>10
    <3> HIDE DEF m
    <3>2. Len(r) = 1 /\ r[1] = n
      BY <1>2, <3>1
    <3> QED BY <3>1, <3>2
  <2>4. \A e \in Node : a.next[e] = NULL /\ a.prev[e] = NULL
    BY <1>1, <1>6, <1>8, <2>3
  <2> HIDE DEF t, m
  <2>5. \A i \in 1 .. Len(r) : i = 1
    BY <2>3
  <2>6. \A i \in 2 .. Len(r) : FALSE
    BY <2>3
  <2>7. Represents(t, r)
    BY <1>2, <1>5, <1>7, <2>2, <2>3, <2>4, <2>5, <2>6 DEF Represents
  <2> QED BY <2>7 DEF t, r
<1>11. CASE s # <<>>
  <2> DEFINE p == s[m]
             b == SetNext(a, p, n)
  <2>1. m \in 1 .. m /\ m # 0
    BY <1>1, <1>11
  <2>2. p \in Node /\ p # n /\ l.tail = p /\ p # NULL /\ n \in Pointer
    BY <1>1, <1>4, <1>11, <2>1, DouListAssumption DEF Pointer
  <2>3. t = [b EXCEPT !.prev[n] = l.tail, !.tail = n]
    BY <2>2 DEF AddNode, a
  <2> HIDE DEF p
  <2>4. /\ b \in Links /\ b.head = l.head /\ b.prev = a.prev
        /\ b.next = [a.next EXCEPT ![p] = n]
    <3>1. NextSet(b, a, p, n)
      BY <1>8, <2>2, SetIs
    <3> HIDE DEF b
    <3> QED BY <1>8, <3>1 DEF NextSet
  <2> HIDE DEF b
  <2>5. /\ t.head = l.head /\ t.tail = n /\ t.next = b.next
        /\ t.prev = [b.prev EXCEPT ![n] = p]
    BY <2>2, <2>3, <2>4 DEF Links
  <2> HIDE DEF t
  <2>6. \A e \in Node : /\ t.next[e] = IF e = p THEN n ELSE IF e = n THEN NULL ELSE l.next[e]
                        /\ t.prev[e] = IF e = n THEN p ELSE l.prev[e]
    BY <1>6, <1>8, <1>9, <2>2, <2>4, <2>5
  <2> HIDE DEF m
  <2>7. r # <<>> /\ t.head = r[1] /\ t.tail = r[Len(r)]
    <3>1. 1 \in 1 .. m
      BY <1>1, <2>1
    <3> QED BY <1>1, <1>2, <1>11, <2>5, <3>1
  <2>8. ASSUME NEW i \in 1 .. Len(r)
        PROVE  t.next[r[i]] = IF i = Len(r) THEN NULL ELSE r[i + 1]
    <3>1. CASE i = m + 1
      BY <1>2, <2>2, <2>6, <3>1
    <3>2. CASE i \in 1 .. m /\ i = m
      BY <1>1, <1>2, <2>1, <2>2, <2>6, <3>2 DEF p
    <3>3. CASE i \in 1 .. m /\ i # m
      <4>1. i + 1 \in 1 .. m /\ i # m + 1
        BY <1>1, <3>3
      <4>2. s[i] # p /\ s[i] # n /\ s[i] \in Node
        BY <1>1, <1>4, <2>1, <3>3 DEF p, Distinct, m
      <4>3. l.next[s[i]] = s[i + 1]
        BY <1>1, <3>3
      <4>4. t.next[s[i]] = l.next[s[i]]
        BY <2>6, <4>2
      <4> QED BY <1>2, <3>3, <4>1, <4>3, <4>4
    <3> QED BY <1>2, <1>3, <3>1, <3>2, <3>3
  <2>9. ASSUME NEW i \in 2 .. Len(r)
        PROVE  t.prev[r[i]] = r[i - 1]
    <3>1. i \in 1 .. Len(r)
      BY <1>1, <1>2
    <3>2. CASE i = m + 1
      <4>1. i - 1 = m
        BY <1>1, <3>2
      <4> QED BY <1>2, <2>1, <2>6, <3>2, <4>1 DEF p
    <3>3. CASE i \in 1 .. m
      <4>1. i \in 2 .. m /\ i - 1 \in 1 .. m
        BY <1>1, <3>3
      <4>2. s[i] # n /\ s[i] \in Node
        BY <1>4, <3>3 DEF m
      <4>3. l.prev[s[i]] = s[i - 1]
        BY <1>1, <4>1
      <4>4. t.prev[s[i]] = l.prev[s[i]]
        BY <2>6, <4>2
      <4> QED BY <1>2, <3>3, <4>1, <4>3, <4>4
    <3> QED BY <1>2, <1>3, <3>1, <3>2, <3>3
  <2>10. ASSUME NEW e \in Node, \A i \in 1 .. Len(r) : r[i] # e
         PROVE  t.next[e] = NULL /\ t.prev[e] = NULL
    <3>1. \A i \in 1 .. m : i \in 1 .. Len(r) /\ m + 1 \in 1 .. Len(r)
      BY <1>1, <1>2
    <3>2. e # n /\ e # p /\ \A i \in 1 .. m : s[i] # e
      BY <1>2, <2>1, <2>10, <3>1 DEF p
    <3> QED BY <1>1, <2>6, <3>2
  <2>11. Represents(t, r)
    BY <1>2, <1>5, <1>7, <2>7, <2>8, <2>9, <2>10 DEF Represents
  <2> QED BY <2>11 DEF t, r
<1> QED BY <1>10, <1>11

\* DelNode is RemoveFirst.
LEMMA DelNodeRemoves ==
    ASSUME NEW l, NEW s, Represents(l, s), NEW n \in Node
    PROVE  Represents(DelNode(l, n), RemoveFirst(s, n)) /\ n \notin ToSet(RemoveFirst(s, n))
<1>1. s \in Seq(Node) /\ Distinct(s)
  BY DEF Represents
<1>2. ASSUME NEW k \in 1 .. Len(s), s[k] = n, RemoveFirst(s, n) = RemoveAt(s, k)
      PROVE  Represents(DelNode(l, n), RemoveFirst(s, n))
  <2>1. Unlinked(l, DelNode(l, n), s, k)
    BY <1>2, DelNodeUnlinks
  <2> QED BY <1>2, <2>1, UnlinkedIs
<1>3. ASSUME n \notin ToSet(s), RemoveFirst(s, n) = s
      PROVE  Represents(DelNode(l, n), RemoveFirst(s, n))
  <2>1. \A i \in 1 .. Len(s) : s[i] # n
    BY <1>1, <1>3 DEF ToSet
  <2> QED BY <1>3, <2>1, DelNodeSpares
<1>4. n \notin ToSet(RemoveFirst(s, n))
  BY <1>1, RemoveFirstKeeps
<1> QED BY <1>1, <1>2, <1>3, <1>4, RemoveFirstIs

\* DelNode and AddNode after it are Touched.
LEMMA UpdateNodeTouches ==
    ASSUME NEW l, NEW s, Represents(l, s), NEW n \in Node
    PROVE  Represents(AddNode(DelNode(l, n), n), Append(RemoveFirst(s, n), n))
<1> DEFINE t == DelNode(l, n)
           r == RemoveFirst(s, n)
<1>1. Represents(t, r) /\ n \notin ToSet(r)
  BY DelNodeRemoves
<1> HIDE DEF t, r
<1>2. r \in Seq(Node)
  BY <1>1 DEF Represents
<1>3. \A i \in 1 .. Len(r) : r[i] # n
  BY <1>1, <1>2 DEF ToSet
<1>4. Represents(AddNode(t, n), Append(r, n))
  BY <1>1, <1>3, AddNodeAppends
<1> QED BY <1>4 DEF t, r

\* Without its head the list is its tail.
LEMMA RemoveHead ==
    ASSUME NEW s \in Seq(Node), Distinct(s), s # <<>>
    PROVE  RemoveFirst(s, s[1]) = Tail(s)
<1>1. Len(s) \in Nat /\ 1 \in 1 .. Len(s)
  OBVIOUS
<1>2. s[1] \in ToSet(s)
  BY <1>1 DEF ToSet
<1>3. PICK k \in 1 .. Len(s) : s[k] = s[1] /\ RemoveFirst(s, s[1]) = RemoveAt(s, k)
  BY <1>2, RemoveFirstIs
<1>4. k = 1
  BY <1>1, <1>3 DEF Distinct
<1>5. /\ RemoveAt(s, 1) \in Seq(Node) /\ Len(RemoveAt(s, 1)) = Len(s) - 1
      /\ \A i \in 1 .. Len(s) - 1 : RemoveAt(s, 1)[i] = s[Skip(1, i)]
  BY <1>1, RemoveAtSkips
<1>6. \A i \in 1 .. Len(s) - 1 : Skip(1, i) = i + 1
  BY <1>1 DEF Skip
<1>7. Tail(s) \in Seq(Node) /\ Len(Tail(s)) = Len(s) - 1 /\ \A i \in 1 .. Len(s) - 1 : Tail(s)[i] = s[i + 1]
  BY <1>1
<1>8. RemoveAt(s, 1) = Tail(s)
  BY <1>5, <1>6, <1>7, SeqEqual
<1> QED BY <1>3, <1>4, <1>8

-----------------------------------------------------------------------------
(* The list of an event loop. *)

\* IdleList takes its operators from an instance of its own.
LEMMA SameRemoval ==
    ASSUME NEW s, NEW n
    PROVE  List!RemoveFirst(s, n) = RemoveFirst(s, n)
<1> DEFINE I == {i \in 1 .. Len(s) : s[i] = n}
<1>1. RemoveFirst(s, n) = IF I # {} THEN RemoveAt(s, Min(I)) ELSE s
  BY DEF RemoveFirst, SelectInSeq
<1>2. List!RemoveFirst(s, n) = IF I # {} THEN List!RemoveAt(s, List!Min(I)) ELSE s
  BY DEF List!RemoveFirst, List!SelectInSeq
<1>3. Min(I) = List!Min(I)
  BY DEF Min, List!Min
<1>4. \A i : RemoveAt(s, i) = List!RemoveAt(s, i)
  BY DEF RemoveAt, List!RemoveAt
<1> HIDE DEF I
<1> QED BY <1>1, <1>2, <1>3, <1>4

\* The pointers make up a list, and CheckNodeList is at its head.
ListInv == CursorInv /\ \E s : Represents(links, s)

\* The pointers implement the list an event loop expects: to hear from a connection
\* moves it to the end, to lose it takes it out, to find the first one expired
\* takes the head out, and nothing else changes the order (DouList::UpdateNode,
\* DelNode, CheckNodeList).
THEOREM PointersMakeAList == ListSpec => ImplementsIdleList
<1>1. ListInit => ListInv /\ List!Init
  <2> SUFFICES ASSUME ListInit PROVE ListInv /\ List!Init
    OBVIOUS
  <2>1. CursorInv
    BY CursorInit
  <2> DEFINE none == [n \in Node |-> NULL]
  <2>2. links = [head |-> NULL, tail |-> NULL, prev |-> none, next |-> none]
    BY DEF ListInit
  <2>3. \A n \in Node : none[n] = NULL
    OBVIOUS
  <2> HIDE DEF none
  <2>4. Represents(links, <<>>)
    <3>1. /\ links \in Links /\ links.head = NULL /\ links.tail = NULL
          /\ links.prev = none /\ links.next = none
      BY <2>1, <2>2 DEF CursorInv
    <3>2. <<>> \in Seq(Node) /\ Distinct(<<>>) /\ Len(<<>>) = 0
      BY DEF Distinct
    <3>3. \A i \in 1 .. Len(<<>>) : FALSE
      BY <3>2
    <3>4. \A i \in 2 .. Len(<<>>) : FALSE
      BY <3>2
    <3> QED BY <2>3, <3>1, <3>2, <3>3, <3>4 DEF Represents
  <2>5. Forward = <<>>
    BY <2>4, ForwardIs DEF Forward
  <2> QED BY <2>1, <2>4, <2>5 DEF ListInv, List!Init
<1>2. ListInv /\ [ListNext]_listVars => ListInv' /\ [List!Next]_Forward
  <2> SUFFICES ASSUME ListInv, [ListNext]_listVars PROVE ListInv' /\ [List!Next]_Forward
    OBVIOUS
  <2>1. CursorInv /\ CursorInv'
    BY CursorStep DEF ListInv
  <2>2. PICK s : Represents(links, s)
    BY DEF ListInv
  <2>3. Forward = s /\ s \in Seq(Node) /\ Distinct(s)
    BY <2>2, ForwardIs DEF Forward, Represents
  <2>4. ASSUME NEW r, Represents(links', r) PROVE ListInv' /\ Forward' = r
    BY <2>1, <2>4, ForwardIs DEF Forward, ListInv
  <2>5. ASSUME NEW n \in Node, UpdateNode(n) PROVE ListInv' /\ [List!Next]_Forward
    <3>1. Represents(links', Append(RemoveFirst(s, n), n))
      BY <2>2, <2>5, UpdateNodeTouches DEF UpdateNode
    <3>2. Forward' = List!Touched(Forward, n) /\ ListInv'
      BY <2>3, <2>4, <3>1, SameRemoval DEF List!Touched
    <3> QED BY <3>2 DEF List!Next, List!Touch
  <2>6. ASSUME NEW n \in Node, DelConn(n) PROVE ListInv' /\ [List!Next]_Forward
    <3>1. Represents(links', RemoveFirst(s, n))
      BY <2>2, <2>6, DelNodeRemoves DEF DelConn
    <3>2. Forward' = List!RemoveFirst(Forward, n) /\ ListInv'
      BY <2>3, <2>4, <3>1, SameRemoval
    <3> QED BY <3>2 DEF List!Next, List!Drop
  <2>7. CASE CheckExpired
    <3>1. links' = DelNode(links, cursor) /\ cursor = links.head /\ cursor # NULL
      BY <2>1, <2>7 DEF CheckExpired, CursorInv, CursorAtHead
    <3>2. s # <<>> /\ cursor = s[1] /\ cursor \in Node
      <4>1. s # <<>> /\ cursor = s[1]
        BY <2>2, <3>1 DEF Represents
      <4> QED BY <2>3, <4>1
    <3>3. Represents(links', RemoveFirst(s, s[1]))
      BY <2>2, <3>1, <3>2, DelNodeRemoves
    <3>4. Forward' = Tail(Forward) /\ Forward # <<>> /\ ListInv'
      BY <2>3, <2>4, <3>2, <3>3, RemoveHead
    <3> QED BY <3>4 DEF List!Next, List!Expire
  <2>8. ASSUME UNCHANGED links PROVE ListInv' /\ [List!Next]_Forward
    <3>1. Represents(links', s)
      BY <2>2, <2>8
    <3> QED BY <2>3, <2>4, <3>1
  <2>9. CheckNodeList \/ CheckEnds \/ UNCHANGED listVars => UNCHANGED links
    BY DEF CheckNodeList, CheckEnds, listVars
  <2> QED BY <2>5, <2>6, <2>7, <2>8, <2>9 DEF ListNext
<1> QED BY <1>1, <1>2, PTL DEF ListSpec, ImplementsIdleList, List!Spec
=============================================================================
