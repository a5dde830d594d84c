------------------------------ MODULE IpcProofs ------------------------------
(***************************************************************************)
(* Proofs about IpcServer, for any connections, capacities and bounds.     *)
(*                                                                         *)
(* The inductive invariant describes one connection at a time.  Its parts  *)
(* are predicates of plain values, so that what an action does to a queue  *)
(* is a lemma about sequences; the theorems put the actions together.      *)
(***************************************************************************)
EXTENDS IpcServer, TLAPS

Pieces == [n : Nat, kind : Kinds, part : Parts]

Lines == [type : LineTypes, n : Nat]

\* A WebSocket connection has no forwarder and no partial line.
LineOf(c) == IF c \in Unix THEN line[c] ELSE <<>>

LocalOf(c) == IF c \in Unix THEN local[c] ELSE <<>>

HeldOf(c) == IF c \in Unix THEN held[c] ELSE 0

\* Where the task is decides what it holds: a message to write, a request in
\* the handler, part of a line, and before it starts nothing at all.
TaskInv(c) ==
  /\ pending[c] # <<>> <=> phase[c] = "write"
  /\ Len(pending[c]) <= 1
  /\ current[c] # 0 <=> phase[c] = "handle"
  /\ LineOf(c) # <<>> => phase[c] = "select"
  /\ phase[c] \in {"none", "backlog", "handshake"} =>
       /\ out[c] = <<>> /\ dropped[c] = {}
       /\ LocalOf(c) = <<>> /\ HeldOf(c) = 0
       /\ c \in Unix => fwd[c] = "none"
  /\ phase[c] = "handshake" => rx[c] = base[c]
  /\ c \in Unix => (held[c] # 0 <=> fwd[c] = "send")
  /\ c \in OneShot => read[c] <= 1
  /\ c \in Ws => ~half[c] /\ \A i \in DOMAIN up[c] : up[c][i].part = "whole"

\* The numbers on their way: those written, w, are below those queued, q,
\* and these below the one the forwarder holds, h; all are after b and none
\* is past the receiver, r.
EventOrder(w, b, r, q, h) ==
  /\ b <= r
  /\ \A e \in w : b < e /\ e <= r
  /\ \A i \in DOMAIN q :
       /\ b < q[i] /\ q[i] <= r
       /\ \A e \in w : e < q[i]
       /\ h # 0 => q[i] < h
       /\ \A j \in DOMAIN q : i < j => q[i] < q[j]
  /\ h # 0 => /\ b < h /\ h <= r
              /\ \A e \in w : e < h

EventInv(c) ==
  /\ rx[c] <= published
  /\ InOrder(Toward(c), {"event"})
  /\ EventOrder(Written(c), base[c], rx[c], LocalOf(c), HeldOf(c))
  /\ phase[c] \in Serving \cup {"handshake"} =>
       (base[c] + 1)..published =
         Written(c) \cup (rx[c] + 1)..published \cup Range(LocalOf(c))
           \cup ({HeldOf(c)} \ {0}) \cup dropped[c]

\* What a client of n messages, the requests in a among them complete, has
\* put on the way, u, after the beginning of a line, l; h says that a request
\* is still incomplete.  A head is followed by its tail, or is the last piece
\* and incomplete; but for tails the numbers ascend.
PieceOK(u, i, n, a, h) ==
  /\ u[i].n \in 1..n
  /\ u[i].kind = "request" /\ u[i].part # "head" => u[i].n \in a
  /\ u[i].kind # "request" => u[i].part = "whole" /\ u[i].n \notin a
  /\ u[i].part = "head" =>
       IF i < Len(u) THEN u[i + 1].part = "tail" /\ u[i + 1].n = u[i].n
       ELSE h /\ u[i].n = n
  /\ i > 1 /\ u[i].part = "tail" => u[i - 1].part = "head"
  /\ \A j \in DOMAIN u : i < j /\ u[j].part # "tail" => u[i].n < u[j].n

LineOK(u, l, n, h) ==
  /\ Len(l) = 1 /\ l[1].part = "head" /\ l[1].kind = "request"
  /\ l[1].n \in 1..n
  /\ IF u = <<>> THEN h /\ l[1].n = n
     ELSE u[1].part = "tail" /\ u[1].n = l[1].n
  /\ \A j \in DOMAIN u : u[j].part # "tail" => l[1].n < u[j].n

HalfOK(u, n, a) ==
  /\ n >= 1 /\ n \notin a
  /\ \A i \in DOMAIN u : u[i].n = n => u[i].part = "head"
  /\ u # <<>> => u[Len(u)].part = "head"

StreamInv(u, l, n, a, h) ==
  /\ a \subseteq 1..n
  /\ \A i \in DOMAIN u : PieceOK(u, i, n, a, h)
  /\ l # <<>> => LineOK(u, l, n, h)
  /\ h => HalfOK(u, n, a)

\* Requests are taken up in the order they were sent: those answered, w, are
\* below the one in the handler, k, and these below all that is to come.
RequestOrder(w, k, u, l, a) ==
  /\ w \subseteq a
  /\ k # 0 => k \in a /\ \A x \in w : x < k
  /\ \A x \in w \cup ({k} \ {0}) :
       /\ \A j \in DOMAIN u : u[j].part # "tail" => x < u[j].n
       /\ l # <<>> => x < l[1].n

\* No tail is separated from its head.
NoOrphan(u, l, h, e) ==
  /\ u # <<>> /\ u[1].part = "tail" => l # <<>>
  /\ h /\ ~e /\ u = <<>> => l # <<>>

Kept(w, k, u, l, a) ==
  a \subseteq w \cup {u[i].n : i \in DOMAIN u} \cup {k}
                \cup {l[i].n : i \in DOMAIN l}

RequestInv(c) ==
  /\ StreamInv(up[c], LineOf(c), sent[c], asked[c], half[c])
  /\ InOrder(Toward(c), Answers)
  /\ RequestOrder(Answered(c), current[c], up[c], LineOf(c), asked[c])
  /\ phase[c] # "closed" /\ (c \in Ws \/ Written(c) = {}) =>
       /\ NoOrphan(up[c], LineOf(c), half[c], eof[c])
       /\ Kept(Answered(c), current[c], up[c], LineOf(c), asked[c])

ConnInv(c) == TaskInv(c) /\ EventInv(c) /\ RequestInv(c)

IInv == TypeOK /\ \A c \in Conns : ConnInv(c)

-----------------------------------------------------------------------------
(***************************************************************************)
(* Sequences.                                                              *)
(***************************************************************************)

\* What Append and Tail do, element by element.
LEMMA AppendElements ==
  ASSUME NEW S, NEW s \in Seq(S), NEW x \in S
  PROVE  /\ Append(s, x) \in Seq(S) /\ Append(s, x) # <<>>
         /\ Len(Append(s, x)) = Len(s) + 1
         /\ DOMAIN Append(s, x) = 1..(Len(s) + 1)
         /\ \A i \in 1..Len(s) : Append(s, x)[i] = s[i]
         /\ Append(s, x)[Len(s) + 1] = x
  OBVIOUS

\* And Tail.
LEMMA TailElements ==
  ASSUME NEW S, NEW s \in Seq(S), s # <<>>
  PROVE  /\ Tail(s) \in Seq(S) /\ Len(s) >= 1 /\ Head(s) = s[1] /\ s[1] \in S
         /\ Len(Tail(s)) = Len(s) - 1
         /\ DOMAIN Tail(s) = 1..(Len(s) - 1)
         /\ \A i \in 1..(Len(s) - 1) : Tail(s)[i] = s[i + 1]
         /\ Tail(s) = <<>> <=> Len(s) = 1
  <1>1. /\ Tail(s) \in Seq(S) /\ Len(s) >= 1 /\ Head(s) = s[1] /\ s[1] \in S
        /\ Len(Tail(s)) = Len(s) - 1
        /\ DOMAIN Tail(s) = 1..(Len(s) - 1)
        /\ \A i \in 1..(Len(s) - 1) : Tail(s)[i] = s[i + 1]
    OBVIOUS
  <1>2. ASSUME NEW t \in Seq(S) PROVE t = <<>> <=> Len(t) = 0
    OBVIOUS
  <1>3. Tail(s) = <<>> <=> Len(Tail(s)) = 0
    BY <1>1, <1>2
  <1>4. Tail(s) = <<>> <=> Len(s) = 1
    BY <1>1, <1>3
  <1> QED BY <1>1, <1>4

\* One more message after s: its number, when its type is among those
\* chosen, joins theirs and has to be above them.
LEMMA NumbersAppend ==
  ASSUME NEW s \in Seq(Lines), NEW x \in Lines, NEW types
  PROVE  NumbersOf(Append(s, x), types) =
           NumbersOf(s, types) \cup (IF x.type \in types THEN {x.n} ELSE {})
  <1> DEFINE t == Append(s, x)
  <1>1. /\ DOMAIN t = 1..(Len(s) + 1) /\ DOMAIN s = 1..Len(s) /\ Len(s) \in Nat
        /\ \A i \in 1..Len(s) : t[i] = s[i]
        /\ t[Len(s) + 1] = x
    BY AppendElements
  <1> HIDE DEF t
  <1>2. \A m : m \in NumbersOf(t, types) <=>
               \E i \in 1..(Len(s) + 1) : t[i].type \in types /\ m = t[i].n
    BY <1>1 DEF NumbersOf
  <1>3. \A m : m \in NumbersOf(s, types) <=>
               \E i \in 1..Len(s) : s[i].type \in types /\ m = s[i].n
    BY <1>1 DEF NumbersOf
  <1>4. \A m : m \in NumbersOf(t, types) <=>
               m \in NumbersOf(s, types) \/ (x.type \in types /\ m = x.n)
    BY <1>1, <1>2, <1>3
  <1> QED BY <1>4 DEF t

\* The order survives a message whose number is above those before it.
LEMMA InOrderAppend ==
  ASSUME NEW s \in Seq(Lines), NEW x \in Lines, NEW types,
         InOrder(s, types),
         x.type \in types => \A m \in NumbersOf(s, types) : m < x.n
  PROVE  InOrder(Append(s, x), types)
  <1> DEFINE t == Append(s, x)
  <1>1. /\ DOMAIN t = 1..(Len(s) + 1) /\ DOMAIN s = 1..Len(s) /\ Len(s) \in Nat
        /\ \A i \in 1..Len(s) : t[i] = s[i]
        /\ t[Len(s) + 1] = x
    BY AppendElements
  <1> HIDE DEF t
  <1>2. \A i \in 1..Len(s) : s[i].type \in types => s[i].n \in NumbersOf(s, types)
    BY <1>1 DEF NumbersOf
  <1>3. \A i, j \in 1..Len(s) :
          i < j /\ s[i].type \in types /\ s[j].type \in types => s[i].n < s[j].n
    BY <1>1 DEF InOrder
  <1>4. ASSUME NEW i \in 1..(Len(s) + 1), NEW j \in 1..(Len(s) + 1), i < j,
               t[i].type \in types, t[j].type \in types
        PROVE  t[i].n < t[j].n
    <2>1. i \in 1..Len(s)
      BY <1>1, <1>4
    <2>2. CASE j = Len(s) + 1
      BY <2>1, <2>2, <1>1, <1>2, <1>4
    <2>3. CASE j \in 1..Len(s)
      BY <2>1, <2>3, <1>1, <1>3, <1>4
    <2> QED BY <2>2, <2>3, <1>1
  <1>5. InOrder(t, types)
    BY <1>1, <1>4 DEF InOrder
  <1> QED BY <1>5 DEF t

\* The order survives when the last message is not written.
LEMMA InOrderPrefix ==
  ASSUME NEW s \in Seq(Lines), NEW x \in Lines, NEW types,
         InOrder(Append(s, x), types)
  PROVE  InOrder(s, types)
  <1> DEFINE t == Append(s, x)
  <1>1. /\ DOMAIN t = 1..(Len(s) + 1) /\ DOMAIN s = 1..Len(s) /\ Len(s) \in Nat
        /\ \A i \in 1..Len(s) : t[i] = s[i]
    BY AppendElements
  <1>2. InOrder(t, types)
    OBVIOUS
  <1> HIDE DEF t
  <1> QED BY <1>1, <1>2 DEF InOrder

\* Nothing has no numbers.
LEMMA NumbersEmpty ==
  ASSUME NEW types
  PROVE  NumbersOf(<<>>, types) = {} /\ InOrder(<<>>, types)
  BY DEF NumbersOf, InOrder

-----------------------------------------------------------------------------
(***************************************************************************)
(* Events.                                                                 *)
(***************************************************************************)

\* The task takes the first event of its queue: it is above all written.
LEMMA EventTaken ==
  ASSUME NEW w \in SUBSET Nat, NEW b \in Nat, NEW r \in Nat,
         NEW q \in Seq(Nat), NEW h \in Nat, q # <<>>,
         EventOrder(w, b, r, q, h)
  PROVE  /\ EventOrder(w \cup {Head(q)}, b, r, Tail(q), h)
         /\ \A e \in w : e < Head(q)
         /\ Range(q) = {Head(q)} \cup Range(Tail(q))
  <1> DEFINE t == Tail(q)
  <1>1. /\ Head(q) = q[1] /\ Len(q) \in Nat /\ Len(q) >= 1
        /\ DOMAIN q = 1..Len(q) /\ DOMAIN t = 1..(Len(q) - 1)
        /\ \A i \in 1..(Len(q) - 1) : t[i] = q[i + 1]
        /\ \A i \in 1..Len(q) : q[i] \in Nat
    BY TailElements
  <1> HIDE DEF t
  <1>2. \A e \in w : e < q[1]
    <2>1. 1 \in DOMAIN q
      BY <1>1
    <2> QED BY <2>1 DEF EventOrder
  <1>3. EventOrder(w \cup {q[1]}, b, r, t, h)
    <2>1. \A i \in 1..(Len(q) - 1) : i + 1 \in 1..Len(q) /\ 1 < i + 1
      BY <1>1
    <2>2. 1 \in DOMAIN q
      BY <1>1
    <2>3. ASSUME NEW i \in DOMAIN t
          PROVE  /\ b < t[i] /\ t[i] <= r
                 /\ \A e \in w \cup {q[1]} : e < t[i]
                 /\ h # 0 => t[i] < h
                 /\ \A j \in DOMAIN t : i < j => t[i] < t[j]
      <3>1. t[i] = q[i + 1] /\ i + 1 \in DOMAIN q /\ i \in Nat /\ 1 < i + 1
        BY <1>1, <2>1
      <3>2. ASSUME NEW j \in DOMAIN t, i < j PROVE t[i] < t[j]
        <4>1. t[j] = q[j + 1] /\ j + 1 \in DOMAIN q /\ i + 1 < j + 1
          BY <1>1, <2>1, <3>2, SMTT(40)
        <4> QED BY <4>1, <3>1 DEF EventOrder
      <3> QED BY <3>1, <3>2, <2>2 DEF EventOrder
    <2>4. \A e \in w \cup {q[1]} : b < e /\ e <= r
      BY <2>2 DEF EventOrder
    <2>5. h # 0 => \A e \in w \cup {q[1]} : e < h
      BY <2>2 DEF EventOrder
    <2> QED BY <2>3, <2>4, <2>5 DEF EventOrder
  <1>4. Range(q) = {q[1]} \cup Range(t)
    <2>1. \A m : m \in Range(q) <=> \E i \in 1..Len(q) : m = q[i]
      BY <1>1 DEF Range
    <2>2. \A m : m \in Range(t) <=> \E i \in 1..(Len(q) - 1) : m = q[i + 1]
      BY <1>1 DEF Range
    <2>3. \A i \in 1..Len(q) : i = 1 \/ (i - 1 \in 1..(Len(q) - 1) /\ (i - 1) + 1 = i)
      BY <1>1
    <2>4. \A i \in 1..(Len(q) - 1) : i + 1 \in 1..Len(q)
      BY <1>1
    <2>5. 1 \in 1..Len(q)
      BY <1>1
    <2>6. ASSUME NEW m PROVE m \in Range(q) <=> m = q[1] \/ m \in Range(t)
      <3>1. ASSUME m \in Range(q) PROVE m = q[1] \/ m \in Range(t)
        BY <3>1, <2>1, <2>2, <2>3
      <3>2. ASSUME m = q[1] \/ m \in Range(t) PROVE m \in Range(q)
        BY <3>2, <2>1, <2>2, <2>4, <2>5
      <3> QED BY <3>1, <3>2
    <2> QED BY <2>6
  <1> QED BY <1>1, <1>2, <1>3, <1>4 DEF t

\* The forwarder puts the event it holds at the end of the queue.
LEMMA EventQueued ==
  ASSUME NEW w \in SUBSET Nat, NEW b \in Nat, NEW r \in Nat,
         NEW q \in Seq(Nat), NEW h \in Nat, h # 0,
         EventOrder(w, b, r, q, h)
  PROVE  /\ EventOrder(w, b, r, Append(q, h), 0)
         /\ Range(Append(q, h)) = Range(q) \cup {h}
  <1> DEFINE t == Append(q, h)
  <1>1. /\ Len(q) \in Nat /\ DOMAIN q = 1..Len(q) /\ DOMAIN t = 1..(Len(q) + 1)
        /\ \A i \in 1..Len(q) : t[i] = q[i]
        /\ t[Len(q) + 1] = h
        /\ \A i \in 1..Len(q) : q[i] \in Nat
    BY AppendElements
  <1> HIDE DEF t
  <1>2. \A i \in 1..(Len(q) + 1) : i \in 1..Len(q) \/ i = Len(q) + 1
    BY <1>1
  <1>3. EventOrder(w, b, r, t, 0)
    <2>1. ASSUME NEW i \in DOMAIN t
          PROVE  /\ b < t[i] /\ t[i] <= r
                 /\ \A e \in w : e < t[i]
                 /\ \A j \in DOMAIN t : i < j => t[i] < t[j]
      <3>1. CASE i = Len(q) + 1
        BY <3>1, <1>1 DEF EventOrder
      <3>2. CASE i \in 1..Len(q)
        BY <3>2, <1>1, <1>2 DEF EventOrder
      <3> QED BY <3>1, <3>2, <1>1, <1>2
    <2> QED BY <2>1 DEF EventOrder
  <1>4. Range(t) = Range(q) \cup {h}
    <2>1. \A m : m \in Range(q) <=> \E i \in 1..Len(q) : m = q[i]
      BY <1>1 DEF Range
    <2>2. \A m : m \in Range(t) <=> \E i \in 1..(Len(q) + 1) : m = t[i]
      BY <1>1 DEF Range
    <2>3. \A m : m \in Range(t) <=> m \in Range(q) \/ m = h
      BY <2>1, <2>2, <1>1, <1>2, SMTT(40)
    <2> QED BY <2>3
  <1> QED BY <1>3, <1>4 DEF t

\* The receiver moves on: with an event for the forwarder, without one (the
\* event was dropped), or with one the task itself writes.
LEMMA EventReceived ==
  ASSUME NEW w \in SUBSET Nat, NEW b \in Nat, NEW r \in Nat,
         NEW q \in Seq(Nat), NEW h \in Nat,
         EventOrder(w, b, r, q, h)
  PROVE  /\ h = 0 => EventOrder(w, b, r + 1, q, r + 1)
         /\ \A m \in Nat : r <= m => EventOrder(w, b, m, q, h)
         /\ h = 0 /\ q = <<>> => EventOrder(w \cup {r + 1}, b, r + 1, q, h)
         /\ \A e \in w : e < r + 1
  <1>1. /\ DOMAIN q = 1..Len(q) /\ Len(q) \in Nat
        /\ \A i \in 1..Len(q) : q[i] \in Nat
    OBVIOUS
  <1>2. \A e \in w : e < r + 1
    BY DEF EventOrder
  <1>3. ASSUME h = 0 PROVE EventOrder(w, b, r + 1, q, r + 1)
    BY <1>1, <1>3 DEF EventOrder
  <1>4. ASSUME NEW m \in Nat, r <= m PROVE EventOrder(w, b, m, q, h)
    BY <1>1, <1>4 DEF EventOrder
  <1>5. ASSUME h = 0, q = <<>> PROVE EventOrder(w \cup {r + 1}, b, r + 1, q, h)
    BY <1>5 DEF EventOrder
  <1> QED BY <1>2, <1>3, <1>4, <1>5

\* Fewer events written, or none held, leaves the rest in order.
LEMMA EventForgotten ==
  ASSUME NEW w, NEW v \in SUBSET w, NEW b, NEW r, NEW q, NEW h,
         EventOrder(w, b, r, q, h)
  PROVE  EventOrder(v, b, r, q, h) /\ EventOrder(v, b, r, q, 0)
  BY DEF EventOrder

-----------------------------------------------------------------------------
(***************************************************************************)
(* Requests.                                                               *)
(***************************************************************************)

\* The numbers of the pieces of u, p appended or its first piece removed.
LEMMA KeptAppend ==
  ASSUME NEW u \in Seq(Pieces), NEW p \in Pieces
  PROVE  {Append(u, p)[i].n : i \in DOMAIN Append(u, p)} =
           {u[i].n : i \in DOMAIN u} \cup {p.n}
  <1> DEFINE t == Append(u, p)
  <1>1. /\ Len(u) \in Nat /\ DOMAIN u = 1..Len(u) /\ DOMAIN t = 1..(Len(u) + 1)
        /\ \A i \in 1..Len(u) : t[i] = u[i]
        /\ t[Len(u) + 1] = p
    BY AppendElements
  <1> HIDE DEF t
  <1>2. \A i \in 1..(Len(u) + 1) : i \in 1..Len(u) \/ i = Len(u) + 1
    BY <1>1
  <1>3. \A m : m \in {t[i].n : i \in 1..(Len(u) + 1)} <=>
               m \in {u[i].n : i \in 1..Len(u)} \/ m = p.n
    BY <1>1, <1>2
  <1>4. {t[i].n : i \in DOMAIN t} = {u[i].n : i \in DOMAIN u} \cup {p.n}
    BY <1>1, <1>3
  <1> QED BY <1>4 DEF t

\* The first piece leaves the stream and takes its number with it.
LEMMA KeptTail ==
  ASSUME NEW u \in Seq(Pieces), u # <<>>
  PROVE  {u[i].n : i \in DOMAIN u} =
           {Head(u).n} \cup {Tail(u)[i].n : i \in DOMAIN Tail(u)}
  <1> DEFINE t == Tail(u)
  <1>1. /\ Head(u) = u[1] /\ Len(u) \in Nat /\ Len(u) >= 1
        /\ DOMAIN u = 1..Len(u) /\ DOMAIN t = 1..(Len(u) - 1)
        /\ \A i \in 1..(Len(u) - 1) : t[i] = u[i + 1]
    BY TailElements
  <1> HIDE DEF t
  <1>2. \A i \in 1..Len(u) : i = 1 \/ (i - 1 \in 1..(Len(u) - 1) /\ (i - 1) + 1 = i)
    BY <1>1
  <1>3. \A i \in 1..(Len(u) - 1) : i + 1 \in 1..Len(u)
    BY <1>1
  <1>4. 1 \in 1..Len(u)
    BY <1>1
  <1>5. ASSUME NEW m \in {u[i].n : i \in 1..Len(u)}
        PROVE  m = u[1].n \/ m \in {t[i].n : i \in 1..(Len(u) - 1)}
    <2>1. PICK i \in 1..Len(u) : m = u[i].n
      BY <1>5
    <2>2. CASE i = 1
      BY <2>1, <2>2
    <2>3. CASE i - 1 \in 1..(Len(u) - 1) /\ (i - 1) + 1 = i
      <3>1. t[i - 1] = u[i]
        BY <2>3, <1>1
      <3> QED BY <2>1, <2>3, <3>1
    <2> QED BY <2>2, <2>3, <1>2
  <1>6. ASSUME NEW m \in {t[i].n : i \in 1..(Len(u) - 1)}
        PROVE  m \in {u[i].n : i \in 1..Len(u)}
    BY <1>1, <1>3, <1>6
  <1>7. {u[i].n : i \in 1..Len(u)} = {u[1].n} \cup {t[i].n : i \in 1..(Len(u) - 1)}
    BY <1>4, <1>5, <1>6
  <1> QED BY <1>1, <1>7 DEF t

\* A client begins a message: its number is new and above all others.
LEMMA StreamSend ==
  ASSUME NEW u \in Seq(Pieces), NEW l \in Seq(Pieces), NEW n \in Nat,
         NEW a \in SUBSET Nat, NEW p \in Pieces, p.n = n + 1,
         p.part # "tail", p.part = "head" => p.kind = "request",
         StreamInv(u, l, n, a, FALSE)
  PROVE  StreamInv(Append(u, p), l, n + 1,
                   IF p.kind = "request" /\ p.part = "whole"
                   THEN a \cup {n + 1} ELSE a,
                   p.part = "head")
  <1> DEFINE t == Append(u, p)
             a2 == IF p.kind = "request" /\ p.part = "whole"
                   THEN a \cup {n + 1} ELSE a
  <1>1. /\ Len(u) \in Nat /\ DOMAIN u = 1..Len(u) /\ DOMAIN t = 1..(Len(u) + 1)
        /\ Len(t) = Len(u) + 1 /\ t # <<>>
        /\ \A i \in 1..Len(u) : t[i] = u[i] /\ u[i] \in Pieces
        /\ t[Len(u) + 1] = p
    BY AppendElements
  <1>0. u # <<>> => Len(u) >= 1
    OBVIOUS
  <1> HIDE DEF t
  <1>2. \A i \in 1..(Len(u) + 1) : i \in 1..Len(u) \/ i = Len(u) + 1
    BY <1>1
  <1>3. a2 \subseteq 1..(n + 1) /\ a \subseteq a2 /\ n + 1 \notin a
    BY DEF StreamInv, PieceOK, LineOK, HalfOK
  <1>4. p.part \in {"whole", "head"} /\ p.kind \in Kinds
    BY DEF Pieces, Parts
  <1>5. ASSUME NEW i \in DOMAIN t
        PROVE  PieceOK(t, i, n + 1, a2, p.part = "head")
    <2>1. CASE i = Len(u) + 1
      BY <2>1, <1>1, <1>3, <1>4 DEF PieceOK
    <2>2. CASE i \in 1..Len(u)
      <3>1. t[i] = u[i] /\ u[i].n \in 1..n /\ i < Len(t)
        BY <2>2, <1>1 DEF StreamInv, PieceOK, LineOK, HalfOK
      <3>2. /\ t[i].kind = "request" /\ t[i].part # "head" => t[i].n \in a2
            /\ t[i].kind # "request" => t[i].part = "whole" /\ t[i].n \notin a2
        BY <2>2, <3>1, <1>1, <1>3 DEF StreamInv, PieceOK, LineOK, HalfOK
      <3>3. t[i].part = "head" => t[i + 1].part = "tail" /\ t[i + 1].n = t[i].n
        <4>1. u[i].part = "head" =>
                i < Len(u) /\ u[i + 1].part = "tail" /\ u[i + 1].n = u[i].n
          BY <2>2, <1>1 DEF StreamInv, PieceOK, LineOK, HalfOK
        <4>2. i < Len(u) => i + 1 \in 1..Len(u)
          BY <2>2, <1>1
        <4> QED BY <4>1, <4>2, <3>1, <1>1
      <3>4. i > 1 /\ t[i].part = "tail" => t[i - 1].part = "head"
        <4>1. i > 1 => i - 1 \in 1..Len(u)
          BY <2>2, <1>1
        <4>2. i > 1 /\ u[i].part = "tail" => u[i - 1].part = "head"
          BY <2>2, <1>1 DEF StreamInv, PieceOK, LineOK, HalfOK
        <4> QED BY <4>1, <4>2, <3>1, <1>1
      <3>5. ASSUME NEW j \in DOMAIN t, i < j, t[j].part # "tail"
            PROVE  t[i].n < t[j].n
        <4>1. CASE j = Len(u) + 1
          BY <4>1, <3>1, <1>1
        <4>2. CASE j \in 1..Len(u)
          BY <4>2, <3>1, <3>5, <2>2, <1>1 DEF StreamInv, PieceOK, LineOK, HalfOK
        <4> QED BY <4>1, <4>2, <1>1, <1>2
      <3> QED BY <3>1, <3>2, <3>3, <3>4, <3>5, <1>1 DEF PieceOK
    <2> QED BY <2>1, <2>2, <1>1, <1>2
  <1>6. ASSUME l # <<>>
        PROVE  LineOK(t, l, n + 1, p.part = "head")
    <2>1. /\ Len(l) = 1 /\ l[1].part = "head" /\ l[1].kind = "request"
          /\ l[1].n \in 1..n /\ u # <<>>
          /\ u[1].part = "tail" /\ u[1].n = l[1].n
      BY <1>6 DEF StreamInv, PieceOK, LineOK, HalfOK
    <2>2. t[1] = u[1]
      BY <2>1, <1>1, <1>0
    <2>3. ASSUME NEW j \in DOMAIN t, t[j].part # "tail" PROVE l[1].n < t[j].n
      <3>1. CASE j = Len(u) + 1
        BY <3>1, <2>1, <1>1
      <3>2. CASE j \in 1..Len(u)
        BY <3>2, <2>3, <1>6, <1>1 DEF StreamInv, PieceOK, LineOK, HalfOK
      <3> QED BY <3>1, <3>2, <1>1, <1>2
    <2> QED BY <2>1, <2>2, <2>3, <1>1 DEF LineOK
  <1>7. ASSUME p.part = "head"
        PROVE  HalfOK(t, n + 1, a2)
    <2>1. \A i \in 1..Len(u) : t[i].n \in 1..n
      BY <1>1 DEF StreamInv, PieceOK, LineOK, HalfOK
    <2> QED BY <1>7, <1>1, <1>2, <1>3, <2>1 DEF HalfOK
  <1>8. StreamInv(t, l, n + 1, a2, p.part = "head")
    BY <1>3, <1>5, <1>6, <1>7 DEF StreamInv
  <1> QED BY <1>8 DEF t

\* A client completes its request: the tail follows the head.
LEMMA StreamRest ==
  ASSUME NEW u \in Seq(Pieces), NEW l \in Seq(Pieces), NEW n \in Nat,
         NEW a \in SUBSET Nat, NEW p \in Pieces,
         p.n = n, p.part = "tail", p.kind = "request",
         StreamInv(u, l, n, a, TRUE)
  PROVE  StreamInv(Append(u, p), l, n, a \cup {n}, FALSE)
  <1> DEFINE t == Append(u, p)
             a2 == a \cup {n}
  <1>1. /\ Len(u) \in Nat /\ DOMAIN u = 1..Len(u) /\ DOMAIN t = 1..(Len(u) + 1)
        /\ Len(t) = Len(u) + 1 /\ t # <<>>
        /\ \A i \in 1..Len(u) : t[i] = u[i] /\ u[i] \in Pieces
        /\ t[Len(u) + 1] = p
    BY AppendElements
  <1>0. (u # <<>> <=> Len(u) >= 1) /\ (u = <<>> <=> Len(u) = 0)
    OBVIOUS
  <1> HIDE DEF t
  <1>2. \A i \in 1..(Len(u) + 1) : i \in 1..Len(u) \/ i = Len(u) + 1
    BY <1>1
  <1>3. a2 \subseteq 1..n /\ a \subseteq a2 /\ n \in 1..n /\ n \in a2
    BY DEF StreamInv, PieceOK, LineOK, HalfOK
  <1>4. /\ \A i \in 1..Len(u) : u[i].n = n => u[i].part = "head"
        /\ u # <<>> => u[Len(u)].part = "head"
    BY <1>1 DEF StreamInv, PieceOK, LineOK, HalfOK
  <1>5. ASSUME NEW i \in DOMAIN t
        PROVE  PieceOK(t, i, n, a2, FALSE)
    <2>1. CASE i = Len(u) + 1
      <3>1. i > 1 => t[i - 1].part = "head"
        <4>1. i > 1 => Len(u) \in 1..Len(u) /\ i - 1 = Len(u) /\ u # <<>>
          BY <2>1, <1>1, <1>0
        <4> QED BY <4>1, <1>1, <1>4
      <3> QED BY <2>1, <3>1, <1>1, <1>3 DEF PieceOK
    <2>2. CASE i \in 1..Len(u)
      <3>1. t[i] = u[i] /\ u[i].n \in 1..n /\ i < Len(t)
        BY <2>2, <1>1 DEF StreamInv, PieceOK, LineOK, HalfOK
      <3>2. /\ t[i].kind = "request" /\ t[i].part # "head" => t[i].n \in a2
            /\ t[i].kind # "request" => t[i].part = "whole" /\ t[i].n \notin a2
        BY <2>2, <3>1, <1>1, <1>3, <1>4 DEF StreamInv, PieceOK, LineOK, HalfOK
      <3>3. t[i].part = "head" => t[i + 1].part = "tail" /\ t[i + 1].n = t[i].n
        <4>1. u[i].part = "head" =>
                IF i < Len(u) THEN u[i + 1].part = "tail" /\ u[i + 1].n = u[i].n
                ELSE u[i].n = n
          BY <2>2, <1>1 DEF StreamInv, PieceOK, LineOK, HalfOK
        <4>2. IF i < Len(u) THEN i + 1 \in 1..Len(u) ELSE i + 1 = Len(u) + 1
          BY <2>2, <1>1
        <4> QED BY <4>1, <4>2, <3>1, <1>1
      <3>4. i > 1 /\ t[i].part = "tail" => t[i - 1].part = "head"
        <4>1. i > 1 => i - 1 \in 1..Len(u)
          BY <2>2, <1>1
        <4>2. i > 1 /\ u[i].part = "tail" => u[i - 1].part = "head"
          BY <2>2, <1>1 DEF StreamInv, PieceOK, LineOK, HalfOK
        <4> QED BY <4>1, <4>2, <3>1, <1>1
      <3>5. ASSUME NEW j \in DOMAIN t, i < j, t[j].part # "tail"
            PROVE  t[i].n < t[j].n
        <4>1. j \in 1..Len(u)
          BY <3>5, <1>1, <1>2
        <4> QED BY <4>1, <3>1, <3>5, <2>2, <1>1 DEF StreamInv, PieceOK, LineOK, HalfOK
      <3> QED BY <3>1, <3>2, <3>3, <3>4, <3>5, <1>1 DEF PieceOK
    <2> QED BY <2>1, <2>2, <1>1, <1>2
  <1>6. ASSUME l # <<>>
        PROVE  LineOK(t, l, n, FALSE)
    <2>1. /\ Len(l) = 1 /\ l[1].part = "head" /\ l[1].kind = "request"
          /\ l[1].n \in 1..n
          /\ IF u = <<>> THEN l[1].n = n
             ELSE u[1].part = "tail" /\ u[1].n = l[1].n
      BY <1>6 DEF StreamInv, PieceOK, LineOK, HalfOK
    <2>2. t[1] = IF u = <<>> THEN p ELSE u[1]
      <3>1. CASE u = <<>>
        BY <3>1, <1>1, <1>0
      <3>2. CASE u # <<>>
        BY <3>2, <1>1, <1>0
      <3> QED BY <3>1, <3>2
    <2>3. ASSUME NEW j \in DOMAIN t, t[j].part # "tail" PROVE l[1].n < t[j].n
      <3>1. j \in 1..Len(u)
        BY <2>3, <1>1, <1>2
      <3> QED BY <3>1, <2>3, <1>6, <1>1 DEF StreamInv, PieceOK, LineOK, HalfOK
    <2> QED BY <2>1, <2>2, <2>3, <1>1 DEF LineOK
  <1>8. StreamInv(t, l, n, a2, FALSE)
    BY <1>3, <1>5, <1>6 DEF StreamInv
  <1> QED BY <1>8 DEF t

\* The task reads one piece more; what was left of the line before it is gone.
LEMMA StreamRead ==
  ASSUME NEW u \in Seq(Pieces), NEW l \in Seq(Pieces), NEW n \in Nat,
         NEW a \in SUBSET Nat, NEW h \in BOOLEAN,
         StreamInv(u, l, n, a, h)
  PROVE  /\ StreamInv(u, <<>>, n, a, h)
         /\ u # <<>> => StreamInv(Tail(u), <<>>, n, a, h)
         /\ u # <<>> /\ Head(u).part = "head" =>
              l = <<>> /\ StreamInv(Tail(u), <<Head(u)>>, n, a, h)
  <1>1. StreamInv(u, <<>>, n, a, h)
    BY DEF StreamInv, PieceOK, LineOK, HalfOK
  <1>2. ASSUME u # <<>>
        PROVE  /\ StreamInv(Tail(u), <<>>, n, a, h)
               /\ Head(u).part = "head" =>
                    l = <<>> /\ StreamInv(Tail(u), <<Head(u)>>, n, a, h)
    <2> DEFINE t == Tail(u)
               k == Len(u) - 1
               g == <<Head(u)>>
    <2>1. /\ Len(u) \in Nat /\ DOMAIN u = 1..Len(u) /\ Len(t) = k /\ k \in Nat
          /\ DOMAIN t = 1..k /\ Len(u) = k + 1 /\ u[1] \in Pieces
          /\ \A i \in 1..k : t[i] = u[i + 1] /\ i + 1 \in 1..Len(u) /\ i + 1 > 1
          /\ t = <<>> <=> k = 0
          /\ Head(u) = u[1] /\ 1 \in 1..Len(u)
      BY <1>2, TailElements
    <2>2. /\ g # <<>> /\ Len(g) = 1 /\ g[1] = u[1]
      BY <2>1
    <2>a. /\ a \subseteq 1..n
          /\ \A i \in 1..Len(u) : PieceOK(u, i, n, a, h)
          /\ h => HalfOK(u, n, a)
          /\ l # <<>> => u[1].part = "tail"
      BY <1>2, <2>1 DEF StreamInv, LineOK
    <2>b. /\ \A i, j \in 1..Len(u) :
               i < j /\ u[j].part # "tail" => u[i].n < u[j].n
          /\ \A i \in 1..Len(u) :
               i > 1 /\ u[i].part = "tail" => u[i - 1].part = "head"
      BY <2>1, <2>a DEF PieceOK
    <2> HIDE DEF t, k, g
    <2>3. ASSUME NEW i \in 1..k
          PROVE  PieceOK(t, i, n, a, h)
      <3>1. /\ t[i] = u[i + 1] /\ i + 1 \in 1..Len(u) /\ i + 1 > 1
            /\ (i + 1) - 1 = i
        BY <2>1
      <3>2. /\ u[i + 1].n \in 1..n
            /\ u[i + 1].kind = "request" /\ u[i + 1].part # "head"
                 => u[i + 1].n \in a
            /\ u[i + 1].kind # "request"
                 => u[i + 1].part = "whole" /\ u[i + 1].n \notin a
        BY <3>1, <2>a DEF PieceOK
      <3>3. t[i].part = "head" =>
              IF i < k THEN t[i + 1].part = "tail" /\ t[i + 1].n = t[i].n
              ELSE h /\ t[i].n = n
        <4>1. u[i + 1].part = "head" =>
                IF i + 1 < Len(u)
                THEN u[(i + 1) + 1].part = "tail" /\ u[(i + 1) + 1].n = u[i + 1].n
                ELSE h /\ u[i + 1].n = n
          BY <3>1, <2>a DEF PieceOK
        <4>2. /\ i < k <=> i + 1 < Len(u)
              /\ i < k => i + 1 \in 1..k
          BY <2>1
        <4> QED BY <4>1, <4>2, <3>1, <2>1
      <3>4. i > 1 /\ t[i].part = "tail" => t[i - 1].part = "head"
        <4>1. u[i + 1].part = "tail" => u[i].part = "head"
          BY <3>1, <2>b
        <4>2. i > 1 => i - 1 \in 1..k /\ (i - 1) + 1 = i
          BY <2>1
        <4>3. i > 1 => t[i - 1] = u[i]
          BY <4>2, <2>1
        <4> QED BY <4>1, <4>3, <3>1
      <3>5. ASSUME NEW j \in 1..k, i < j, t[j].part # "tail" PROVE t[i].n < t[j].n
        <4>1. t[j] = u[j + 1] /\ j + 1 \in 1..Len(u) /\ i + 1 < j + 1
          BY <2>1, <3>5
        <4> QED BY <4>1, <3>1, <3>5, <2>b
      <3> QED BY <3>1, <3>2, <3>3, <3>4, <3>5, <2>1 DEF PieceOK
    <2>4. h => HalfOK(t, n, a)
      <3>1. h => /\ n >= 1 /\ n \notin a
                 /\ \A i \in 1..Len(u) : u[i].n = n => u[i].part = "head"
                 /\ u[Len(u)].part = "head"
        BY <1>2, <2>1, <2>a DEF HalfOK
      <3>2. t # <<>> => k \in 1..k /\ k + 1 = Len(u)
        BY <2>1
      <3> QED BY <3>1, <3>2, <2>1 DEF HalfOK
    <2>5. StreamInv(t, <<>>, n, a, h)
      BY <2>1, <2>3, <2>4, <2>a DEF StreamInv
    <2>6. ASSUME u[1].part = "head" PROVE l = <<>> /\ StreamInv(t, g, n, a, h)
      <3>1. l = <<>>
        BY <2>6, <2>a
      <3>2. u[1].n \in 1..n /\ u[1].kind = "request"
        BY <2>1, <2>6, <2>a DEF PieceOK
      <3>3. IF t = <<>> THEN h /\ u[1].n = n
            ELSE t[1].part = "tail" /\ t[1].n = u[1].n
        <4>1. IF 1 < Len(u) THEN u[1 + 1].part = "tail" /\ u[1 + 1].n = u[1].n
              ELSE h /\ u[1].n = n
          BY <2>1, <2>6, <2>a DEF PieceOK
        <4>2. /\ 1 < Len(u) <=> t # <<>>
              /\ t # <<>> => 1 \in 1..k
          BY <2>1
        <4> QED BY <4>1, <4>2, <2>1
      <3>4. ASSUME NEW j \in 1..k, t[j].part # "tail" PROVE u[1].n < t[j].n
        <4>1. t[j] = u[j + 1] /\ j + 1 \in 1..Len(u) /\ 1 < j + 1
          BY <2>1, <3>4
        <4> QED BY <4>1, <3>4, <2>1, <2>b
      <3>5. LineOK(t, g, n, h)
        BY <3>2, <3>3, <3>4, <2>1, <2>2, <2>6 DEF LineOK
      <3> QED BY <3>1, <3>5, <2>1, <2>3, <2>4, <2>a DEF StreamInv
    <2> QED BY <2>1, <2>5, <2>6 DEF t, g
  <1> QED BY <1>1, <1>2

\* The case of the beginning of a request, which finds no line before it.
LEMMA StreamHead ==
  ASSUME NEW u \in Seq(Pieces), NEW l \in Seq(Pieces), NEW n \in Nat,
         NEW a \in SUBSET Nat, NEW h \in BOOLEAN,
         StreamInv(u, l, n, a, h), u # <<>>, Head(u).part = "head"
  PROVE  l = <<>> /\ StreamInv(Tail(u), <<Head(u)>>, n, a, h)
  BY StreamRead

\* A message that is begun or completed leaves the order as it is, and its
\* number is kept.
LEMMA OrderSend ==
  ASSUME NEW u \in Seq(Pieces), NEW l \in Seq(Pieces), NEW n \in Nat,
         NEW a \in SUBSET (1..n), NEW b \in SUBSET Nat, NEW p \in Pieces,
         NEW w \in SUBSET Nat, NEW k \in Nat,
         p.part = "tail" \/ p.n = n + 1,
         a \subseteq b, b \subseteq a \cup {p.n}
  PROVE  /\ RequestOrder(w, k, u, l, a) => RequestOrder(w, k, Append(u, p), l, b)
         /\ Kept(w, k, u, l, a) => Kept(w, k, Append(u, p), l, b)
  <1> DEFINE t == Append(u, p)
  <1>1. /\ Len(u) \in Nat /\ DOMAIN u = 1..Len(u) /\ DOMAIN t = 1..(Len(u) + 1)
        /\ \A i \in 1..Len(u) : t[i] = u[i]
        /\ t[Len(u) + 1] = p
    BY AppendElements
  <1>2. {t[i].n : i \in DOMAIN t} = {u[i].n : i \in DOMAIN u} \cup {p.n}
    BY KeptAppend
  <1> HIDE DEF t
  <1>3. ASSUME RequestOrder(w, k, u, l, a) PROVE RequestOrder(w, k, t, l, b)
    <2>1. /\ w \subseteq b
          /\ k # 0 => k \in b /\ \A x \in w : x < k
          /\ \A x \in w \cup ({k} \ {0}) : x \in 1..n /\ (l # <<>> => x < l[1].n)
      BY <1>3 DEF RequestOrder
    <2>2. ASSUME NEW x \in w \cup ({k} \ {0}), NEW j \in DOMAIN t,
                 t[j].part # "tail"
          PROVE  x < t[j].n
      <3>1. CASE j = Len(u) + 1
        BY <3>1, <2>1, <2>2, <1>1
      <3>2. CASE j \in 1..Len(u)
        BY <3>2, <2>2, <1>1, <1>3 DEF RequestOrder
      <3> QED BY <3>1, <3>2, <1>1
    <2> QED BY <2>1, <2>2 DEF RequestOrder
  <1>4. ASSUME Kept(w, k, u, l, a) PROVE Kept(w, k, t, l, b)
    BY <1>2, <1>4 DEF Kept
  <1> QED BY <1>3, <1>4 DEF t

\* The task reads a piece: what it says of the order, and of the tails.
LEMMA OrderRead ==
  ASSUME NEW u \in Seq(Pieces), NEW l \in Seq(Pieces), NEW n \in Nat,
         NEW a \in SUBSET Nat, NEW h \in BOOLEAN, NEW e \in BOOLEAN,
         NEW w \in SUBSET Nat, NEW k \in Nat, u # <<>>,
         StreamInv(u, l, n, a, h), RequestOrder(w, k, u, l, a)
  PROVE  /\ RequestOrder(w, k, Tail(u), <<>>, a)
         /\ Head(u).part = "head" =>
              /\ RequestOrder(w, k, Tail(u), <<Head(u)>>, a)
              /\ Kept(w, k, u, l, a) => Kept(w, k, Tail(u), <<Head(u)>>, a)
              /\ NoOrphan(Tail(u), <<Head(u)>>, h, e)
         /\ Head(u).part # "head" => NoOrphan(Tail(u), <<>>, h, e)
         /\ Head(u).n \notin a /\ Kept(w, k, u, <<>>, a)
              => Kept(w, k, Tail(u), <<>>, a)
  <1> DEFINE t == Tail(u)
             g == <<Head(u)>>
  <1>1. /\ Len(u) \in Nat /\ DOMAIN u = 1..Len(u) /\ Len(u) >= 1 /\ u[1] \in Pieces
        /\ DOMAIN t = 1..(Len(u) - 1)
        /\ \A i \in 1..(Len(u) - 1) : t[i] = u[i + 1] /\ i + 1 \in 1..Len(u)
        /\ t = <<>> <=> Len(u) = 1
        /\ Head(u) = u[1] /\ 1 \in 1..Len(u)
    BY TailElements
  <1>2. {u[i].n : i \in DOMAIN u} = {u[1].n} \cup {t[i].n : i \in DOMAIN t}
    BY <1>1, KeptTail
  <1>3. g # <<>> /\ g[1] = u[1] /\ DOMAIN g = {1}
    BY <1>1
  <1> HIDE DEF t, g
  <1>4. \A x \in w \cup ({k} \ {0}) :
          \A j \in DOMAIN t : t[j].part # "tail" => x < t[j].n
    BY <1>1 DEF RequestOrder
  <1>5. RequestOrder(w, k, t, <<>>, a)
    BY <1>4 DEF RequestOrder
  <1>6. ASSUME u[1].part = "head"
        PROVE  /\ RequestOrder(w, k, t, g, a)
               /\ Kept(w, k, u, l, a) => Kept(w, k, t, g, a)
               /\ NoOrphan(t, g, h, e)
    <2>1. l = <<>>
      BY <1>6 DEF StreamInv, LineOK
    <2>2. \A x \in w \cup ({k} \ {0}) : x < u[1].n
      BY <1>1, <1>6 DEF RequestOrder
    <2>3. RequestOrder(w, k, t, g, a)
      BY <1>3, <1>4, <2>2 DEF RequestOrder
    <2>4. {g[i].n : i \in DOMAIN g} = {u[1].n}
      BY <1>3
    <2>5. Kept(w, k, u, l, a) => Kept(w, k, t, g, a)
      <3>1. {l[i].n : i \in DOMAIN l} = {}
        BY <2>1
      <3> QED BY <3>1, <2>4, <1>2 DEF Kept
    <2>6. NoOrphan(t, g, h, e)
      BY <1>3 DEF NoOrphan
    <2> QED BY <2>3, <2>5, <2>6
  <1>7. ASSUME u[1].part # "head" PROVE NoOrphan(t, <<>>, h, e)
    <2>1. ASSUME t # <<>>, t[1].part = "tail" PROVE FALSE
      <3>1. t[1] = u[2] /\ 2 \in 1..Len(u) /\ 2 > 1 /\ 2 - 1 = 1
        BY <2>1, <1>1
      <3>2. PieceOK(u, 2, n, a, h)
        BY <3>1, <1>1 DEF StreamInv
      <3> QED BY <3>1, <3>2, <2>1, <1>7 DEF PieceOK
    <2>2. ASSUME h, t = <<>> PROVE FALSE
      BY <2>2, <1>1, <1>7 DEF StreamInv, HalfOK
    <2> QED BY <2>1, <2>2 DEF NoOrphan
  <1>8. ASSUME u[1].n \notin a, Kept(w, k, u, <<>>, a) PROVE Kept(w, k, t, <<>>, a)
    BY <1>2, <1>8 DEF Kept
  <1> QED BY <1>1, <1>5, <1>6, <1>7, <1>8 DEF t, g

\* A piece that ends a line is read.
LEMMA EndOfLine ==
  ASSUME NEW u \in Seq(Pieces), NEW l \in Seq(Pieces), NEW n \in Nat,
         NEW a \in SUBSET Nat, NEW h \in BOOLEAN, NEW e \in BOOLEAN,
         NEW w \in SUBSET Nat, NEW k \in Nat, u # <<>>, Head(u).part # "head",
         StreamInv(u, l, n, a, h), RequestOrder(w, k, u, l, a)
  PROVE  /\ StreamInv(Tail(u), <<>>, n, a, h)
         /\ RequestOrder(w, k, Tail(u), <<>>, a)
         /\ NoOrphan(Tail(u), <<>>, h, e)
         /\ Head(u).n \notin a /\ Kept(w, k, u, <<>>, a)
              => Kept(w, k, Tail(u), <<>>, a)
  <1>1. StreamInv(Tail(u), <<>>, n, a, h)
    BY StreamRead
  <1>2. RequestOrder(w, k, Tail(u), <<>>, a)
    BY OrderRead, ZenonT(60)
  <1>3. NoOrphan(Tail(u), <<>>, h, e)
    BY OrderRead, ZenonT(60)
  <1>4. Head(u).n \notin a /\ Kept(w, k, u, <<>>, a) => Kept(w, k, Tail(u), <<>>, a)
    BY OrderRead, ZenonT(60)
  <1> QED BY <1>1, <1>2, <1>3, <1>4

\* A complete request is read: it is the next in the order, and kept.
LEMMA RequestTaken ==
  ASSUME NEW u \in Seq(Pieces), NEW l \in Seq(Pieces), NEW n \in Nat,
         NEW a \in SUBSET Nat, NEW h \in BOOLEAN,
         NEW w \in SUBSET Nat, u # <<>>,
         StreamInv(u, l, n, a, h), RequestOrder(w, 0, u, l, a),
         Head(u).part # "head", IsRequest(Append(l, Head(u)))
  PROVE  /\ Append(l, Head(u))[1].n \in Nat \ {0}
         /\ RequestOrder(w, Append(l, Head(u))[1].n, Tail(u), <<>>, a)
         /\ Kept(w, 0, u, l, a) => Kept(w, Append(l, Head(u))[1].n, Tail(u), <<>>, a)
  <1> DEFINE t == Tail(u)
             p == Head(u)
             g == Append(l, p)
             m == p.n
  <1>1. /\ Len(u) \in Nat /\ DOMAIN u = 1..Len(u) /\ Len(u) >= 1 /\ u[1] \in Pieces
        /\ DOMAIN t = 1..(Len(u) - 1)
        /\ \A i \in 1..(Len(u) - 1) :
             t[i] = u[i + 1] /\ i + 1 \in 1..Len(u) /\ 1 < i + 1
        /\ p = u[1] /\ 1 \in 1..Len(u)
    BY TailElements
  <1>2. {u[i].n : i \in DOMAIN u} = {m} \cup {t[i].n : i \in DOMAIN t}
    BY KeptTail
  <1>3. /\ DOMAIN g = 1..(Len(l) + 1) /\ Len(g) = Len(l) + 1 /\ Len(l) \in Nat
        /\ \A i \in 1..Len(l) : g[i] = l[i]
        /\ g[Len(l) + 1] = p
        /\ (l = <<>> <=> Len(l) = 0) /\ DOMAIN l = 1..Len(l)
    BY <1>1, AppendElements
  <1>4. PieceOK(u, 1, n, a, h)
    BY <1>1 DEF StreamInv
  <1> HIDE DEF t, p, g, m
  <1>5. \A i \in 1..(Len(l) + 1) : g[i].kind = "request" /\ g[i].n = g[1].n
    BY <1>3 DEF IsRequest, g, p
  <1>6. p.kind = "request" /\ g[1].n = m
    BY <1>3, <1>5 DEF m
  <1>7. m \in 1..n /\ m \in a
    BY <1>1, <1>4, <1>6 DEF PieceOK, m, p
  <1>8. \A x \in w : x < m
    <2>1. CASE l = <<>>
      <3>1. p.part = "whole"
        BY <2>1, <1>3 DEF IsRequest, g, p
      <3> QED BY <3>1, <1>1 DEF RequestOrder, m
    <2>2. CASE l # <<>>
      <3>1. l[1].n = m
        BY <2>2, <1>3, <1>6
      <3> QED BY <2>2, <3>1 DEF RequestOrder
    <2> QED BY <2>1, <2>2
  <1>9. \A j \in DOMAIN t : t[j].part # "tail" => m < t[j].n
    <2>1. \A j \in 1..Len(u) : 1 < j /\ u[j].part # "tail" => u[1].n < u[j].n
      BY <1>1, <1>4 DEF PieceOK
    <2> QED BY <2>1, <1>1 DEF m
  <1>10. RequestOrder(w, m, t, <<>>, a)
    <2>1. \A x \in w : \A j \in DOMAIN t : t[j].part # "tail" => x < t[j].n
      BY <1>1 DEF RequestOrder
    <2> QED BY <2>1, <1>7, <1>8, <1>9 DEF RequestOrder
  <1>11. ASSUME Kept(w, 0, u, l, a) PROVE Kept(w, m, t, <<>>, a)
    <2>1. \A i \in DOMAIN l : l[i].n = m
      BY <1>3, <1>5, <1>6
    <2>2. 0 \notin a
      BY DEF StreamInv
    <2>3. {l[i].n : i \in DOMAIN l} \subseteq {m}
      BY <2>1
    <2> QED BY <2>2, <2>3, <1>2, <1>11 DEF Kept
  <1> QED BY <1>6, <1>7, <1>10, <1>11 DEF t, g, p

\* What is not a complete request is not one the client has completed, as
\* long as no tail was separated from its head.
LEMMA OtherTaken ==
  ASSUME NEW u \in Seq(Pieces), NEW l \in Seq(Pieces), NEW n \in Nat,
         NEW a \in SUBSET Nat, NEW h \in BOOLEAN, NEW e \in BOOLEAN, u # <<>>,
         StreamInv(u, l, n, a, h), NoOrphan(u, l, h, e),
         Head(u).part # "head", ~IsRequest(Append(l, Head(u)))
  PROVE  l = <<>> /\ Head(u).n \notin a
  <1> DEFINE p == Head(u)
             g == Append(l, p)
  <1>1. /\ Len(u) \in Nat /\ DOMAIN u = 1..Len(u) /\ Len(u) >= 1 /\ u[1] \in Pieces
        /\ p = u[1] /\ 1 \in 1..Len(u)
    BY TailElements
  <1>2. /\ DOMAIN g = 1..(Len(l) + 1) /\ Len(g) = Len(l) + 1 /\ Len(l) \in Nat
        /\ \A i \in 1..Len(l) : g[i] = l[i]
        /\ g[Len(l) + 1] = p
        /\ l = <<>> <=> Len(l) = 0
    BY <1>1, AppendElements
  <1>3. PieceOK(u, 1, n, a, h) /\ (l # <<>> => LineOK(u, l, n, h))
    BY <1>1 DEF StreamInv
  <1>4. ~IsRequest(g)
    OBVIOUS
  <1> HIDE DEF p, g
  <1>5. ASSUME l # <<>> PROVE FALSE
    <2>1. /\ Len(l) = 1 /\ l[1].part = "head" /\ l[1].kind = "request"
          /\ p.part = "tail" /\ p.n = l[1].n
      BY <1>1, <1>3, <1>5 DEF LineOK
    <2>2. p.kind = "request"
      BY <2>1, <1>1, <1>3 DEF PieceOK
    <2>3. DOMAIN g = {1, 2} /\ g[1] = l[1] /\ g[2] = p /\ Len(g) = 2
      BY <2>1, <1>2
    <2> QED BY <2>1, <2>2, <2>3, <1>4 DEF IsRequest
  <1>6. l = <<>>
    BY <1>5
  <1>7. p.part = "whole"
    <2>1. p.part # "tail"
      BY <1>1, <1>6 DEF NoOrphan
    <2> QED BY <2>1, <1>1 DEF Pieces, Parts, p
  <1>8. p.kind # "request"
    BY <1>2, <1>4, <1>6, <1>7 DEF IsRequest
  <1> QED BY <1>1, <1>3, <1>6, <1>8 DEF PieceOK, p

\* At the end of the stream what is left of a line is no request.
LEMMA LineAtEof ==
  ASSUME NEW l \in Seq(Pieces), NEW n \in Nat, NEW a \in SUBSET Nat,
         NEW h \in BOOLEAN, NEW w, NEW k, l # <<>>,
         StreamInv(<<>>, l, n, a, h)
  PROVE  /\ ~IsRequest(l) /\ ~IsBlank(l)
         /\ Kept(w, k, <<>>, l, a) => Kept(w, k, <<>>, <<>>, a)
  <1>1. /\ Len(l) = 1 /\ l[1].part = "head" /\ l[1].kind = "request"
        /\ l[1].n \notin a
    BY DEF StreamInv, LineOK, HalfOK
  <1>2. DOMAIN l = {1}
    BY <1>1
  <1>3. ~IsRequest(l) /\ ~IsBlank(l)
    BY <1>1, <1>2 DEF IsRequest, IsBlank
  <1>4. {l[i].n : i \in DOMAIN l} = {l[1].n}
    BY <1>2
  <1>5. ASSUME Kept(w, k, <<>>, l, a) PROVE Kept(w, k, <<>>, <<>>, a)
    BY <1>1, <1>4, <1>5 DEF Kept
  <1> QED BY <1>3, <1>5

-----------------------------------------------------------------------------
(***************************************************************************)
(* One connection's state.                                                 *)
(***************************************************************************)

Same(c) ==
  /\ phase'[c] = phase[c] /\ rx'[c] = rx[c] /\ base'[c] = base[c]
  /\ dropped'[c] = dropped[c] /\ up'[c] = up[c] /\ current'[c] = current[c]
  /\ pending'[c] = pending[c] /\ out'[c] = out[c] /\ read'[c] = read[c]
  /\ sent'[c] = sent[c] /\ asked'[c] = asked[c] /\ half'[c] = half[c]
  /\ eof'[c] = eof[c]
  /\ c \in Unix => /\ fwd'[c] = fwd[c] /\ held'[c] = held[c]
                   /\ local'[c] = local[c] /\ line'[c] = line[c]

\* The types of one connection's values.
LEMMA Typed ==
  ASSUME TypeOK, NEW c \in Conns
  PROVE  /\ published \in Nat /\ rx[c] \in Nat /\ base[c] \in Nat
         /\ dropped[c] \in SUBSET Nat /\ up[c] \in Seq(Pieces)
         /\ LineOf(c) \in Seq(Pieces) /\ LocalOf(c) \in Seq(Nat)
         /\ HeldOf(c) \in Nat /\ current[c] \in Nat
         /\ pending[c] \in Seq(Lines) /\ out[c] \in Seq(Lines)
         /\ read[c] \in Nat /\ sent[c] \in Nat /\ asked[c] \in SUBSET Nat
         /\ half[c] \in BOOLEAN /\ eof[c] \in BOOLEAN
         /\ Toward(c) \in Seq(Lines)
         /\ \A types : NumbersOf(Toward(c), types) \in SUBSET Nat
         /\ Written(c) \in SUBSET Nat /\ Answered(c) \in SUBSET Nat
  <1>1. /\ published \in Nat /\ rx[c] \in Nat /\ base[c] \in Nat
        /\ dropped[c] \in SUBSET Nat /\ up[c] \in Seq(Pieces)
        /\ current[c] \in Nat
        /\ pending[c] \in Seq(Lines) /\ out[c] \in Seq(Lines)
        /\ read[c] \in Nat /\ sent[c] \in Nat /\ asked[c] \in SUBSET Nat
    BY DEF TypeOK, Pieces, Lines
  <1>2. half[c] \in BOOLEAN /\ eof[c] \in BOOLEAN
    BY DEF TypeOK
  <1>3. /\ LineOf(c) \in Seq(Pieces) /\ LocalOf(c) \in Seq(Nat)
        /\ HeldOf(c) \in Nat
    <2>1. CASE c \in Unix
      BY <2>1 DEF TypeOK, LineOf, LocalOf, HeldOf, Pieces
    <2>2. CASE c \notin Unix
      <3>1. LineOf(c) = <<>> /\ LocalOf(c) = <<>> /\ HeldOf(c) = 0
        BY <2>2 DEF LineOf, LocalOf, HeldOf
      <3> QED BY <3>1
    <2> QED BY <2>1, <2>2
  <1>4. Toward(c) \in Seq(Lines)
    BY <1>1 DEF Toward
  <1>5. ASSUME NEW s \in Seq(Lines), NEW types
        PROVE  NumbersOf(s, types) \in SUBSET Nat
    <2>1. \A i \in DOMAIN s : s[i] \in Lines
      OBVIOUS
    <2>2. \A i \in DOMAIN s : s[i].n \in Nat
      BY <2>1 DEF Lines
    <2> QED BY <2>2 DEF NumbersOf
  <1>6. \A types : NumbersOf(Toward(c), types) \in SUBSET Nat
    BY <1>4, <1>5
  <1> QED BY <1>1, <1>2, <1>3, <1>4, <1>6 DEF Written, Answered

\* What does not touch a connection keeps its invariant.
LEMMA Frame ==
  ASSUME NEW c \in Conns, ConnInv(c), Same(c), published' = published
  PROVE  ConnInv(c)'
  <1>1. /\ LineOf(c)' = LineOf(c) /\ LocalOf(c)' = LocalOf(c)
        /\ HeldOf(c)' = HeldOf(c) /\ Toward(c)' = Toward(c)
    BY DEF Same, LineOf, LocalOf, HeldOf, Toward
  <1>2. Written(c)' = Written(c) /\ Answered(c)' = Answered(c)
    BY <1>1 DEF Written, Answered
  <1>3. TaskInv(c)'
    BY <1>1 DEF ConnInv, TaskInv, Same
  <1>4. EventInv(c)'
    BY <1>1, <1>2 DEF ConnInv, EventInv, Same
  <1>5. RequestInv(c)'
    BY <1>1, <1>2 DEF ConnInv, RequestInv, Same
  <1> QED BY <1>3, <1>4, <1>5 DEF ConnInv

\* The task gets a message to write, writes it, or gives up on it.
LEMMA TowardStep ==
  ASSUME NEW c \in Conns, NEW o \in Seq(Lines), NEW x \in Lines
  PROVE  /\ o \o <<>> = o
         /\ o \o <<x>> = Append(o, x)
         /\ (o \o <<x>>) \o <<>> = o \o <<x>>
         /\ <<x>> \in Seq(Lines) /\ <<x>> # <<>> /\ Len(<<x>>) = 1
  OBVIOUS

\* Only in a write is there a message that is not yet written.
LEMMA PendingShape ==
  ASSUME TypeOK, NEW c \in Conns, TaskInv(c)
  PROVE  /\ phase[c] # "write" => pending[c] = <<>> /\ Toward(c) = out[c]
         /\ phase[c] = "write" =>
              \E x \in Lines : pending[c] = <<x>> /\ Toward(c) = Append(out[c], x)
  <1>1. pending[c] \in Seq(Lines) /\ out[c] \in Seq(Lines)
    BY Typed
  <1>a. pending[c] # <<>> <=> phase[c] = "write"
    BY DEF TaskInv
  <1>b. Len(pending[c]) <= 1
    BY DEF TaskInv
  <1>2. ASSUME phase[c] # "write" PROVE pending[c] = <<>> /\ Toward(c) = out[c]
    <2>1. pending[c] = <<>>
      BY <1>2, <1>a
    <2>2. ASSUME NEW o \in Seq(Lines) PROVE o \o <<>> = o
      OBVIOUS
    <2> QED BY <2>1, <2>2, <1>1 DEF Toward
  <1>3. ASSUME phase[c] = "write"
        PROVE  \E x \in Lines : pending[c] = <<x>> /\ Toward(c) = Append(out[c], x)
    <2>1. Len(pending[c]) = 1
      <3>1. ASSUME NEW o \in Seq(Lines) PROVE Len(o) \in Nat /\ (o = <<>> <=> Len(o) = 0)
        OBVIOUS
      <3>2. pending[c] # <<>>
        BY <1>3, <1>a
      <3>3. Len(pending[c]) \in Nat /\ Len(pending[c]) # 0
        BY <3>1, <3>2, <1>1
      <3>4. \A m \in Nat : m # 0 /\ m <= 1 => m = 1
        OBVIOUS
      <3> QED BY <3>3, <3>4, <1>b
    <2>2. pending[c][1] \in Lines /\ pending[c] = <<pending[c][1]>>
      BY <1>1, <2>1
    <2> QED BY <1>1, <2>2, TowardStep, ZenonT(60) DEF Toward
  <1> QED BY <1>2, <1>3

-----------------------------------------------------------------------------
(***************************************************************************)
(* Types and capacities.                                                   *)
(***************************************************************************)

Phases == Serving \cup {"none", "backlog", "handshake", "closed"}

\* What a complete line leads to.
LEMMA ProcessCases ==
  ASSUME NEW c, NEW l, 1 \in DOMAIN l, Process(c, l)
  PROVE  \/ /\ IsRequest(l)
            /\ phase' = [phase EXCEPT ![c] = "handle"]
            /\ current' = [current EXCEPT ![c] = l[1].n]
            /\ pending' = pending
         \/ /\ ~IsRequest(l) /\ IsBlank(l) /\ c \in Unix
            /\ phase' = phase /\ current' = current /\ pending' = pending
         \/ /\ ~IsRequest(l)
            /\ phase' = [phase EXCEPT ![c] = "write"]
            /\ pending' = [pending EXCEPT ![c] = <<Line("parse_error", 0)>>]
            /\ current' = current
  <1>1. IsRequest(l) => ~IsBlank(l)
    BY DEF IsRequest, IsBlank
  <1> HIDE DEF IsRequest, IsBlank
  <1>2. CASE IsRequest(l)
    BY <1>1, <1>2 DEF Process
  <1>3. CASE ~IsRequest(l) /\ IsBlank(l) /\ c \in Unix
    BY <1>3 DEF Process
  <1>4. CASE ~IsRequest(l) /\ ~(IsBlank(l) /\ c \in Unix)
    BY <1>4 DEF Process
  <1> QED BY <1>2, <1>3, <1>4

\* Processing a line keeps the types of what it changes.
LEMMA ProcessTypes ==
  ASSUME TypeOK, NEW c \in Conns, NEW l \in Seq(Pieces), l # <<>>, Process(c, l)
  PROVE  /\ phase' \in [Conns -> Phases]
         /\ current' \in [Conns -> Nat]
         /\ pending' \in [Conns -> Seq(Lines)]
  <1>1. /\ phase \in [Conns -> Phases]
        /\ current \in [Conns -> Nat]
        /\ pending \in [Conns -> Seq(Lines)]
    BY DEF TypeOK, Phases, Lines
  <1>2. l[1].n \in Nat
    <2>1. l[1] \in Pieces
      BY TailElements
    <2> QED BY <2>1 DEF Pieces
  <1>3. Line("parse_error", 0) \in Lines
    BY DEF Line, Lines, LineTypes
  <1>4. <<Line("parse_error", 0)>> \in Seq(Lines)
    BY <1>3
  <1>5. "handle" \in Phases /\ "write" \in Phases
    BY DEF Phases, Serving
  <1>6. 1 \in DOMAIN l
    BY TailElements
  <1> HIDE DEF Phases
  <1> QED BY <1>1, <1>2, <1>4, <1>5, <1>6, ProcessCases

EventTypes ==
  /\ published \in Nat /\ rx \in [Conns -> Nat] /\ base \in [Conns -> Nat]
  /\ dropped \in [Conns -> SUBSET Nat]
  /\ fwd \in [Unix -> {"none", "recv", "send", "done"}]
  /\ held \in [Unix -> Nat] /\ local \in [Unix -> Seq(Nat)]

TaskTypes ==
  /\ phase \in [Conns -> Phases] /\ line \in [Unix -> Seq(Pieces)]
  /\ current \in [Conns -> Nat]
  /\ pending \in [Conns -> Seq(Lines)] /\ out \in [Conns -> Seq(Lines)]

ClientTypes ==
  /\ up \in [Conns -> Seq(Pieces)]
  /\ read \in [Conns -> Nat] /\ sent \in [Conns -> Nat]
  /\ asked \in [Conns -> SUBSET Nat]
  /\ result \in [OneShot -> {"none", "Ok", "DaemonError", "InvalidResponse"}]

FlagTypes == half \in [Conns -> BOOLEAN] /\ eof \in [Conns -> BOOLEAN]

Caps ==
  /\ \A c \in Conns : read[c] <= Len(out[c]) /\ Len(out[c]) - read[c] <= PipeCap
  /\ \A c \in Unix : Len(local[c]) <= LocalCap

\* The type invariant, by groups of variables.
LEMMA TypeParts ==
  /\ TypeOK <=> EventTypes /\ TaskTypes /\ ClientTypes /\ FlagTypes /\ Caps
  /\ TypeOK' <=> EventTypes' /\ TaskTypes' /\ ClientTypes' /\ FlagTypes' /\ Caps'
  BY DEF TypeOK, EventTypes, TaskTypes, ClientTypes, FlagTypes, Caps, Phases,
         Pieces, Lines

\* A step that changes none of the variables keeps their types.
LEMMA TypesKept ==
  /\ EventTypes /\ UNCHANGED eventVars => EventTypes'
  /\ TaskTypes /\ UNCHANGED taskVars => TaskTypes'
  /\ ClientTypes /\ UNCHANGED <<up, read, sent, asked, result>> => ClientTypes'
  /\ FlagTypes /\ UNCHANGED <<half, eof>> => FlagTypes'
  /\ Caps /\ UNCHANGED <<read, out, local>> => Caps'
  BY DEF EventTypes, TaskTypes, ClientTypes, FlagTypes, Caps, eventVars, taskVars

\* A receiver that lags skips to an event that was sent.
LEMMA SkipTypes ==
  ASSUME TypeOK, NEW c \in Conns, published - rx[c] > BroadcastCap
  PROVE  /\ [rx EXCEPT ![c] = published - BroadcastCap] \in [Conns -> Nat]
         /\ [dropped EXCEPT ![c] = @ \cup (rx[c] + 1)..(published - BroadcastCap)]
              \in [Conns -> SUBSET Nat]
  <1>1. published \in Nat /\ rx[c] \in Nat /\ BroadcastCap \in Nat
    BY IpcAssumption DEF TypeOK
  <1>2. published - BroadcastCap \in Nat
    BY <1>1
  <1>3. (rx[c] + 1)..(published - BroadcastCap) \subseteq Nat
    BY <1>1, <1>2
  <1>4. rx \in [Conns -> Nat] /\ dropped \in [Conns -> SUBSET Nat]
    BY DEF TypeOK
  <1>5. [rx EXCEPT ![c] = published - BroadcastCap] \in [Conns -> Nat]
    BY <1>2, <1>4
  <1>6. dropped[c] \cup (rx[c] + 1)..(published - BroadcastCap) \in SUBSET Nat
    BY <1>3, <1>4
  <1>7. [dropped EXCEPT ![c] = @ \cup (rx[c] + 1)..(published - BroadcastCap)]
          \in [Conns -> SUBSET Nat]
    BY <1>4, <1>6
  <1> QED BY <1>5, <1>7

\* Steps of the forwarder and of the channel.
LEMMA TypeEvents ==
  ASSUME TypeOK, NEW c \in Unix, ForwardRecv(c) \/ ForwardSend(c)
  PROVE  TypeOK'
  <1> USE IpcAssumption DEF Conns
  <1>0. EventTypes /\ TaskTypes /\ ClientTypes /\ FlagTypes /\ Caps
    BY TypeParts
  <1>1. TaskTypes' /\ ClientTypes' /\ FlagTypes'
    BY <1>0, TypesKept DEF ForwardRecv, ForwardSend, taskVars, clientVars
  <1>2. CASE ForwardRecv(c)
    <2>1. Caps'
      BY <1>0, <1>2, TypesKept DEF ForwardRecv, taskVars, clientVars
    <2>2. published - rx[c] > BroadcastCap => published - BroadcastCap \in Nat
      BY <1>0 DEF EventTypes
    <2>3. EventTypes'
      <3>1. CASE Lagged(c)
        <4>1. /\ rx' = [rx EXCEPT ![c] = published - BroadcastCap]
              /\ dropped' = [dropped EXCEPT ![c] =
                               @ \cup (rx[c] + 1)..(published - BroadcastCap)]
              /\ held' = held /\ fwd' = fwd
          BY <3>1, <1>2 DEF ForwardRecv, SkipToOldest
        <4> QED BY <4>1, <3>1, <2>2, <1>0, <1>2, SkipTypes
                DEF EventTypes, ForwardRecv, Lagged
      <3>2. CASE ~Lagged(c)
        <4>1. /\ rx' = [rx EXCEPT ![c] = @ + 1] /\ dropped' = dropped
              /\ held' = [held EXCEPT ![c] = rx[c] + 1]
              /\ fwd' = [fwd EXCEPT ![c] = "send"]
              /\ UNCHANGED <<published, base, local>>
          BY <3>2, <1>2 DEF ForwardRecv
        <4>2. rx[c] \in Nat
          BY <1>0 DEF EventTypes
        <4> QED BY <4>1, <4>2, <1>0 DEF EventTypes
      <3> QED BY <3>1, <3>2
    <2> QED BY <2>1, <2>3, <1>1, TypeParts
  <1>3. CASE ForwardSend(c)
    <2>1. local' = local \/ (local' = [local EXCEPT ![c] = Append(@, held[c])]
                              /\ Len(local[c]) < LocalCap)
      BY <1>3 DEF ForwardSend
    <2>2. local[c] \in Seq(Nat) /\ held[c] \in Nat
      BY <1>0 DEF EventTypes
    <2>3. Append(local[c], held[c]) \in Seq(Nat)
          /\ Len(Append(local[c], held[c])) = Len(local[c]) + 1
          /\ Len(local[c]) \in Nat
      BY <2>2, AppendElements
    <2>4. local' \in [Unix -> Seq(Nat)]
      BY <2>1, <2>3, <1>0 DEF EventTypes
    <2>5. EventTypes'
      BY <2>4, <1>0, <1>3 DEF EventTypes, ForwardSend
    <2>6. \A d \in Unix : Len(local'[d]) <= LocalCap
      <3>1. \A d \in Unix : Len(local[d]) <= LocalCap /\ Len(local[d]) \in Nat
        BY <1>0 DEF Caps, EventTypes
      <3>2. CASE local' = local
        BY <3>1, <3>2
      <3>3. CASE local' = [local EXCEPT ![c] = Append(@, held[c])]
                 /\ Len(local[c]) < LocalCap
        <4>1. local'[c] = Append(local[c], held[c])
              /\ \A d \in Unix \ {c} : local'[d] = local[d]
          BY <3>3, <1>0 DEF EventTypes
        <4>2. Len(local'[c]) <= LocalCap
          BY <4>1, <3>3, <2>3
        <4> QED BY <4>1, <4>2, <3>1
      <3> QED BY <3>2, <3>3, <2>1
    <2>7. Caps'
      BY <2>6, <1>0, <1>3 DEF Caps, ForwardSend, taskVars, clientVars
    <2> QED BY <2>5, <2>7, <1>1, TypeParts
  <1> QED BY <1>2, <1>3

\* What the task writes is a message.
LEMMA LineTyped ==
  ASSUME NEW type \in LineTypes, NEW n \in Nat
  PROVE  Line(type, n) \in Lines /\ <<Line(type, n)>> \in Seq(Lines)
  <1>1. Line(type, n) \in Lines
    BY DEF Line, Lines
  <1> QED BY <1>1

\* Every step keeps every type and every capacity.
LEMMA TypeStep ==
  ASSUME IInv, [Next]_vars
  PROVE  TypeOK'
  <1> USE IpcAssumption DEF Conns, Unix
  <1>0. TypeOK /\ \A c \in Conns : TaskInv(c)
    BY DEF IInv, ConnInv
  <1>a. EventTypes /\ TaskTypes /\ ClientTypes /\ FlagTypes /\ Caps
    BY <1>0, TypeParts
  <1>b. /\ "select" \in Phases /\ "handle" \in Phases /\ "write" \in Phases
        /\ "backlog" \in Phases /\ "handshake" \in Phases /\ "closed" \in Phases
    BY DEF Phases, Serving
  <1>c. {"success", "error", "parse_error", "event", "pong"} \subseteq LineTypes
    BY DEF LineTypes
  <1> HIDE DEF Phases
  <1>1. CASE UNCHANGED vars
    BY <1>a, <1>1, TypeParts, TypesKept DEF vars, eventVars, taskVars, clientVars
  <1>2. CASE SendEvent
    <2>1. EventTypes'
      BY <1>a, <1>2 DEF EventTypes, SendEvent
    <2> QED BY <2>1, <1>a, <1>2, TypeParts, TypesKept DEF SendEvent, taskVars, clientVars
  <1>3. ASSUME NEW c \in Conns, Connect(c) PROVE TypeOK'
    <2>1. TaskTypes'
      BY <1>3, <1>a, <1>b DEF TaskTypes, Connect
    <2> QED BY <2>1, <1>a, <1>3, TypeParts, TypesKept DEF Connect, eventVars, clientVars
  <1>4. ASSUME NEW c \in Unix, AcceptUnix(c) PROVE TypeOK'
    <2>1. TaskTypes'
      BY <1>4, <1>a, <1>b DEF TaskTypes, AcceptUnix
    <2>2. EventTypes'
      BY <1>4, <1>a DEF EventTypes, AcceptUnix, Subscribe
    <2> QED BY <2>1, <2>2, <1>a, <1>4, TypeParts, TypesKept DEF AcceptUnix, clientVars
  <1>5. ASSUME NEW c \in Ws, AcceptTcp(c) PROVE TypeOK'
    <2>1. TaskTypes'
      BY <1>5, <1>a, <1>b DEF TaskTypes, AcceptTcp
    <2>2. EventTypes'
      BY <1>5, <1>a DEF EventTypes, AcceptTcp, Subscribe
    <2> QED BY <2>1, <2>2, <1>a, <1>5, TypeParts, TypesKept DEF AcceptTcp, clientVars
  <1>6. ASSUME NEW c \in Ws, AcceptWs(c) PROVE TypeOK'
    <2>1. TaskTypes'
      BY <1>6, <1>a, <1>b DEF TaskTypes, AcceptWs
    <2> QED BY <2>1, <1>a, <1>6, TypeParts, TypesKept DEF AcceptWs, eventVars, clientVars
  <1>7. ASSUME NEW c \in Unix, ForwarderStep(c) PROVE TypeOK'
    BY <1>0, <1>7, TypeEvents DEF ForwarderStep
  <1>8. ASSUME NEW c \in Unix, ReadLine(c) PROVE TypeOK'
    <2>1. /\ up[c] \in Seq(Pieces) /\ line[c] \in Seq(Pieces) /\ up[c] # <<>>
          /\ Tail(up[c]) \in Seq(Pieces) /\ Head(up[c]) \in Pieces
      <3>1. up[c] \in Seq(Pieces) /\ line[c] \in Seq(Pieces) /\ up[c] # <<>>
        BY <1>8, <1>a DEF ClientTypes, TaskTypes, ReadLine
      <3> QED BY <3>1, TailElements
    <2>2. /\ Append(line[c], Head(up[c])) \in Seq(Pieces)
          /\ Append(line[c], Head(up[c])) # <<>>
      BY <2>1, AppendElements
    <2>3. ClientTypes'
      BY <2>1, <1>8, <1>a DEF ClientTypes, ReadLine, clientVars
    <2>4. EventTypes' /\ FlagTypes' /\ Caps' /\ out' = out
      BY <1>8, <1>a, TypesKept DEF ReadLine, eventVars, clientVars
    <2>5. CASE Head(up[c]).part = "head"
      <3>1. line' \in [Unix -> Seq(Pieces)]
        BY <2>2, <2>5, <1>8, <1>a DEF TaskTypes, ReadLine
      <3>2. UNCHANGED <<phase, current, pending>>
        BY <2>5, <1>8 DEF ReadLine
      <3> QED BY <3>1, <3>2, <2>3, <2>4, <1>a, TypeParts DEF TaskTypes
    <2>6. CASE Head(up[c]).part # "head"
      <3>0. <<>> \in Seq(Pieces) /\ line' = [line EXCEPT ![c] = <<>>]
        BY <2>6, <1>8 DEF ReadLine
      <3>1. line' \in [Unix -> Seq(Pieces)]
        BY <3>0, <1>a DEF TaskTypes
      <3>2. Process(c, Append(line[c], Head(up[c])))
        BY <2>6, <1>8 DEF ReadLine
      <3>3. /\ phase' \in [Conns -> Phases] /\ current' \in [Conns -> Nat]
            /\ pending' \in [Conns -> Seq(Lines)]
        BY <3>2, <2>2, <1>0, ProcessTypes
      <3> QED BY <3>1, <3>3, <2>3, <2>4, <1>a, TypeParts DEF TaskTypes
    <2> QED BY <2>5, <2>6
  <1>9. ASSUME NEW c \in Unix, ReadEof(c) PROVE TypeOK'
    <2>1. EventTypes' /\ ClientTypes' /\ FlagTypes' /\ Caps' /\ out' = out
      BY <1>9, <1>a, TypesKept DEF ReadEof, eventVars, clientVars
    <2>2. CASE line[c] = <<>>
      BY <2>1, <2>2, <1>9, <1>a, <1>b, TypeParts DEF TaskTypes, ReadEof
    <2>3. CASE line[c] # <<>>
      <3>0. <<>> \in Seq(Pieces) /\ line' = [line EXCEPT ![c] = <<>>]
        BY <2>3, <1>9 DEF ReadEof
      <3>1. line' \in [Unix -> Seq(Pieces)] /\ line[c] \in Seq(Pieces)
        BY <3>0, <1>a DEF TaskTypes
      <3>2. Process(c, line[c])
        BY <2>3, <1>9 DEF ReadEof
      <3>3. /\ phase' \in [Conns -> Phases] /\ current' \in [Conns -> Nat]
            /\ pending' \in [Conns -> Seq(Lines)]
        BY <3>1, <3>2, <2>3, <1>0, ProcessTypes
      <3> QED BY <3>1, <3>3, <2>1, <1>a, TypeParts DEF TaskTypes
    <2> QED BY <2>2, <2>3
  <1>10. ASSUME NEW c \in Unix, TakeLocalEvent(c) PROVE TypeOK'
    <2>1. local[c] \in Seq(Nat) /\ local[c] # <<>>
      BY <1>10, <1>a DEF EventTypes, TakeLocalEvent
    <2>2. /\ Tail(local[c]) \in Seq(Nat) /\ Head(local[c]) \in Nat
          /\ Len(Tail(local[c])) <= Len(local[c])
      BY <2>1, TailElements
    <2>3. EventTypes'
      BY <2>2, <1>10, <1>a DEF EventTypes, TakeLocalEvent
    <2>4. ClientTypes' /\ FlagTypes'
      BY <1>10, <1>a, TypesKept DEF TakeLocalEvent, clientVars
    <2>5. Caps'
      <3>1. \A d \in Unix : Len(local'[d]) <= LocalCap
        <4>1. Len(local[c]) \in Nat /\ Len(Tail(local[c])) \in Nat /\ Len(local[c]) <= LocalCap
          BY <2>1, <2>2, <1>a DEF Caps
        <4>2. local' = [local EXCEPT ![c] = Tail(@)]
          BY <1>10 DEF TakeLocalEvent
        <4> QED BY <4>1, <4>2, <2>2, <1>a DEF Caps, EventTypes
      <3> QED BY <3>1, <1>10, <1>a DEF Caps, TakeLocalEvent, clientVars
    <2>6. TaskTypes'
      <3>1. <<Line("event", Head(local[c]))>> \in Seq(Lines)
        BY <2>2, <1>c, LineTyped
      <3> QED BY <3>1, <1>10, <1>a, <1>b DEF TaskTypes, TakeLocalEvent
    <2> QED BY <2>3, <2>4, <2>5, <2>6, TypeParts
  <1>11. ASSUME NEW c \in Ws, TakeMessage(c) PROVE TypeOK'
    <2> DEFINE p == Head(up[c])
    <2>1. /\ up[c] \in Seq(Pieces) /\ up[c] # <<>>
          /\ Tail(up[c]) \in Seq(Pieces) /\ p \in Pieces
      <3>1. up[c] \in Seq(Pieces) /\ up[c] # <<>>
        BY <1>11, <1>a DEF ClientTypes, TakeMessage
      <3> QED BY <3>1, TailElements
    <2>2. ClientTypes'
      BY <2>1, <1>11, <1>a DEF ClientTypes, TakeMessage, clientVars
    <2>3. EventTypes' /\ FlagTypes' /\ Caps' /\ out' = out /\ line' = line
      BY <1>11, <1>a, TypesKept DEF TakeMessage, eventVars, clientVars
    <2> HIDE DEF p
    <2>4. p.n \in Nat /\ <<p>> \in Seq(Pieces) /\ <<p>> # <<>>
      BY <2>1 DEF Pieces
    <2>5. <<Line("pong", p.n)>> \in Seq(Lines)
      BY <2>4, <1>c, LineTyped
    <2>6. \/ /\ phase' = [phase EXCEPT ![c] = "write"]
             /\ pending' = [pending EXCEPT ![c] = <<Line("pong", p.n)>>]
             /\ current' = current
          \/ UNCHANGED <<phase, current, pending>>
          \/ /\ phase' = [phase EXCEPT ![c] = "closed"]
             /\ UNCHANGED <<current, pending>>
          \/ Process(c, <<p>>)
      <3>1. CASE p.kind = "ping"
        BY <3>1, <1>11 DEF TakeMessage, p
      <3>2. CASE p.kind = "binary"
        BY <3>2, <1>11 DEF TakeMessage, p
      <3>3. CASE p.kind = "close"
        BY <3>3, <1>11 DEF TakeMessage, p
      <3>4. CASE p.kind \notin {"ping", "binary", "close"}
        BY <3>4, <1>11 DEF TakeMessage, p
      <3> QED BY <3>1, <3>2, <3>3, <3>4
    <2>7. Process(c, <<p>>) => /\ phase' \in [Conns -> Phases]
                               /\ current' \in [Conns -> Nat]
                               /\ pending' \in [Conns -> Seq(Lines)]
      BY <2>4, <1>0, ProcessTypes
    <2>8. TaskTypes'
      BY <2>3, <2>5, <2>6, <2>7, <1>a, <1>b, ZenonT(60) DEF TaskTypes
    <2> QED BY <2>2, <2>3, <2>8, TypeParts
  <1>12. ASSUME NEW c \in Ws, TakeEof(c) PROVE TypeOK'
    <2>1. TaskTypes'
      BY <1>12, <1>a, <1>b DEF TaskTypes, TakeEof
    <2> QED BY <2>1, <1>a, <1>12, TypeParts, TypesKept DEF TakeEof, eventVars, clientVars
  <1>13. ASSUME NEW c \in Ws, TakeBroadcast(c) PROVE TypeOK'
    <2>1. ClientTypes' /\ FlagTypes' /\ Caps'
      BY <1>13, <1>a, TypesKept DEF TakeBroadcast, clientVars
    <2>2. published - rx[c] > BroadcastCap => published - BroadcastCap \in Nat
      BY <1>a DEF EventTypes
    <2>3. EventTypes'
      <3>1. CASE Lagged(c)
        <4>1. /\ rx' = [rx EXCEPT ![c] = published - BroadcastCap]
              /\ dropped' = [dropped EXCEPT ![c] =
                               @ \cup (rx[c] + 1)..(published - BroadcastCap)]
          BY <3>1, <1>13 DEF TakeBroadcast, SkipToOldest
        <4> QED BY <4>1, <3>1, <2>2, <1>a, <1>13, SkipTypes
                DEF EventTypes, TakeBroadcast, Lagged
      <3>2. CASE ~Lagged(c)
        <4>1. /\ rx' = [rx EXCEPT ![c] = @ + 1] /\ dropped' = dropped
              /\ UNCHANGED <<published, base, fwd, held, local>>
          BY <3>2, <1>13 DEF TakeBroadcast
        <4>2. rx[c] \in Nat
          BY <1>a DEF EventTypes
        <4> QED BY <4>1, <4>2, <1>a DEF EventTypes
      <3> QED BY <3>1, <3>2
    <2>4. TaskTypes'
      <3>1. <<Line("event", rx[c] + 1)>> \in Seq(Lines)
        <4>1. rx[c] + 1 \in Nat
          BY <1>a DEF EventTypes
        <4> QED BY <4>1, <1>c, LineTyped
      <3> QED BY <3>1, <1>a, <1>b, <1>13 DEF TaskTypes, TakeBroadcast
    <2> QED BY <2>1, <2>3, <2>4, TypeParts
  <1>14. ASSUME NEW c \in Conns, NEW type \in Answers, HandlerReturns(c, type)
         PROVE  TypeOK'
    <2>1. <<Line(type, current[c])>> \in Seq(Lines)
      BY <1>a, <1>c, LineTyped DEF TaskTypes, Answers
    <2>2. TaskTypes'
      BY <2>1, <1>14, <1>a, <1>b DEF TaskTypes, HandlerReturns
    <2> QED BY <2>2, <1>a, <1>14, TypeParts, TypesKept
            DEF HandlerReturns, eventVars, clientVars
  <1>15. ASSUME NEW c \in Conns, Write(c) PROVE TypeOK'
    <2>1. EventTypes' /\ ClientTypes' /\ FlagTypes'
      BY <1>15, <1>a, TypesKept DEF Write, eventVars, clientVars
    <2>2. out[c] \in Seq(Lines) /\ pending[c] \in Seq(Lines)
      BY <1>a DEF TaskTypes
    <2>3. /\ out[c] \o pending[c] \in Seq(Lines)
          /\ Len(out[c] \o pending[c]) = Len(out[c]) + Len(pending[c])
          /\ Len(out[c]) \in Nat /\ Len(pending[c]) \in Nat
      BY <2>2
    <2>4. \/ out' = out
          \/ /\ out' = [out EXCEPT ![c] = @ \o pending[c]]
             /\ Len(out[c]) - read[c] < PipeCap
      BY <1>15 DEF Write
    <2>5. TaskTypes'
      <3>1. out' \in [Conns -> Seq(Lines)]
        BY <2>3, <2>4, <1>a DEF TaskTypes
      <3>2. <<>> \in Seq(Lines) /\ pending' = [pending EXCEPT ![c] = <<>>]
            /\ UNCHANGED <<line, current>>
        BY <1>15 DEF Write
      <3>3. \/ phase' = [phase EXCEPT ![c] = "select"]
            \/ phase' = [phase EXCEPT ![c] = "closed"]
        BY <1>15 DEF Write
      <3> QED BY <3>1, <3>2, <3>3, <1>a, <1>b DEF TaskTypes
    <2>6. Caps'
      <3>1. Len(pending[c]) <= 1
        BY <1>0 DEF TaskInv
      <3>2. \A d \in Conns : read[d] <= Len(out'[d]) /\ Len(out'[d]) - read[d] <= PipeCap
        <4>1. /\ \A d \in Conns : /\ read[d] <= Len(out[d])
                                  /\ Len(out[d]) - read[d] <= PipeCap
              /\ read[c] \in Nat
          BY <1>a DEF Caps, ClientTypes
        <4>2. CASE out' = out
          BY <4>1, <4>2
        <4>3. CASE /\ out' = [out EXCEPT ![c] = @ \o pending[c]]
                   /\ Len(out[c]) - read[c] < PipeCap
          <5>1. /\ out'[c] = out[c] \o pending[c]
                /\ \A d \in Conns \ {c} : out'[d] = out[d]
            BY <4>3, <1>a DEF TaskTypes
          <5>2. Len(out'[c]) = Len(out[c]) + Len(pending[c])
            BY <5>1, <2>3
          <5>3. read[c] <= Len(out'[c]) /\ Len(out'[c]) - read[c] <= PipeCap
            <6>1. \A x, y, z \in Nat :
                    y <= x /\ x - y < PipeCap /\ z <= 1
                      => y <= x + z /\ (x + z) - y <= PipeCap
              OBVIOUS
            <6> QED BY <6>1, <5>2, <4>1, <4>3, <3>1, <2>3
          <5> QED BY <5>1, <5>3, <4>1
        <4> QED BY <4>2, <4>3, <2>4
      <3>3. read' = read /\ local' = local
        BY <1>15 DEF Write, eventVars, clientVars
      <3> QED BY <3>2, <3>3, <1>a DEF Caps
    <2> QED BY <2>1, <2>5, <2>6, TypeParts
  <1>16. ASSUME NEW c \in Conns, NEW kind \in Kinds, NEW part \in Parts,
                ClientSend(c, kind, part)
         PROVE  TypeOK'
    <2>1. Piece(sent[c] + 1, kind, part) \in Pieces
      BY <1>a DEF Piece, Pieces, ClientTypes
    <2>2. Append(up[c], Piece(sent[c] + 1, kind, part)) \in Seq(Pieces)
      BY <2>1, <1>a, AppendElements DEF ClientTypes
    <2>3. ClientTypes'
      BY <2>2, <1>16, <1>a DEF ClientTypes, ClientSend
    <2>4. FlagTypes'
      BY <1>16, <1>a DEF FlagTypes, ClientSend
    <2> QED BY <2>3, <2>4, <1>a, <1>16, TypeParts, TypesKept
            DEF ClientSend, eventVars, taskVars
  <1>17. ASSUME NEW c \in Conns, ClientSendRest(c) PROVE TypeOK'
    <2>1. Piece(sent[c], "request", "tail") \in Pieces
      BY <1>a DEF Piece, Pieces, ClientTypes, Kinds, Parts
    <2>2. Append(up[c], Piece(sent[c], "request", "tail")) \in Seq(Pieces)
      BY <2>1, <1>a, AppendElements DEF ClientTypes
    <2>3. ClientTypes'
      BY <2>2, <1>17, <1>a DEF ClientTypes, ClientSendRest
    <2>4. FlagTypes'
      BY <1>17, <1>a DEF FlagTypes, ClientSendRest
    <2> QED BY <2>3, <2>4, <1>a, <1>17, TypeParts, TypesKept
            DEF ClientSendRest, eventVars, taskVars
  <1>18. ASSUME NEW c \in Conns, ClientRead(c) PROVE TypeOK'
    <2>1. ClientTypes'
      BY <1>18, <1>a DEF ClientTypes, ClientRead
    <2>2. Caps'
      <3>1. \A d \in Conns : Len(out[d]) \in Nat /\ read[d] \in Nat
        BY <1>a DEF TaskTypes, ClientTypes
      <3>2. /\ read' = [read EXCEPT ![c] = @ + 1] /\ out' = out /\ local' = local
            /\ read[c] < Len(out[c])
        BY <1>18 DEF ClientRead, eventVars, taskVars
      <3>3. \A d \in Conns : read'[d] <= Len(out[d]) /\ Len(out[d]) - read'[d] <= PipeCap
        BY <3>1, <3>2, <1>a, SMTT(40) DEF Caps, ClientTypes
      <3> QED BY <3>2, <3>3, <1>a DEF Caps
    <2> QED BY <2>1, <2>2, <1>a, <1>18, TypeParts, TypesKept
            DEF ClientRead, eventVars, taskVars
  <1>19. ASSUME NEW c \in Conns, ClientClose(c) PROVE TypeOK'
    <2>1. FlagTypes'
      BY <1>19, <1>a DEF FlagTypes, ClientClose
    <2> QED BY <2>1, <1>a, <1>19, TypeParts, TypesKept
            DEF ClientClose, eventVars, taskVars
  <1>20. ASSUME NEW c \in OneShot, ClientReturn(c) PROVE TypeOK'
    <2>1. Parsed(out[c][1]) \in {"Ok", "DaemonError", "InvalidResponse"}
      BY DEF Parsed
    <2>2. ClientTypes'
      BY <2>1, <1>20, <1>a DEF ClientTypes, ClientReturn
    <2>3. FlagTypes'
      BY <1>20, <1>a DEF FlagTypes, ClientReturn
    <2>4. Caps'
      <3>1. \A d \in Conns : Len(out[d]) \in Nat /\ read[d] \in Nat
        BY <1>a DEF TaskTypes, ClientTypes
      <3>2. /\ read' = [read EXCEPT ![c] = 1] /\ out' = out /\ local' = local
            /\ out[c] # <<>>
        BY <1>20 DEF ClientReturn, eventVars, taskVars
      <3>3. out[c] \in Seq(Lines) /\ Len(out[c]) # 0
        BY <3>2, <1>a DEF TaskTypes
      <3>4. read[c] <= 1
        BY <1>0 DEF TaskInv
      <3>5. \A d \in Conns : read'[d] <= Len(out[d]) /\ Len(out[d]) - read'[d] <= PipeCap
        BY <3>1, <3>2, <3>3, <3>4, <1>a DEF Caps, ClientTypes
      <3> QED BY <3>2, <3>5, <1>a DEF Caps
    <2> QED BY <2>2, <2>3, <2>4, <1>a, <1>20, TypeParts, TypesKept
            DEF ClientReturn, eventVars, taskVars
  <1> QED BY <1>1, <1>2, <1>3, <1>4, <1>5, <1>6, <1>7, <1>8, <1>9, <1>10, <1>11,
             <1>12, <1>13, <1>14, <1>15, <1>16, <1>17, <1>18, <1>19, <1>20
             DEF Next, UnixStep, WsStep, AnswerStep, OneShotStep,
                 ClientStep, Kinds, Parts, Answers
-----------------------------------------------------------------------------
(***************************************************************************)
(* The steps that touch one connection.                                    *)
(***************************************************************************)

Sends(c, kind, part) ==
  /\ kind \in Kinds /\ part \in {"whole", "head"}
  /\ part = "head" => kind = "request" /\ c \in Unix

ActionOn(c) ==
  \/ Connect(c)
  \/ \E type \in Answers : HandlerReturns(c, type)
  \/ Write(c)
  \/ /\ c \in Unix
     /\ \/ AcceptUnix(c) \/ ForwardRecv(c) \/ ForwardSend(c)
        \/ ReadLine(c) \/ ReadEof(c) \/ TakeLocalEvent(c)
  \/ /\ c \in Ws
     /\ \/ AcceptTcp(c) \/ AcceptWs(c) \/ TakeMessage(c)
        \/ TakeEof(c) \/ TakeBroadcast(c)
  \/ \E kind, part \in Kinds \cup Parts : Sends(c, kind, part) /\ ClientSend(c, kind, part)
  \/ ClientSendRest(c)
  \/ c \notin OneShot /\ ClientRead(c)
  \/ ClientClose(c)
  \/ c \in OneShot /\ ClientReturn(c)

\* A step sends an event or is a step of one connection.
LEMMA NextActions ==
  ASSUME Next
  PROVE  SendEvent \/ \E c \in Conns : ActionOn(c)
  <1> USE DEF ActionOn, Sends, Kinds, Parts, Answers, Conns, Unix
  <1>1. ASSUME NEW c \in Conns, Connect(c) \/ AnswerStep(c) PROVE ActionOn(c)
    BY <1>1 DEF AnswerStep
  <1>2. ASSUME NEW c \in Conns, ClientStep(c) PROVE ActionOn(c)
    BY <1>2 DEF ClientStep, OneShotStep
  <1>3. ASSUME NEW c \in Unix, ForwarderStep(c) \/ UnixStep(c) PROVE ActionOn(c)
    BY <1>3 DEF ForwarderStep, UnixStep
  <1>4. ASSUME NEW c \in Ws, WsStep(c) PROVE ActionOn(c)
    BY <1>4 DEF WsStep
  <1>5. ASSUME NEW c \in Conns, NEW kind \in Kinds, ClientSend(c, kind, "whole")
        PROVE  ActionOn(c)
    BY <1>5
  <1>6. ASSUME NEW c \in Raw, ClientSend(c, "request", "head") PROVE ActionOn(c)
    BY <1>6
  <1>7. ASSUME NEW c \in Conns, ClientClose(c) PROVE ActionOn(c)
    BY <1>7
  <1> HIDE DEF ActionOn
  <1> QED BY <1>1, <1>2, <1>3, <1>4, <1>5, <1>6, <1>7 DEF Next

\* A step of one connection leaves the others, and the channel, alone.
LEMMA OtherConns ==
  ASSUME TypeOK, NEW c \in Conns, NEW d \in Conns, c # d, ActionOn(d)
  PROVE  Same(c) /\ published' = published
  <1> USE DEF Same, TypeOK, Conns
  <1>1. CASE Connect(d)
    BY <1>1 DEF Connect, eventVars, clientVars
  <1>2. CASE \E type \in Answers : HandlerReturns(d, type)
    BY <1>2 DEF HandlerReturns, eventVars, clientVars
  <1>3. CASE Write(d)
    BY <1>3 DEF Write, eventVars, clientVars
  <1>4. CASE d \in Unix /\ AcceptUnix(d)
    BY <1>4 DEF AcceptUnix, Subscribe, clientVars
  <1>5. CASE d \in Unix /\ ForwardRecv(d)
    BY <1>5 DEF ForwardRecv, SkipToOldest, taskVars, clientVars
  <1>6. CASE d \in Unix /\ ForwardSend(d)
    BY <1>6 DEF ForwardSend, taskVars, clientVars
  <1>7. CASE d \in Unix /\ ReadLine(d)
    BY <1>7 DEF ReadLine, Process, eventVars, clientVars
  <1>8. CASE d \in Unix /\ ReadEof(d)
    BY <1>8 DEF ReadEof, Process, eventVars, clientVars
  <1>9. CASE d \in Unix /\ TakeLocalEvent(d)
    BY <1>9 DEF TakeLocalEvent, clientVars
  <1>10. CASE d \in Ws /\ AcceptTcp(d)
    BY <1>10 DEF AcceptTcp, Subscribe, clientVars
  <1>11. CASE d \in Ws /\ AcceptWs(d)
    BY <1>11 DEF AcceptWs, eventVars, clientVars
  <1>12. CASE d \in Ws /\ TakeMessage(d)
    BY <1>12 DEF TakeMessage, Process, eventVars, clientVars
  <1>13. CASE d \in Ws /\ TakeEof(d)
    BY <1>13 DEF TakeEof, eventVars, clientVars
  <1>14. CASE d \in Ws /\ TakeBroadcast(d)
    BY <1>14 DEF TakeBroadcast, SkipToOldest, clientVars
  <1>15. ASSUME NEW kind, NEW part, ClientSend(d, kind, part)
         PROVE  Same(c) /\ published' = published
    BY <1>15 DEF ClientSend, eventVars, taskVars
  <1>16. CASE ClientSendRest(d)
    BY <1>16 DEF ClientSendRest, eventVars, taskVars
  <1>17. CASE ClientRead(d)
    BY <1>17 DEF ClientRead, eventVars, taskVars
  <1>18. CASE ClientClose(d)
    BY <1>18 DEF ClientClose, eventVars, taskVars
  <1>19. CASE ClientReturn(d)
    BY <1>19 DEF ClientReturn, eventVars, taskVars
  <1> QED BY <1>1, <1>2, <1>3, <1>4, <1>5, <1>6, <1>7, <1>8, <1>9, <1>10, <1>11,
             <1>12, <1>13, <1>14, <1>15, <1>16, <1>17, <1>18, <1>19 DEF ActionOn

\* The part of a connection's state that events, and that requests, are about.
EventSame(c) ==
  /\ published' = published /\ rx'[c] = rx[c] /\ base'[c] = base[c]
  /\ dropped'[c] = dropped[c]
  /\ LocalOf(c)' = LocalOf(c) /\ HeldOf(c)' = HeldOf(c)

StreamSame(c) ==
  /\ up'[c] = up[c] /\ LineOf(c)' = LineOf(c) /\ sent'[c] = sent[c]
  /\ asked'[c] = asked[c] /\ half'[c] = half[c]

\* A step that moves no event.
LEMMA EventQuiet ==
  ASSUME NEW c \in Conns, EventInv(c), EventSame(c), Toward(c)' = Toward(c),
         phase'[c] \in Serving \cup {"handshake"}
           => phase[c] \in Serving \cup {"handshake"}
  PROVE  EventInv(c)'
  <1>1. Written(c)' = Written(c)
    BY DEF Written
  <1> QED BY <1>1 DEF EventInv, EventSame

\* A step that writes something else than an event.
LEMMA EventBeside ==
  ASSUME TypeOK, NEW c \in Conns, EventInv(c), EventSame(c),
         NEW x \in Lines, x.type # "event", Toward(c)' = Append(Toward(c), x),
         phase[c] \in Serving
  PROVE  EventInv(c)' /\ Written(c)' = Written(c)
  <1>1. Toward(c) \in Seq(Lines)
    BY Typed
  <1>a. Written(c)' = Written(c) \cup (IF x.type \in {"event"} THEN {x.n} ELSE {})
    BY <1>1, NumbersAppend DEF Written
  <1>2. Written(c)' = Written(c)
    BY <1>a
  <1>3. InOrder(Toward(c)', {"event"})
    BY <1>1, InOrderAppend DEF EventInv
  <1> QED BY <1>2, <1>3 DEF EventInv, EventSame

\* A step that moves no request; a client may close its end meanwhile.
LEMMA RequestQuiet ==
  ASSUME NEW c \in Conns, RequestInv(c), StreamSame(c), Toward(c)' = Toward(c),
         current'[c] = current[c], eof'[c] = eof[c] \/ eof'[c] = TRUE,
         phase'[c] # "closed" => phase[c] # "closed"
  PROVE  RequestInv(c)'
  <1>1. Written(c)' = Written(c) /\ Answered(c)' = Answered(c)
    BY DEF Written, Answered
  <1>2. NoOrphan(up[c], LineOf(c), half[c], eof[c])
          => NoOrphan(up'[c], LineOf(c)', half'[c], eof'[c])
    BY DEF NoOrphan, StreamSame
  <1> QED BY <1>1, <1>2 DEF RequestInv, StreamSame

\* An event or a parse error is written: no request is concerned.
LEMMA RequestBeside ==
  ASSUME TypeOK, NEW c \in Conns, RequestInv(c),
         NEW x \in Lines, x.type \notin Answers, Toward(c)' = Append(Toward(c), x)
  PROVE  /\ Answered(c)' = Answered(c)
         /\ InOrder(Toward(c)', Answers)
         /\ Written(c) \subseteq Written(c)'
         /\ x.type # "event" => Written(c)' = Written(c)
  <1>1. Toward(c) \in Seq(Lines)
    BY Typed
  <1>a. Answered(c)' = Answered(c) \cup (IF x.type \in Answers THEN {x.n} ELSE {})
    BY <1>1, NumbersAppend DEF Answered
  <1>2. Answered(c)' = Answered(c)
    BY <1>a
  <1>3. InOrder(Toward(c)', Answers)
    BY <1>1, InOrderAppend DEF RequestInv
  <1>4. Written(c)' = Written(c) \cup (IF x.type \in {"event"} THEN {x.n} ELSE {})
    BY <1>1, NumbersAppend DEF Written
  <1> QED BY <1>2, <1>3, <1>4

\* Events sent on the channel reach every receiver's queue.
LEMMA SendEventInv ==
  ASSUME TypeOK, NEW c \in Conns, ConnInv(c), SendEvent
  PROVE  ConnInv(c)'
  <1>1. /\ LineOf(c)' = LineOf(c) /\ LocalOf(c)' = LocalOf(c)
        /\ HeldOf(c)' = HeldOf(c) /\ Toward(c)' = Toward(c)
        /\ rx' = rx /\ base' = base /\ dropped' = dropped /\ phase' = phase
        /\ published' = published + 1
    BY DEF SendEvent, LineOf, LocalOf, HeldOf, Toward, taskVars
  <1>2. Written(c)' = Written(c)
    BY <1>1 DEF Written
  <1>3. TaskInv(c)'
    BY <1>1 DEF ConnInv, TaskInv, SendEvent, taskVars, clientVars
  <1>4. RequestInv(c)'
    BY <1>1, RequestQuiet DEF ConnInv, StreamSame, SendEvent, taskVars, clientVars
  <1>5. EventInv(c)'
    <2>1. published \in Nat /\ rx[c] \in Nat /\ base[c] \in Nat
      BY Typed
    <2>2. rx[c] <= published /\ base[c] <= rx[c]
      BY DEF ConnInv, EventInv, EventOrder
    <2>3. /\ (base[c] + 1)..(published + 1) = (base[c] + 1)..published \cup {published + 1}
          /\ (rx[c] + 1)..(published + 1) = (rx[c] + 1)..published \cup {published + 1}
      BY <2>1, <2>2
    <2>4. rx[c] <= published + 1
      BY <2>1, <2>2
    <2>5. ASSUME phase[c] \in Serving \cup {"handshake"}
          PROVE  (base[c] + 1)..(published + 1) =
                   Written(c) \cup (rx[c] + 1)..(published + 1) \cup Range(LocalOf(c))
                     \cup ({HeldOf(c)} \ {0}) \cup dropped[c]
      <3>1. (base[c] + 1)..published =
              Written(c) \cup (rx[c] + 1)..published \cup Range(LocalOf(c))
                \cup ({HeldOf(c)} \ {0}) \cup dropped[c]
        BY <2>5 DEF ConnInv, EventInv
      <3> QED BY <3>1, <2>3
    <2> QED BY <2>4, <2>5, <1>1, <1>2 DEF ConnInv, EventInv
  <1> QED BY <1>3, <1>4, <1>5 DEF ConnInv

\* Before a connection is served nothing is written.
LEMMA NothingYet ==
  ASSUME TypeOK, NEW c \in Conns, TaskInv(c),
         phase[c] \in {"none", "backlog", "handshake"}
  PROVE  /\ Toward(c) = <<>> /\ Written(c) = {} /\ dropped[c] = {}
         /\ LocalOf(c) = <<>> /\ HeldOf(c) = 0
  <1>1. Toward(c) = out[c]
    BY PendingShape
  <1>2. /\ out[c] = <<>> /\ dropped[c] = {}
        /\ LocalOf(c) = <<>> /\ HeldOf(c) = 0
    BY DEF TaskInv
  <1> QED BY <1>1, <1>2, NumbersEmpty DEF Written

\* The connection is accepted: its receiver starts at the present.
LEMMA AcceptInv ==
  ASSUME TypeOK, NEW c \in Conns, ConnInv(c),
         (c \in Unix /\ AcceptUnix(c)) \/ (c \in Ws /\ AcceptTcp(c))
  PROVE  ConnInv(c)'
  <1> USE IpcAssumption
  <1>1. /\ phase[c] = "backlog"
        /\ phase'[c] = IF c \in Unix THEN "select" ELSE "handshake"
        /\ rx'[c] = published /\ base'[c] = published /\ published' = published
        /\ c \in Unix => fwd'[c] = "recv"
        /\ dropped' = dropped /\ held' = held /\ local' = local /\ line' = line
        /\ current' = current /\ pending' = pending /\ out' = out /\ up' = up
        /\ UNCHANGED clientVars
    BY DEF AcceptUnix, AcceptTcp, Subscribe, TypeOK
  <1>2. /\ Toward(c) = <<>> /\ Written(c) = {} /\ dropped[c] = {}
        /\ LocalOf(c) = <<>> /\ HeldOf(c) = 0
    BY <1>1, NothingYet DEF ConnInv
  <1>3. /\ Toward(c)' = Toward(c) /\ LocalOf(c)' = LocalOf(c)
        /\ HeldOf(c)' = HeldOf(c) /\ LineOf(c)' = LineOf(c)
    BY <1>1 DEF Toward, LocalOf, HeldOf, LineOf
  <1>4. TaskInv(c)'
    BY <1>1, <1>2, <1>3 DEF ConnInv, TaskInv, HeldOf, clientVars
  <1>5. EventInv(c)'
    <2>1. Written(c)' = {}
      BY <1>2, <1>3 DEF Written
    <2>2. published \in Nat /\ (published + 1)..published = {} /\ Range(<<>>) = {}
      BY Typed DEF Range
    <2>3. EventOrder({}, published, published, <<>>, 0)
      BY <2>2 DEF EventOrder
    <2>4. InOrder(Toward(c)', {"event"})
      BY <1>3 DEF ConnInv, EventInv
    <2> QED BY <1>1, <1>2, <1>3, <2>1, <2>2, <2>3, <2>4 DEF EventInv
  <1>6. RequestInv(c)'
    BY <1>1, <1>3, RequestQuiet DEF ConnInv, StreamSame, clientVars
  <1> QED BY <1>4, <1>5, <1>6 DEF ConnInv

\* Steps that change where the task is and nothing it holds.
LEMMA PhaseInv ==
  ASSUME TypeOK, NEW c \in Conns, ConnInv(c),
         Connect(c) \/ (c \in Ws /\ AcceptWs(c)) \/ (c \in Ws /\ TakeEof(c))
  PROVE  ConnInv(c)'
  <1>1. /\ <<phase[c], phase'[c]>> \in {<<"none", "backlog">>, <<"handshake", "select">>,
                                        <<"handshake", "closed">>, <<"select", "closed">>}
        /\ UNCHANGED <<eventVars, clientVars, line, current, pending, out, up>>
        /\ phase[c] = "handshake" => c \in Ws
        /\ phase[c] = "select" => c \in Ws
    BY DEF Connect, AcceptWs, TakeEof, TypeOK
  <1>3. EventSame(c) /\ StreamSame(c) /\ Toward(c)' = Toward(c)
    BY <1>1 DEF eventVars, clientVars, EventSame, StreamSame, LocalOf, HeldOf,
                LineOf, Toward
  <1>4. TaskInv(c)'
    <2>1. c \in Ws => LineOf(c) = <<>> /\ c \notin Unix
      BY IpcAssumption DEF LineOf
    <2>2. TaskInv(c)
      BY DEF ConnInv
    <2>3. CASE phase[c] = "none" /\ phase'[c] = "backlog"
      BY <2>2, <2>3, <1>1, <1>3
         DEF TaskInv, eventVars, clientVars, EventSame, StreamSame
    <2>4. CASE phase[c] = "handshake" /\ phase'[c] \in {"select", "closed"}
      BY <2>1, <2>2, <2>4, <1>1, <1>3
         DEF TaskInv, eventVars, clientVars, EventSame, StreamSame
    <2>5. CASE phase[c] = "select" /\ phase'[c] = "closed"
      BY <2>1, <2>2, <2>5, <1>1, <1>3
         DEF TaskInv, eventVars, clientVars, EventSame, StreamSame
    <2> QED BY <2>3, <2>4, <2>5, <1>1
  <1>5. EventInv(c)'
    <2>1. phase'[c] \in Serving \cup {"handshake"}
            => phase[c] \in Serving \cup {"handshake"}
      BY <1>1 DEF Serving
    <2> QED BY <2>1, <1>3, EventQuiet DEF ConnInv
  <1>6. RequestInv(c)'
    <2>1. eof'[c] = eof[c] /\ current'[c] = current[c]
          /\ (phase'[c] # "closed" => phase[c] # "closed")
      BY <1>1 DEF clientVars
    <2> QED BY <2>1, <1>3, RequestQuiet DEF ConnInv
  <1> QED BY <1>4, <1>5, <1>6 DEF ConnInv

\* Every event up to m is the receiver's, or was dropped by Lagged.
LEMMA SkipEvents ==
  ASSUME NEW b \in Nat, NEW r \in Nat, NEW m \in Nat, NEW p \in Nat,
         r <= m, m <= p
  PROVE  (r + 1)..p = (r + 1)..m \cup (m + 1)..p
  OBVIOUS

\* The forwarder takes an event from the channel, or skips those it missed.
LEMMA ForwardRecvInv ==
  ASSUME TypeOK, NEW c \in Conns, ConnInv(c), c \in Unix, ForwardRecv(c)
  PROVE  ConnInv(c)'
  <1> USE IpcAssumption
  <1>0. TaskInv(c) /\ EventInv(c) /\ RequestInv(c)
    BY DEF ConnInv
  <1>1. /\ published \in Nat /\ rx[c] \in Nat /\ base[c] \in Nat
        /\ LocalOf(c) \in Seq(Nat) /\ HeldOf(c) \in Nat /\ Written(c) \in SUBSET Nat
        /\ dropped[c] \in SUBSET Nat
    BY Typed
  <1>2. /\ published' = published /\ base' = base /\ local' = local
        /\ UNCHANGED <<taskVars, clientVars, up>> /\ fwd[c] = "recv"
        /\ rx[c] < published
    BY DEF ForwardRecv
  <1>3. /\ phase[c] \notin {"none", "backlog", "handshake"} /\ HeldOf(c) = 0
    BY <1>0, <1>2 DEF TaskInv, HeldOf
  <1>4. /\ Toward(c)' = Toward(c) /\ Written(c)' = Written(c)
        /\ LocalOf(c)' = LocalOf(c) /\ LineOf(c)' = LineOf(c)
        /\ HeldOf(c)' = held'[c] /\ phase' = phase
    BY <1>2 DEF Toward, Written, LocalOf, LineOf, HeldOf, taskVars
  <1>5. /\ EventOrder(Written(c), base[c], rx[c], LocalOf(c), HeldOf(c))
        /\ InOrder(Toward(c), {"event"})
    BY <1>0 DEF EventInv
  <1>6. RequestInv(c)'
    BY <1>0, <1>2, <1>4, RequestQuiet DEF StreamSame, taskVars, clientVars
  <1>7. CASE Lagged(c)
    <2> DEFINE m == published - BroadcastCap
    <2>1. /\ rx'[c] = m /\ dropped'[c] = dropped[c] \cup (rx[c] + 1)..m
          /\ held' = held /\ fwd' = fwd
      BY <1>7 DEF ForwardRecv, SkipToOldest, TypeOK
    <2>2. m \in Nat /\ rx[c] <= m /\ m <= published
      BY <1>1, <1>7 DEF Lagged
    <2> HIDE DEF m
    <2>3. TaskInv(c)'
      BY <1>0, <1>2, <1>3, <1>4, <2>1 DEF TaskInv, taskVars, clientVars
    <2>4. (rx[c] + 1)..published = (rx[c] + 1)..m \cup (m + 1)..published
      BY <1>1, <2>2, SkipEvents
    <2>5. HeldOf(c)' = HeldOf(c)
      BY <2>1 DEF HeldOf
    <2>6. EventOrder(Written(c), base[c], m, LocalOf(c), HeldOf(c))
      BY <1>1, <1>5, <2>2, EventReceived
    <2>7. EventInv(c)'
      BY <1>0, <1>2, <1>4, <1>5, <2>1, <2>2, <2>4, <2>5, <2>6 DEF EventInv
    <2> QED BY <1>6, <2>3, <2>7 DEF ConnInv
  <1>8. CASE ~Lagged(c)
    <2>1. /\ rx'[c] = rx[c] + 1 /\ dropped' = dropped
          /\ held'[c] = rx[c] + 1 /\ fwd'[c] = "send"
      BY <1>8 DEF ForwardRecv, TypeOK
    <2>2. rx[c] + 1 # 0 /\ rx[c] + 1 <= published /\ rx[c] + 1 \in Nat
      BY <1>1, <1>2
    <2>3. TaskInv(c)'
      BY <1>0, <1>2, <1>3, <1>4, <2>1, <2>2 DEF TaskInv, taskVars, clientVars
    <2>4. (rx[c] + 1)..published = {rx[c] + 1} \cup ((rx[c] + 1) + 1)..published
      BY <1>1, <1>2
    <2>5. EventOrder(Written(c), base[c], rx[c] + 1, LocalOf(c), rx[c] + 1)
      BY <1>1, <1>3, <1>5, EventReceived
    <2>6. EventInv(c)'
      <3>1. phase[c] \in Serving \cup {"handshake"} =>
              (base[c] + 1)..published =
                 Written(c) \cup ((rx[c] + 1) + 1)..published \cup Range(LocalOf(c))
                   \cup ({rx[c] + 1} \ {0}) \cup dropped[c]
        BY <1>0, <1>3, <2>2, <2>4 DEF EventInv
      <3> QED BY <3>1, <1>2, <1>4, <1>5, <2>1, <2>2, <2>5 DEF EventInv
    <2> QED BY <1>6, <2>3, <2>6 DEF ConnInv
  <1> QED BY <1>7, <1>8

\* The forwarder queues the event it holds, or ends with the connection.
LEMMA ForwardSendInv ==
  ASSUME TypeOK, NEW c \in Conns, ConnInv(c), c \in Unix, ForwardSend(c)
  PROVE  ConnInv(c)'
  <1> USE IpcAssumption
  <1>0. TaskInv(c) /\ EventInv(c) /\ RequestInv(c)
    BY DEF ConnInv
  <1>1. /\ published \in Nat /\ rx[c] \in Nat /\ base[c] \in Nat
        /\ LocalOf(c) \in Seq(Nat) /\ HeldOf(c) \in Nat /\ Written(c) \in SUBSET Nat
    BY Typed
  <1>2. /\ published' = published /\ base' = base /\ rx' = rx /\ dropped' = dropped
        /\ UNCHANGED <<taskVars, clientVars, up>> /\ fwd[c] = "send"
        /\ held'[c] = 0
    BY DEF ForwardSend, TypeOK
  <1>3. /\ phase[c] \notin {"none", "backlog", "handshake"}
        /\ HeldOf(c) = held[c] /\ held[c] # 0
    BY <1>0, <1>2 DEF TaskInv, HeldOf
  <1>4. /\ Toward(c)' = Toward(c) /\ Written(c)' = Written(c)
        /\ LocalOf(c)' = local'[c] /\ LocalOf(c) = local[c]
        /\ LineOf(c)' = LineOf(c) /\ HeldOf(c)' = 0 /\ phase' = phase
    BY <1>2 DEF Toward, Written, LocalOf, LineOf, HeldOf, taskVars
  <1>5. /\ EventOrder(Written(c), base[c], rx[c], local[c], held[c])
        /\ InOrder(Toward(c), {"event"}) /\ rx[c] <= published
    BY <1>0, <1>3, <1>4 DEF EventInv
  <1>6. RequestInv(c)'
    BY <1>0, <1>2, <1>4, RequestQuiet DEF StreamSame, taskVars, clientVars
  <1>7. fwd'[c] \in {"recv", "done"}
    BY DEF ForwardSend, TypeOK
  <1>8. TaskInv(c)'
    BY <1>0, <1>2, <1>3, <1>4, <1>7 DEF TaskInv, taskVars, clientVars
  <1>9. CASE phase[c] = "closed"
    <2>1. local' = local
      BY <1>9 DEF ForwardSend
    <2>2. EventOrder(Written(c), base[c], rx[c], local[c], 0)
      BY <1>5, EventForgotten
    <2>3. "closed" \notin Serving \cup {"handshake"}
      BY DEF Serving
    <2>4. EventInv(c)'
      BY <1>2, <1>4, <1>5, <1>9, <2>1, <2>2, <2>3 DEF EventInv
    <2> QED BY <1>6, <1>8, <2>4 DEF ConnInv
  <1>10. CASE phase[c] # "closed"
    <2>1. local'[c] = Append(local[c], held[c])
      BY <1>10 DEF ForwardSend, TypeOK
    <2>2. /\ EventOrder(Written(c), base[c], rx[c], Append(local[c], held[c]), 0)
          /\ Range(Append(local[c], held[c])) = Range(local[c]) \cup {held[c]}
      <3> DEFINE w == Written(c)
                 b == base[c]
                 r == rx[c]
                 q == local[c]
                 h == held[c]
      <3>1. /\ q \in Seq(Nat) /\ h \in Nat /\ w \in SUBSET Nat /\ b \in Nat
            /\ r \in Nat /\ h # 0 /\ EventOrder(w, b, r, q, h)
        BY <1>1, <1>3, <1>4, <1>5
      <3> HIDE DEF w, b, r, q, h
      <3>2. /\ EventOrder(w, b, r, Append(q, h), 0)
            /\ Range(Append(q, h)) = Range(q) \cup {h}
        BY <3>1, EventQueued
      <3> QED BY <3>2 DEF w, b, r, q, h
    <2>3. phase[c] \in Serving \cup {"handshake"} =>
            (base[c] + 1)..published =
               Written(c) \cup (rx[c] + 1)..published
                 \cup Range(Append(local[c], held[c]))
                 \cup ({0} \ {0}) \cup dropped[c]
      BY <1>0, <1>3, <1>4, <2>2 DEF EventInv
    <2>4. EventInv(c)'
      BY <1>2, <1>4, <1>5, <2>1, <2>2, <2>3 DEF EventInv
    <2> QED BY <1>6, <1>8, <2>4 DEF ConnInv
  <1> QED BY <1>9, <1>10

\* The task takes an event: it is the next one, and what read_line had
\* consumed is gone.
LEMMA TakeLocalEventInv ==
  ASSUME TypeOK, NEW c \in Conns, ConnInv(c), c \in Unix, TakeLocalEvent(c)
  PROVE  ConnInv(c)'
  <1> USE IpcAssumption
  <1>0. TaskInv(c) /\ EventInv(c) /\ RequestInv(c)
    BY DEF ConnInv
  <1>1. /\ published \in Nat /\ rx[c] \in Nat /\ base[c] \in Nat
        /\ local[c] \in Seq(Nat) /\ HeldOf(c) \in Nat /\ Written(c) \in SUBSET Nat
        /\ Toward(c) \in Seq(Lines) /\ up[c] \in Seq(Pieces)
        /\ LineOf(c) \in Seq(Pieces) /\ sent[c] \in Nat /\ asked[c] \in SUBSET Nat
        /\ half[c] \in BOOLEAN /\ out[c] \in Seq(Lines)
    BY Typed DEF TypeOK
  <1> DEFINE e == Head(local[c])
             x == Line("event", e)
  <1>2. /\ phase[c] = "select" /\ phase'[c] = "write" /\ local[c] # <<>>
        /\ local'[c] = Tail(local[c]) /\ pending'[c] = <<x>>
        /\ line'[c] = <<>>
        /\ UNCHANGED <<published, rx, base, dropped, fwd, held, current, out,
                       clientVars, up>>
    BY DEF TakeLocalEvent, TypeOK
  <1>3. e \in Nat
    BY <1>1, <1>2, TailElements
  <1>4. x \in Lines /\ x.type = "event" /\ x.n = e
    BY <1>3 DEF Line, Lines, LineTypes
  <1> HIDE DEF e, x
  <1>5. Toward(c)' = Append(Toward(c), x)
    <2>1. Toward(c) = out[c]
      BY <1>0, <1>2, PendingShape
    <2> QED BY <2>1, <1>1, <1>2, <1>4, TowardStep DEF Toward
  <1>6. /\ LocalOf(c) = local[c] /\ LocalOf(c)' = Tail(local[c])
        /\ HeldOf(c)' = HeldOf(c) /\ LineOf(c)' = <<>>
    BY <1>2 DEF LocalOf, HeldOf, LineOf
  <1>7. TaskInv(c)'
    <2>1. pending'[c] # <<>> /\ Len(pending'[c]) <= 1
      BY <1>2
    <2>2. current[c] = 0
      BY <1>0, <1>2 DEF TaskInv
    <2> QED BY <1>0, <1>2, <1>6, <2>1, <2>2 DEF TaskInv, clientVars
  <1>8. Written(c)' = Written(c) \cup {e}
    <2>1. Written(c)' = Written(c) \cup (IF x.type \in {"event"} THEN {x.n} ELSE {})
      BY <1>1, <1>4, <1>5, NumbersAppend DEF Written
    <2> QED BY <2>1, <1>4
  <1>9. EventInv(c)'
    <2>1. EventOrder(Written(c), base[c], rx[c], local[c], HeldOf(c))
      BY <1>0, <1>6 DEF EventInv
    <2>2. /\ EventOrder(Written(c) \cup {e}, base[c], rx[c], Tail(local[c]), HeldOf(c))
          /\ \A f \in Written(c) : f < e
          /\ Range(local[c]) = {e} \cup Range(Tail(local[c]))
      BY <1>1, <1>2, <2>1, EventTaken DEF e
    <2>3. InOrder(Toward(c)', {"event"})
      BY <1>0, <1>1, <1>4, <1>5, <2>2, InOrderAppend DEF EventInv, Written
    <2>4. (base[c] + 1)..published =
            (Written(c) \cup {e}) \cup (rx[c] + 1)..published
              \cup Range(Tail(local[c])) \cup ({HeldOf(c)} \ {0}) \cup dropped[c]
      <3>1. (base[c] + 1)..published =
              Written(c) \cup (rx[c] + 1)..published \cup Range(local[c])
                \cup ({HeldOf(c)} \ {0}) \cup dropped[c]
        BY <1>0, <1>2, <1>6 DEF EventInv, Serving
      <3> QED BY <3>1, <2>2
    <2>5. rx[c] <= published
      BY <1>0 DEF EventInv
    <2> QED BY <1>2, <1>6, <1>8, <2>2, <2>3, <2>4, <2>5 DEF EventInv
  <1>10. RequestInv(c)'
    <2>1. Answered(c)' = Answered(c) /\ InOrder(Toward(c)', Answers)
      BY <1>0, <1>4, <1>5, RequestBeside DEF Answers
    <2>2. StreamInv(up[c], <<>>, sent[c], asked[c], half[c])
      BY <1>0 DEF RequestInv, StreamInv
    <2>3. RequestOrder(Answered(c), current[c], up[c], <<>>, asked[c])
      BY <1>0 DEF RequestInv, RequestOrder
    <2>4. c \notin Ws /\ Written(c)' # {}
      BY <1>8
    <2> QED BY <1>2, <1>6, <2>1, <2>2, <2>3, <2>4 DEF RequestInv, clientVars
  <1> QED BY <1>7, <1>9, <1>10 DEF ConnInv

\* The WebSocket task takes an event from the channel.
LEMMA TakeBroadcastInv ==
  ASSUME TypeOK, NEW c \in Conns, ConnInv(c), c \in Ws, TakeBroadcast(c)
  PROVE  ConnInv(c)'
  <1> USE IpcAssumption
  <1>0. TaskInv(c) /\ EventInv(c) /\ RequestInv(c)
    BY DEF ConnInv
  <1>1. /\ published \in Nat /\ rx[c] \in Nat /\ base[c] \in Nat
        /\ LocalOf(c) \in Seq(Nat) /\ HeldOf(c) \in Nat /\ Written(c) \in SUBSET Nat
        /\ Toward(c) \in Seq(Lines) /\ out[c] \in Seq(Lines)
    BY Typed
  <1>2. /\ phase[c] = "select" /\ rx[c] < published /\ published' = published
        /\ UNCHANGED <<base, fwd, held, local, line, current, out, clientVars, up>>
    BY DEF TakeBroadcast
  <1>3. /\ LocalOf(c) = <<>> /\ HeldOf(c) = 0 /\ LineOf(c) = <<>>
        /\ LocalOf(c)' = <<>> /\ HeldOf(c)' = 0 /\ LineOf(c)' = <<>>
        /\ c \notin Unix
    BY DEF LocalOf, HeldOf, LineOf
  <1>4. /\ EventOrder(Written(c), base[c], rx[c], <<>>, 0)
        /\ InOrder(Toward(c), {"event"}) /\ rx[c] <= published
        /\ (base[c] + 1)..published =
             Written(c) \cup (rx[c] + 1)..published \cup Range(<<>>)
               \cup ({0} \ {0}) \cup dropped[c]
    BY <1>0, <1>2, <1>3 DEF EventInv, Serving
  <1>5. <<>> \in Seq(Nat)
    OBVIOUS
  <1>6. CASE Lagged(c)
    <2> DEFINE m == published - BroadcastCap
    <2>1. /\ rx'[c] = m /\ dropped'[c] = dropped[c] \cup (rx[c] + 1)..m
          /\ phase' = phase /\ pending' = pending
      BY <1>6 DEF TakeBroadcast, SkipToOldest, TypeOK
    <2>2. m \in Nat /\ rx[c] <= m /\ m <= published
      BY <1>1, <1>6 DEF Lagged
    <2> HIDE DEF m
    <2>3. TaskInv(c)'
      BY <1>0, <1>2, <1>3, <2>1 DEF TaskInv, clientVars
    <2>4. Toward(c)' = Toward(c) /\ Written(c)' = Written(c)
      BY <1>2, <2>1 DEF Toward, Written
    <2>5. (rx[c] + 1)..published = (rx[c] + 1)..m \cup (m + 1)..published
      BY <1>1, <2>2, SkipEvents
    <2>6. EventOrder(Written(c), base[c], m, <<>>, 0)
      BY <1>1, <1>4, <1>5, <2>2, EventReceived
    <2>7. EventInv(c)'
      BY <1>2, <1>3, <1>4, <2>1, <2>2, <2>4, <2>5, <2>6 DEF EventInv
    <2>8. RequestInv(c)'
      BY <1>0, <1>2, <1>3, <2>1, <2>4, RequestQuiet DEF StreamSame, clientVars
    <2> QED BY <2>3, <2>7, <2>8 DEF ConnInv
  <1>7. CASE ~Lagged(c)
    <2> DEFINE e == rx[c] + 1
               x == Line("event", e)
    <2>1. /\ rx'[c] = e /\ dropped' = dropped
          /\ phase'[c] = "write" /\ pending'[c] = <<x>>
      BY <1>7 DEF TakeBroadcast, TypeOK
    <2>2. e \in Nat /\ e <= published
      BY <1>1, <1>2
    <2>3. x \in Lines /\ x.type = "event" /\ x.n = e
      BY <2>2 DEF Line, Lines, LineTypes
    <2>4. (rx[c] + 1)..published = {e} \cup (e + 1)..published
      BY <1>1, <1>2
    <2>5. /\ EventOrder(Written(c) \cup {e}, base[c], e, <<>>, 0)
          /\ \A f \in Written(c) : f < e
      BY <1>1, <1>4, <1>5, EventReceived
    <2> HIDE DEF e, x
    <2>6. Toward(c)' = Append(Toward(c), x)
      <3>1. Toward(c) = out[c]
        BY <1>0, <1>2, PendingShape
      <3> QED BY <3>1, <1>1, <1>2, <2>1, <2>3, TowardStep DEF Toward
    <2>7. TaskInv(c)'
      <3>1. pending'[c] # <<>> /\ Len(pending'[c]) <= 1
        BY <2>1
      <3>2. current[c] = 0
        BY <1>0, <1>2 DEF TaskInv
      <3> QED BY <1>0, <1>2, <1>3, <2>1, <3>1, <3>2 DEF TaskInv, clientVars
    <2>8. Written(c)' = Written(c) \cup {e}
      <3>1. Written(c)' = Written(c) \cup (IF x.type \in {"event"} THEN {x.n} ELSE {})
        BY <1>1, <2>3, <2>6, NumbersAppend DEF Written
      <3> QED BY <3>1, <2>3
    <2>9. EventInv(c)'
      <3>1. InOrder(Toward(c)', {"event"})
        BY <1>1, <1>4, <2>3, <2>5, <2>6, InOrderAppend DEF Written
      <3> QED BY <3>1, <1>2, <1>3, <1>4, <2>1, <2>2, <2>4, <2>5, <2>8 DEF EventInv
    <2>10. RequestInv(c)'
      <3>1. Answered(c)' = Answered(c) /\ InOrder(Toward(c)', Answers)
        BY <1>0, <2>3, <2>6, RequestBeside DEF Answers
      <3> QED BY <3>1, <1>0, <1>2, <1>3 DEF RequestInv, clientVars
    <2> QED BY <2>7, <2>9, <2>10 DEF ConnInv
  <1> QED BY <1>6, <1>7

\* The request part of the invariant, by its conjuncts.
LEMMA RequestParts ==
  ASSUME NEW c \in Conns, RequestInv(c)
  PROVE  /\ StreamInv(up[c], LineOf(c), sent[c], asked[c], half[c])
         /\ InOrder(Toward(c), Answers)
         /\ RequestOrder(Answered(c), current[c], up[c], LineOf(c), asked[c])
         /\ phase[c] # "closed" /\ (c \in Ws \/ Written(c) = {}) =>
              /\ NoOrphan(up[c], LineOf(c), half[c], eof[c])
              /\ Kept(Answered(c), current[c], up[c], LineOf(c), asked[c])
  BY DEF RequestInv

\* A piece that does not complete a request leaves the stream.
LEMMA SkipPiece ==
  ASSUME TypeOK, NEW c \in Conns, RequestInv(c), up[c] # <<>>,
         Head(up[c]).part # "head", ~IsRequest(Append(LineOf(c), Head(up[c]))),
         up'[c] = Tail(up[c]), LineOf(c)' = <<>>, UNCHANGED clientVars,
         current'[c] = current[c], InOrder(Toward(c)', Answers),
         Answered(c)' = Answered(c), Written(c)' = Written(c), phase[c] # "closed"
  PROVE  RequestInv(c)'
  <1> DEFINE u == up[c]
             l == LineOf(c)
             n == sent[c]
             a == asked[c]
             h == half[c]
             e == eof[c]
             w == Answered(c)
             k == current[c]
  <1>1. /\ u \in Seq(Pieces) /\ l \in Seq(Pieces) /\ n \in Nat /\ a \in SUBSET Nat
        /\ h \in BOOLEAN /\ e \in BOOLEAN /\ w \in SUBSET Nat /\ k \in Nat
    BY Typed
  <1>2. /\ StreamInv(u, l, n, a, h) /\ RequestOrder(w, k, u, l, a)
        /\ c \in Ws \/ Written(c) = {} => NoOrphan(u, l, h, e) /\ Kept(w, k, u, l, a)
    BY RequestParts
  <1>3. u # <<>> /\ Head(u).part # "head" /\ ~IsRequest(Append(l, Head(u)))
    OBVIOUS
  <1> HIDE DEF u, l, n, a, h, e, w, k
  <1>4. StreamInv(Tail(u), <<>>, n, a, h)
    BY <1>1, <1>2, <1>3, EndOfLine, ZenonT(60)
  <1>5. /\ RequestOrder(w, k, Tail(u), <<>>, a)
        /\ NoOrphan(Tail(u), <<>>, h, e)
        /\ Head(u).n \notin a /\ Kept(w, k, u, <<>>, a) => Kept(w, k, Tail(u), <<>>, a)
    BY <1>1, <1>2, <1>3, EndOfLine, SMTT(40)
  <1>6. ASSUME c \in Ws \/ Written(c) = {} PROVE Kept(w, k, Tail(u), <<>>, a)
    <2>1. NoOrphan(u, l, h, e) /\ Kept(w, k, u, l, a)
      BY <1>2, <1>6
    <2>2. l = <<>> /\ Head(u).n \notin a
      BY <2>1, <1>1, <1>2, <1>3, OtherTaken
    <2> QED BY <2>1, <2>2, <1>5
  <1> QED BY <1>4, <1>5, <1>6 DEF RequestInv, clientVars, u, n, a, h, e, w, k

\* A whole line or message is processed.
LEMMA ProcessInv ==
  ASSUME TypeOK, NEW c \in Conns, ConnInv(c), phase[c] = "select",
         up[c] # <<>>, Head(up[c]).part # "head",
         Process(c, Append(LineOf(c), Head(up[c]))),
         up'[c] = Tail(up[c]), LineOf(c)' = <<>>,
         UNCHANGED <<eventVars, out, clientVars>>
  PROVE  ConnInv(c)'
  <1> USE IpcAssumption
  <1> DEFINE g == Append(LineOf(c), Head(up[c]))
             x == Line("parse_error", 0)
  <1>0. TaskInv(c) /\ EventInv(c) /\ RequestInv(c)
    BY DEF ConnInv
  <1>1. /\ up[c] \in Seq(Pieces) /\ LineOf(c) \in Seq(Pieces) /\ Head(up[c]) \in Pieces
        /\ out[c] \in Seq(Lines)
        /\ \A i \in DOMAIN Tail(up[c]) : i + 1 \in DOMAIN up[c]
                                         /\ Tail(up[c])[i] = up[c][i + 1]
    BY Typed, TailElements
  <1>2. 1 \in DOMAIN g
    BY <1>1, AppendElements
  <1>3. current[c] = 0 /\ pending[c] = <<>> /\ Toward(c) = out[c]
    BY <1>0, PendingShape DEF TaskInv
  <1>4. EventSame(c)
    BY DEF EventSame, eventVars, LocalOf, HeldOf
  <1>5. phase \in [Conns -> Phases] /\ current \in [Conns -> Nat]
        /\ pending \in [Conns -> Seq(Lines)]
    BY DEF TypeOK, Phases, Lines
  <1>6. c \in Ws => \A i \in DOMAIN up'[c] : up'[c][i].part = "whole"
    BY <1>0, <1>1 DEF TaskInv
  <1> HIDE DEF g
  <1>7. CASE /\ IsRequest(g)
             /\ phase' = [phase EXCEPT ![c] = "handle"]
             /\ current' = [current EXCEPT ![c] = g[1].n]
             /\ pending' = pending
    <2>1. phase'[c] = "handle" /\ current'[c] = g[1].n
      BY <1>5, <1>7
    <2>2. Toward(c)' = Toward(c)
      BY <1>7 DEF Toward
    <2>3. EventInv(c)'
      BY <1>0, <1>4, <2>1, <2>2, EventQuiet DEF Serving
    <2> DEFINE u == up[c]
               l == LineOf(c)
               n == sent[c]
               a == asked[c]
               h == half[c]
               e == eof[c]
               w == Answered(c)
               m == g[1].n
    <2>4. /\ u \in Seq(Pieces) /\ l \in Seq(Pieces) /\ n \in Nat /\ a \in SUBSET Nat
          /\ h \in BOOLEAN /\ e \in BOOLEAN /\ w \in SUBSET Nat
      BY Typed
    <2>5. /\ StreamInv(u, l, n, a, h) /\ RequestOrder(w, 0, u, l, a)
          /\ c \in Ws \/ Written(c) = {} => Kept(w, 0, u, l, a)
          /\ InOrder(Toward(c), Answers)
      BY <1>0, <1>3, RequestParts
    <2>6. u # <<>> /\ Head(u).part # "head" /\ g = Append(l, Head(u))
      BY DEF g
    <2>7. IsRequest(Append(l, Head(u))) /\ m = Append(l, Head(u))[1].n
      BY <1>7, <2>6
    <2>8. up'[c] = Tail(u) /\ LineOf(c)' = <<>> /\ sent'[c] = n /\ asked'[c] = a
          /\ half'[c] = h /\ eof'[c] = e /\ current'[c] = m
      BY <2>1 DEF clientVars
    <2>9. Answered(c)' = w /\ Written(c)' = Written(c)
      BY <2>2 DEF Answered, Written
    <2> HIDE DEF u, l, n, a, h, e, w, m
    <2>a. 0 \in Nat /\ StreamInv(u, l, n, a, h) /\ RequestOrder(w, 0, u, l, a)
      BY <2>5
    <2>10. StreamInv(Tail(u), <<>>, n, a, h) /\ NoOrphan(Tail(u), <<>>, h, e)
      BY <2>4, <2>a, <2>6, EndOfLine, SMTT(40)
    <2>12. /\ m \in Nat \ {0} /\ RequestOrder(w, m, Tail(u), <<>>, a)
           /\ Kept(w, 0, u, l, a) => Kept(w, m, Tail(u), <<>>, a)
      BY <2>4, <2>5, <2>6, <2>7, RequestTaken
    <2>13. RequestInv(c)'
      BY <2>1, <2>2, <2>5, <2>8, <2>9, <2>10, <2>12 DEF RequestInv
    <2>14. TaskInv(c)'
      <3>1. phase'[c] = "handle" /\ current'[c] # 0 /\ pending'[c] = <<>>
            /\ pending'[c] = pending[c]
        BY <2>1, <2>8, <2>12, <1>3, <1>7
      <3> QED BY <3>1, <1>0, <1>6 DEF TaskInv, eventVars, clientVars
    <2> QED BY <2>3, <2>13, <2>14 DEF ConnInv
  <1>8. CASE /\ ~IsRequest(g) /\ phase' = phase /\ current' = current
             /\ pending' = pending
    <2>1. Toward(c)' = Toward(c)
      BY <1>8 DEF Toward
    <2>2. EventInv(c)'
      BY <1>0, <1>4, <1>8, <2>1, EventQuiet
    <2>3. Answered(c)' = Answered(c) /\ Written(c)' = Written(c)
      BY <2>1 DEF Answered, Written
    <2>4. RequestInv(c)'
      BY <1>0, <1>8, <2>1, <2>3, SkipPiece, RequestParts DEF g
    <2>5. TaskInv(c)'
      BY <1>0, <1>6, <1>8 DEF TaskInv, eventVars, clientVars, LocalOf, HeldOf
    <2> QED BY <2>2, <2>4, <2>5 DEF ConnInv
  <1>9. CASE /\ ~IsRequest(g)
             /\ phase' = [phase EXCEPT ![c] = "write"]
             /\ pending' = [pending EXCEPT ![c] = <<x>>]
             /\ current' = current
    <2>1. phase'[c] = "write" /\ pending'[c] = <<x>> /\ current'[c] = current[c]
      BY <1>5, <1>9
    <2>2. x \in Lines /\ x.type = "parse_error"
      BY DEF Line, Lines, LineTypes
    <2> HIDE DEF x
    <2>3. Toward(c)' = Append(Toward(c), x)
      BY <1>1, <1>3, <2>1, <2>2, TowardStep DEF Toward
    <2>4. EventInv(c)' /\ Written(c)' = Written(c)
      BY <1>0, <1>4, <2>2, <2>3, EventBeside DEF Serving
    <2>5. Answered(c)' = Answered(c) /\ InOrder(Toward(c)', Answers)
      BY <1>0, <2>2, <2>3, RequestBeside DEF Answers
    <2>6. RequestInv(c)'
      BY <1>0, <1>9, <2>1, <2>4, <2>5, SkipPiece DEF g
    <2>7. TaskInv(c)'
      <3>1. pending'[c] # <<>> /\ Len(pending'[c]) <= 1
        BY <2>1
      <3> QED BY <3>1, <2>1, <1>0, <1>3, <1>6 DEF TaskInv, eventVars, clientVars
    <2> QED BY <2>4, <2>6, <2>7 DEF ConnInv
  <1> QED BY <1>2, <1>7, <1>8, <1>9, ProcessCases DEF g

\* The beginning of a request becomes the partial line.
LEMMA HeadRead ==
  ASSUME TypeOK, NEW c \in Conns, RequestInv(c), up[c] # <<>>,
         Head(up[c]).part = "head"
  PROVE  /\ LineOf(c) = <<>>
         /\ StreamInv(Tail(up[c]), <<Head(up[c])>>, sent[c], asked[c], half[c])
         /\ RequestOrder(Answered(c), current[c], Tail(up[c]), <<Head(up[c])>>, asked[c])
         /\ Kept(Answered(c), current[c], up[c], LineOf(c), asked[c])
              => Kept(Answered(c), current[c], Tail(up[c]), <<Head(up[c])>>, asked[c])
         /\ NoOrphan(Tail(up[c]), <<Head(up[c])>>, half[c], eof[c])
  <1> DEFINE u == up[c]
             l == LineOf(c)
             n == sent[c]
             a == asked[c]
             h == half[c]
             e == eof[c]
             w == Answered(c)
             k == current[c]
  <1>1. /\ u \in Seq(Pieces) /\ l \in Seq(Pieces) /\ n \in Nat /\ a \in SUBSET Nat
        /\ h \in BOOLEAN /\ e \in BOOLEAN /\ w \in SUBSET Nat /\ k \in Nat
    BY Typed
  <1>2. StreamInv(u, l, n, a, h) /\ RequestOrder(w, k, u, l, a)
    BY RequestParts
  <1>3. u # <<>> /\ Head(u).part = "head"
    OBVIOUS
  <1> HIDE DEF u, l, n, a, h, e, w, k
  <1>4. StreamInv(Tail(u), <<Head(u)>>, n, a, h)
    BY <1>1, <1>2, <1>3, StreamHead
  <1>5. l = <<>>
    BY <1>1, <1>2, <1>3, StreamHead
  <1>6. RequestOrder(w, k, Tail(u), <<Head(u)>>, a)
    BY <1>1, <1>2, <1>3, OrderRead
  <1>7. Kept(w, k, u, l, a) => Kept(w, k, Tail(u), <<Head(u)>>, a)
    BY <1>1, <1>2, <1>3, OrderRead
  <1>8. NoOrphan(Tail(u), <<Head(u)>>, h, e)
    BY <1>1, <1>2, <1>3, OrderRead
  <1> QED BY <1>4, <1>5, <1>6, <1>7, <1>8 DEF u, l, n, a, h, e, w, k

\* read_line consumes a piece.
LEMMA ReadLineInv ==
  ASSUME TypeOK, NEW c \in Conns, ConnInv(c), c \in Unix, ReadLine(c)
  PROVE  ConnInv(c)'
  <1>0. TaskInv(c) /\ EventInv(c) /\ RequestInv(c)
    BY DEF ConnInv
  <1>1. /\ phase[c] = "select" /\ up[c] # <<>> /\ up'[c] = Tail(up[c])
        /\ UNCHANGED <<eventVars, out, clientVars>> /\ LineOf(c) = line[c]
        /\ LineOf(c)' = line'[c]
    BY DEF ReadLine, TypeOK, LineOf
  <1>2. CASE Head(up[c]).part # "head"
    <2>1. /\ LineOf(c)' = <<>>
          /\ Process(c, Append(LineOf(c), Head(up[c])))
      BY <1>1, <1>2 DEF ReadLine, TypeOK
    <2> QED BY <2>1, <1>1, <1>2, ProcessInv
  <1>3. CASE Head(up[c]).part = "head"
    <2>1. /\ line'[c] = Append(line[c], Head(up[c]))
          /\ UNCHANGED <<phase, current, pending>>
      BY <1>3 DEF ReadLine, TypeOK
    <2>2. Toward(c)' = Toward(c) /\ Answered(c)' = Answered(c) /\ Written(c)' = Written(c)
      BY <1>1, <2>1 DEF Toward, Answered, Written
    <2>3. EventSame(c)
      BY <1>1 DEF EventSame, eventVars, LocalOf, HeldOf
    <2>4. EventInv(c)'
      BY <1>0, <2>1, <2>2, <2>3, EventQuiet
    <2>5. LineOf(c) = <<>>
      BY <1>0, <1>1, <1>3, HeadRead
    <2>6. LineOf(c)' = <<Head(up[c])>>
      <3>1. line'[c] = Append(<<>>, Head(up[c]))
        BY <2>1, <2>5, <1>1
      <3> QED BY <3>1, <1>1
    <2>7. /\ StreamInv(Tail(up[c]), <<Head(up[c])>>, sent[c], asked[c], half[c])
          /\ RequestOrder(Answered(c), current[c], Tail(up[c]), <<Head(up[c])>>, asked[c])
          /\ Kept(Answered(c), current[c], up[c], LineOf(c), asked[c])
               => Kept(Answered(c), current[c], Tail(up[c]), <<Head(up[c])>>, asked[c])
          /\ NoOrphan(Tail(up[c]), <<Head(up[c])>>, half[c], eof[c])
      BY <1>0, <1>1, <1>3, HeadRead
    <2>8. InOrder(Toward(c), Answers)
          /\ (c \in Ws \/ Written(c) = {}
                => Kept(Answered(c), current[c], up[c], LineOf(c), asked[c]))
      BY <1>0, <1>1, RequestParts
    <2>13. RequestInv(c)'
      BY <1>1, <2>1, <2>2, <2>6, <2>7, <2>8 DEF RequestInv, clientVars
    <2>14. TaskInv(c)'
      BY <1>0, <1>1, <2>1, IpcAssumption DEF TaskInv, eventVars, clientVars, LocalOf, HeldOf
    <2> QED BY <2>4, <2>13, <2>14 DEF ConnInv
  <1> QED BY <1>2, <1>3

\* read_line meets the end of the stream.
LEMMA ReadEofInv ==
  ASSUME TypeOK, NEW c \in Conns, ConnInv(c), c \in Unix, ReadEof(c)
  PROVE  ConnInv(c)'
  <1> USE IpcAssumption
  <1>0. TaskInv(c) /\ EventInv(c) /\ RequestInv(c)
    BY DEF ConnInv
  <1>1. /\ phase[c] = "select" /\ eof[c] /\ up[c] = <<>>
        /\ UNCHANGED <<eventVars, out, clientVars, up>> /\ LineOf(c) = line[c]
        /\ LineOf(c)' = line'[c]
    BY DEF ReadEof, LineOf
  <1>2. EventSame(c)
    BY <1>1 DEF EventSame, eventVars, LocalOf, HeldOf
  <1>3. CASE line[c] = <<>>
    <2>1. phase'[c] = "closed" /\ UNCHANGED <<line, current, pending>>
      BY <1>3 DEF ReadEof, TypeOK
    <2>2. Toward(c)' = Toward(c) /\ StreamSame(c)
      BY <1>1, <2>1 DEF Toward, StreamSame, clientVars
    <2>3. EventInv(c)'
      BY <1>0, <1>2, <2>1, <2>2, EventQuiet DEF Serving
    <2>4. RequestInv(c)'
      BY <1>0, <1>1, <2>1, <2>2, RequestQuiet DEF clientVars
    <2>5. TaskInv(c)'
      BY <1>0, <1>1, <1>3, <2>1 DEF TaskInv, eventVars, clientVars
    <2> QED BY <2>3, <2>4, <2>5 DEF ConnInv
  <1>4. CASE line[c] # <<>>
    <2> DEFINE l == LineOf(c)
               n == sent[c]
               a == asked[c]
               h == half[c]
               w == Answered(c)
               k == current[c]
               x == Line("parse_error", 0)
    <2>1. /\ l \in Seq(Pieces) /\ n \in Nat /\ a \in SUBSET Nat
          /\ h \in BOOLEAN /\ w \in SUBSET Nat /\ k \in Nat /\ l # <<>>
          /\ out[c] \in Seq(Lines)
      BY <1>1, <1>4, Typed
    <2>2. StreamInv(<<>>, l, n, a, h) /\ RequestOrder(w, k, <<>>, l, a)
      BY <1>0, <1>1, RequestParts
    <2>3. c \in Ws \/ Written(c) = {} => Kept(w, k, <<>>, l, a)
      BY <1>0, <1>1, RequestParts
    <2>4. line'[c] = <<>> /\ Process(c, l)
      BY <1>1, <1>4 DEF ReadEof, TypeOK
    <2> HIDE DEF l, n, a, h, w, k
    <2>5. /\ ~IsRequest(l) /\ ~IsBlank(l)
          /\ Kept(w, k, <<>>, l, a) => Kept(w, k, <<>>, <<>>, a)
      BY <2>1, <2>2, LineAtEof
    <2>6. 1 \in DOMAIN l
      BY <2>1, TailElements
    <2>7. /\ phase' = [phase EXCEPT ![c] = "write"]
          /\ pending' = [pending EXCEPT ![c] = <<x>>]
          /\ current' = current
      BY <2>4, <2>5, <2>6, ProcessCases
    <2>8. phase'[c] = "write" /\ pending'[c] = <<x>> /\ current'[c] = k
      BY <2>7 DEF TypeOK, k
    <2>9. x \in Lines /\ x.type = "parse_error"
      BY DEF Line, Lines, LineTypes
    <2> HIDE DEF x
    <2>10. Toward(c)' = Append(Toward(c), x)
      <3>1. Toward(c) = out[c]
        BY <1>0, <1>1, PendingShape
      <3> QED BY <3>1, <1>1, <2>1, <2>8, <2>9, TowardStep DEF Toward
    <2>11. EventInv(c)' /\ Written(c)' = Written(c)
      BY <1>0, <1>1, <1>2, <2>9, <2>10, EventBeside DEF Serving
    <2>12. Answered(c)' = w /\ InOrder(Toward(c)', Answers)
      BY <1>0, <2>9, <2>10, RequestBeside DEF Answers, w
    <2>13. StreamInv(<<>>, <<>>, n, a, h) /\ RequestOrder(w, k, <<>>, <<>>, a)
      BY <2>2 DEF StreamInv, RequestOrder, HalfOK
    <2>14. NoOrphan(<<>>, <<>>, h, TRUE)
      BY DEF NoOrphan
    <2>15. RequestInv(c)'
      <3>1. eof'[c] = TRUE
        BY <1>1 DEF clientVars, TypeOK
      <3>2. /\ up'[c] = <<>> /\ LineOf(c)' = <<>> /\ sent'[c] = n /\ asked'[c] = a
            /\ half'[c] = h
        BY <1>1, <2>4 DEF clientVars, n, a, h
      <3> QED BY <3>1, <3>2, <2>3, <2>5, <2>8, <2>11, <2>12, <2>13, <2>14
              DEF RequestInv
    <2>16. TaskInv(c)'
      <3>1. pending'[c] # <<>> /\ Len(pending'[c]) <= 1
        BY <2>8
      <3>2. current[c] = 0
        BY <1>0, <1>1 DEF TaskInv
      <3> QED BY <3>1, <3>2, <2>4, <2>8, <1>0, <1>1 DEF TaskInv, eventVars, clientVars, k
    <2> QED BY <2>11, <2>15, <2>16 DEF ConnInv
  <1> QED BY <1>3, <1>4

\* WebSocket messages: pings are answered, binary ones skipped, a close frame
\* ends the connection, and the others are processed.
LEMMA TakeMessageInv ==
  ASSUME TypeOK, NEW c \in Conns, ConnInv(c), c \in Ws, TakeMessage(c)
  PROVE  ConnInv(c)'
  <1> USE IpcAssumption
  <1>0. TaskInv(c) /\ EventInv(c) /\ RequestInv(c)
    BY DEF ConnInv
  <1> DEFINE p == Head(up[c])
             x == Line("pong", p.n)
  <1>1. /\ phase[c] = "select" /\ up[c] # <<>> /\ up'[c] = Tail(up[c])
        /\ UNCHANGED <<eventVars, line, out, clientVars>>
        /\ LineOf(c) = <<>> /\ LineOf(c)' = <<>>
    BY DEF TakeMessage, TypeOK, LineOf
  <1>2. /\ up[c] \in Seq(Pieces) /\ p \in Pieces /\ p = up[c][1] /\ 1 \in DOMAIN up[c]
        /\ out[c] \in Seq(Lines)
        /\ \A i \in DOMAIN Tail(up[c]) : i + 1 \in DOMAIN up[c]
                                         /\ Tail(up[c])[i] = up[c][i + 1]
    BY <1>1, Typed, TailElements
  <1>3. /\ p.part = "whole"
        /\ \A i \in DOMAIN up'[c] : up'[c][i].part = "whole"
    BY <1>0, <1>1, <1>2 DEF TaskInv
  <1>4. Append(LineOf(c), p) = <<p>>
    BY <1>1, <1>2
  <1>5. EventSame(c)
    BY <1>1 DEF EventSame, eventVars, LocalOf, HeldOf
  <1>6. p.kind # "request" => ~IsRequest(Append(LineOf(c), p))
    BY <1>4 DEF IsRequest
  <1>7. CASE p.kind = "ping"
    <2>1. phase'[c] = "write" /\ pending'[c] = <<x>> /\ current' = current
      BY <1>7 DEF TakeMessage, TypeOK
    <2>2. x \in Lines /\ x.type = "pong"
      BY <1>2 DEF Line, Lines, LineTypes, Pieces
    <2> HIDE DEF x
    <2>3. Toward(c)' = Append(Toward(c), x)
      <3>1. Toward(c) = out[c]
        BY <1>0, <1>1, PendingShape
      <3> QED BY <3>1, <1>1, <1>2, <2>1, <2>2, TowardStep DEF Toward
    <2>4. EventInv(c)' /\ Written(c)' = Written(c)
      BY <1>0, <1>1, <1>5, <2>2, <2>3, EventBeside DEF Serving
    <2>5. Answered(c)' = Answered(c) /\ InOrder(Toward(c)', Answers)
      BY <1>0, <2>2, <2>3, RequestBeside DEF Answers
    <2>6. RequestInv(c)'
      BY <1>0, <1>1, <1>3, <1>6, <1>7, <2>1, <2>4, <2>5, SkipPiece
    <2>7. TaskInv(c)'
      <3>1. pending'[c] # <<>> /\ Len(pending'[c]) <= 1
        BY <2>1
      <3>2. current[c] = 0
        BY <1>0, <1>1 DEF TaskInv
      <3> QED BY <3>1, <3>2, <2>1, <1>0, <1>1, <1>3 DEF TaskInv, eventVars, clientVars
    <2> QED BY <2>4, <2>6, <2>7 DEF ConnInv
  <1>8. CASE p.kind \in {"binary", "close"}
    <2>1. /\ phase'[c] = IF p.kind = "close" THEN "closed" ELSE "select"
          /\ current' = current /\ pending' = pending
      <3>1. CASE p.kind = "binary"
        BY <3>1, <1>1 DEF TakeMessage
      <3>2. CASE p.kind = "close"
        BY <3>2 DEF TakeMessage, TypeOK
      <3> QED BY <3>1, <3>2, <1>8
    <2>2. Toward(c)' = Toward(c) /\ Answered(c)' = Answered(c) /\ Written(c)' = Written(c)
      BY <1>1, <2>1 DEF Toward, Answered, Written
    <2>3. EventInv(c)'
      BY <1>0, <1>1, <1>5, <2>1, <2>2, EventQuiet DEF Serving
    <2>4. InOrder(Toward(c)', Answers)
      BY <1>0, <2>2, RequestParts
    <2>5. RequestInv(c)'
      BY <1>0, <1>1, <1>3, <1>6, <1>8, <2>1, <2>2, <2>4, SkipPiece
    <2>6. TaskInv(c)'
      BY <1>0, <1>1, <1>3, <2>1 DEF TaskInv, eventVars, clientVars
    <2> QED BY <2>3, <2>5, <2>6 DEF ConnInv
  <1>9. CASE p.kind \notin {"ping", "binary", "close"}
    <2>1. Process(c, <<p>>)
      BY <1>9 DEF TakeMessage
    <2>2. Process(c, Append(LineOf(c), p))
      BY <2>1, <1>4
    <2>3. p.part # "head"
      BY <1>3
    <2> QED BY <2>2, <2>3, <1>1, ProcessInv
  <1> QED BY <1>7, <1>8, <1>9

\* The handler's answer is above all earlier ones.
LEMMA HandlerReturnsInv ==
  ASSUME TypeOK, NEW c \in Conns, ConnInv(c), NEW type \in Answers,
         HandlerReturns(c, type)
  PROVE  ConnInv(c)'
  <1>0. TaskInv(c) /\ EventInv(c) /\ RequestInv(c)
    BY DEF ConnInv
  <1> DEFINE k == current[c]
             x == Line(type, k)
  <1>1. /\ phase[c] = "handle" /\ phase'[c] = "write" /\ pending'[c] = <<x>>
        /\ current'[c] = 0 /\ UNCHANGED <<eventVars, line, out, clientVars, up>>
    BY DEF HandlerReturns, TypeOK
  <1>2. k \in Nat /\ k # 0 /\ out[c] \in Seq(Lines) /\ Toward(c) \in Seq(Lines)
    BY <1>0, <1>1, Typed DEF TaskInv
  <1>3. x \in Lines /\ x.type = type /\ x.n = k /\ x.type # "event" /\ x.type \in Answers
    BY <1>2 DEF Line, Lines, LineTypes, Answers
  <1> HIDE DEF k, x
  <1>4. Toward(c)' = Append(Toward(c), x)
    <2>1. Toward(c) = out[c]
      BY <1>0, <1>1, PendingShape
    <2> QED BY <2>1, <1>1, <1>2, <1>3, TowardStep DEF Toward
  <1>5. EventSame(c) /\ LineOf(c)' = LineOf(c)
    BY <1>1 DEF EventSame, eventVars, LocalOf, HeldOf, LineOf
  <1>6. EventInv(c)' /\ Written(c)' = Written(c)
    BY <1>0, <1>1, <1>3, <1>4, <1>5, EventBeside DEF Serving
  <1>7. TaskInv(c)'
    <2>1. pending'[c] # <<>> /\ Len(pending'[c]) <= 1
      BY <1>1
    <2> QED BY <2>1, <1>0, <1>1, <1>5 DEF TaskInv, eventVars, clientVars
  <1>8. RequestInv(c)'
    <2>1. Answered(c)' = Answered(c) \cup {k}
      <3>1. Answered(c)' = Answered(c) \cup (IF x.type \in Answers THEN {x.n} ELSE {})
        BY <1>2, <1>3, <1>4, NumbersAppend DEF Answered
      <3> QED BY <3>1, <1>3
    <2>2. RequestOrder(Answered(c), k, up[c], LineOf(c), asked[c])
      BY <1>0, RequestParts DEF k
    <2>3. InOrder(Toward(c)', Answers)
      <3>1. \A m \in NumbersOf(Toward(c), Answers) : m < x.n
        BY <2>2, <1>2, <1>3 DEF RequestOrder, Answered
      <3>2. InOrder(Toward(c), Answers)
        BY <1>0, RequestParts
      <3> QED BY <3>1, <3>2, <1>2, <1>3, <1>4, InOrderAppend
    <2>4. RequestOrder(Answered(c) \cup {k}, 0, up[c], LineOf(c), asked[c])
      BY <2>2, <1>2 DEF RequestOrder
    <2>5. Kept(Answered(c), k, up[c], LineOf(c), asked[c])
            => Kept(Answered(c) \cup {k}, 0, up[c], LineOf(c), asked[c])
      BY DEF Kept
    <2>6. phase[c] # "closed"
      BY <1>1
    <2>7. StreamInv(up[c], LineOf(c), sent[c], asked[c], half[c])
      BY <1>0, RequestParts
    <2>8. c \in Ws \/ Written(c) = {} =>
            /\ NoOrphan(up[c], LineOf(c), half[c], eof[c])
            /\ Kept(Answered(c), k, up[c], LineOf(c), asked[c])
      BY <1>0, <2>6, RequestParts DEF k
    <2> QED BY <1>1, <1>5, <1>6, <2>1, <2>3, <2>4, <2>5, <2>7, <2>8
            DEF RequestInv, clientVars
  <1> QED BY <1>6, <1>7, <1>8 DEF ConnInv

\* A message is written, or the client is gone and the connection ends.
LEMMA WriteInv ==
  ASSUME TypeOK, NEW c \in Conns, ConnInv(c), Write(c)
  PROVE  ConnInv(c)'
  <1>0. TaskInv(c) /\ EventInv(c) /\ RequestInv(c)
    BY DEF ConnInv
  <1>1. /\ phase[c] = "write" /\ pending'[c] = <<>>
        /\ UNCHANGED <<eventVars, line, current, clientVars, up>>
        /\ \/ phase'[c] = "select" /\ out'[c] = out[c] \o pending[c]
           \/ phase'[c] = "closed" /\ out'[c] = out[c]
    BY DEF Write, TypeOK
  <1>2. PICK x \in Lines : pending[c] = <<x>> /\ Toward(c) = Append(out[c], x)
    BY <1>0, <1>1, PendingShape
  <1>3. out[c] \in Seq(Lines)
    BY Typed
  <1>4. EventSame(c) /\ StreamSame(c) /\ LineOf(c)' = LineOf(c)
    BY <1>1 DEF EventSame, StreamSame, eventVars, clientVars, LocalOf, HeldOf, LineOf
  <1>5. TaskInv(c)'
    <2>1. LineOf(c) = <<>> /\ current[c] = 0
      BY <1>0, <1>1 DEF TaskInv
    <2>2. pending'[c] = <<>> /\ Len(pending'[c]) <= 1 /\ current'[c] = 0
          /\ LineOf(c)' = <<>> /\ phase'[c] \in {"select", "closed"}
      <3>1. Len(<<>>) <= 1
        OBVIOUS
      <3>2. current'[c] = 0 /\ LineOf(c)' = <<>>
        BY <2>1, <1>1, <1>4
      <3>3. pending'[c] = <<>> /\ phase'[c] \in {"select", "closed"}
        BY <1>1
      <3> QED BY <3>1, <3>2, <3>3
    <2> QED BY <2>2, <1>0, <1>1 DEF TaskInv, eventVars, clientVars
  <1>6. CASE phase'[c] = "select" /\ out'[c] = out[c] \o pending[c]
    <2>1. Toward(c)' = Toward(c)
      BY <1>1, <1>2, <1>3, <1>6, TowardStep DEF Toward
    <2>2. EventInv(c)'
      BY <1>0, <1>1, <1>4, <2>1, EventQuiet DEF Serving
    <2>3. RequestInv(c)'
      BY <1>0, <1>1, <1>4, <2>1, RequestQuiet DEF clientVars
    <2> QED BY <1>5, <2>2, <2>3 DEF ConnInv
  <1>7. CASE phase'[c] = "closed" /\ out'[c] = out[c]
    <2>1. Toward(c)' = out[c]
      BY <1>1, <1>3, <1>7, TowardStep, <1>2 DEF Toward
    <2>2. /\ Written(c)' \subseteq Written(c)
          /\ Answered(c)' \subseteq Answered(c)
      BY <2>1, <1>2, <1>3, NumbersAppend DEF Written, Answered
    <2>3. InOrder(Toward(c)', {"event"}) /\ InOrder(Toward(c)', Answers)
      BY <2>1, <1>0, <1>2, <1>3, InOrderPrefix, RequestParts DEF EventInv
    <2>4. EventInv(c)'
      <3>1. EventOrder(Written(c), base[c], rx[c], LocalOf(c), HeldOf(c))
            /\ rx[c] <= published
        BY <1>0 DEF EventInv
      <3>2. EventOrder(Written(c)', base[c], rx[c], LocalOf(c), HeldOf(c))
        BY <3>1, <2>2 DEF EventOrder
      <3>3. phase'[c] \notin Serving \cup {"handshake"}
        BY <1>7 DEF Serving
      <3> QED BY <3>1, <3>2, <3>3, <2>3, <1>4 DEF EventInv, EventSame
    <2>5. RequestInv(c)'
      <3>1. /\ StreamInv(up[c], LineOf(c), sent[c], asked[c], half[c])
            /\ RequestOrder(Answered(c), current[c], up[c], LineOf(c), asked[c])
        BY <1>0, RequestParts
      <3>2. RequestOrder(Answered(c)', current[c], up[c], LineOf(c), asked[c])
        BY <3>1, <2>2 DEF RequestOrder
      <3> QED BY <3>1, <3>2, <2>3, <1>1, <1>4, <1>7 DEF RequestInv, StreamSame
    <2> QED BY <1>5, <2>4, <2>5 DEF ConnInv
  <1> QED BY <1>1, <1>6, <1>7

-----------------------------------------------------------------------------
(***************************************************************************)
(* Clients.                                                                *)
(***************************************************************************)

\* A piece at the end of the stream is no orphan, whatever comes after it.
LEMMA OrphanSend ==
  ASSUME NEW u \in Seq(Pieces), NEW l, NEW h \in BOOLEAN, NEW p \in Pieces,
         p.part = "tail" => h, NoOrphan(u, l, h, FALSE),
         NEW g \in BOOLEAN, NEW e \in BOOLEAN
  PROVE  NoOrphan(Append(u, p), l, g, e)
  <1> DEFINE t == Append(u, p)
  <1>1. /\ Len(u) \in Nat /\ t # <<>>
        /\ \A i \in 1..Len(u) : t[i] = u[i]
        /\ t[Len(u) + 1] = p
    BY AppendElements
  <1> HIDE DEF t
  <1>2. CASE u = <<>>
    <2>1. Len(u) = 0
      BY <1>2
    <2>2. t[1] = p
      BY <1>1, <2>1
    <2> QED BY <1>1, <1>2, <2>2 DEF NoOrphan, t
  <1>3. CASE u # <<>>
    <2>1. 1 \in 1..Len(u)
      BY <1>3, <1>1
    <2>2. t[1] = u[1]
      BY <1>1, <2>1
    <2> QED BY <1>1, <1>3, <2>2 DEF NoOrphan, t
  <1> QED BY <1>2, <1>3

\* A client sends: the piece p joins the stream, b are then the requests that
\* are complete, m the messages and g the half sent.
LEMMA StreamGrows ==
  ASSUME TypeOK, NEW c \in Conns, ConnInv(c), ~eof[c],
         NEW p \in Pieces, NEW b \in SUBSET Nat, NEW m \in Nat, NEW g \in BOOLEAN,
         StreamInv(Append(up[c], p), LineOf(c), m, b, g),
         p.part = "tail" => half[c], p.part = "tail" \/ p.n = sent[c] + 1,
         asked[c] \subseteq b, b \subseteq asked[c] \cup {p.n},
         up'[c] = Append(up[c], p), sent'[c] = m, asked'[c] = b, half'[c] = g,
         UNCHANGED <<eventVars, taskVars, read, eof, result>>
  PROVE  EventInv(c)' /\ RequestInv(c)'
  <1>0. TaskInv(c) /\ EventInv(c) /\ RequestInv(c)
    BY DEF ConnInv
  <1>1. /\ Toward(c)' = Toward(c) /\ Answered(c)' = Answered(c)
        /\ Written(c)' = Written(c) /\ LineOf(c)' = LineOf(c) /\ EventSame(c)
        /\ phase'[c] = phase[c] /\ current'[c] = current[c] /\ eof'[c] = eof[c]
    BY DEF Toward, Answered, Written, LineOf, EventSame, LocalOf, HeldOf,
           eventVars, taskVars
  <1>2. EventInv(c)'
    BY <1>0, <1>1, EventQuiet
  <1> DEFINE u == up[c]
             l == LineOf(c)
             n == sent[c]
             a == asked[c]
             h == half[c]
             w == Answered(c)
             k == current[c]
  <1>3. /\ u \in Seq(Pieces) /\ l \in Seq(Pieces) /\ n \in Nat /\ a \in SUBSET Nat
        /\ h \in BOOLEAN /\ w \in SUBSET Nat /\ k \in Nat /\ eof[c] = FALSE
    BY Typed
  <1>4. /\ StreamInv(u, l, n, a, h) /\ RequestOrder(w, k, u, l, a)
        /\ InOrder(Toward(c), Answers)
        /\ phase[c] # "closed" /\ (c \in Ws \/ Written(c) = {})
             => NoOrphan(u, l, h, FALSE) /\ Kept(w, k, u, l, a)
    BY <1>0, <1>3, RequestParts
  <1>5. /\ p.part = "tail" => h
        /\ p.part = "tail" \/ p.n = n + 1
        /\ a \subseteq b /\ b \subseteq a \cup {p.n}
    OBVIOUS
  <1>6. a \in SUBSET (1..n)
    BY <1>4 DEF StreamInv
  <1>c. StreamInv(Append(u, p), l, m, b, g)
    OBVIOUS
  <1> HIDE DEF u, l, n, a, h, w, k
  <1>7. RequestOrder(w, k, Append(u, p), l, b)
    BY <1>3, <1>4, <1>5, <1>6, OrderSend
  <1>8. Kept(w, k, u, l, a) => Kept(w, k, Append(u, p), l, b)
    BY <1>3, <1>5, <1>6, OrderSend
  <1>9. NoOrphan(u, l, h, FALSE) => NoOrphan(Append(u, p), l, g, FALSE)
    BY <1>3, <1>5, OrphanSend
  <1>10. RequestInv(c)'
    BY <1>1, <1>3, <1>4, <1>7, <1>8, <1>9, <1>c DEF RequestInv, u, l, w, k
  <1> QED BY <1>2, <1>10

\* A client begins a message.
LEMMA ClientSendInv ==
  ASSUME TypeOK, NEW c \in Conns, ConnInv(c), NEW kind, NEW part,
         Sends(c, kind, part), ClientSend(c, kind, part)
  PROVE  ConnInv(c)'
  <1>0. TaskInv(c) /\ RequestInv(c)
    BY DEF ConnInv
  <1> DEFINE p == Piece(sent[c] + 1, kind, part)
             b == IF p.kind = "request" /\ p.part = "whole"
                  THEN asked[c] \cup {sent[c] + 1} ELSE asked[c]
  <1>1. /\ up'[c] = Append(up[c], p) /\ sent'[c] = sent[c] + 1
        /\ half'[c] = (p.part = "head") /\ asked'[c] = b
        /\ UNCHANGED <<eventVars, taskVars, read, eof, result>>
    BY DEF ClientSend, Piece, TypeOK
  <1>2. ~eof[c] /\ half[c] = FALSE
    BY DEF ClientSend, MaySend, TypeOK
  <1>3. /\ up[c] \in Seq(Pieces) /\ LineOf(c) \in Seq(Pieces)
        /\ sent[c] \in Nat /\ asked[c] \in SUBSET Nat
    BY Typed
  <1>4. /\ p \in Pieces /\ p.n = sent[c] + 1 /\ p.part = part /\ p.kind = kind
        /\ p.part # "tail" /\ (p.part = "head" => p.kind = "request")
    BY <1>3 DEF Piece, Pieces, Parts, Sends
  <1>5. StreamInv(up[c], LineOf(c), sent[c], asked[c], FALSE)
    BY <1>0, <1>2, RequestParts
  <1>a. b \in SUBSET Nat /\ asked[c] \subseteq b /\ b \subseteq asked[c] \cup {sent[c] + 1}
        /\ sent[c] + 1 \in Nat
    BY <1>3
  <1> HIDE DEF p
  <1>6. StreamInv(Append(up[c], p), LineOf(c), sent[c] + 1, b, p.part = "head")
    BY <1>3, <1>4, <1>5, StreamSend
  <1> HIDE DEF b
  <1>7. EventInv(c)' /\ RequestInv(c)'
    BY <1>1, <1>2, <1>4, <1>6, <1>a, StreamGrows
  <1>8. TaskInv(c)'
    <2>1. c \in Ws => /\ half'[c] = FALSE
                      /\ \A i \in DOMAIN up'[c] : up'[c][i].part = "whole"
      <3>1. SUFFICES ASSUME c \in Ws
                     PROVE  /\ half'[c] = FALSE
                            /\ \A i \in DOMAIN up'[c] : up'[c][i].part = "whole"
        OBVIOUS
      <3>2. p.part = "whole"
        BY <3>1, <1>4, IpcAssumption DEF Sends
      <3>3. \A i \in DOMAIN up[c] : up[c][i].part = "whole"
        BY <3>1, <1>0 DEF TaskInv
      <3>4. \A i \in DOMAIN Append(up[c], p) : Append(up[c], p)[i].part = "whole"
        BY <1>3, <1>4, <3>2, <3>3, AppendElements
      <3> QED BY <1>1, <3>2, <3>4
    <2> QED BY <2>1, <1>0, <1>1 DEF TaskInv, eventVars, taskVars, LineOf, LocalOf, HeldOf
  <1> QED BY <1>7, <1>8 DEF ConnInv

\* A client completes a request.
LEMMA ClientSendRestInv ==
  ASSUME TypeOK, NEW c \in Conns, ConnInv(c), ClientSendRest(c)
  PROVE  ConnInv(c)'
  <1>0. TaskInv(c) /\ RequestInv(c)
    BY DEF ConnInv
  <1> DEFINE p == Piece(sent[c], "request", "tail")
             b == asked[c] \cup {sent[c]}
  <1>1. /\ up'[c] = Append(up[c], p) /\ sent'[c] = sent[c]
        /\ half'[c] = FALSE /\ asked'[c] = b
        /\ UNCHANGED <<eventVars, taskVars, read, eof, result>>
    BY DEF ClientSendRest, TypeOK, eventVars, taskVars
  <1>2. ~eof[c] /\ half[c] = TRUE
    BY DEF ClientSendRest, TypeOK
  <1>3. /\ up[c] \in Seq(Pieces) /\ LineOf(c) \in Seq(Pieces)
        /\ sent[c] \in Nat /\ asked[c] \in SUBSET Nat
    BY Typed
  <1>4. p \in Pieces /\ p.n = sent[c] /\ p.part = "tail" /\ p.kind = "request"
    BY <1>3 DEF Piece, Pieces, Parts, Kinds
  <1>5. StreamInv(up[c], LineOf(c), sent[c], asked[c], TRUE)
    BY <1>0, <1>2, RequestParts
  <1>a. /\ b \in SUBSET Nat /\ asked[c] \subseteq b /\ b \subseteq asked[c] \cup {p.n}
        /\ FALSE \in BOOLEAN
    BY <1>3, <1>4
  <1> HIDE DEF p
  <1>6. StreamInv(Append(up[c], p), LineOf(c), sent[c], b, FALSE)
    BY <1>3, <1>4, <1>5, StreamRest
  <1> HIDE DEF b
  <1>7. EventInv(c)' /\ RequestInv(c)'
    BY <1>1, <1>2, <1>3, <1>4, <1>6, <1>a, StreamGrows
  <1>8. TaskInv(c)'
    <2>1. c \notin Ws
      BY <1>0, <1>2 DEF TaskInv
    <2> QED BY <2>1, <1>0, <1>1 DEF TaskInv, eventVars, taskVars, LineOf, LocalOf, HeldOf
  <1> QED BY <1>7, <1>8 DEF ConnInv

\* A client reads, closes its end or returns from send_request.
LEMMA ClientQuietInv ==
  ASSUME TypeOK, NEW c \in Conns, ConnInv(c),
         \/ c \notin OneShot /\ ClientRead(c)
         \/ ClientClose(c)
         \/ c \in OneShot /\ ClientReturn(c)
  PROVE  ConnInv(c)'
  <1>0. TaskInv(c) /\ EventInv(c) /\ RequestInv(c)
    BY DEF ConnInv
  <1>1. /\ UNCHANGED <<eventVars, taskVars, sent, asked, half, up>>
        /\ eof'[c] = eof[c] \/ eof'[c] = TRUE
        /\ c \in OneShot => read'[c] = read[c] \/ read'[c] = 1
    BY DEF ClientRead, ClientClose, ClientReturn, TypeOK
  <1>2. EventSame(c) /\ StreamSame(c) /\ Toward(c)' = Toward(c)
    BY <1>1 DEF EventSame, StreamSame, eventVars, taskVars, LocalOf, HeldOf,
                LineOf, Toward
  <1>3. phase'[c] = phase[c] /\ current'[c] = current[c]
    BY <1>1 DEF taskVars
  <1>4. EventInv(c)'
    BY <1>0, <1>2, <1>3, EventQuiet
  <1>5. RequestInv(c)'
    BY <1>0, <1>1, <1>2, <1>3, RequestQuiet
  <1>6. TaskInv(c)'
    BY <1>0, <1>1 DEF TaskInv, eventVars, taskVars, LineOf, LocalOf, HeldOf
  <1> QED BY <1>4, <1>5, <1>6 DEF ConnInv

-----------------------------------------------------------------------------
(***************************************************************************)
(* The inductive invariant and what follows from it.                       *)
(***************************************************************************)

\* A step of a connection keeps its own invariant.
LEMMA ActionInv ==
  ASSUME TypeOK, NEW c \in Conns, ConnInv(c), ActionOn(c)
  PROVE  ConnInv(c)'
  <1>1. CASE Connect(c) \/ (c \in Ws /\ AcceptWs(c)) \/ (c \in Ws /\ TakeEof(c))
    BY <1>1, PhaseInv
  <1>2. CASE \E type \in Answers : HandlerReturns(c, type)
    BY <1>2, HandlerReturnsInv
  <1>3. CASE Write(c)
    BY <1>3, WriteInv
  <1>4. CASE (c \in Unix /\ AcceptUnix(c)) \/ (c \in Ws /\ AcceptTcp(c))
    BY <1>4, AcceptInv
  <1>5. CASE c \in Unix /\ ForwardRecv(c)
    BY <1>5, ForwardRecvInv
  <1>6. CASE c \in Unix /\ ForwardSend(c)
    BY <1>6, ForwardSendInv
  <1>7. CASE c \in Unix /\ ReadLine(c)
    BY <1>7, ReadLineInv
  <1>8. CASE c \in Unix /\ ReadEof(c)
    BY <1>8, ReadEofInv
  <1>9. CASE c \in Unix /\ TakeLocalEvent(c)
    BY <1>9, TakeLocalEventInv
  <1>10. CASE c \in Ws /\ TakeMessage(c)
    BY <1>10, TakeMessageInv
  <1>11. CASE c \in Ws /\ TakeBroadcast(c)
    BY <1>11, TakeBroadcastInv
  <1>12. ASSUME NEW kind, NEW part, Sends(c, kind, part), ClientSend(c, kind, part)
         PROVE  ConnInv(c)'
    BY <1>12, ClientSendInv
  <1>13. CASE ClientSendRest(c)
    BY <1>13, ClientSendRestInv
  <1>14. CASE \/ c \notin OneShot /\ ClientRead(c)
              \/ ClientClose(c)
              \/ c \in OneShot /\ ClientReturn(c)
    BY <1>14, ClientQuietInv
  <1> QED BY <1>1, <1>2, <1>3, <1>4, <1>5, <1>6, <1>7, <1>8, <1>9, <1>10, <1>11,
             <1>12, <1>13, <1>14 DEF ActionOn

\* No step disturbs any connection.
LEMMA ConnStep ==
  ASSUME IInv, [Next]_vars
  PROVE  \A c \in Conns : ConnInv(c)'
  <1> SUFFICES ASSUME NEW c \in Conns PROVE ConnInv(c)'
    OBVIOUS
  <1>1. TypeOK /\ ConnInv(c)
    BY DEF IInv
  <1>2. CASE SendEvent
    BY <1>1, <1>2, SendEventInv
  <1>3. ASSUME NEW d \in Conns, ActionOn(d) PROVE ConnInv(c)'
    <2>1. CASE d = c
      BY <1>1, <1>3, <2>1, ActionInv
    <2>2. CASE d # c
      <3>1. Same(c) /\ published' = published
        BY <1>1, <1>3, <2>2, OtherConns
      <3> QED BY <1>1, <3>1, Frame
    <2> QED BY <2>1, <2>2
  <1>4. CASE UNCHANGED vars
    <2>1. Same(c) /\ published' = published
      BY <1>4 DEF vars, eventVars, taskVars, clientVars, Same
    <2> QED BY <1>1, <2>1, Frame
  <1> QED BY <1>2, <1>3, <1>4, NextActions

\* Nothing has happened on any connection at the start.
LEMMA InitInv == Init => IInv
  <1> SUFFICES ASSUME Init PROVE IInv
    OBVIOUS
  <1>0. <<>> \in Seq(Nat) /\ <<>> \in Seq(Pieces) /\ <<>> \in Seq(Lines)
    OBVIOUS
  <1>1. TypeOK
    <2>1. Len(<<>>) = 0
      OBVIOUS
    <2> QED BY <1>0, <2>1, IpcAssumption DEF Init, TypeOK, Serving, Pieces, Lines
  <1>2. ASSUME NEW c \in Conns PROVE ConnInv(c)
    <2>1. /\ phase[c] = "none" /\ rx[c] = 0 /\ base[c] = 0 /\ dropped[c] = {}
          /\ up[c] = <<>> /\ current[c] = 0 /\ pending[c] = <<>> /\ out[c] = <<>>
          /\ read[c] = 0 /\ sent[c] = 0 /\ asked[c] = {} /\ half[c] = FALSE
          /\ LineOf(c) = <<>> /\ LocalOf(c) = <<>> /\ HeldOf(c) = 0
          /\ published = 0
          /\ c \in Unix => held[c] = 0 /\ fwd[c] = "none"
      BY DEF Init, LineOf, LocalOf, HeldOf
    <2>2. Toward(c) = <<>>
      BY <2>1 DEF Toward
    <2>3. Written(c) = {} /\ Answered(c) = {}
      BY <2>2, NumbersEmpty DEF Written, Answered
    <2>4. InOrder(Toward(c), {"event"}) /\ InOrder(Toward(c), Answers)
      BY <2>2, NumbersEmpty
    <2>5. TaskInv(c)
      <3>1. Len(<<>>) <= 1
        OBVIOUS
      <3> QED BY <3>1, <2>1 DEF TaskInv
    <2>6. EventInv(c)
      <3>1. EventOrder({}, 0, 0, <<>>, 0)
        BY DEF EventOrder
      <3> QED BY <3>1, <2>1, <2>3, <2>4 DEF EventInv, Serving
    <2>7. RequestInv(c)
      <3>1. /\ StreamInv(<<>>, <<>>, 0, {}, FALSE) /\ RequestOrder({}, 0, <<>>, <<>>, {})
            /\ \A e : NoOrphan(<<>>, <<>>, FALSE, e)
            /\ Kept({}, 0, <<>>, <<>>, {})
        BY DEF StreamInv, RequestOrder, NoOrphan, Kept
      <3> QED BY <3>1, <2>1, <2>3, <2>4 DEF RequestInv
    <2> QED BY <2>5, <2>6, <2>7 DEF ConnInv
  <1> QED BY <1>1, <1>2 DEF IInv

\* The invariant is inductive.
LEMMA StepInv == IInv /\ [Next]_vars => IInv'
  BY TypeStep, ConnStep DEF IInv

\* What the parts of the invariant say of events and of requests.
LEMMA InvIpc == IInv => IpcInv
  <1> SUFFICES ASSUME IInv PROVE IpcInv
    OBVIOUS
  <1>1. TypeOK
    BY DEF IInv
  <1>2. ASSUME NEW c \in Conns, phase[c] \in Serving
        PROVE  (base[c] + 1)..published = Written(c) \cup Underway(c) \cup dropped[c]
    <2>1. (base[c] + 1)..published =
            Written(c) \cup (rx[c] + 1)..published \cup Range(LocalOf(c))
              \cup ({HeldOf(c)} \ {0}) \cup dropped[c]
      BY <1>2 DEF IInv, ConnInv, EventInv
    <2>2. CASE c \in Unix
      <3>1. Underway(c) = (rx[c] + 1)..published \cup (Range(LocalOf(c))
                            \cup ({HeldOf(c)} \ {0}))
        BY <2>2 DEF Underway, LocalOf, HeldOf
      <3> QED BY <2>1, <3>1
    <2>3. CASE c \notin Unix
      <3>1. LocalOf(c) = <<>> /\ HeldOf(c) = 0
        BY <2>3 DEF LocalOf, HeldOf
      <3>2. Range(LocalOf(c)) = {}
        BY <3>1 DEF Range
      <3>3. Underway(c) = (rx[c] + 1)..published
        BY <2>3 DEF Underway
      <3> QED BY <2>1, <3>1, <3>2, <3>3
    <2> QED BY <2>2, <2>3
  <1>3. ASSUME NEW c \in Conns, c \in Ws \/ Written(c) = {}, phase[c] \in Serving
        PROVE  asked[c] \subseteq Answered(c) \cup Incoming(c)
    <2>1. Kept(Answered(c), current[c], up[c], LineOf(c), asked[c])
      BY <1>3 DEF IInv, ConnInv, RequestInv, Serving
    <2>2. {LineOf(c)[i].n : i \in DOMAIN LineOf(c)} \cup {up[c][i].n : i \in DOMAIN up[c]}
            \cup {current[c]} \subseteq Incoming(c)
      BY DEF Incoming, LineOf
    <2> QED BY <2>1, <2>2 DEF Kept
  <1> QED BY <1>1, <1>2, <1>3 DEF IpcInv, EventsAccounted, RequestsKept, Accounted

\* It orders the answers.
LEMMA InvAnswers == IInv => AnswersInOrder
  BY DEF IInv, ConnInv, RequestInv, RequestOrder, AnswersInOrder

\* It orders the events.
LEMMA InvEvents == IInv => EventsInOrder
  <1> SUFFICES ASSUME IInv, NEW c \in Conns
               PROVE  InOrder(Toward(c), {"event"}) /\ \A e \in Written(c) : e > base[c]
    BY DEF EventsInOrder
  <1>1. TypeOK /\ EventInv(c)
    BY DEF IInv, ConnInv
  <1>2. Written(c) \in SUBSET Nat /\ base[c] \in Nat
    BY <1>1, Typed
  <1> QED BY <1>1, <1>2 DEF EventInv, EventOrder

\* The inductive invariant holds in every reachable state.
LEMMA Inductive == Spec => []IInv
  BY InitInv, StepInv, PTL DEF Spec

\* Whatever the capacities, no queue outgrows its own for a client that does
\* not read, and yet every event a served connection subscribed to is written,
\* on its way or dropped by Lagged, and every complete request of a WebSocket
\* connection, or of a Unix one to which no event was written, is answered,
\* handled or on its way (handle_connection of server.rs and ws.rs).
THEOREM IpcCorrect == Spec => []IpcInv
  BY Inductive, InvIpc, PTL

\* Every client, of either transport, gets the answers to its requests in the
\* order it sent them and none twice, and none it did not ask for, though
\* events come in between and requests in pieces.
THEOREM AnswersOrdered == Spec => []AnswersInOrder
  BY Inductive, InvAnswers, PTL

\* Through the broadcast channel, the forwarder, the connection's queue and
\* the task, a client gets events in the order they were sent, none twice and
\* none from before it was accepted, also when the receiver lags.
THEOREM EventsOrdered == Spec => []EventsInOrder
  BY Inductive, InvEvents, PTL
=============================================================================
