----------------------------- MODULE TokenProofs -----------------------------
(***************************************************************************)
(* Proofs about Token, for every finite set of threads, every set of       *)
(* tokens, whatever calls the threads make, every bound on their stacks    *)
(* and every lwkt_spin_loops.                                              *)
(***************************************************************************)
EXTENDS Token, FiniteSetTheorems, SequenceTheorems, TLAPS

\* The invariant of a thread is about its own variables only: the stack s, the
\* references h that it has and w that it wants, its place p and its call c.

\* Two references to the same token, i deeper in the stack.
Deeper(s, i, j) == i < j /\ s[i].tok = s[j].tok

\* References to the same token are acquired in the order of the stack.
Lists(s, h, w) ==
    /\ s \in Seq(Ref) /\ h \in Seq(Nat) /\ w \in Seq(Nat)
    /\ ToSet(h) \cup ToSet(w) \subseteq 1 .. Len(s)
    /\ ToSet(h) \cap ToSet(w) = {}
    /\ IsInjective(h) /\ IsInjective(w)
    /\ \A q \in 1 .. Len(h), i \in 1 .. Len(s) :
          Deeper(s, i, h[q]) => \E o \in 1 .. q - 1 : h[o] = i
    /\ \A q \in 1 .. Len(w), i \in 1 .. Len(s) :
          Deeper(s, i, w[q]) => i \in ToSet(h) \/ \E o \in 1 .. q - 1 : w[o] = i

Up(n) == [i \in 1 .. n |-> i]

\* The calls that push a reference, before the first switch.
Pushing == {"get", "getshared", "try"}

TryPCs == {"try", "setref", "setreq", "setlast", "again"}

\* lwkt_gettoken() of a token that the thread has: exclusively, by contract.
Contract(s) == \A i \in 1 .. Len(s) : Deeper(s, i, Len(s)) =>
                  \E j \in 1 .. Len(s) : Deeper(s, j, Len(s)) /\ s[j].ex

\* What a thread has and wants at each place.
Place(s, h, w, p, c) ==
    /\ p \in PCs \ {"panic"} /\ c \in InCalls
    /\ p = "run" <=> c = "none"
    /\ p = "check" => c = "getswitch"
    /\ p \in {"run", "check"} \/ c = "rel" => h = Up(Len(s)) /\ w = <<>>
    /\ c = "rel" => p \in {"rel", "cas"}
    /\ c \in Pushing => /\ p \in TryPCs
                        /\ h = Up(Len(s) - 1) /\ w = <<Len(s)>>
    /\ c # "none" => s # <<>>
    /\ c \in {"get", "try", "getswitch"} => s[Len(s)].ex
    /\ c = "getshared" => ~ s[Len(s)].ex
    /\ c = "get" => Contract(s)
    /\ c = "try" => p \in {"try", "setref"}
    /\ p \in TryPCs => w # <<>> /\ ToSet(h) \cup ToSet(w) = 1 .. Len(s)
    /\ p \in {"rel", "cas"} => w = <<>>
    /\ p = "cas" => h # <<>> /\ s[Last(h)].ex
    /\ p \in {"setref", "setreq", "setlast"} => s[Head(w)].ex

\* The reference on top may be another exclusive one while it is first tried.
Topmost(s, p, c, j) == j = Len(s) /\ p = "try" /\ c \in Pushing

\* Of the references to a token only the deepest is exclusive, and it is if one
\* of them was asked for exclusively.
Stack(s, p, c) ==
    /\ \A i \in 1 .. Len(s) : s[i].ex => s[i].asked
    /\ \A i \in 1 .. Len(s) : s[i].asked =>
          s[i].ex \/ \E j \in 1 .. Len(s) : Deeper(s, j, i) /\ s[j].ex
    /\ \A i, j \in 1 .. Len(s) : Deeper(s, i, j) /\ s[j].ex => Topmost(s, p, c, j)

Local(s, h, w, p, c) == Lists(s, h, w) /\ Place(s, h, w, p, c) /\ Stack(s, p, c)

\* The holder has the bit, and t_ref does not say so (yet, or any more).
Bare(t, k) == \/ pc[t] = "setref" /\ Tok(t) = k
              \/ pc[t] = "cas" /\ RelTok(t) = k

Shares(k) == Holds(k) \ ExclHolds(k)

\* What t_count and t_ref say of the references in use.
Word(k) ==
    /\ t_count[k].ex <=> ExclHolds(k) # {}
    /\ \A r, s \in ExclHolds(k) : r = s
    /\ \A r \in ExclHolds(k), s \in Holds(k) : s[1] = r[1]
    /\ t_count[k].cnt = Cardinality(Shares(k))
    /\ \A r \in ExclHolds(k) : t_ref[k] = IF Bare(r[1], k) THEN NULL ELSE r
    /\ ExclHolds(k) = {} => t_ref[k] = NULL

Types == /\ t_count \in [Tokens -> [ex : BOOLEAN, req : BOOLEAN, cnt : Nat]]
         /\ t_ref \in [Tokens -> {NULL} \cup (Threads \X Nat)]
         /\ ThreadTypes

\* The inductive invariant.
IInv == /\ Types
        /\ \A t \in Threads : Local(toks[t], have[t], want[t], pc[t], call[t])
        /\ \A k \in Tokens : Word(k)
-----------------------------------------------------------------------------
(* Sequences *)

\* A sequence without its last element.
LEMMA FrontSeq ==
  ASSUME NEW S, NEW q \in Seq(S), q # <<>>
  PROVE  /\ Len(q) \in Nat \ {0}
         /\ Front(q) \in Seq(S) /\ Len(Front(q)) = Len(q) - 1
         /\ \A i \in 1 .. Len(q) - 1 : Front(q)[i] = q[i]
         /\ Last(q) = q[Len(q)]
  <1>1. Len(q) \in Nat \ {0} /\ \A i \in 1 .. Len(q) - 1 : q[i] \in S
    BY EmptySeq, LenProperties, ElementOfSeq
  <1>2. /\ Front(q) \in Seq(S)
        /\ Len(Front(q)) = IF 1 <= Len(q) - 1 THEN Len(q) - 1 - 1 + 1 ELSE 0
        /\ \A i \in 1 .. Len(q) - 1 - 1 + 1 : Front(q)[i] = q[1 + i - 1]
    BY <1>1, SubSeqProperties DEF Front
  <1>3. Len(Front(q)) = Len(q) - 1
    <2> DEFINE n == Len(q)
               m == Len(Front(q))
    <2>1. n \in Nat \ {0} /\ m = IF 1 <= n - 1 THEN n - 1 - 1 + 1 ELSE 0
      BY <1>1, <1>2
    <2> HIDE DEF n, m
    <2>2. m = n - 1
      BY <2>1
    <2> QED
      BY <2>2 DEF n, m
  <1>4. \A i \in 1 .. Len(q) - 1 : Front(q)[i] = q[i]
    BY <1>1, <1>2
  <1> QED
    BY <1>1, <1>2, <1>3, <1>4 DEF Last

\* The references without the one acquired last.
LEMMA FrontSet ==
  ASSUME NEW S, NEW q \in Seq(S), q # <<>>, IsInjective(q)
  PROVE  /\ Last(q) \in ToSet(q) /\ IsInjective(Front(q))
         /\ ToSet(Front(q)) = ToSet(q) \ {Last(q)}
  <1>1. /\ Len(q) \in Nat \ {0} /\ DOMAIN q = 1 .. Len(q)
        /\ DOMAIN Front(q) = 1 .. Len(q) - 1
        /\ \A i \in 1 .. Len(q) - 1 : Front(q)[i] = q[i]
        /\ Last(q) = q[Len(q)]
    BY FrontSeq, LenProperties
  <1>2. IsInjective(Front(q))
    BY <1>1 DEF IsInjective
  <1>3. ToSet(Front(q)) = ToSet(q) \ {Last(q)}
    BY <1>1 DEF ToSet, IsInjective
  <1>4. Last(q) \in ToSet(q)
    BY <1>1 DEF ToSet
  <1> QED
    BY <1>2, <1>3, <1>4

\* The references still wanted without the first.
LEMMA TailSet ==
  ASSUME NEW S, NEW q \in Seq(S), q # <<>>, IsInjective(q)
  PROVE  /\ Head(q) \in ToSet(q) /\ Head(q) = q[1] /\ IsInjective(Tail(q))
         /\ ToSet(Tail(q)) = ToSet(q) \ {Head(q)}
  <1>1. /\ Len(q) \in Nat \ {0} /\ DOMAIN q = 1 .. Len(q) /\ Head(q) = q[1]
        /\ DOMAIN Tail(q) = 1 .. Len(q) - 1
        /\ \A i \in 1 .. Len(q) - 1 : Tail(q)[i] = q[i + 1]
    OBVIOUS
  <1>2. IsInjective(Tail(q))
    BY <1>1 DEF IsInjective
  <1>3. ASSUME NEW u \in ToSet(Tail(q)) PROVE u \in ToSet(q) \ {Head(q)}
    BY <1>1, <1>3 DEF ToSet, IsInjective
  <1>4. ASSUME NEW u \in ToSet(q) \ {Head(q)} PROVE u \in ToSet(Tail(q))
    <2>1. PICK i \in 1 .. Len(q) : q[i] = u /\ i # 1
      BY <1>1, <1>4 DEF ToSet
    <2>2. i - 1 \in 1 .. Len(q) - 1 /\ Tail(q)[i - 1] = u
      BY <1>1, <2>1
    <2> QED
      BY <1>1, <2>2 DEF ToSet
  <1>5. Head(q) \in ToSet(q)
    BY <1>1 DEF ToSet
  <1> QED
    BY <1>1, <1>2, <1>3, <1>4, <1>5

\* One more reference.
LEMMA AppendSet ==
  ASSUME NEW S, NEW q \in Seq(S), NEW e \in S
  PROVE  /\ ToSet(Append(q, e)) = ToSet(q) \cup {e}
         /\ IsInjective(q) /\ e \notin ToSet(q) => IsInjective(Append(q, e))
  <1>1. /\ DOMAIN q = 1 .. Len(q) /\ Len(q) \in Nat
        /\ DOMAIN Append(q, e) = 1 .. Len(q) + 1
        /\ \A n \in 1 .. Len(q) : Append(q, e)[n] = q[n]
        /\ Append(q, e)[Len(q) + 1] = e
    BY AppendProperties, LenProperties
  <1>2. ToSet(Append(q, e)) = ToSet(q) \cup {e}
    BY <1>1 DEF ToSet
  <1>3. ASSUME IsInjective(q), e \notin ToSet(q) PROVE IsInjective(Append(q, e))
    <2>1. \A n \in 1 .. Len(q) : q[n] # e
      BY <1>1, <1>3 DEF ToSet
    <2> HIDE DEF ToSet
    <2> QED
      BY <1>1, <1>3, <2>1 DEF IsInjective
  <1> QED
    BY <1>2, <1>3

\* The stack in its own order, as a sequence.
LEMMA UpSeq ==
  ASSUME NEW n \in Nat
  PROVE  /\ Up(n) \in Seq(Nat) /\ Len(Up(n)) = n
         /\ \A i \in 1 .. n : Up(n)[i] = i
         /\ ToSet(Up(n)) = 1 .. n /\ IsInjective(Up(n))
  <1>1. Up(n) \in Seq(Nat) /\ Len(Up(n)) = n /\ DOMAIN Up(n) = 1 .. n
    BY DEF Up
  <1>2. \A i \in 1 .. n : Up(n)[i] = i
    BY DEF Up
  <1>3. ToSet(Up(n)) = 1 .. n
    BY <1>1, <1>2 DEF ToSet
  <1>4. IsInjective(Up(n))
    BY <1>1, <1>2 DEF IsInjective
  <1> QED
    BY <1>1, <1>2, <1>3, <1>4

\* Up(n) ends with n, and Up(n - 1) goes before it.
LEMMA UpFront ==
  ASSUME NEW n \in Nat, n # 0
  PROVE  Up(n) # <<>> /\ Last(Up(n)) = n /\ Front(Up(n)) = Up(n - 1)
  <1>1. n - 1 \in Nat /\ 1 \in DOMAIN Up(n)
    BY DEF Up
  <1>2. Up(n) # <<>>
    BY <1>1, EmptySeq, UpSeq
  <1>3. /\ Front(Up(n)) \in Seq(Nat) /\ Len(Front(Up(n))) = n - 1
        /\ \A i \in 1 .. n - 1 : Front(Up(n))[i] = i
        /\ Last(Up(n)) = n
    <2>1. Len(Up(n)) = n /\ Up(n) \in Seq(Nat) /\ \A i \in 1 .. n : Up(n)[i] = i
      BY UpSeq
    <2> DEFINE q == Up(n)
    <2> HIDE DEF q
    <2>2. /\ Front(q) \in Seq(Nat) /\ Len(Front(q)) = Len(q) - 1
          /\ \A i \in 1 .. Len(q) - 1 : Front(q)[i] = q[i]
          /\ Last(q) = q[Len(q)]
      BY <1>2, <2>1, FrontSeq DEF q
    <2>3. Len(q) = n /\ \A i \in 1 .. n : q[i] = i
      BY <2>1 DEF q
    <2>4. /\ Front(q) \in Seq(Nat) /\ Len(Front(q)) = n - 1
          /\ \A i \in 1 .. n - 1 : Front(q)[i] = i
          /\ Last(q) = n
      BY <2>2, <2>3
    <2> QED
      BY <2>4 DEF q
  <1>4. /\ Up(n - 1) \in Seq(Nat) /\ Len(Up(n - 1)) = n - 1
        /\ \A i \in 1 .. n - 1 : Up(n - 1)[i] = i
    BY <1>1, UpSeq
  <1> QED
    BY <1>2, <1>3, <1>4, SeqEqual

\* The list of one reference.
LEMMA OneSeq ==
  ASSUME NEW n \in Nat
  PROVE  /\ <<n>> \in Seq(Nat) /\ Len(<<n>>) = 1 /\ <<n>>[1] = n /\ <<n>> # <<>>
         /\ Head(<<n>>) = n /\ Tail(<<n>>) = <<>>
         /\ ToSet(<<n>>) = {n} /\ IsInjective(<<n>>)
  <1>1. <<n>> \in Seq(Nat) /\ Len(<<n>>) = 1 /\ <<n>>[1] = n /\ DOMAIN <<n>> = 1 .. 1
    OBVIOUS
  <1> QED
    BY <1>1 DEF ToSet, IsInjective

\* The empty list.
LEMMA NoneSeq ==
  /\ <<>> \in Seq(Nat) /\ Len(<<>>) = 0 /\ ToSet(<<>>) = {} /\ IsInjective(<<>>)
  <1>1. <<>> \in Seq(Nat) /\ Len(<<>>) = 0 /\ DOMAIN <<>> = {}
    OBVIOUS
  <1> QED
    BY <1>1 DEF ToSet, IsInjective
-----------------------------------------------------------------------------
(* The lists of a thread *)

\* A thread that has its whole stack, or all of it but the top.
LEMMA UpLists ==
  ASSUME NEW s \in Seq(Ref)
  PROVE  /\ Lists(s, Up(Len(s)), <<>>)
         /\ s # <<>> => Lists(s, Up(Len(s) - 1), <<Len(s)>>)
  <1>1. Len(s) \in Nat
    BY LenProperties
  <1>2. Lists(s, Up(Len(s)), <<>>)
    <2> DEFINE n == Len(s)
               h == Up(n)
    <2>1. /\ h \in Seq(Nat) /\ Len(h) = n /\ \A i \in 1 .. n : h[i] = i
          /\ ToSet(h) = 1 .. n /\ IsInjective(h)
      BY <1>1, UpSeq
    <2>2. <<>> \in Seq(Nat) /\ Len(<<>>) = 0 /\ ToSet(<<>>) = {} /\ IsInjective(<<>>)
      BY NoneSeq
    <2>3. \A q \in 1 .. Len(h), i \in 1 .. Len(s) :
             Deeper(s, i, h[q]) => \E o \in 1 .. q - 1 : h[o] = i
      BY <2>1, <1>1 DEF Deeper
    <2> HIDE DEF h
    <2>4. \A q \in 1 .. Len(<<>>), i \in 1 .. Len(s) :
             Deeper(s, i, <<>>[q]) => i \in ToSet(h) \/ \E o \in 1 .. q - 1 : <<>>[o] = i
      BY <2>1, <2>2
    <2>5. ToSet(h) \cup ToSet(<<>>) \subseteq 1 .. Len(s) /\ ToSet(h) \cap ToSet(<<>>) = {}
      BY <2>1, <2>2
    <2>6. Lists(s, h, <<>>)
      BY <2>1, <2>2, <2>3, <2>4, <2>5, Zenon DEF Lists
    <2> QED
      BY <2>6 DEF h
  <1>3. ASSUME s # <<>> PROVE Lists(s, Up(Len(s) - 1), <<Len(s)>>)
    <2> DEFINE n == Len(s) - 1
               h == Up(n)
               w == <<Len(s)>>
    <2>0. n \in Nat
      BY <1>1, <1>3, EmptySeq
    <2>1. /\ h \in Seq(Nat) /\ Len(h) = n /\ \A i \in 1 .. n : h[i] = i
          /\ ToSet(h) = 1 .. n /\ IsInjective(h)
      BY <2>0, UpSeq
    <2>2. /\ w \in Seq(Nat) /\ Len(w) = 1 /\ w[1] = Len(s) /\ ToSet(w) = {Len(s)}
          /\ IsInjective(w)
      BY <1>1, OneSeq
    <2> HIDE DEF h, w
    <2>3. \A q \in 1 .. Len(h), i \in 1 .. Len(s) :
             Deeper(s, i, h[q]) => \E o \in 1 .. q - 1 : h[o] = i
      BY <2>1, <2>0, <1>1 DEF Deeper
    <2>4. \A q \in 1 .. Len(w), i \in 1 .. Len(s) : Deeper(s, i, w[q]) => i \in ToSet(h)
      BY <2>1, <2>2, <2>0, <1>1 DEF Deeper
    <2>5. ToSet(h) \cup ToSet(w) \subseteq 1 .. Len(s) /\ ToSet(h) \cap ToSet(w) = {}
      BY <2>1, <2>2, <2>0, <1>1
    <2>6. Lists(s, h, w)
      BY <2>1, <2>2, <2>3, <2>4, <2>5, Zenon DEF Lists
    <2> QED
      BY <2>6 DEF h, w
  <1> QED
    BY <1>2, <1>3

\* The first wanted reference is acquired.
LEMMA AcquireLists ==
  ASSUME NEW s, NEW h, NEW w, Lists(s, h, w), w # <<>>
  PROVE  /\ Lists(s, Append(h, Head(w)), Tail(w))
         /\ Head(w) \in (1 .. Len(s)) \ ToSet(h)
         /\ ToSet(Append(h, Head(w))) = ToSet(h) \cup {Head(w)}
         /\ ToSet(Tail(w)) = ToSet(w) \ {Head(w)}
  <1> DEFINE e == Head(w)
             g == Append(h, e)
             v == Tail(w)
  <1>1. /\ s \in Seq(Ref) /\ h \in Seq(Nat) /\ w \in Seq(Nat)
        /\ Len(s) \in Nat /\ Len(h) \in Nat /\ Len(w) \in Nat \ {0}
    BY LenProperties, EmptySeq DEF Lists
  <1>2. /\ e \in ToSet(w) /\ e = w[1] /\ IsInjective(v) /\ ToSet(v) = ToSet(w) \ {e}
        /\ e \in Nat /\ v \in Seq(Nat) /\ Len(v) = Len(w) - 1
        /\ \A i \in 1 .. Len(v) : v[i] = w[i + 1]
    BY <1>1, TailSet, HeadTailProperties DEF Lists
  <1>3. /\ g \in Seq(Nat) /\ Len(g) = Len(h) + 1
        /\ \A i \in 1 .. Len(h) : g[i] = h[i]
        /\ g[Len(h) + 1] = e
        /\ ToSet(g) = ToSet(h) \cup {e} /\ IsInjective(g)
    BY <1>1, <1>2, AppendProperties, AppendSet DEF Lists
  <1>4. e \in (1 .. Len(s)) \ ToSet(h)
    BY <1>2 DEF Lists
  <1>5. ASSUME NEW q \in 1 .. Len(g), NEW i \in 1 .. Len(s), Deeper(s, i, g[q])
        PROVE  \E o \in 1 .. q - 1 : g[o] = i
    <2>1. CASE q = Len(h) + 1
      <3>1. i \in ToSet(h)
        BY <1>1, <1>2, <1>3, <1>5, <2>1 DEF Lists
      <3>2. PICK o \in 1 .. Len(h) : h[o] = i
        BY <1>1, <3>1, LenProperties DEF ToSet
      <3> QED
        BY <1>1, <1>3, <2>1, <3>2
    <2>2. CASE q \in 1 .. Len(h)
      <3>1. \E o \in 1 .. q - 1 : h[o] = i
        BY <1>3, <1>5, <2>2 DEF Lists
      <3> QED
        BY <1>1, <1>3, <2>2, <3>1
    <2> QED
      BY <1>1, <1>3, <2>1, <2>2
  <1>6. ASSUME NEW q \in 1 .. Len(v), NEW i \in 1 .. Len(s), Deeper(s, i, v[q])
        PROVE  i \in ToSet(g) \/ \E o \in 1 .. q - 1 : v[o] = i
    <2>1. q + 1 \in 1 .. Len(w) /\ v[q] = w[q + 1]
      BY <1>1, <1>2
    <2>2. i \in ToSet(h) \/ \E o \in 1 .. (q + 1) - 1 : w[o] = i
      BY <2>1, <1>6 DEF Lists
    <2>3. ASSUME NEW o \in 1 .. (q + 1) - 1, w[o] = i
          PROVE  i = e \/ \E m \in 1 .. q - 1 : v[m] = i
      <3>1. CASE o = 1
        BY <1>2, <2>3, <3>1
      <3>2. CASE o # 1
        <4>1. o - 1 \in 1 .. q - 1 /\ o - 1 \in 1 .. Len(v) /\ (o - 1) + 1 = o
          BY <1>1, <1>2, <2>3, <3>2
        <4> QED
          BY <4>1, <1>2, <2>3
      <3> QED
        BY <3>1, <3>2
    <2> QED
      BY <2>2, <2>3, <1>3
  <1> HIDE DEF e, g, v
  <1>7. ToSet(g) \cup ToSet(v) \subseteq 1 .. Len(s) /\ ToSet(g) \cap ToSet(v) = {}
    BY <1>2, <1>3, <1>4 DEF Lists
  <1>8. Lists(s, g, v)
    BY <1>1, <1>2, <1>3, <1>5, <1>6, <1>7 DEF Lists
  <1> QED
    BY <1>2, <1>3, <1>4, <1>8 DEF e, g, v

\* The reference acquired last is released.
LEMMA ReleaseLists ==
  ASSUME NEW s, NEW h, NEW w, Lists(s, h, w), h # <<>>
  PROVE  /\ Lists(s, Front(h), <<>>)
         /\ Last(h) \in ToSet(h) /\ Last(h) \in 1 .. Len(s)
         /\ ToSet(Front(h)) = ToSet(h) \ {Last(h)}
         /\ \A j \in ToSet(h) : ~ Deeper(s, Last(h), j)
  <1>1. s \in Seq(Ref) /\ h \in Seq(Nat) /\ Len(s) \in Nat
    BY LenProperties DEF Lists
  <1>2. /\ Len(h) \in Nat \ {0} /\ Front(h) \in Seq(Nat) /\ Len(Front(h)) = Len(h) - 1
        /\ \A i \in 1 .. Len(h) - 1 : Front(h)[i] = h[i]
        /\ Last(h) = h[Len(h)] /\ DOMAIN h = 1 .. Len(h)
    BY <1>1, FrontSeq, LenProperties
  <1>3. /\ Last(h) \in ToSet(h) /\ IsInjective(Front(h))
        /\ ToSet(Front(h)) = ToSet(h) \ {Last(h)}
    BY <1>1, FrontSet DEF Lists
  <1>4. Last(h) \in 1 .. Len(s)
    BY <1>3 DEF Lists
  <1>5. ASSUME NEW j \in ToSet(h), Deeper(s, Last(h), j) PROVE FALSE
    <2>1. PICK q \in 1 .. Len(h) : h[q] = j
      BY <1>2 DEF ToSet
    <2>2. PICK o \in 1 .. q - 1 : h[o] = Last(h)
      BY <1>4, <1>5, <2>1 DEF Lists
    <2>3. o \in DOMAIN h /\ Len(h) \in DOMAIN h /\ o < Len(h) /\ h[o] = h[Len(h)]
      BY <1>2, <2>2
    <2> QED
      BY <2>3 DEF Lists, IsInjective
  <1>6. \A q \in 1 .. Len(Front(h)), i \in 1 .. Len(s) :
           Deeper(s, i, Front(h)[q]) => \E o \in 1 .. q - 1 : Front(h)[o] = i
    <2> SUFFICES ASSUME NEW q \in 1 .. Len(Front(h)), NEW i \in 1 .. Len(s),
                        Deeper(s, i, Front(h)[q])
                 PROVE  \E o \in 1 .. q - 1 : Front(h)[o] = i
      OBVIOUS
    <2>1. q \in 1 .. Len(h) /\ Front(h)[q] = h[q]
      BY <1>2
    <2>2. PICK o \in 1 .. q - 1 : h[o] = i
      BY <2>1 DEF Lists
    <2>3. o \in 1 .. Len(h) - 1
      BY <1>2, <2>1, <2>2
    <2> QED
      BY <1>2, <2>2, <2>3
  <1>7. Lists(s, Front(h), <<>>)
    BY <1>1, <1>2, <1>3, <1>6, NoneSeq DEF Lists
  <1> QED
    BY <1>3, <1>4, <1>5, <1>7

\* What is still wanted is given up.
LEMMA GiveUpLists ==
  ASSUME NEW s, NEW h, NEW w, Lists(s, h, w)
  PROVE  Lists(s, h, <<>>)
  BY NoneSeq DEF Lists

\* The lists look at the tokens of the stack only.
LEMMA SameTokLists ==
  ASSUME NEW s, NEW h, NEW w, Lists(s, h, w), NEW r \in Seq(Ref), Len(r) = Len(s),
         \A i \in 1 .. Len(s) : r[i].tok = s[i].tok
  PROVE  Lists(r, h, w)
  <1>1. ToSet(h) \cup ToSet(w) \subseteq 1 .. Len(s)
    BY DEF Lists
  <1>2. /\ \A q \in 1 .. Len(h) : h[q] \in 1 .. Len(s)
        /\ \A q \in 1 .. Len(w) : w[q] \in 1 .. Len(s)
    <2>1. DOMAIN h = 1 .. Len(h) /\ DOMAIN w = 1 .. Len(w)
      BY LenProperties DEF Lists
    <2> QED
      BY <1>1, <2>1 DEF ToSet
  <1>3. /\ \A q \in 1 .. Len(h), i \in 1 .. Len(r) :
              Deeper(r, i, h[q]) <=> Deeper(s, i, h[q])
        /\ \A q \in 1 .. Len(w), i \in 1 .. Len(r) :
              Deeper(r, i, w[q]) <=> Deeper(s, i, w[q])
    BY <1>2 DEF Deeper
  <1> QED
    BY <1>1, <1>3 DEF Lists

\* The order by address.
LEMMA SortedLists ==
  ASSUME NEW s \in Seq(Ref), NEW w \in [1 .. Len(s) -> 1 .. Len(s)],
         ToSet(w) = 1 .. Len(s),
         \A m, n \in 1 .. Len(s) : m < n => \/ s[w[m]].tok < s[w[n]].tok
                                            \/ s[w[m]].tok = s[w[n]].tok /\ w[m] < w[n]
  PROVE  Lists(s, <<>>, w)
  <1>1. Len(s) \in Nat /\ \A i \in 1 .. Len(s) : s[i].tok \in Nat
    <2>1. \A i \in 1 .. Len(s) : s[i] \in Ref
      BY ElementOfSeq
    <2> QED
      BY <2>1, LenProperties, TokensAssumption DEF Ref
  <1>2. w \in Seq(Nat) /\ Len(w) = Len(s) /\ DOMAIN w = 1 .. Len(s)
    BY <1>1
  <1>3. ASSUME NEW m \in 1 .. Len(s), NEW n \in 1 .. Len(s), m < n
        PROVE  w[m] # w[n]
    BY <1>1, <1>3
  <1>4. IsInjective(w)
    BY <1>1, <1>2, <1>3 DEF IsInjective
  <1>5. ASSUME NEW q \in 1 .. Len(w), NEW i \in 1 .. Len(s), Deeper(s, i, w[q])
        PROVE  \E o \in 1 .. q - 1 : w[o] = i
    <2>1. PICK o \in 1 .. Len(s) : w[o] = i
      <3>1. i \in ToSet(w)
        OBVIOUS
      <3> QED
        BY <1>2, <3>1 DEF ToSet
    <2>2. w[q] \in 1 .. Len(s) /\ i < w[q] /\ s[i].tok = s[w[q]].tok
      BY <1>2, <1>5 DEF Deeper
    <2>3. ~ (q < o)
      <3> SUFFICES ASSUME q < o PROVE FALSE
        OBVIOUS
      <3>1. s[w[q]].tok < s[w[o]].tok \/ w[q] < w[o]
        BY <1>2
      <3> QED
        BY <1>1, <2>1, <2>2, <3>1
    <2>5. q # o
      BY <1>1, <2>1, <2>2
    <2>4. o \in 1 .. q - 1
      BY <1>1, <1>2, <2>1, <2>3, <2>5
    <2> QED
      BY <2>1, <2>4
  <1>6. \A q \in 1 .. Len(<<>>), i \in 1 .. Len(s) :
           Deeper(s, i, <<>>[q]) => \E o \in 1 .. q - 1 : <<>>[o] = i
    BY NoneSeq
  <1>7. /\ ToSet(<<>>) \cup ToSet(w) \subseteq 1 .. Len(s)
        /\ ToSet(<<>>) \cap ToSet(w) = {}
    BY NoneSeq
  <1>8. \A q \in 1 .. Len(w), i \in 1 .. Len(s) : Deeper(s, i, w[q]) =>
           i \in ToSet(<<>>) \/ \E o \in 1 .. q - 1 : w[o] = i
    BY <1>5
  <1> QED
    BY <1>2, <1>4, <1>6, <1>7, <1>8, NoneSeq, Zenon DEF Lists
-----------------------------------------------------------------------------
(* The stack of a thread *)

\* The reference on top is not a second exclusive one.
Settled(s, p, c) == \/ p # "try" \/ c \notin Pushing
                    \/ \A i \in 1 .. Len(s) : Deeper(s, i, Len(s)) => ~ s[Len(s)].ex

\* The thread goes on, and leaves its stack as it is.
LEMMA StackMove ==
  ASSUME NEW s \in Seq(Ref), NEW p, NEW c, Stack(s, p, c), Settled(s, p, c), NEW p2, NEW c2
  PROVE  Stack(s, p2, c2)
  BY DEF Stack, Settled, Topmost

\* A reference is pushed: exclusive if it was asked for exclusively.
LEMMA StackPush ==
  ASSUME NEW s \in Seq(Ref), Stack(s, "run", "none"), NEW r \in Ref, r.ex = r.asked,
         NEW c \in Pushing
  PROVE  Stack(Append(s, r), "try", c)
  <1> DEFINE u == Append(s, r)
  <1>1. /\ Len(s) \in Nat /\ Len(u) = Len(s) + 1
        /\ \A i \in 1 .. Len(s) : u[i] = s[i]
        /\ u[Len(s) + 1] = r
    BY AppendProperties, LenProperties
  <1> HIDE DEF u
  <1>2. \A i, j \in 1 .. Len(s) : Deeper(u, i, j) <=> Deeper(s, i, j)
    BY <1>1 DEF Deeper
  <1>3. \A i \in 1 .. Len(u) : i \in 1 .. Len(s) \/ i = Len(u)
    BY <1>1
  <1>4. \A i \in 1 .. Len(s) : i \in 1 .. Len(u)
    BY <1>1
  <1>5. \A i \in 1 .. Len(u) : u[i].ex => u[i].asked
    BY <1>1, <1>3 DEF Stack
  <1>6. ASSUME NEW i \in 1 .. Len(u), u[i].asked
        PROVE  u[i].ex \/ \E j \in 1 .. Len(u) : Deeper(u, j, i) /\ u[j].ex
    <2>1. CASE i = Len(u)
      BY <1>1, <1>6, <2>1
    <2>2. CASE i \in 1 .. Len(s)
      <3>1. s[i].ex \/ \E j \in 1 .. Len(s) : Deeper(s, j, i) /\ s[j].ex
        BY <1>1, <1>6, <2>2 DEF Stack
      <3> QED
        BY <1>1, <1>2, <1>4, <2>2, <3>1
    <2> QED
      BY <1>3, <2>1, <2>2
  <1>7. ASSUME NEW i \in 1 .. Len(u), NEW j \in 1 .. Len(u), Deeper(u, i, j), u[j].ex
        PROVE  j = Len(u)
    <2> SUFFICES ASSUME j \in 1 .. Len(s) PROVE FALSE
      BY <1>3
    <2>1. i \in 1 .. Len(s)
      BY <1>1, <1>7 DEF Deeper
    <2>2. Topmost(s, "run", "none", j)
      BY <1>1, <1>2, <1>7, <2>1 DEF Stack
    <2> QED
      BY <2>2 DEF Topmost
  <1>8. Stack(u, "try", c)
    BY <1>5, <1>6, <1>7 DEF Stack, Topmost
  <1> QED
    BY <1>8 DEF u

\* The reference on top is taken off.
LEMMA StackPop ==
  ASSUME NEW s \in Seq(Ref), s # <<>>, NEW p, NEW c, Stack(s, p, c), NEW p2, NEW c2
  PROVE  Stack(Front(s), p2, c2)
  <1> DEFINE u == Front(s)
  <1>1. /\ Len(s) \in Nat \ {0} /\ Len(u) = Len(s) - 1
        /\ \A i \in 1 .. Len(u) : u[i] = s[i]
    BY FrontSeq
  <1> HIDE DEF u
  <1>2. \A i, j \in 1 .. Len(u) : Deeper(u, i, j) <=> Deeper(s, i, j)
    BY <1>1 DEF Deeper
  <1>3. \A i \in 1 .. Len(u) : i \in 1 .. Len(s) /\ i # Len(s)
    BY <1>1
  <1>4. \A i \in 1 .. Len(u) : u[i].ex => u[i].asked
    BY <1>1, <1>3 DEF Stack
  <1>5. ASSUME NEW i \in 1 .. Len(u), u[i].asked
        PROVE  u[i].ex \/ \E j \in 1 .. Len(u) : Deeper(u, j, i) /\ u[j].ex
    <2> SUFFICES ASSUME ~ u[i].ex PROVE \E j \in 1 .. Len(u) : Deeper(u, j, i) /\ u[j].ex
      OBVIOUS
    <2>1. PICK j \in 1 .. Len(s) : Deeper(s, j, i) /\ s[j].ex
      BY <1>1, <1>3, <1>5 DEF Stack
    <2>2. j \in 1 .. Len(u)
      BY <1>1, <2>1 DEF Deeper
    <2> QED
      BY <1>1, <1>2, <2>1, <2>2
  <1>6. ASSUME NEW i \in 1 .. Len(u), NEW j \in 1 .. Len(u), Deeper(u, i, j), u[j].ex
        PROVE  FALSE
    BY <1>1, <1>2, <1>3, <1>6 DEF Stack, Topmost
  <1>7. Stack(u, p2, c2)
    BY <1>4, <1>5, <1>6 DEF Stack
  <1> QED
    BY <1>7 DEF u

\* A reference to a token that the thread has exclusively through a deeper one
\* becomes a shared one.
LEMMA StackRecurse ==
  ASSUME NEW s \in Seq(Ref), NEW p, NEW c, Stack(s, p, c), NEW i \in 1 .. Len(s),
         p = "try" /\ c \in Pushing => i = Len(s),
         NEW j \in 1 .. Len(s), Deeper(s, j, i), s[j].ex,
         NEW p2, NEW c2
  PROVE  Stack([s EXCEPT ![i].ex = FALSE], p2, c2)
  <1> DEFINE u == [s EXCEPT ![i].ex = FALSE]
  <1>1. Len(s) \in Nat /\ Len(u) = Len(s)
    BY LenProperties
  <1>2. \A m \in 1 .. Len(s) : /\ u[m].tok = s[m].tok /\ u[m].asked = s[m].asked
                               /\ u[m].ex <=> s[m].ex /\ m # i
    <2>1. s \in [1 .. Len(s) -> Ref]
      BY LenProperties
    <2> QED
      BY <2>1 DEF Ref
  <1> HIDE DEF u
  <1>3. \A m, n \in 1 .. Len(s) : Deeper(u, m, n) <=> Deeper(s, m, n)
    BY <1>2 DEF Deeper
  <1>0. j < i /\ s[j].tok = s[i].tok
    BY Zenon DEF Deeper
  <1>4. u[j].ex
    <2>1. j # i
      BY <1>0, <1>1
    <2> QED
      BY <1>2, <2>1
  <1>5. \A m \in 1 .. Len(u) : u[m].ex => u[m].asked
    BY <1>1, <1>2 DEF Stack
  <1>6. ASSUME NEW m \in 1 .. Len(u), u[m].asked
        PROVE  u[m].ex \/ \E n \in 1 .. Len(u) : Deeper(u, n, m) /\ u[n].ex
    <2>1. CASE m = i
      BY <1>1, <1>3, <1>4, <2>1
    <2>2. CASE m # i /\ ~ s[m].ex
      <3>1. PICK n \in 1 .. Len(s) : Deeper(s, n, m) /\ s[n].ex
        BY <1>1, <1>2, <1>6, <2>2 DEF Stack
      <3>2. CASE n = i
        <4>1. Deeper(s, j, m)
          BY <1>0, <1>1, <3>1, <3>2 DEF Deeper
        <4> QED
          BY <1>1, <1>3, <1>4, <4>1
      <3>3. CASE n # i
        BY <1>1, <1>2, <1>3, <3>1, <3>3
      <3> QED
        BY <3>2, <3>3
    <2> QED
      BY <1>1, <1>2, <2>1, <2>2
  <1>7. ASSUME NEW m \in 1 .. Len(u), NEW n \in 1 .. Len(u), Deeper(u, m, n), u[n].ex
        PROVE  FALSE
    BY <1>1, <1>2, <1>3, <1>7 DEF Stack, Topmost
  <1>8. Stack(u, p2, c2)
    BY <1>5, <1>6, <1>7 DEF Stack
  <1> QED
    BY <1>8 DEF u

\* The two references on top, to different tokens, change places.
LEMMA StackSwap ==
  ASSUME NEW s \in Seq(Ref), Stack(s, "run", "none"), NEW n, n = Len(s), n >= 2,
         s[n].tok # s[n - 1].tok
  PROVE  Stack([s EXCEPT ![n] = s[n - 1], ![n - 1] = s[n]], "run", "none")
  <1> DEFINE u == [s EXCEPT ![n] = s[n - 1], ![n - 1] = s[n]]
             o(i) == IF i = n THEN n - 1 ELSE IF i = n - 1 THEN n ELSE i
  <1>1. n \in Nat /\ s \in [1 .. n -> Ref]
    BY LenProperties
  <1>2. Len(u) = n /\ \A i \in 1 .. n : o(i) \in 1 .. n /\ u[i] = s[o(i)]
    BY <1>1
  <1>3. \A i, j \in 1 .. n : Deeper(u, i, j) <=> Deeper(s, o(i), o(j))
    <2> SUFFICES ASSUME NEW i \in 1 .. n, NEW j \in 1 .. n
                 PROVE  Deeper(u, i, j) <=> Deeper(s, o(i), o(j))
      OBVIOUS
    <2>1. u[i] = s[o(i)] /\ u[j] = s[o(j)]
      BY <1>2
    <2>2. s[o(i)].tok = s[o(j)].tok => (i < j <=> o(i) < o(j))
      BY <1>1
    <2> HIDE DEF u, o
    <2> QED
      BY <2>1, <2>2 DEF Deeper
  <1>4. \A i \in 1 .. n : \E j \in 1 .. n : o(j) = i
    <2> SUFFICES ASSUME NEW i \in 1 .. n PROVE o(o(i)) = i
      BY <1>2
    <2> QED
      BY <1>1
  <1> HIDE DEF u, o
  <1>5. \A i \in 1 .. n : u[i].ex => u[i].asked
    BY <1>2 DEF Stack
  <1>6. ASSUME NEW i \in 1 .. n, u[i].asked
        PROVE  u[i].ex \/ \E j \in 1 .. n : Deeper(u, j, i) /\ u[j].ex
    <2>1. s[o(i)].ex \/ \E m \in 1 .. n : Deeper(s, m, o(i)) /\ s[m].ex
      BY <1>2, <1>6 DEF Stack
    <2>2. ASSUME NEW m \in 1 .. n, Deeper(s, m, o(i)), s[m].ex
          PROVE  \E j \in 1 .. n : Deeper(u, j, i) /\ u[j].ex
      <3>1. PICK j \in 1 .. n : o(j) = m
        BY <1>4
      <3> QED
        BY <1>2, <1>3, <2>2, <3>1
    <2> QED
      BY <1>2, <2>1, <2>2
  <1>7. ASSUME NEW i \in 1 .. n, NEW j \in 1 .. n, Deeper(u, i, j), u[j].ex
        PROVE  FALSE
    BY <1>2, <1>3, <1>7 DEF Stack, Topmost
  <1>8. Stack(u, "run", "none")
    BY <1>2, <1>5, <1>6, <1>7 DEF Stack
  <1> QED
    BY <1>8 DEF u
-----------------------------------------------------------------------------
(* The references to a token *)

\* Only thread t does something.
Frame(t) == \A u \in Threads \ {t} :
               /\ toks'[u] = toks[u] /\ have'[u] = have[u] /\ want'[u] = want[u]
               /\ pc'[u] = pc[u] /\ call'[u] = call[u]

\* What thread t has is the same, and so is how.
Same(t, k) == /\ Held(t, k)' = Held(t, k)
              /\ \A i \in Held(t, k) : toks'[t][i].ex <=> toks[t][i].ex

Gains(t, k, i) == /\ i \notin Held(t, k) /\ Held(t, k)' = Held(t, k) \cup {i}
                  /\ \A j \in Held(t, k) : toks'[t][j].ex <=> toks[t][j].ex

Loses(t, k, i) == /\ i \in Held(t, k) /\ Held(t, k)' = Held(t, k) \ {i}
                  /\ \A j \in Held(t, k)' : toks'[t][j].ex <=> toks[t][j].ex

\* t_count says the same, but for TOK_EXCLREQ.
SameWord(k) == (t_count'[k].ex <=> t_count[k].ex) /\ t_count'[k].cnt = t_count[k].cnt

\* A reference moves in the stack.
Renames(t, k, i, j) ==
    /\ i \in Held(t, k) /\ j \notin Held(t, k)
    /\ Held(t, k)' = (Held(t, k) \ {i}) \cup {j}
    /\ toks'[t][j].ex <=> toks[t][i].ex
    /\ \A m \in Held(t, k) \ {i} : toks'[t][m].ex <=> toks[t][m].ex

\* What a step of t may do to what it has of k: the first reference is the only
\* one that can be exclusive, and the last one to go.
Effect(t, k) == \/ Same(t, k)
                \/ \E i : Gains(t, k, i) /\ (toks'[t][i].ex => Held(t, k) = {})
                \/ \E i : Loses(t, k, i) /\ (toks[t][i].ex => Held(t, k) = {i})
                \/ \E i, j : Renames(t, k, i, j)

After(t, k) == Word(k)' /\ Effect(t, k)

\* The references to k, and the exclusive ones, thread by thread.
LEMMA HoldsAre ==
  ASSUME NEW k
  PROVE  /\ \A r \in Holds(k) : /\ r = <<r[1], r[2]>> /\ r[1] \in Threads
                                /\ r[2] \in Held(r[1], k)
         /\ \A u \in Threads : \A i : <<u, i>> \in Holds(k) <=> i \in Held(u, k)
         /\ \A u \in Threads : \A i : <<u, i>> \in ExclHolds(k)
                                     <=> i \in Held(u, k) /\ toks[u][i].ex
         /\ ExclHolds(k) \subseteq Holds(k)
  <1>1. \A r \in Holds(k) : /\ r = <<r[1], r[2]>> /\ r[1] \in Threads
                            /\ r[2] \in Held(r[1], k)
    BY DEF Holds
  <1>2. \A u \in Threads : \A i : <<u, i>> \in Holds(k) <=> i \in Held(u, k)
    BY DEF Holds
  <1> QED
    BY <1>1, <1>2 DEF ExclHolds

\* The same after a step.
LEMMA HoldsAreNext ==
  ASSUME NEW k
  PROVE  /\ \A r \in Holds(k)' : /\ r = <<r[1], r[2]>> /\ r[1] \in Threads
                                 /\ r[2] \in Held(r[1], k)'
         /\ \A u \in Threads : \A i : <<u, i>> \in Holds(k)' <=> i \in Held(u, k)'
         /\ \A u \in Threads : \A i : <<u, i>> \in ExclHolds(k)'
                                     <=> i \in Held(u, k)' /\ toks'[u][i].ex
         /\ ExclHolds(k)' \subseteq Holds(k)'
  <1>1. \A r \in Holds(k)' : /\ r = <<r[1], r[2]>> /\ r[1] \in Threads
                             /\ r[2] \in Held(r[1], k)'
    BY DEF Holds
  <1>2. \A u \in Threads : \A i : <<u, i>> \in Holds(k)' <=> i \in Held(u, k)'
    BY DEF Holds
  <1> QED
    BY <1>1, <1>2 DEF ExclHolds

\* The references of other threads are as they were.
LEMMA FrameHeld ==
  ASSUME NEW t \in Threads, Frame(t), NEW k, NEW u \in Threads \ {t}
  PROVE  /\ Held(u, k)' = Held(u, k) /\ Bare(u, k)' = Bare(u, k)
         /\ \A i : toks'[u][i].ex = toks[u][i].ex
  <1>1. /\ toks'[u] = toks[u] /\ have'[u] = have[u] /\ want'[u] = want[u]
        /\ pc'[u] = pc[u]
    BY DEF Frame
  <1>2. Held(u, k)' = Held(u, k)
    BY <1>1 DEF Held, Tok, Cur
  <1>3. Bare(u, k)' = Bare(u, k)
    BY <1>1 DEF Bare, Tok, Cur, RelTok, RelRef
  <1> QED
    BY <1>1, <1>2, <1>3

\* What the other threads have of k is what they had.
LEMMA FrameHolds ==
  ASSUME NEW t \in Threads, Frame(t), NEW k, NEW u \in Threads \ {t}, NEW i
  PROVE  /\ <<u, i>> \in Holds(k)' <=> <<u, i>> \in Holds(k)
         /\ <<u, i>> \in ExclHolds(k)' <=> <<u, i>> \in ExclHolds(k)
  <1>1. Held(u, k)' = Held(u, k) /\ toks'[u][i].ex = toks[u][i].ex
    BY FrameHeld
  <1>2. /\ <<u, i>> \in Holds(k) <=> i \in Held(u, k)
        /\ <<u, i>> \in ExclHolds(k) <=> i \in Held(u, k) /\ toks[u][i].ex
    BY HoldsAre
  <1>3. /\ <<u, i>> \in Holds(k)' <=> i \in Held(u, k)'
        /\ <<u, i>> \in ExclHolds(k)' <=> i \in Held(u, k)' /\ toks'[u][i].ex
    BY HoldsAreNext
  <1> QED
    BY <1>1, <1>2, <1>3

\* Two sets of references to k are equal if they are for each thread.
LEMMA HoldsSame ==
  ASSUME NEW t \in Threads, Frame(t), NEW k, Same(t, k)
  PROVE  Holds(k)' = Holds(k) /\ ExclHolds(k)' = ExclHolds(k)
  <1>1. \A u \in Threads : \A i :
          /\ <<u, i>> \in Holds(k)' <=> <<u, i>> \in Holds(k)
          /\ <<u, i>> \in ExclHolds(k)' <=> <<u, i>> \in ExclHolds(k)
    <2> SUFFICES ASSUME NEW u \in Threads, NEW i
                 PROVE  /\ <<u, i>> \in Holds(k)' <=> <<u, i>> \in Holds(k)
                        /\ <<u, i>> \in ExclHolds(k)' <=> <<u, i>> \in ExclHolds(k)
      OBVIOUS
    <2>1. CASE u # t
      BY <2>1, FrameHolds
    <2>2. CASE u = t
      BY <2>2, HoldsAre, HoldsAreNext DEF Same
    <2> QED
      BY <2>1, <2>2
  <1>2. /\ \A r \in Holds(k) : r = <<r[1], r[2]>> /\ r[1] \in Threads
        /\ \A r \in Holds(k)' : r = <<r[1], r[2]>> /\ r[1] \in Threads
        /\ ExclHolds(k) \subseteq Holds(k) /\ ExclHolds(k)' \subseteq Holds(k)'
    BY HoldsAre, HoldsAreNext
  <1>3. \A r : r \in Holds(k)' <=> r \in Holds(k)
    BY <1>1, <1>2
  <1>4. \A r : r \in ExclHolds(k)' <=> r \in ExclHolds(k)
    BY <1>1, <1>2
  <1> QED
    BY <1>3, <1>4

\* The references to k after t acquired one.
LEMMA HoldsGain ==
  ASSUME NEW t \in Threads, Frame(t), NEW k, NEW i, Gains(t, k, i)
  PROVE  /\ <<t, i>> \notin Holds(k) /\ Holds(k)' = Holds(k) \cup {<<t, i>>}
         /\ ExclHolds(k)' = IF toks'[t][i].ex THEN ExclHolds(k) \cup {<<t, i>>}
                            ELSE ExclHolds(k)
  <1> DEFINE r == <<t, i>>
  <1>1. ASSUME NEW u \in Threads, NEW j, <<u, j>> # r
        PROVE  /\ <<u, j>> \in Holds(k)' <=> <<u, j>> \in Holds(k)
               /\ <<u, j>> \in ExclHolds(k)' <=> <<u, j>> \in ExclHolds(k)
    <2>1. CASE u # t
      BY <2>1, FrameHolds
    <2>2. CASE u = t
      <3>1. j # i
        BY <1>1, <2>2
      <3> QED
        BY <2>2, <3>1, HoldsAre, HoldsAreNext DEF Gains
    <2> QED
      BY <2>1, <2>2
  <1>2. r \notin Holds(k) /\ r \in Holds(k)' /\ r \notin ExclHolds(k)
        /\ (r \in ExclHolds(k)' <=> toks'[t][i].ex)
    BY HoldsAre, HoldsAreNext DEF Gains
  <1> HIDE DEF r
  <1>3. Holds(k)' = Holds(k) \cup {r}
    BY <1>1, <1>2, HoldsAre, HoldsAreNext
  <1>4. ExclHolds(k)' \ {r} = ExclHolds(k)
    BY <1>1, <1>2, HoldsAre, HoldsAreNext
  <1>5. ExclHolds(k)' = IF toks'[t][i].ex THEN ExclHolds(k) \cup {r} ELSE ExclHolds(k)
    BY <1>2, <1>4
  <1> QED
    BY <1>2, <1>3, <1>5 DEF r

\* The references to k after t released one.
LEMMA HoldsLose ==
  ASSUME NEW t \in Threads, Frame(t), NEW k, NEW i, Loses(t, k, i)
  PROVE  /\ <<t, i>> \in Holds(k) /\ Holds(k)' = Holds(k) \ {<<t, i>>}
         /\ ExclHolds(k)' = ExclHolds(k) \ {<<t, i>>}
  <1> DEFINE r == <<t, i>>
  <1>1. ASSUME NEW u \in Threads, NEW j, <<u, j>> # r
        PROVE  /\ <<u, j>> \in Holds(k)' <=> <<u, j>> \in Holds(k)
               /\ <<u, j>> \in ExclHolds(k)' <=> <<u, j>> \in ExclHolds(k)
    <2>1. CASE u # t
      BY <2>1, FrameHolds
    <2>2. CASE u = t
      <3>1. j # i
        BY <1>1, <2>2
      <3> QED
        BY <2>2, <3>1, HoldsAre, HoldsAreNext DEF Loses
    <2> QED
      BY <2>1, <2>2
  <1>2. r \in Holds(k) /\ r \notin Holds(k)' /\ r \notin ExclHolds(k)'
    BY HoldsAre, HoldsAreNext DEF Loses
  <1> HIDE DEF r
  <1>3. Holds(k)' = Holds(k) \ {r}
    BY <1>1, <1>2, HoldsAre, HoldsAreNext
  <1>4. ExclHolds(k)' = ExclHolds(k) \ {r}
    BY <1>1, <1>2, HoldsAre, HoldsAreNext
  <1> QED
    BY <1>2, <1>3, <1>4 DEF r

\* The references to k after one of them moved in the stack of t.
LEMMA HoldsRename ==
  ASSUME NEW t \in Threads, Frame(t), NEW k, NEW i \in Held(t, k), NEW j, j \notin Held(t,
         k),
         Held(t, k)' = (Held(t, k) \ {i}) \cup {j}, toks'[t][j].ex <=> toks[t][i].ex,
         \A m \in Held(t, k) \ {i} : toks'[t][m].ex <=> toks[t][m].ex
  PROVE  /\ <<t, i>> \in Holds(k) /\ <<t, j>> \notin Holds(k)
         /\ Holds(k)' = (Holds(k) \ {<<t, i>>}) \cup {<<t, j>>}
         /\ ExclHolds(k)' = IF toks[t][i].ex
                            THEN (ExclHolds(k) \ {<<t, i>>}) \cup {<<t, j>>}
                            ELSE ExclHolds(k)
         /\ <<t, i>> \in ExclHolds(k) <=> toks[t][i].ex
  <1> DEFINE r == <<t, i>>
             q == <<t, j>>
  <1>1. ASSUME NEW u \in Threads, NEW m, <<u, m>> # r, <<u, m>> # q
        PROVE  /\ <<u, m>> \in Holds(k)' <=> <<u, m>> \in Holds(k)
               /\ <<u, m>> \in ExclHolds(k)' <=> <<u, m>> \in ExclHolds(k)
    <2>1. CASE u # t
      BY <2>1, FrameHolds
    <2>2. CASE u = t
      <3>1. m # i /\ m # j
        BY <1>1, <2>2
      <3> QED
        BY <2>2, <3>1, HoldsAre, HoldsAreNext
    <2> QED
      BY <2>1, <2>2
  <1>2. /\ r \in Holds(k) /\ r \notin Holds(k)' /\ r \notin ExclHolds(k)'
        /\ q \notin Holds(k) /\ q \notin ExclHolds(k) /\ q \in Holds(k)' /\ r # q
        /\ (q \in ExclHolds(k)' <=> toks[t][i].ex)
        /\ (r \in ExclHolds(k) <=> toks[t][i].ex)
    BY HoldsAre, HoldsAreNext
  <1> HIDE DEF r, q
  <1>3. Holds(k)' = (Holds(k) \ {r}) \cup {q}
    BY <1>1, <1>2, HoldsAre, HoldsAreNext
  <1>4. ExclHolds(k)' \ {q} = ExclHolds(k) \ {r}
    BY <1>1, <1>2, HoldsAre, HoldsAreNext
  <1>5. ExclHolds(k)' = IF toks[t][i].ex THEN (ExclHolds(k) \ {r}) \cup {q}
                        ELSE ExclHolds(k)
    BY <1>2, <1>4
  <1> QED
    BY <1>2, <1>3, <1>5 DEF r, q
-----------------------------------------------------------------------------
(* The word and t_ref of a token *)

\* Nothing changes.
LEMMA WordSame ==
  ASSUME NEW t \in Threads, Frame(t), NEW k \in Tokens, Word(k), Same(t, k), SameWord(k),
         t_ref'[k] = t_ref[k], Bare(t, k)' <=> Bare(t, k)
  PROVE  After(t, k)
  <1>1. Holds(k)' = Holds(k) /\ ExclHolds(k)' = ExclHolds(k)
    BY HoldsSame
  <1>2. Shares(k)' = Shares(k)
    BY <1>1 DEF Shares
  <1>3. \A r \in Holds(k) : Bare(r[1], k)' <=> Bare(r[1], k)
    <2> SUFFICES ASSUME NEW r \in Holds(k) PROVE Bare(r[1], k)' <=> Bare(r[1], k)
      OBVIOUS
    <2>1. r[1] \in Threads
      BY HoldsAre
    <2>2. CASE r[1] = t
      BY <2>2
    <2>3. CASE r[1] # t
      BY <2>1, <2>3, FrameHeld
    <2> QED
      BY <2>2, <2>3
  <1>4. \A r \in ExclHolds(k)' : t_ref'[k] = IF Bare(r[1], k)' THEN NULL ELSE r
    BY <1>1, <1>3, HoldsAre DEF Word
  <1>5. Word(k)'
    BY <1>1, <1>2, <1>4 DEF Word, SameWord
  <1> QED
    BY <1>5 DEF After, Effect

\* t_ref is set by the thread that has the bit.
LEMMA WordSetRef ==
  ASSUME NEW t \in Threads, Frame(t), NEW k \in Tokens, Word(k), Same(t, k), SameWord(k),
         NEW i, <<t, i>> \in ExclHolds(k), t_ref'[k] = <<t, i>>, ~ Bare(t, k)'
  PROVE  After(t, k)
  <1> DEFINE r == <<t, i>>
  <1>1. Holds(k)' = Holds(k) /\ ExclHolds(k)' = ExclHolds(k)
    BY HoldsSame
  <1>2. Shares(k)' = Shares(k)
    BY <1>1 DEF Shares
  <1>3. r \in ExclHolds(k)' /\ \A s \in ExclHolds(k)' : s = r
    BY <1>1 DEF Word
  <1>4. r[1] = t /\ t_ref'[k] = r
    OBVIOUS
  <1> HIDE DEF r
  <1>5. \A s \in ExclHolds(k)' : t_ref'[k] = IF Bare(s[1], k)' THEN NULL ELSE s
    BY <1>3, <1>4
  <1>6. Word(k)'
    BY <1>1, <1>2, <1>3, <1>5 DEF Word, SameWord
  <1> QED
    BY <1>6 DEF After, Effect

\* t_ref is cleared by the thread that has the bit.
LEMMA WordClearRef ==
  ASSUME NEW t \in Threads, Frame(t), NEW k \in Tokens, Word(k), Same(t, k), SameWord(k),
         NEW i, <<t, i>> \in ExclHolds(k), t_ref'[k] = NULL, Bare(t, k)'
  PROVE  After(t, k)
  <1> DEFINE r == <<t, i>>
  <1>1. Holds(k)' = Holds(k) /\ ExclHolds(k)' = ExclHolds(k)
    BY HoldsSame
  <1>2. Shares(k)' = Shares(k)
    BY <1>1 DEF Shares
  <1>3. r \in ExclHolds(k)' /\ \A s \in ExclHolds(k)' : s = r
    BY <1>1 DEF Word
  <1>4. r[1] = t
    OBVIOUS
  <1> HIDE DEF r
  <1>5. \A s \in ExclHolds(k)' : t_ref'[k] = IF Bare(s[1], k)' THEN NULL ELSE s
    BY <1>3, <1>4
  <1>6. Word(k)'
    BY <1>1, <1>2, <1>3, <1>5 DEF Word, SameWord
  <1> QED
    BY <1>6 DEF After, Effect

\* The bit of a free token is won.
LEMMA WordTakeExcl ==
  ASSUME NEW t \in Threads, Frame(t), NEW k \in Tokens, Word(k), NEW i, Gains(t, k, i),
         IsFiniteSet(Holds(k)), Free(k), toks'[t][i].ex, t_count'[k].ex,
         t_count'[k].cnt = t_count[k].cnt, t_ref'[k] = t_ref[k], Bare(t, k)'
  PROVE  After(t, k)
  <1> DEFINE r == <<t, i>>
  <1>1. ExclHolds(k) = {}
    BY DEF Word, Free
  <1>2. Shares(k) = {}
    BY FS_Subset, FS_EmptySet DEF Word, Free, Shares
  <1>3. Holds(k) = {}
    BY <1>1, <1>2 DEF Shares
  <1>4. Holds(k)' = {r} /\ ExclHolds(k)' = {r}
    <2>1. Holds(k)' = Holds(k) \cup {r} /\ ExclHolds(k)' = ExclHolds(k) \cup {r}
      BY HoldsGain
    <2> QED
      BY <1>1, <1>3, <2>1
  <1>5. Shares(k)' = {}
    BY <1>4 DEF Shares
  <1>6. t_ref'[k] = NULL /\ r[1] = t
    BY <1>1 DEF Word
  <1> HIDE DEF r
  <1>7. Word(k)'
    BY <1>2, <1>4, <1>5, <1>6 DEF Word
  <1>8. Held(t, k) = {}
    BY <1>3, HoldsAre
  <1> QED
    BY <1>7, <1>8 DEF After, Effect

\* A reference is counted that nobody else excludes.
LEMMA WordShare ==
  ASSUME NEW t \in Threads, Frame(t), NEW k \in Tokens, Word(k), NEW i, Gains(t, k, i),
         IsFiniteSet(Holds(k)), ~ toks'[t][i].ex, \A r \in ExclHolds(k) : r[1] = t,
         t_count'[k].ex <=> t_count[k].ex, t_count'[k].cnt = t_count[k].cnt + 1,
         t_ref'[k] = t_ref[k], ~ Bare(t, k), ~ Bare(t, k)'
  PROVE  After(t, k)
  <1> DEFINE q == <<t, i>>
  <1>1. q \notin Holds(k) /\ Holds(k)' = Holds(k) \cup {q} /\ ExclHolds(k)' = ExclHolds(k)
    BY HoldsGain
  <1>2. q[1] = t
    OBVIOUS
  <1> HIDE DEF q
  <1>3. /\ Shares(k)' = Shares(k) \cup {q} /\ q \notin Shares(k)
        /\ Shares(k) \subseteq Holds(k)
    BY <1>1, HoldsAre DEF Shares
  <1>4. Cardinality(Shares(k)') = Cardinality(Shares(k)) + 1
    BY <1>3, FS_Subset, FS_AddElement
  <1>5. \A r \in ExclHolds(k), s \in Holds(k)' : s[1] = r[1]
    BY <1>1, <1>2 DEF Word
  <1>6. \A r \in ExclHolds(k) : t_ref'[k] = IF Bare(r[1], k)' THEN NULL ELSE r
    <2> SUFFICES ASSUME NEW r \in ExclHolds(k)
                 PROVE  t_ref'[k] = IF Bare(r[1], k)' THEN NULL ELSE r
      OBVIOUS
    <2>1. r[1] = t /\ t_ref[k] = IF Bare(r[1], k) THEN NULL ELSE r
      BY DEF Word
    <2> QED
      BY <2>1
  <1>7. Word(k)'
    BY <1>1, <1>4, <1>5, <1>6 DEF Word
  <1> QED
    BY <1>7 DEF After, Effect

\* The bit is released: t_ref was cleared before.
LEMMA WordReleaseExcl ==
  ASSUME NEW t \in Threads, Frame(t), NEW k \in Tokens, Word(k), NEW i, Loses(t, k, i),
         toks[t][i].ex, Held(t, k) = {i}, ~ t_count'[k].ex,
         t_count'[k].cnt = t_count[k].cnt,
         t_ref'[k] = t_ref[k], Bare(t, k)
  PROVE  After(t, k)
  <1> DEFINE q == <<t, i>>
  <1>1. /\ q \in ExclHolds(k) /\ Holds(k)' = Holds(k) \ {q}
        /\ ExclHolds(k)' = ExclHolds(k) \ {q}
    BY HoldsLose, HoldsAre DEF Loses
  <1>2. q[1] = t
    OBVIOUS
  <1> HIDE DEF q
  <1>3. ExclHolds(k) = {q}
    BY <1>1 DEF Word
  <1>4. ExclHolds(k)' = {} /\ Shares(k)' = Shares(k)
    BY <1>1, <1>3 DEF Shares
  <1>5. t_ref[k] = NULL
    BY <1>1, <1>2 DEF Word
  <1>6. Word(k)'
    BY <1>4, <1>5 DEF Word
  <1> QED
    BY <1>6 DEF After, Effect

\* A counted reference is released.
LEMMA WordReleaseShare ==
  ASSUME NEW t \in Threads, Frame(t), NEW k \in Tokens, Word(k), NEW i, Loses(t, k, i),
         IsFiniteSet(Holds(k)), ~ toks[t][i].ex, t_count'[k].ex <=> t_count[k].ex,
         t_count'[k].cnt = t_count[k].cnt - 1, t_ref'[k] = t_ref[k],
         ~ Bare(t, k), ~ Bare(t, k)'
  PROVE  After(t, k)
  <1> DEFINE q == <<t, i>>
  <1>1. q \in Shares(k) /\ Holds(k)' = Holds(k) \ {q} /\ ExclHolds(k)' = ExclHolds(k)
    <2>1. /\ q \in Holds(k) /\ Holds(k)' = Holds(k) \ {q}
          /\ ExclHolds(k)' = ExclHolds(k) \ {q}
      BY HoldsLose
    <2>2. q \notin ExclHolds(k)
      BY HoldsAre
    <2> QED
      BY <2>1, <2>2 DEF Shares
  <1> HIDE DEF q
  <1>2. Shares(k)' = Shares(k) \ {q} /\ Shares(k) \subseteq Holds(k)
    BY <1>1 DEF Shares
  <1>3. Cardinality(Shares(k)') = Cardinality(Shares(k)) - 1
    BY <1>1, <1>2, FS_Subset, FS_RemoveElement
  <1>4. \A r \in ExclHolds(k) : t_ref'[k] = IF Bare(r[1], k)' THEN NULL ELSE r
    <2> SUFFICES ASSUME NEW r \in ExclHolds(k)
                 PROVE  t_ref'[k] = IF Bare(r[1], k)' THEN NULL ELSE r
      OBVIOUS
    <2>1. r[1] \in Threads /\ t_ref[k] = IF Bare(r[1], k) THEN NULL ELSE r
      BY HoldsAre DEF Word
    <2>2. Bare(r[1], k)' <=> Bare(r[1], k)
      BY <2>1, FrameHeld
    <2> QED
      BY <2>1, <2>2
  <1>5. Word(k)'
    BY <1>1, <1>3, <1>4 DEF Word
  <1> QED
    BY <1>5 DEF After, Effect

\* A reference moves in the stack, and t_ref with it.
LEMMA WordRename ==
  ASSUME NEW t \in Threads, Frame(t), NEW k \in Tokens, Word(k), IsFiniteSet(Holds(k)),
         NEW i \in Held(t, k), i \in Nat, NEW j, j \notin Held(t, k),
         Held(t, k)' = (Held(t, k) \ {i}) \cup {j}, toks'[t][j].ex <=> toks[t][i].ex,
         \A m \in Held(t, k) \ {i} : toks'[t][m].ex <=> toks[t][m].ex,
         SameWord(k), t_ref'[k] = IF t_ref[k] = <<t, i>> THEN <<t, j>> ELSE t_ref[k],
         ~ Bare(t, k), ~ Bare(t, k)'
  PROVE  After(t, k)
  <1> DEFINE r == <<t, i>>
             q == <<t, j>>
  <1>1. /\ r \in Holds(k) /\ q \notin Holds(k)
        /\ Holds(k)' = (Holds(k) \ {r}) \cup {q}
        /\ ExclHolds(k)' = IF toks[t][i].ex THEN (ExclHolds(k) \ {r}) \cup {q}
                           ELSE ExclHolds(k)
        /\ r \in ExclHolds(k) <=> toks[t][i].ex
    BY HoldsRename
  <1>2. r[1] = t /\ q[1] = t /\ t_ref'[k] = IF t_ref[k] = r THEN q ELSE t_ref[k]
    OBVIOUS
  <1>3. ExclHolds(k) \subseteq Holds(k) /\ \A s \in Holds(k) : s[1] \in Threads
    BY HoldsAre
  <1> HIDE DEF r, q
  <1>4. \A s \in ExclHolds(k) : Bare(s[1], k)' <=> Bare(s[1], k)
    <2> SUFFICES ASSUME NEW s \in ExclHolds(k) PROVE Bare(s[1], k)' <=> Bare(s[1], k)
      OBVIOUS
    <2>1. s[1] \in Threads
      BY <1>3
    <2> QED
      BY <2>1, FrameHeld
  <1>5. ASSUME toks[t][i].ex PROVE Word(k)'
    <2>1. ExclHolds(k) = {r}
      BY <1>1, <1>5 DEF Word
    <2>2. ExclHolds(k)' = {q} /\ Shares(k)' = Shares(k)
      BY <1>1, <1>3, <1>5, <2>1 DEF Shares
    <2>3. t_ref[k] = r
      BY <1>2, <2>1 DEF Word
    <2>4. \A s \in Holds(k)' : s[1] = t
      BY <1>1, <1>2, <2>1 DEF Word
    <2> QED
      BY <1>2, <2>1, <2>2, <2>3, <2>4 DEF Word, SameWord
  <1>6. ASSUME ~ toks[t][i].ex PROVE Word(k)'
    <2>1. ExclHolds(k)' = ExclHolds(k) /\ r \notin ExclHolds(k)
      BY <1>1, <1>6
    <2>2. /\ Shares(k)' = (Shares(k) \ {r}) \cup {q} /\ r \in Shares(k)
          /\ q \notin Shares(k) /\ Shares(k) \subseteq Holds(k)
      BY <1>1, <1>3, <2>1 DEF Shares
    <2>3. IsFiniteSet(Shares(k)) /\ Cardinality(Shares(k)) \in Nat
      BY <2>2, FS_Subset, FS_CardinalityType
    <2>4. /\ IsFiniteSet(Shares(k) \ {r})
          /\ Cardinality(Shares(k) \ {r}) = Cardinality(Shares(k)) - 1
      BY <2>2, <2>3, FS_RemoveElement
    <2>5. Cardinality(Shares(k)') = (Cardinality(Shares(k)) - 1) + 1
      BY <2>2, <2>4, FS_AddElement
    <2>6. t_ref[k] # r
      <3>1. CASE ExclHolds(k) = {}
        <4>1. t_ref[k] = NULL /\ NULL # r
          BY <3>1, <1>1, TokensAssumption DEF Word, r
        <4> QED
          BY <4>1
      <3>2. ASSUME NEW s \in ExclHolds(k) PROVE t_ref[k] # r
        <4>1. t_ref[k] = s \/ t_ref[k] = NULL
          BY <3>2 DEF Word
        <4>2. NULL # r
          BY TokensAssumption DEF r
        <4> QED
          BY <2>1, <3>2, <4>1, <4>2
      <3> QED
        BY <3>1, <3>2
    <2>7. \A s \in ExclHolds(k)' : t_ref'[k] = IF Bare(s[1], k)' THEN NULL ELSE s
      BY <1>2, <1>4, <2>1, <2>6 DEF Word
    <2>8. \A s \in ExclHolds(k)', o \in Holds(k)' : o[1] = s[1]
      BY <1>1, <1>2, <2>1 DEF Word
    <2>9. t_count'[k].cnt = Cardinality(Shares(k)')
      BY <2>3, <2>5 DEF Word, SameWord
    <2> QED
      BY <1>2, <2>1, <2>6, <2>7, <2>8, <2>9 DEF Word, SameWord
  <1>7. Word(k)'
    BY <1>5, <1>6
  <1>8. Renames(t, k, i, j)
    BY DEF Renames
  <1> QED
    BY <1>7, <1>8 DEF After, Effect
-----------------------------------------------------------------------------
(* Steps of a thread *)

\* The references h of the stack s to k.
Among(s, h, k) == {i \in ToSet(h) : s[i].tok = k}

\* The variables of thread t after a step.
Moves(t, s, h, w, p, c) ==
    /\ toks' = [toks EXCEPT ![t] = s]
    /\ have' = [have EXCEPT ![t] = h]
    /\ want' = [want EXCEPT ![t] = w]
    /\ pc' = [pc EXCEPT ![t] = p]
    /\ call' = [call EXCEPT ![t] = c]

\* The types of what no other part of the invariant is about.
OtherTypes == /\ saw \in [Threads -> BOOLEAN]
              /\ spinning \in [Threads -> 0 .. SpinLoops]
              /\ idle \in [Threads -> BOOLEAN]

CountType == t_count \in [Tokens -> [ex : BOOLEAN, req : BOOLEAN, cnt : Nat]]
RefType == t_ref \in [Tokens -> {NULL} \cup (Threads \X Nat)]

\* The invariant of one thread.
LEMMA ThreadFacts ==
  ASSUME IInv, NEW t \in Threads
  PROVE  /\ Lists(toks[t], have[t], want[t])
         /\ Place(toks[t], have[t], want[t], pc[t], call[t])
         /\ Stack(toks[t], pc[t], call[t])
         /\ toks[t] \in Seq(Ref) /\ have[t] \in Seq(Nat) /\ want[t] \in Seq(Nat)
         /\ Len(toks[t]) \in Nat /\ Len(toks[t]) <= MaxToks[t] /\ MaxToks[t] \in Nat
  <1>1. Local(toks[t], have[t], want[t], pc[t], call[t])
    BY DEF IInv
  <1>2. toks[t] \in Seq(Ref) /\ have[t] \in Seq(Nat) /\ want[t] \in Seq(Nat)
    BY <1>1 DEF Local, Lists
  <1>3. Len(toks[t]) \in Nat
    BY <1>2, LenProperties
  <1>4. Len(toks[t]) <= MaxToks[t] /\ MaxToks[t] \in Nat
    BY TokensAssumption DEF IInv, Types, ThreadTypes
  <1> QED
    BY <1>1, <1>2, <1>3, <1>4 DEF Local

\* What a thread has, place by place.
LEMMA HeldIs ==
  ASSUME NEW t, NEW k
  PROVE  /\ pc[t] # "setref" => Held(t, k) = Among(toks[t], have[t], k)
         /\ pc[t] = "setref" =>
               /\ toks[t][Head(want[t])].tok # k => Held(t, k) = Among(toks[t], have[t], k)
               /\ toks[t][Head(want[t])].tok = k =>
                     Held(t, k) = Among(toks[t], have[t], k) \cup {Head(want[t])}
         /\ pc[t] \notin {"setref", "cas"} => ~ Bare(t, k)
         /\ pc[t] = "setref" => (Bare(t, k) <=> toks[t][Head(want[t])].tok = k)
         /\ pc[t] = "cas" => (Bare(t, k) <=> toks[t][Last(have[t])].tok = k)
  BY DEF Held, Among, Tok, Cur, Bare, RelTok, RelRef

\* What a thread has is in its stack.
LEMMA HeldBounds ==
  ASSUME IInv, NEW t \in Threads, NEW k
  PROVE  Held(t, k) \subseteq 1 .. Len(toks[t])
  <1>1. /\ ToSet(have[t]) \cup ToSet(want[t]) \subseteq 1 .. Len(toks[t])
        /\ IsInjective(want[t]) /\ want[t] \in Seq(Nat)
        /\ pc[t] = "setref" => want[t] # <<>>
    BY ThreadFacts DEF Lists, Place, TryPCs
  <1>2. pc[t] = "setref" => Head(want[t]) \in ToSet(want[t])
    BY <1>1, TailSet
  <1> QED
    BY <1>1, <1>2, HeldIs DEF Among

\* There is room for finitely many references.
LEMMA SlotsFinite == IsFiniteSet(Slots)
  <1> DEFINE F == [t \in Threads |-> {t} \X (1 .. MaxToks[t])]
             R == {{t} \X (1 .. MaxToks[t]) : t \in Threads}
  <1>1. F \in Surjection(Threads, R)
    BY DEF Surjection
  <1>2. IsFiniteSet(R)
    BY <1>1, FS_Surjection, TokensAssumption
  <1>3. \A T \in R : IsFiniteSet(T)
    <2> SUFFICES ASSUME NEW t \in Threads PROVE IsFiniteSet({t} \X (1 .. MaxToks[t]))
      OBVIOUS
    <2>1. IsFiniteSet({t})
      BY FS_Singleton
    <2>2. MaxToks[t] \in Int /\ 1 \in Int
      BY TokensAssumption
    <2>3. IsFiniteSet(1 .. MaxToks[t])
      BY <2>2, FS_Interval
    <2> QED
      BY <2>1, <2>3, FS_Product
  <1>4. IsFiniteSet(UNION R)
    BY <1>2, <1>3, FS_UNION
  <1> QED
    BY <1>4 DEF Slots

\* The references to a token are finitely many.
LEMMA HoldsFinite ==
  ASSUME IInv, NEW k
  PROVE  Holds(k) \subseteq Slots /\ IsFiniteSet(Holds(k))
  <1>1. ASSUME NEW r \in Holds(k) PROVE r \in Slots
    <2>1. r = <<r[1], r[2]>> /\ r[1] \in Threads /\ r[2] \in Held(r[1], k)
      BY <1>1, HoldsAre
    <2>2. r[2] \in 1 .. MaxToks[r[1]]
      BY <2>1, HeldBounds, ThreadFacts
    <2> QED
      BY <2>1, <2>2 DEF Slots
  <1> QED
    BY <1>1, SlotsFinite, FS_Subset

\* What thread t has after the step, and what the others have.
LEMMA MovesFrame ==
  ASSUME Types, NEW t \in Threads, NEW s, NEW h, NEW w, NEW p, NEW c,
         Moves(t, s, h, w, p, c)
  PROVE  Frame(t) /\ toks'[t] = s /\ pc'[t] = p
  <1>1. /\ toks'[t] = s /\ pc'[t] = p
    BY DEF Types, ThreadTypes, Moves
  <1>2. Frame(t)
    BY DEF Types, ThreadTypes, Moves, Frame
  <1> QED
    BY <1>1, <1>2

\* What thread t has after the step, place by place.
LEMMA MovesHeld ==
  ASSUME Types, NEW t \in Threads, NEW s, NEW h, NEW w, NEW p, NEW c,
         Moves(t, s, h, w, p, c), NEW k
  PROVE  /\ p # "setref" => Held(t, k)' = Among(s, h, k)
         /\ p = "setref" =>
               /\ s[Head(w)].tok # k => Held(t, k)' = Among(s, h, k)
               /\ s[Head(w)].tok = k => Held(t, k)' = Among(s, h, k) \cup {Head(w)}
         /\ p \notin {"setref", "cas"} => ~ Bare(t, k)'
         /\ p = "setref" => (Bare(t, k)' <=> s[Head(w)].tok = k)
         /\ p = "cas" => (Bare(t, k)' <=> s[Last(h)].tok = k)
  <1>1. /\ toks'[t] = s /\ have'[t] = h /\ want'[t] = w /\ pc'[t] = p /\ call'[t] = c
    BY DEF Types, ThreadTypes, Moves
  <1>2. /\ p # "setref" => Held(t, k)' = Among(s, h, k)
        /\ p = "setref" =>
              /\ s[Head(w)].tok # k => Held(t, k)' = Among(s, h, k)
              /\ s[Head(w)].tok = k => Held(t, k)' = Among(s, h, k) \cup {Head(w)}
    BY <1>1 DEF Held, Among, Tok, Cur
  <1>3. /\ p \notin {"setref", "cas"} => ~ Bare(t, k)'
        /\ p = "setref" => (Bare(t, k)' <=> s[Head(w)].tok = k)
        /\ p = "cas" => (Bare(t, k)' <=> s[Last(h)].tok = k)
    BY <1>1 DEF Tok, Cur, Bare, RelTok, RelRef
  <1> QED
    BY <1>2, <1>3

\* A step of t keeps the invariant, and changes only what t has.
StepOK(t) == IInv' /\ Frame(t) /\ \A k \in Tokens : Effect(t, k)

\* The parts of the invariant after a step of t.
LEMMA Assemble ==
  ASSUME IInv, NEW t \in Threads, NEW s, NEW h, NEW w, NEW p, NEW c,
         Moves(t, s, h, w, p, c), Local(s, h, w, p, c), Len(s) <= MaxToks[t],
         OtherTypes', CountType', RefType', \A k \in Tokens : After(t, k)
  PROVE  StepOK(t)
  <1>1. /\ s \in Seq(Ref) /\ h \in Seq(Nat) /\ w \in Seq(Nat)
        /\ ToSet(h) \cup ToSet(w) \subseteq 1 .. Len(s)
        /\ p \in PCs /\ c \in InCalls
    BY DEF Local, Lists, Place
  <1>2. /\ toks \in [Threads -> Seq(Ref)] /\ have \in [Threads -> Seq(Nat)]
        /\ want \in [Threads -> Seq(Nat)] /\ pc \in [Threads -> PCs]
        /\ call \in [Threads -> InCalls]
    BY DEF IInv, Types, ThreadTypes
  <1>3. /\ toks' \in [Threads -> Seq(Ref)] /\ have' \in [Threads -> Seq(Nat)]
        /\ want' \in [Threads -> Seq(Nat)] /\ pc' \in [Threads -> PCs]
        /\ call' \in [Threads -> InCalls]
    BY <1>1, <1>2 DEF Moves
  <1>4. /\ toks'[t] = s /\ have'[t] = h /\ want'[t] = w /\ pc'[t] = p /\ call'[t] = c
        /\ \A u \in Threads \ {t} :
              /\ toks'[u] = toks[u] /\ have'[u] = have[u] /\ want'[u] = want[u]
              /\ pc'[u] = pc[u] /\ call'[u] = call[u]
    BY <1>2 DEF Moves
  <1>5. ASSUME NEW u \in Threads
        PROVE  /\ Local(toks'[u], have'[u], want'[u], pc'[u], call'[u])
               /\ Len(toks'[u]) <= MaxToks[u]
               /\ ToSet(have'[u]) \cup ToSet(want'[u]) \subseteq 1 .. Len(toks'[u])
    <2>1. CASE u = t
      BY <1>1, <1>4, <2>1
    <2>2. CASE u # t
      BY <1>4, <2>2 DEF IInv, Types, ThreadTypes
    <2> QED
      BY <2>1, <2>2
  <1>6. Types'
    BY <1>3, <1>5 DEF Types, ThreadTypes, OtherTypes, CountType, RefType
  <1>7. Frame(t) /\ \A k \in Tokens : Word(k)' /\ Effect(t, k)
    BY MovesFrame DEF IInv, After
  <1>8. IInv'
    BY <1>5, <1>6, <1>7 DEF IInv
  <1> QED
    BY <1>7, <1>8 DEF StepOK

\* A step that leaves the words and what the thread has as they are, but for
\* TOK_EXCLREQ.
LEMMA QuietStep ==
  ASSUME IInv, NEW t \in Threads, NEW s, NEW w, NEW p, NEW c,
         Moves(t, s, have[t], w, p, c), Local(s, have[t], w, p, c), Len(s) <= MaxToks[t],
         \A i \in ToSet(have[t]) : s[i] = toks[t][i],
         pc[t] \notin {"setref", "cas"}, p \notin {"setref", "cas"},
         OtherTypes', CountType', t_ref' = t_ref, \A k \in Tokens : SameWord(k)
  PROVE  StepOK(t)
  <1>1. ASSUME NEW k \in Tokens PROVE After(t, k)
    <2>1. Frame(t) /\ toks'[t] = s
      BY MovesFrame DEF IInv
    <2>2. Held(t, k)' = Among(s, have[t], k) /\ ~ Bare(t, k)'
      <3>1. Types /\ p # "setref"
        BY DEF IInv
      <3> QED
        BY <3>1, MovesHeld
    <2>3. Held(t, k) = Among(toks[t], have[t], k) /\ ~ Bare(t, k)
      <3>1. pc[t] # "setref"
        OBVIOUS
      <3> QED
        BY <3>1, HeldIs
    <2>4. Same(t, k)
      BY <2>1, <2>2, <2>3 DEF Same, Among
    <2> QED
      BY <2>1, <2>2, <2>3, <2>4, WordSame DEF IInv
  <1>2. RefType'
    BY DEF IInv, Types, RefType
  <1> QED
    BY <1>1, <1>2, Assemble
-----------------------------------------------------------------------------
(* What the word tells a thread *)

\* A free token is held by nobody, t_ref is the exclusive reference, and the
\* word accounts for every reference that a thread has.
LEMMA WordFacts ==
  ASSUME IInv, NEW t \in Threads, NEW k \in Tokens
  PROVE  /\ Free(k) => Holds(k) = {}
         /\ ~ t_count[k].ex => ExclHolds(k) = {}
         /\ t_ref[k] # NULL => t_ref[k] \in ExclHolds(k) /\ t_count[k].ex
         /\ \A i \in Held(t, k) : toks[t][i].ex =>
               /\ t_count[k].ex /\ <<t, i>> \in ExclHolds(k)
               /\ Bare(t, k) => t_ref[k] = NULL
               /\ ~ Bare(t, k) => t_ref[k] = <<t, i>>
         /\ \A i \in Held(t, k) : ~ toks[t][i].ex =>
               /\ t_count[k].cnt > 0
               /\ \A r \in ExclHolds(k) : r[1] = t
  <1>1. /\ t_count[k].ex <=> ExclHolds(k) # {}
        /\ \A r, s \in ExclHolds(k) : r = s
        /\ \A r \in ExclHolds(k), s \in Holds(k) : s[1] = r[1]
        /\ t_count[k].cnt = Cardinality(Shares(k))
        /\ \A r \in ExclHolds(k) : t_ref[k] = IF Bare(r[1], k) THEN NULL ELSE r
        /\ ExclHolds(k) = {} => t_ref[k] = NULL
    BY DEF IInv, Word
  <1>2. IsFiniteSet(Shares(k))
    BY HoldsFinite, FS_Subset DEF Shares
  <1>3. Free(k) => Holds(k) = {}
    <2>1. Cardinality(Shares(k)) = 0 => Shares(k) = {}
      BY <1>2, FS_EmptySet
    <2> QED
      BY <1>1, <2>1 DEF Free, Shares
  <1>4. t_ref[k] # NULL => t_ref[k] \in ExclHolds(k) /\ t_count[k].ex
    BY <1>1
  <1>5. ASSUME NEW i \in Held(t, k), toks[t][i].ex
        PROVE  /\ t_count[k].ex /\ <<t, i>> \in ExclHolds(k)
               /\ Bare(t, k) => t_ref[k] = NULL
               /\ ~ Bare(t, k) => t_ref[k] = <<t, i>>
    <2>1. <<t, i>> \in ExclHolds(k) /\ <<t, i>>[1] = t
      BY <1>5, HoldsAre
    <2>2. t_ref[k] = IF Bare(<<t, i>>[1], k) THEN NULL ELSE <<t, i>>
      BY <1>1, <2>1
    <2> QED
      BY <1>1, <2>1, <2>2
  <1>6. ASSUME NEW i \in Held(t, k), ~ toks[t][i].ex
        PROVE  t_count[k].cnt > 0 /\ \A r \in ExclHolds(k) : r[1] = t
    <2>1. <<t, i>> \in Holds(k) /\ <<t, i>> \notin ExclHolds(k) /\ <<t, i>>[1] = t
      BY <1>6, HoldsAre
    <2>2. Cardinality(Shares(k)) \in Nat /\ Cardinality(Shares(k)) # 0
      BY <1>2, <2>1, FS_EmptySet, FS_CardinalityType DEF Shares
    <2>3. \A r \in ExclHolds(k) : r[1] = t
      BY <1>1, <2>1
    <2> QED
      BY <1>1, <2>2, <2>3
  <1> QED
    BY <1>1, <1>3, <1>4, <1>5, <1>6

\* If t_ref points into the stack of t, t has that reference exclusively.
LEMMA MineFacts ==
  ASSUME IInv, NEW t \in Threads, NEW k \in Tokens, Mine(t, k)
  PROVE  \E j \in Held(t, k) : /\ toks[t][j].ex /\ t_ref[k] = <<t, j>>
                               /\ \A r \in ExclHolds(k) : r[1] = t
                               /\ ~ Bare(t, k)
  <1>1. t_ref[k] \in ExclHolds(k) /\ t_ref[k][1] = t /\ t_ref[k] # NULL
    BY WordFacts DEF Mine
  <1>2. t_ref[k] = <<t, t_ref[k][2]>>
    BY <1>1, HoldsAre
  <1>3. t_ref[k][2] \in Held(t, k) /\ toks[t][t_ref[k][2]].ex
    BY <1>1, <1>2, HoldsAre
  <1>4. \A r \in ExclHolds(k) : r[1] = t
    BY <1>1 DEF IInv, Word
  <1>5. ~ Bare(t, k)
    <2>1. Bare(t, k) => t_ref[k] = NULL
      BY <1>3, WordFacts
    <2> QED
      BY <1>1, <2>1
  <1> QED
    BY <1>2, <1>3, <1>4, <1>5

\* The reference that t tries is in its stack, and t does not have it.
LEMMA TryFacts ==
  ASSUME IInv, NEW t \in Threads, pc[t] \in TryPCs
  PROVE  /\ Cur(t) \in 1 .. Len(toks[t]) /\ Cur(t) \notin ToSet(have[t])
         /\ Tok(t) \in Tokens /\ toks[t][Cur(t)] \in Ref
         /\ toks[t] # <<>> /\ want[t] # <<>>
         /\ ToSet(have[t]) \cup ToSet(want[t]) = 1 .. Len(toks[t])
         /\ \A i \in 1 .. Len(toks[t]) : Deeper(toks[t], i, Cur(t)) => i \in ToSet(have[t])
  <1>1. /\ Lists(toks[t], have[t], want[t]) /\ want[t] # <<>>
        /\ ToSet(have[t]) \cup ToSet(want[t]) = 1 .. Len(toks[t])
    BY ThreadFacts DEF Place
  <1>2. Cur(t) \in (1 .. Len(toks[t])) \ ToSet(have[t])
    BY <1>1, AcquireLists DEF Cur
  <1>3. toks[t] \in Seq(Ref) /\ want[t] \in Seq(Nat) /\ Len(want[t]) \in Nat \ {0}
    BY <1>1, ThreadFacts, EmptySeq, LenProperties
  <1>4. toks[t][Cur(t)] \in Ref /\ toks[t] # <<>>
    BY <1>2, <1>3, ElementOfSeq, EmptySeq
  <1>5. Tok(t) \in Tokens
    BY <1>4 DEF Tok, Ref
  <1>6. ASSUME NEW i \in 1 .. Len(toks[t]), Deeper(toks[t], i, Cur(t))
        PROVE  i \in ToSet(have[t])
    <2>1. 1 \in 1 .. Len(want[t]) /\ Cur(t) = want[t][1]
      BY <1>3 DEF Cur
    <2> QED
      BY <1>1, <1>6, <2>1 DEF Lists
  <1> QED
    BY <1>1, <1>2, <1>4, <1>5, <1>6

\* The reference that t releases is in its stack, and no reference to the token
\* that t has is above it.
LEMMA RelFacts ==
  ASSUME IInv, NEW t \in Threads, have[t] # <<>>, pc[t] \in {"rel", "cas"}
  PROVE  /\ RelRef(t) \in 1 .. Len(toks[t]) /\ RelRef(t) \in ToSet(have[t])
         /\ RelTok(t) \in Tokens /\ RelRef(t) \in Held(t, RelTok(t))
         /\ \A j \in ToSet(have[t]) : ~ Deeper(toks[t], RelRef(t), j)
         /\ Held(t, RelTok(t)) = Among(toks[t], have[t], RelTok(t))
  <1>1. /\ RelRef(t) \in 1 .. Len(toks[t]) /\ RelRef(t) \in ToSet(have[t])
        /\ \A j \in ToSet(have[t]) : ~ Deeper(toks[t], RelRef(t), j)
    BY ThreadFacts, ReleaseLists DEF RelRef
  <1>2. RelTok(t) \in Tokens
    <2>1. toks[t][RelRef(t)] \in Ref
      BY <1>1, ThreadFacts, ElementOfSeq
    <2> QED
      BY <2>1 DEF RelTok, Ref
  <1>3. Held(t, RelTok(t)) = Among(toks[t], have[t], RelTok(t))
    <2>1. pc[t] # "setref"
      OBVIOUS
    <2> QED
      BY <2>1, HeldIs
  <1>4. RelRef(t) \in Held(t, RelTok(t))
    BY <1>1, <1>3 DEF Among, RelTok
  <1> QED
    BY <1>1, <1>2, <1>3, <1>4
-----------------------------------------------------------------------------
(* Acquisitions *)

\* All the references of a thread's stack are acquired: s is the stack after the
\* step, in which only the exclusive marks may have changed.
LEMMA AcquiredStep ==
  ASSUME IInv, NEW t \in Threads, pc[t] \in TryPCs, Acquired(t), NEW s \in Seq(Ref),
         Len(s) = Len(toks[t]), \A i \in 1 .. Len(s) : s[i].tok = toks[t][i].tok,
         toks' = [toks EXCEPT ![t] = s], call[t] = "getswitch" => s[Len(s)].ex,
         Stack(s, "run", "none")
  PROVE  \E h, w, p, c : /\ Moves(t, s, h, w, p, c) /\ Local(s, h, w, p, c)
                         /\ p \notin {"setref", "cas"}
                         /\ ToSet(h) = ToSet(have[t]) \cup {Cur(t)}
                         /\ spinning' \in [Threads -> 0 .. SpinLoops]
                         /\ idle' \in [Threads -> BOOLEAN]
  <1> DEFINE last == Tail(want[t]) = <<>>
             h == IF last THEN Up(Len(s)) ELSE Append(have[t], Cur(t))
             w == Tail(want[t])
             p == IF ~ last THEN "try" ELSE IF call[t] = "getswitch" THEN "check" ELSE "run"
             c == IF last /\ call[t] # "getswitch" THEN "none" ELSE call[t]
  <1>1. /\ Lists(toks[t], have[t], want[t])
        /\ Place(toks[t], have[t], want[t], pc[t], call[t])
        /\ toks[t] \in Seq(Ref) /\ have[t] \in Seq(Nat) /\ want[t] \in Seq(Nat)
        /\ Len(toks[t]) \in Nat /\ want[t] # <<>>
        /\ Cur(t) \in 1 .. Len(toks[t])
        /\ ToSet(have[t]) \cup ToSet(want[t]) = 1 .. Len(toks[t])
    BY ThreadFacts, TryFacts
  <1>2. /\ Lists(toks[t], Append(have[t], Cur(t)), w)
        /\ ToSet(Append(have[t], Cur(t))) = ToSet(have[t]) \cup {Cur(t)}
        /\ ToSet(w) = ToSet(want[t]) \ {Cur(t)} /\ Cur(t) \in ToSet(want[t])
    <2>1. IsInjective(want[t])
      BY <1>1 DEF Lists
    <2>2. Cur(t) \in ToSet(want[t])
      BY <1>1, <2>1, TailSet DEF Cur
    <2>3. /\ Lists(toks[t], Append(have[t], Cur(t)), w)
          /\ ToSet(Append(have[t], Cur(t))) = ToSet(have[t]) \cup {Cur(t)}
          /\ ToSet(w) = ToSet(want[t]) \ {Cur(t)}
      BY <1>1, AcquireLists DEF Cur
    <2> QED
      BY <2>2, <2>3
  <1>3. Moves(t, s, h, w, p, c)
    <2>1. have' = [have EXCEPT ![t] = h]
      BY <1>1 DEF Acquired, All, Up
    <2>2. want' = [want EXCEPT ![t] = w] /\ pc' = [pc EXCEPT ![t] = p]
      BY DEF Acquired, Goto
    <2>3. call' = [call EXCEPT ![t] = c]
      <3>1. call \in [Threads -> InCalls]
        BY DEF IInv, Types, ThreadTypes
      <3>2. call' = IF last /\ call[t] # "getswitch" THEN [call EXCEPT ![t] = "none"]
                    ELSE call
        BY DEF Acquired
      <3>3. call = [call EXCEPT ![t] = call[t]]
        BY <3>1
      <3> QED
        BY <3>2, <3>3
    <2> QED
      BY <2>1, <2>2, <2>3 DEF Moves
  <1>4. spinning' \in [Threads -> 0 .. SpinLoops] /\ idle' \in [Threads -> BOOLEAN]
    <2>1. spinning \in [Threads -> 0 .. SpinLoops] /\ idle \in [Threads -> BOOLEAN]
      BY DEF IInv, Types, ThreadTypes
    <2>2. 0 \in 0 .. SpinLoops
      BY TokensAssumption
    <2> QED
      BY <2>1, <2>2 DEF Acquired
  <1>5. pc[t] # "run" /\ call[t] # "none" /\ call[t] # "rel" /\ s # <<>>
    <2>1. s # <<>>
      BY <1>1, EmptySeq
    <2> QED
      BY <1>1, <2>1 DEF TryPCs, Place
  <1>6. CASE last
    <2>1. h = Up(Len(s)) /\ w = <<>>
      BY <1>6
    <2>2. ToSet(h) = 1 .. Len(s) /\ Lists(s, h, w)
      BY <2>1, UpSeq, UpLists, <1>1
    <2>3. ToSet(h) = ToSet(have[t]) \cup {Cur(t)}
      BY <1>1, <1>2, <2>1, <2>2, NoneSeq
    <2>4. \/ p = "check" /\ c = "getswitch" /\ s[Len(s)].ex
          \/ p = "run" /\ c = "none"
      BY <1>6
    <2>5. Place(s, h, w, p, c)
      BY <2>1, <2>4, <1>5 DEF Place, PCs, InCalls, Pushing, TryPCs
    <2>6. Stack(s, p, c)
      BY StackMove DEF Settled
    <2>7. p \notin {"setref", "cas"}
      BY <2>4
    <2> HIDE DEF h, w, p, c
    <2> QED
      BY <1>3, <1>4, <2>2, <2>3, <2>5, <2>6, <2>7 DEF Local
  <1>7. CASE ~ last
    <2>1. h = Append(have[t], Cur(t)) /\ p = "try" /\ c = call[t] /\ w # <<>>
      BY <1>7
    <2>2. call[t] \notin Pushing
      BY <1>1, <1>7, OneSeq DEF Place
    <2>3. Lists(s, h, w)
      BY <1>1, <1>2, <2>1, SameTokLists
    <2>4. ToSet(h) \cup ToSet(w) = 1 .. Len(s)
      BY <1>1, <1>2, <2>1
    <2>5. call[t] \in {"switch", "getswitch"}
      BY <1>1, <1>5, <2>2 DEF Place, Pushing, InCalls
    <2>6. Place(s, h, w, p, c)
      BY <1>5, <2>1, <2>4, <2>5 DEF Place, PCs, InCalls, Pushing, TryPCs
    <2>7. Stack(s, p, c)
      BY StackMove DEF Settled
    <2>8. ToSet(h) = ToSet(have[t]) \cup {Cur(t)} /\ p \notin {"setref", "cas"}
      BY <2>1, <1>2
    <2> HIDE DEF h, w, p, c
    <2> QED
      BY <1>3, <1>4, <2>3, <2>6, <2>7, <2>8 DEF Local
  <1> QED
    BY <1>6, <1>7

\* A counted reference is acquired: the one that t tries.
LEMMA ShareStep ==
  ASSUME IInv, NEW t \in Threads, Trying(t), Acquired(t), NEW s \in Seq(Ref),
         Len(s) = Len(toks[t]), \A i \in 1 .. Len(s) : s[i].tok = toks[t][i].tok,
         \A i \in 1 .. Len(s) : i # Cur(t) => s[i] = toks[t][i],
         ~ s[Cur(t)].ex,
         toks' = [toks EXCEPT ![t] = s], call[t] = "getswitch" => s[Len(s)].ex,
         Stack(s, "run", "none"), \A r \in ExclHolds(Tok(t)) : r[1] = t,
         t_count' = [t_count EXCEPT ![Tok(t)].cnt = @ + 1], UNCHANGED <<t_ref, saw>>
  PROVE  StepOK(t)
  <1>0. pc[t] \in TryPCs /\ pc[t] # "setref" /\ pc[t] # "cas" /\ Types
    BY DEF Trying, TryPCs, IInv
  <1>1. PICK h, w, p, c : /\ Moves(t, s, h, w, p, c) /\ Local(s, h, w, p, c)
                          /\ p \notin {"setref", "cas"}
                          /\ ToSet(h) = ToSet(have[t]) \cup {Cur(t)}
                          /\ spinning' \in [Threads -> 0 .. SpinLoops]
                          /\ idle' \in [Threads -> BOOLEAN]
    BY <1>0, AcquiredStep
  <1>2. /\ Frame(t) /\ toks'[t] = s
        /\ \A k : Held(t, k)' = Among(s, h, k) /\ ~ Bare(t, k)'
    <2>1. p # "setref"
      BY <1>1
    <2> QED
      BY <1>0, <1>1, <2>1, MovesFrame, MovesHeld
  <1>3. \A k : Held(t, k) = Among(toks[t], have[t], k) /\ ~ Bare(t, k)
    BY <1>0, HeldIs
  <1>4. /\ Cur(t) \in 1 .. Len(toks[t]) /\ Cur(t) \notin ToSet(have[t])
        /\ Tok(t) \in Tokens /\ ToSet(have[t]) \subseteq 1 .. Len(toks[t])
        /\ Tok(t) = toks[t][Cur(t)].tok
    BY <1>0, TryFacts DEF Tok
  <1>5. /\ CountType'
        /\ \A k \in Tokens : /\ t_count'[k].ex <=> t_count[k].ex
                             /\ k # Tok(t) => t_count'[k].cnt = t_count[k].cnt
                             /\ k = Tok(t) => t_count'[k].cnt = t_count[k].cnt + 1
    <2> DEFINE r == [t_count[Tok(t)] EXCEPT !.cnt = @ + 1]
    <2>0. t_count[Tok(t)] \in [ex : BOOLEAN, req : BOOLEAN, cnt : Nat]
      BY <1>0, <1>4 DEF Types
    <2>1. /\ r \in [ex : BOOLEAN, req : BOOLEAN, cnt : Nat]
          /\ r.ex <=> t_count[Tok(t)].ex
          /\ r.cnt = t_count[Tok(t)].cnt + 1
      BY <2>0
    <2>2. t_count' = [t_count EXCEPT ![Tok(t)] = r] /\ CountType
      BY <1>0 DEF Types, CountType
    <2> HIDE DEF r
    <2>3. /\ CountType' /\ t_count'[Tok(t)] = r
          /\ \A l \in Tokens : l # Tok(t) => t_count'[l] = t_count[l]
      BY <1>4, <2>1, <2>2 DEF CountType
    <2> QED
      BY <2>1, <2>3
  <1>6. \A k : /\ Tok(t) # k => Among(s, h, k) = Among(toks[t], have[t], k)
               /\ Tok(t) = k => Among(s, h, k) = Among(toks[t], have[t], k) \cup {Cur(t)}
    <2>1. ToSet(h) = ToSet(have[t]) \cup {Cur(t)}
      BY <1>1
    <2>2. \A j \in ToSet(h) : s[j].tok = toks[t][j].tok
      BY <1>4, <2>1
    <2> QED
      BY <2>1, <2>2 DEF Tok, Among
  <1>7. ASSUME NEW k \in Tokens PROVE After(t, k)
    <2>1. Word(k) /\ IsFiniteSet(Holds(k)) /\ t_ref'[k] = t_ref[k]
      BY HoldsFinite DEF IInv
    <2>2. CASE k # Tok(t)
      <3>1. Same(t, k)
        <4>1. Among(s, h, k) = Among(toks[t], have[t], k)
          BY <1>6, <2>2
        <4>2. \A i \in Held(t, k) : s[i] = toks[t][i]
          BY <1>3, <1>4 DEF Among
        <4> QED
          BY <1>2, <1>3, <4>1, <4>2 DEF Same
      <3>2. SameWord(k)
        BY <1>5, <2>2 DEF SameWord
      <3> QED
        BY <1>2, <1>3, <2>1, <3>1, <3>2, WordSame
    <2>3. CASE k = Tok(t)
      <3>1. Gains(t, k, Cur(t))
        <4>1. Among(s, h, k) = Among(toks[t], have[t], k) \cup {Cur(t)}
          BY <1>6, <2>3
        <4>2. /\ \A i \in Held(t, k) : s[i] = toks[t][i]
              /\ Cur(t) \notin Held(t, k)
          BY <1>3, <1>4 DEF Among
        <4> QED
          BY <1>2, <1>3, <4>1, <4>2 DEF Gains
      <3>2. ~ toks'[t][Cur(t)].ex
        BY <1>2
      <3> QED
        BY <1>2, <1>3, <1>5, <2>1, <2>3, <3>1, <3>2, WordShare
    <2> QED
      BY <2>2, <2>3
  <1>8. OtherTypes' /\ RefType'
    BY <1>0, <1>1 DEF OtherTypes, RefType, Types, ThreadTypes
  <1> QED
    BY <1>1, <1>5, <1>7, <1>8, Assemble, ThreadFacts

\* A shared acquisition of a token that nobody has exclusively.
LEMMA TakeSharedInv ==
  ASSUME IInv, NEW t \in Threads, TakeShared(t)
  PROVE  StepOK(t)
  <1>1. Trying(t) /\ Acquired(t) /\ ~ toks[t][Cur(t)].ex /\ ~ t_count[Tok(t)].ex
    BY DEF TakeShared
  <1>2. pc[t] \in TryPCs
    BY <1>1 DEF Trying, TryPCs
  <1>3. /\ toks[t] \in Seq(Ref) /\ Stack(toks[t], pc[t], call[t]) /\ Len(toks[t]) \in Nat
        /\ Place(toks[t], have[t], want[t], pc[t], call[t])
    BY ThreadFacts
  <1>4. ExclHolds(Tok(t)) = {}
    BY <1>1, <1>2, TryFacts, WordFacts
  <1>5. Stack(toks[t], "run", "none")
    <2>1. CASE Settled(toks[t], pc[t], call[t])
      BY <1>3, <2>1, StackMove
    <2>2. CASE ~ Settled(toks[t], pc[t], call[t])
      <3>1. want[t] = <<Len(toks[t])>>
        BY <1>3, <2>2 DEF Place, Settled
      <3>2. ~ toks[t][Len(toks[t])].ex
        BY <1>1, <1>3, <3>1, OneSeq DEF Cur
      <3> QED
        BY <1>3, <3>2 DEF Stack, Topmost
    <2> QED
      BY <2>1, <2>2
  <1>6. toks' = [toks EXCEPT ![t] = toks[t]]
    BY DEF TakeShared, IInv, Types, ThreadTypes
  <1>7. call[t] = "getswitch" => toks[t][Len(toks[t])].ex
    BY <1>3 DEF Place
  <1> QED
    BY <1>1, <1>3, <1>4, <1>5, <1>6, <1>7, ShareStep DEF TakeShared

\* The thread has the token through a deeper reference.
LEMMA RecurseInv ==
  ASSUME IInv, NEW t \in Threads, Recurse(t)
  PROVE  StepOK(t)
  <1> DEFINE s == [toks[t] EXCEPT ![Cur(t)].ex = FALSE]
             n == Len(toks[t])
  <1>1. Trying(t) /\ Acquired(t) /\ Mine(t, Tok(t))
    BY DEF Recurse
  <1>2. pc[t] \in TryPCs /\ pc[t] # "setref"
    BY <1>1 DEF Trying, TryPCs
  <1>3. /\ toks[t] \in Seq(Ref) /\ Stack(toks[t], pc[t], call[t]) /\ n \in Nat
        /\ Place(toks[t], have[t], want[t], pc[t], call[t])
    BY ThreadFacts
  <1>4. /\ Cur(t) \in 1 .. n /\ Cur(t) \notin ToSet(have[t]) /\ Tok(t) \in Tokens
        /\ toks[t][Cur(t)] \in Ref /\ Tok(t) = toks[t][Cur(t)].tok
        /\ ToSet(have[t]) \cup ToSet(want[t]) = 1 .. n
    BY <1>2, TryFacts DEF Tok
  <1>5. PICK j \in Held(t, Tok(t)) : /\ toks[t][j].ex
                                     /\ \A r \in ExclHolds(Tok(t)) : r[1] = t
    BY <1>1, <1>4, MineFacts
  <1>6. /\ j \in ToSet(have[t]) /\ toks[t][j].tok = Tok(t)
        /\ j \in 1 .. n /\ j # Cur(t)
    BY <1>2, <1>4, <1>5, HeldIs DEF Among
  <1>7. Deeper(toks[t], j, Cur(t))
    <2>1. CASE j < Cur(t)
      BY <1>4, <1>6, <2>1 DEF Deeper
    <2>2. CASE Cur(t) < j
      <3>1. Deeper(toks[t], Cur(t), j)
        BY <1>4, <1>6, <2>2 DEF Deeper
      <3>2. j = n /\ pc[t] = "try" /\ call[t] \in Pushing
        BY <1>3, <1>4, <1>5, <1>6, <3>1 DEF Stack, Topmost
      <3>3. want[t] = <<n>>
        BY <1>3, <3>2 DEF Place
      <3> QED
        BY <1>3, <1>6, <3>2, <3>3, OneSeq DEF Cur
    <2> QED
      BY <1>3, <1>4, <1>6, <2>1, <2>2
  <1>8. pc[t] = "try" /\ call[t] \in Pushing => Cur(t) = n
    BY <1>3, OneSeq DEF Place, Cur
  <1>9. Stack(s, "run", "none")
    BY <1>3, <1>4, <1>5, <1>6, <1>7, <1>8, StackRecurse
  <1>10. /\ s \in Seq(Ref) /\ Len(s) = n
         /\ \A i \in 1 .. n : s[i].tok = toks[t][i].tok /\ (i # Cur(t) => s[i] = toks[t][i])
         /\ ~ s[Cur(t)].ex
    <2>1. [toks[t][Cur(t)] EXCEPT !.ex = FALSE] \in Ref
      BY <1>4 DEF Ref
    <2>2. [toks[t][Cur(t)] EXCEPT !.ex = FALSE].tok = toks[t][Cur(t)].tok
      BY <1>4 DEF Ref
    <2>3. ~ [toks[t][Cur(t)] EXCEPT !.ex = FALSE].ex
      BY <1>4 DEF Ref
    <2> DEFINE r == [toks[t][Cur(t)] EXCEPT !.ex = FALSE]
    <2> HIDE DEF r
    <2>4. s = [toks[t] EXCEPT ![Cur(t)] = r]
      BY DEF r
    <2>5. r \in Ref /\ r.tok = toks[t][Cur(t)].tok /\ ~ r.ex
      BY <2>1, <2>2, <2>3 DEF r
    <2> HIDE DEF s
    <2>6. /\ s \in Seq(Ref) /\ Len(s) = n /\ s[Cur(t)] = r
          /\ \A i \in 1 .. n : i # Cur(t) => s[i] = toks[t][i]
      BY <1>3, <1>4, <2>4, <2>5, ExceptSeq
    <2> QED
      BY <2>5, <2>6
  <1>11. toks' = [toks EXCEPT ![t] = s]
    BY DEF Recurse
  <1>12. call[t] = "getswitch" => s[Len(s)].ex
    <2> SUFFICES ASSUME call[t] = "getswitch" PROVE s[n].ex
      BY <1>10
    <2>1. toks[t][n].ex /\ n \in 1 .. n
      BY <1>3, <1>4 DEF Place
    <2>2. Cur(t) # n
      <3> SUFFICES ASSUME Cur(t) = n PROVE FALSE
        OBVIOUS
      <3>1. call[t] \in Pushing
        BY <1>3, <1>4, <1>6, <1>7, <2>1 DEF Stack, Topmost
      <3> QED
        BY <3>1 DEF Pushing
    <2> QED
      BY <1>10, <2>1, <2>2
  <1> HIDE DEF s
  <1> QED
    BY <1>1, <1>5, <1>9, <1>10, <1>11, <1>12, ShareStep DEF Recurse

\* A reference on top that is not exclusive, or not to a token below, needs no
\* exception.
LEMMA StackAlone ==
  ASSUME NEW s \in Seq(Ref), NEW p, NEW c, Stack(s, p, c),
         p = "try" /\ c \in Pushing =>
            \A i \in 1 .. Len(s) : ~ (Deeper(s, i, Len(s)) /\ s[Len(s)].ex),
         NEW p2, NEW c2
  PROVE  Stack(s, p2, c2)
  <1>1. ASSUME NEW i \in 1 .. Len(s), NEW j \in 1 .. Len(s), Deeper(s, i, j), s[j].ex
        PROVE  FALSE
    <2>1. j = Len(s) /\ p = "try" /\ c \in Pushing
      BY <1>1 DEF Stack, Topmost
    <2> QED
      BY <1>1, <2>1
  <1> QED
    BY <1>1 DEF Stack

\* From one place of _lwkt_trytokref() to another.
LEMMA PlaceWithin ==
  ASSUME NEW s, NEW h, NEW w, NEW p \in TryPCs, NEW c, Place(s, h, w, p, c),
         NEW p2 \in TryPCs, c = "try" => p2 \in {"try", "setref"},
         p2 \in {"setref", "setreq", "setlast"} => s[Head(w)].ex
  PROVE  Place(s, h, w, p2, c)
  BY DEF Place, TryPCs, PCs, InCalls, Pushing

\* What a step leaves alone, it leaves alone in thread t.
LEMMA Unmoved ==
  ASSUME IInv, NEW t \in Threads
  PROVE  /\ toks = [toks EXCEPT ![t] = toks[t]] /\ have = [have EXCEPT ![t] = have[t]]
         /\ want = [want EXCEPT ![t] = want[t]] /\ pc = [pc EXCEPT ![t] = pc[t]]
         /\ call = [call EXCEPT ![t] = call[t]]
  BY DEF IInv, Types, ThreadTypes

\* The exclusive bit of a free token is won: nobody, the thread itself included,
\* has a reference to it.
LEMMA TakeExclInv ==
  ASSUME IInv, NEW t \in Threads, TakeExcl(t)
  PROVE  StepOK(t)
  <1> DEFINE s == toks[t]
  <1>1. /\ pc[t] \in TryPCs /\ pc[t] # "setref" /\ pc[t] # "cas" /\ Types
        /\ s[Cur(t)].ex /\ Free(Tok(t))
    BY DEF TakeExcl, Trying, TryPCs, IInv
  <1>2. /\ s \in Seq(Ref) /\ Stack(s, pc[t], call[t]) /\ Lists(s, have[t], want[t])
        /\ Place(s, have[t], want[t], pc[t], call[t])
        /\ Len(s) \in Nat /\ Len(s) <= MaxToks[t]
    BY ThreadFacts
  <1>3. /\ Cur(t) \in 1 .. Len(s) /\ Cur(t) \notin ToSet(have[t]) /\ Tok(t) \in Tokens
        /\ Tok(t) = s[Cur(t)].tok /\ Cur(t) = Head(want[t])
        /\ \A i \in 1 .. Len(s) : Deeper(s, i, Cur(t)) => i \in ToSet(have[t])
    BY <1>1, TryFacts DEF Tok, Cur
  <1>4. \A k : Held(t, k) = Among(s, have[t], k) /\ ~ Bare(t, k)
    BY <1>1, HeldIs
  <1>5. Held(t, Tok(t)) = {}
    <2>1. Holds(Tok(t)) = {}
      BY <1>1, <1>3, WordFacts
    <2> QED
      BY <2>1, HoldsAre
  <1>6. \A i \in 1 .. Len(s) : ~ Deeper(s, i, Cur(t))
    BY <1>3, <1>4, <1>5 DEF Among, Deeper
  <1>7. pc[t] = "try" /\ call[t] \in Pushing => Cur(t) = Len(s)
    BY <1>2, OneSeq DEF Place, Cur
  <1>8. Stack(s, "setref", call[t])
    BY <1>2, <1>6, <1>7, StackAlone
  <1>9. Place(s, have[t], want[t], "setref", call[t])
    <2>1. "setref" \in TryPCs /\ s[Head(want[t])].ex
      BY <1>1 DEF TryPCs, Cur
    <2> QED
      BY <1>1, <1>2, <2>1, PlaceWithin
  <1>10. Moves(t, s, have[t], want[t], "setref", call[t])
    BY Unmoved DEF TakeExcl, Goto, Moves, refvars
  <1>11. Frame(t) /\ toks'[t] = s
    BY <1>1, <1>10, MovesFrame
  <1>12. /\ \A k : /\ Tok(t) # k => Held(t, k)' = Held(t, k)
                   /\ Tok(t) = k => Held(t, k)' = Held(t, k) \cup {Cur(t)}
                   /\ Bare(t, k)' <=> Tok(t) = k
    BY <1>1, <1>3, <1>4, <1>10, MovesHeld
  <1>13. /\ CountType' /\ t_count'[Tok(t)].ex /\ t_count'[Tok(t)].cnt = t_count[Tok(t)].cnt
         /\ \A k \in Tokens : k # Tok(t) => t_count'[k] = t_count[k]
    <2> DEFINE r == [t_count[Tok(t)] EXCEPT !.ex = TRUE, !.req = FALSE]
    <2>0. t_count[Tok(t)] \in [ex : BOOLEAN, req : BOOLEAN, cnt : Nat]
      BY <1>1, <1>3 DEF Types
    <2>1. /\ r \in [ex : BOOLEAN, req : BOOLEAN, cnt : Nat]
          /\ r.ex /\ r.cnt = t_count[Tok(t)].cnt
      BY <2>0
    <2>2. t_count' = [t_count EXCEPT ![Tok(t)] = r]
      BY <1>1, <1>3, <2>0 DEF Types, TakeExcl
    <2> HIDE DEF r
    <2> QED
      BY <1>1, <1>3, <2>1, <2>2 DEF CountType, Types
  <1>14. ASSUME NEW k \in Tokens PROVE After(t, k)
    <2>1. Word(k) /\ IsFiniteSet(Holds(k)) /\ t_ref'[k] = t_ref[k]
      BY HoldsFinite DEF IInv, TakeExcl
    <2>2. CASE k # Tok(t)
      <3>1. Same(t, k) /\ SameWord(k)
        BY <1>11, <1>12, <1>13, <2>2 DEF Same, SameWord
      <3> QED
        BY <1>4, <1>11, <1>12, <2>1, <2>2, <3>1, WordSame
    <2>3. CASE k = Tok(t)
      <3>1. Gains(t, k, Cur(t))
        BY <1>5, <1>11, <1>12, <2>3 DEF Gains
      <3>2. toks'[t][Cur(t)].ex /\ Bare(t, k)' /\ Free(k)
        BY <1>1, <1>11, <1>12, <2>3
      <3>3. t_count'[k].ex /\ t_count'[k].cnt = t_count[k].cnt
        BY <1>13, <2>3
      <3> QED
        BY <1>11, <2>1, <3>1, <3>2, <3>3, WordTakeExcl
    <2> QED
      BY <2>2, <2>3
  <1>15. OtherTypes' /\ RefType'
    BY <1>1 DEF OtherTypes, RefType, Types, ThreadTypes, TakeExcl
  <1>16. Local(s, have[t], want[t], "setref", call[t])
    BY <1>2, <1>8, <1>9 DEF Local
  <1> QED
    BY <1>2, <1>10, <1>13, <1>14, <1>15, <1>16, Assemble

\* t_ref is NULL when the bit is won.
LEMMA SetRefNull ==
  ASSUME IInv, NEW t \in Threads, pc[t] = "setref"
  PROVE  /\ pc[t] \in TryPCs /\ Tok(t) \in Tokens /\ toks[t][Cur(t)].ex
         /\ Cur(t) \in Held(t, Tok(t)) /\ t_ref[Tok(t)] = NULL
         /\ \A k : /\ Bare(t, k) <=> Tok(t) = k
                   /\ Tok(t) # k => Held(t, k) = Among(toks[t], have[t], k)
                   /\ Tok(t) = k => Held(t, k) = Among(toks[t], have[t], k) \cup {Cur(t)}
  <1>1. pc[t] \in TryPCs
    BY DEF TryPCs
  <1>2. Tok(t) \in Tokens /\ toks[t][Cur(t)].ex
    BY <1>1, TryFacts, ThreadFacts DEF Place, Cur
  <1>3. \A k : /\ Bare(t, k) <=> Tok(t) = k
               /\ Tok(t) # k => Held(t, k) = Among(toks[t], have[t], k)
               /\ Tok(t) = k => Held(t, k) = Among(toks[t], have[t], k) \cup {Cur(t)}
    BY HeldIs DEF Tok, Cur
  <1>4. Cur(t) \in Held(t, Tok(t)) /\ Bare(t, Tok(t))
    BY <1>3
  <1>5. t_ref[Tok(t)] = NULL
    BY <1>2, <1>4, WordFacts
  <1> QED
    BY <1>1, <1>2, <1>3, <1>4, <1>5

\* The winner of the bit sets t_ref, and has the reference.
LEMMA SetRefInv ==
  ASSUME IInv, NEW t \in Threads, SetRef(t)
  PROVE  StepOK(t)
  <1> DEFINE s == toks[t]
  <1>1. /\ pc[t] = "setref" /\ t_ref' = [t_ref EXCEPT ![Tok(t)] = <<t, Cur(t)>>] /\ Types
        /\ UNCHANGED <<t_count, toks, saw>>
    BY DEF SetRef, IInv
  <1>2. /\ pc[t] \in TryPCs /\ Tok(t) \in Tokens /\ s[Cur(t)].ex
        /\ Cur(t) \in Held(t, Tok(t)) /\ t_ref[Tok(t)] = NULL
        /\ \A k : /\ Bare(t, k) <=> Tok(t) = k
                  /\ Tok(t) # k => Held(t, k) = Among(s, have[t], k)
                  /\ Tok(t) = k => Held(t, k) = Among(s, have[t], k) \cup {Cur(t)}
    BY <1>1, SetRefNull
  <1>3. Acquired(t)
    BY <1>2 DEF SetRef
  <1>4. /\ s \in Seq(Ref) /\ Stack(s, pc[t], call[t]) /\ Len(s) <= MaxToks[t]
        /\ call[t] = "getswitch" => s[Len(s)].ex
    BY ThreadFacts DEF Place
  <1>5. Stack(s, "run", "none") /\ toks' = [toks EXCEPT ![t] = s]
    BY <1>1, <1>4, StackMove, Unmoved DEF Settled
  <1>6. PICK h, w, p, c : /\ Moves(t, s, h, w, p, c) /\ Local(s, h, w, p, c)
                          /\ p \notin {"setref", "cas"}
                          /\ ToSet(h) = ToSet(have[t]) \cup {Cur(t)}
                          /\ spinning' \in [Threads -> 0 .. SpinLoops]
                          /\ idle' \in [Threads -> BOOLEAN]
    BY <1>2, <1>3, <1>4, <1>5, AcquiredStep
  <1>7. /\ Frame(t) /\ toks'[t] = s
        /\ \A k : Held(t, k)' = Among(s, h, k) /\ ~ Bare(t, k)'
    <2>1. p # "setref"
      BY <1>6
    <2> QED
      BY <1>1, <1>6, <2>1, MovesFrame, MovesHeld
  <1>8. \A k : Held(t, k)' = Held(t, k)
    <2>1. ToSet(h) = ToSet(have[t]) \cup {Cur(t)}
      BY <1>6
    <2>2. \A k : /\ Tok(t) # k => Among(s, h, k) = Among(s, have[t], k)
                 /\ Tok(t) = k => Among(s, h, k) = Among(s, have[t], k) \cup {Cur(t)}
      BY <2>1 DEF Tok, Among
    <2> QED
      BY <1>2, <1>7, <2>2
  <1>9. /\ \A k \in Tokens : k # Tok(t) => t_ref'[k] = t_ref[k]
        /\ t_ref'[Tok(t)] = <<t, Cur(t)>> /\ RefType'
    <2>1. Cur(t) \in Nat
      BY <1>2, TryFacts
    <2> QED
      BY <1>1, <1>2, <2>1 DEF Types, RefType
  <1>10. ASSUME NEW k \in Tokens PROVE After(t, k)
    <2>1. Word(k) /\ Same(t, k) /\ SameWord(k)
      BY <1>1, <1>7, <1>8 DEF IInv, Same, SameWord
    <2>2. CASE k # Tok(t)
      BY <1>2, <1>7, <1>9, <2>1, <2>2, WordSame
    <2>3. CASE k = Tok(t)
      <3>1. <<t, Cur(t)>> \in ExclHolds(k)
        BY <1>2, <2>3, HoldsAre
      <3> QED
        BY <1>7, <1>9, <2>1, <2>3, <3>1, WordSetRef
    <2> QED
      BY <2>2, <2>3
  <1>11. OtherTypes' /\ CountType'
    BY <1>1, <1>6 DEF OtherTypes, CountType, Types, ThreadTypes
  <1> QED
    BY <1>4, <1>6, <1>9, <1>10, <1>11, Assemble
-----------------------------------------------------------------------------
(* Calls, failures and the scheduler *)

\* Of a running thread: it has everything, in the order of its stack.
LEMMA RunFacts ==
  ASSUME IInv, NEW t \in Threads, pc[t] \in {"run", "check"}
  PROVE  /\ have[t] = Up(Len(toks[t])) /\ want[t] = <<>>
         /\ ToSet(have[t]) = 1 .. Len(toks[t])
         /\ Stack(toks[t], "run", "none")
         /\ \A k : Held(t, k) = Among(toks[t], have[t], k) /\ ~ Bare(t, k)
  <1>1. /\ Place(toks[t], have[t], want[t], pc[t], call[t]) /\ toks[t] \in Seq(Ref)
        /\ Stack(toks[t], pc[t], call[t]) /\ Len(toks[t]) \in Nat
    BY ThreadFacts
  <1>2. have[t] = Up(Len(toks[t])) /\ want[t] = <<>>
    BY <1>1 DEF Place
  <1>3. Stack(toks[t], "run", "none")
    BY <1>1, StackMove DEF Settled
  <1>4. \A k : Held(t, k) = Among(toks[t], have[t], k) /\ ~ Bare(t, k)
    <2>1. pc[t] # "setref" /\ pc[t] # "cas"
      OBVIOUS
    <2> QED
      BY <2>1, HeldIs
  <1> QED
    BY <1>1, <1>2, <1>3, <1>4, UpSeq

\* What a call must keep to: lwkt_gettoken() of a token that the thread has.
LEMMA PushInv ==
  ASSUME IInv, NEW t \in Threads, NEW k \in Tokens, NEW x \in BOOLEAN, NEW c \in Pushing,
         Push(t, k, x, c), c = "getshared" <=> ~ x,
         c = "get" => \A i \in 1 .. Len(toks[t]) : toks[t][i].tok = k =>
                         \E j \in 1 .. Len(toks[t]) : toks[t][j].tok = k /\ toks[t][j].ex
  PROVE  StepOK(t)
  <1> DEFINE q == toks[t]
             n == Len(q)
             r == [tok |-> k, ex |-> x, asked |-> x]
             s == Append(q, r)
             w == <<n + 1>>
  <1>1. /\ pc[t] = "run" /\ n < MaxToks[t]
        /\ toks' = [toks EXCEPT ![t] = s] /\ want' = [want EXCEPT ![t] = w]
        /\ pc' = [pc EXCEPT ![t] = "try"] /\ call' = [call EXCEPT ![t] = c]
        /\ UNCHANGED <<t_count, t_ref, have, saw, spinning, idle>>
    BY DEF Push, Goto, tokvars
  <1>2. q \in Seq(Ref) /\ n \in Nat /\ MaxToks[t] \in Nat
    BY ThreadFacts
  <1>3. have[t] = Up(n) /\ ToSet(have[t]) = 1 .. n /\ Stack(q, "run", "none")
    BY <1>1, RunFacts
  <1>4. r \in Ref /\ r.ex = x /\ r.asked = x /\ r.tok = k
    BY DEF Ref
  <1> HIDE DEF r
  <1>5. /\ s \in Seq(Ref) /\ Len(s) = n + 1 /\ s[n + 1] = r /\ s # <<>>
        /\ \A i \in 1 .. n : s[i] = q[i]
    BY <1>2, <1>4, AppendProperties
  <1> HIDE DEF s
  <1>6. Stack(s, "try", c)
    BY <1>2, <1>3, <1>4, StackPush DEF s
  <1>7. Lists(s, have[t], w)
    <2>1. (n + 1) - 1 = n
      BY <1>2
    <2> QED
      BY <1>3, <1>5, <2>1, UpLists
  <1>8. ToSet(have[t]) \cup ToSet(w) = 1 .. Len(s) /\ w # <<>>
    BY <1>2, <1>3, <1>5, OneSeq
  <1>9. c = "get" => Contract(s)
    <2> SUFFICES ASSUME c = "get", NEW i \in 1 .. n + 1, Deeper(s, i, n + 1)
                 PROVE  \E j \in 1 .. n + 1 : Deeper(s, j, n + 1) /\ s[j].ex
      BY <1>5 DEF Contract
    <2>1. i \in 1 .. n /\ q[i].tok = k
      BY <1>2, <1>4, <1>5 DEF Deeper
    <2>2. PICK j \in 1 .. n : q[j].tok = k /\ q[j].ex
      BY <2>1
    <2>3. j \in 1 .. n + 1 /\ Deeper(s, j, n + 1) /\ s[j].ex
      BY <1>2, <1>4, <1>5, <2>2 DEF Deeper
    <2> QED
      BY <2>3
  <1>10. Place(s, have[t], w, "try", c)
    <2>1. have[t] = Up(Len(s) - 1) /\ w = <<Len(s)>>
      BY <1>2, <1>3, <1>5
    <2>2. c \in {"get", "try"} <=> s[Len(s)].ex
      BY <1>4, <1>5 DEF Pushing
    <2> QED
      BY <1>5, <1>8, <1>9, <2>1, <2>2 DEF Place, PCs, InCalls, Pushing, TryPCs
  <1>11. Local(s, have[t], w, "try", c)
    BY <1>6, <1>7, <1>10 DEF Local
  <1>12. Moves(t, s, have[t], w, "try", c)
    BY <1>1, Unmoved DEF Moves
  <1>13. OtherTypes' /\ CountType' /\ t_ref' = t_ref /\ \A l \in Tokens : SameWord(l)
    BY <1>1 DEF IInv, Types, ThreadTypes, OtherTypes, CountType, SameWord
  <1>14. Len(s) <= MaxToks[t] /\ \A i \in ToSet(have[t]) : s[i] = toks[t][i]
    BY <1>1, <1>2, <1>3, <1>5
  <1>15. pc[t] \notin {"setref", "cas"} /\ "try" \notin {"setref", "cas"}
    BY <1>1
  <1> QED
    BY <1>11, <1>12, <1>13, <1>14, <1>15, QuietStep

\* A thread that has everything begins to release: one reference, or all.
LEMMA BeginRelease ==
  ASSUME IInv, NEW t \in Threads, pc[t] = "run", toks[t] # <<>>, NEW c \in {"rel",
         "switch"},
         pc' = [pc EXCEPT ![t] = "rel"], call' = [call EXCEPT ![t] = c],
         UNCHANGED <<tokvars, refvars>>, OtherTypes'
  PROVE  StepOK(t)
  <1>1. have[t] = Up(Len(toks[t])) /\ want[t] = <<>> /\ Stack(toks[t], "run", "none")
    BY RunFacts
  <1>2. /\ Lists(toks[t], have[t], want[t]) /\ toks[t] \in Seq(Ref)
        /\ Len(toks[t]) <= MaxToks[t]
    BY ThreadFacts
  <1>3. Place(toks[t], have[t], want[t], "rel", c)
    BY <1>1 DEF Place, PCs, InCalls, Pushing, TryPCs
  <1>4. Stack(toks[t], "rel", c)
    BY <1>1, <1>2, StackMove DEF Settled
  <1>5. Local(toks[t], have[t], want[t], "rel", c)
    BY <1>2, <1>3, <1>4 DEF Local
  <1>6. Moves(t, toks[t], have[t], want[t], "rel", c)
    BY Unmoved DEF Moves, refvars
  <1>7. CountType' /\ t_ref' = t_ref /\ \A k \in Tokens : SameWord(k)
    BY DEF IInv, Types, CountType, SameWord, tokvars
  <1>8. pc[t] \notin {"setref", "cas"} /\ "rel" \notin {"setref", "cas"}
    OBVIOUS
  <1> QED
    BY <1>2, <1>5, <1>6, <1>7, <1>8, QuietStep

\* lwkt_reltoken() begins with the reference on top.
LEMMA ReltokenInv ==
  ASSUME IInv, NEW t \in Threads, Reltoken(t)
  PROVE  StepOK(t)
  <1>1. OtherTypes'
    BY DEF Reltoken, IInv, Types, ThreadTypes, OtherTypes
  <1> QED
    BY <1>1, BeginRelease DEF Reltoken, Goto

\* lwkt_switch() begins to release everything.
LEMMA SwitchInv ==
  ASSUME IInv, NEW t \in Threads, NEW b \in BOOLEAN, Switch(t, b)
  PROVE  StepOK(t)
  <1>1. OtherTypes'
    BY DEF Switch, IInv, Types, ThreadTypes, OtherTypes
  <1> QED
    BY <1>1, BeginRelease DEF Switch, Goto

\* lwkt_gettoken() has its token through its own reference after a switch.
LEMMA CheckRefHolds ==
  ASSUME IInv, NEW t \in Threads, pc[t] = "check"
  PROVE  t_ref[toks[t][Len(toks[t])].tok] = <<t, Len(toks[t])>>
  <1> DEFINE n == Len(toks[t])
             k == toks[t][n].tok
  <1>1. /\ ToSet(have[t]) = 1 .. n
        /\ \A l : Held(t, l) = Among(toks[t], have[t], l) /\ ~ Bare(t, l)
    BY RunFacts
  <1>2. toks[t] # <<>> /\ toks[t][n].ex /\ toks[t] \in Seq(Ref) /\ n \in Nat
    BY ThreadFacts DEF Place
  <1>3. n \in 1 .. n
    BY <1>2, EmptySeq
  <1>4. k \in Tokens
    <2>1. toks[t][n] \in Ref
      BY <1>2, <1>3, ElementOfSeq
    <2> QED
      BY <2>1 DEF Ref
  <1>5. n \in Held(t, k) /\ ~ Bare(t, k)
    BY <1>1, <1>3 DEF Among
  <1> HIDE DEF k
  <1>6. t_ref[k] = <<t, n>>
    BY <1>2, <1>4, <1>5, WordFacts
  <1> QED
    BY <1>6 DEF k

\* lwkt_gettoken() returns after its switch.
LEMMA CheckRefInv ==
  ASSUME IInv, NEW t \in Threads, CheckRef(t)
  PROVE  StepOK(t)
  <1>1. pc[t] = "check" /\ UNCHANGED <<tokvars, refvars, saw, spinning, idle>>
    BY DEF CheckRef
  <1>2. have[t] = Up(Len(toks[t])) /\ want[t] = <<>> /\ Stack(toks[t], "run", "none")
    BY <1>1, RunFacts
  <1>3. Lists(toks[t], have[t], want[t]) /\ Len(toks[t]) <= MaxToks[t]
    BY ThreadFacts
  <1>4. Place(toks[t], have[t], want[t], "run", "none")
    BY <1>2 DEF Place, PCs, InCalls, Pushing, TryPCs
  <1>5. Local(toks[t], have[t], want[t], "run", "none")
    BY <1>2, <1>3, <1>4 DEF Local
  <1>6. pc' = [pc EXCEPT ![t] = "run"] /\ call' = [call EXCEPT ![t] = "none"]
    BY <1>1, CheckRefHolds DEF CheckRef, Goto
  <1>7. Moves(t, toks[t], have[t], want[t], "run", "none")
    BY <1>1, <1>6, Unmoved DEF Moves, refvars
  <1>8. OtherTypes' /\ CountType' /\ t_ref' = t_ref /\ \A k \in Tokens : SameWord(k)
    BY <1>1 DEF IInv, Types, ThreadTypes, CountType, OtherTypes, SameWord, tokvars
  <1>9. pc[t] \notin {"setref", "cas"} /\ "run" \notin {"setref", "cas"}
    BY <1>1
  <1> QED
    BY <1>3, <1>5, <1>7, <1>8, <1>9, QuietStep

\* A thread that must wait has no deeper reference to the token: by contract that
\* would be an exclusive one, and t_ref would point to it.
LEMMA ContendedStack ==
  ASSUME IInv, NEW t \in Threads, Trying(t), Contended(t), call[t] # "try", NEW p, NEW c
  PROVE  Stack(toks[t], p, c)
  <1> DEFINE s == toks[t]
             n == Len(s)
  <1>1. pc[t] \in TryPCs /\ pc[t] # "setref" /\ pc[t] # "cas"
    BY DEF Trying, TryPCs
  <1>2. /\ s \in Seq(Ref) /\ Stack(s, pc[t], call[t]) /\ n \in Nat
        /\ Place(s, have[t], want[t], pc[t], call[t])
    BY ThreadFacts
  <1>3. /\ Tok(t) \in Tokens /\ Tok(t) = s[Cur(t)].tok
        /\ \A i \in 1 .. n : Deeper(s, i, Cur(t)) => i \in ToSet(have[t])
    BY <1>1, TryFacts DEF Tok
  <1>4. ASSUME pc[t] = "try", call[t] \in Pushing, NEW i \in 1 .. n, Deeper(s, i, n),
               s[n].ex
        PROVE  FALSE
    <2>1. call[t] = "get" /\ Contract(s) /\ Cur(t) = n
      BY <1>2, <1>4, OneSeq DEF Place, Pushing, Cur
    <2>2. PICK j \in 1 .. n : Deeper(s, j, n) /\ s[j].ex
      BY <1>4, <2>1 DEF Contract
    <2>3. j \in Held(t, Tok(t)) /\ ~ Bare(t, Tok(t))
      <3>1. j \in Among(s, have[t], Tok(t))
        BY <1>3, <2>1, <2>2 DEF Among, Deeper
      <3> QED
        BY <3>1, <1>1, HeldIs
    <2>4. t_count[Tok(t)].ex /\ t_ref[Tok(t)] = <<t, j>>
      <3>1. j \in Held(t, Tok(t)) /\ toks[t][j].ex /\ Tok(t) \in Tokens
        BY <1>3, <2>2, <2>3
      <3>2. /\ t_count[Tok(t)].ex
            /\ ~ Bare(t, Tok(t)) => t_ref[Tok(t)] = <<t, j>>
        BY <3>1, WordFacts
      <3> QED
        BY <3>2, <2>3
    <2>5. <<t, j>> # NULL /\ <<t, j>>[1] = t
      BY <2>2, TokensAssumption
    <2>6. Mine(t, Tok(t))
      BY <2>4, <2>5 DEF Mine
    <2> QED
      BY <2>6 DEF Contended
  <1> QED
    BY <1>2, <1>4, StackAlone

\* A request only sets TOK_EXCLREQ.
LEMMA RequestCounts ==
  ASSUME IInv, NEW k \in Tokens, t_count' = [t_count EXCEPT ![k].req = TRUE]
  PROVE  CountType' /\ \A l \in Tokens : SameWord(l)
  <1> DEFINE r == [t_count[k] EXCEPT !.req = TRUE]
  <1>1. t_count \in [Tokens -> [ex : BOOLEAN, req : BOOLEAN, cnt : Nat]]
    BY DEF IInv, Types
  <1>2. t_count[k] \in [ex : BOOLEAN, req : BOOLEAN, cnt : Nat]
    BY <1>1
  <1>3. /\ r \in [ex : BOOLEAN, req : BOOLEAN, cnt : Nat]
        /\ (r.ex <=> t_count[k].ex) /\ r.cnt = t_count[k].cnt
    BY <1>2
  <1>4. t_count' = [t_count EXCEPT ![k] = r]
    BY <1>1
  <1> HIDE DEF r
  <1> QED
    BY <1>1, <1>3, <1>4 DEF CountType, SameWord

\* Nothing that is about tokens changes when a thread gives up.
LEMMA GiveUpInv ==
  ASSUME IInv, NEW t \in Threads, pc[t] \in TryPCs, pc[t] # "setref", GiveUp(t),
         call[t] # "try" => Stack(toks[t], "run", "none"),
         CountType', t_ref' = t_ref, \A k \in Tokens : SameWord(k)
  PROVE  StepOK(t)
  <1> DEFINE q == toks[t]
             n == Len(q)
  <1>1. /\ Lists(q, have[t], want[t]) /\ Place(q, have[t], want[t], pc[t], call[t])
        /\ Stack(q, pc[t], call[t]) /\ q \in Seq(Ref) /\ n \in Nat
        /\ n <= MaxToks[t] /\ MaxToks[t] \in Nat
    BY ThreadFacts
  <1>2. /\ want' = [want EXCEPT ![t] = <<>>] /\ have' = have
        /\ saw' = saw /\ idle' = idle
    BY DEF GiveUp
  <1>3. pc[t] \notin {"setref", "cas"}
    BY DEF TryPCs
  <1>4. /\ saw \in [Threads -> BOOLEAN] /\ idle \in [Threads -> BOOLEAN]
        /\ spinning \in [Threads -> 0 .. SpinLoops]
    BY DEF IInv, Types, ThreadTypes
  <1>5. CASE call[t] = "try"
    <2> DEFINE s == Front(q)
    <2>1. /\ toks' = [toks EXCEPT ![t] = s] /\ pc' = [pc EXCEPT ![t] = "run"]
          /\ call' = [call EXCEPT ![t] = "none"] /\ spinning' = spinning
      BY <1>5 DEF GiveUp, Goto
    <2>2. q # <<>> /\ have[t] = Up(n - 1)
      BY <1>1, <1>5 DEF Place, Pushing
    <2>3. /\ n \in Nat \ {0} /\ s \in Seq(Ref) /\ Len(s) = n - 1
          /\ \A i \in 1 .. n - 1 : s[i] = q[i]
      BY <1>1, <2>2, FrontSeq
    <2>4. Stack(s, "run", "none")
      BY <1>1, <2>2, StackPop
    <2> HIDE DEF s
    <2>5. Lists(s, have[t], <<>>)
      BY <2>2, <2>3, UpLists
    <2>6. Place(s, have[t], <<>>, "run", "none")
      BY <2>2, <2>3 DEF Place, PCs, InCalls, Pushing, TryPCs
    <2>7. Local(s, have[t], <<>>, "run", "none")
      BY <2>4, <2>5, <2>6 DEF Local
    <2>8. Moves(t, s, have[t], <<>>, "run", "none")
      BY <1>2, <2>1, Unmoved DEF Moves
    <2>9. OtherTypes'
      BY <1>2, <1>4, <2>1 DEF OtherTypes
    <2>10. ToSet(have[t]) = 1 .. n - 1
      BY <2>2, <2>3, UpSeq
    <2>11. Len(s) <= MaxToks[t] /\ \A i \in ToSet(have[t]) : s[i] = toks[t][i]
      BY <1>1, <2>3, <2>10
    <2>12. "run" \notin {"setref", "cas"}
      OBVIOUS
    <2> QED
      BY <1>3, <2>7, <2>8, <2>9, <2>11, <2>12, QuietStep
  <1>6. CASE call[t] # "try"
    <2> DEFINE c == CASE call[t] = "get" -> "getswitch"
                      [] call[t] = "getshared" -> "switch"
                      [] OTHER -> call[t]
    <2>1. /\ toks' = toks /\ pc' = [pc EXCEPT ![t] = "rel"]
          /\ call' = [call EXCEPT ![t] = c]
      BY <1>6 DEF GiveUp, Goto
    <2>2. OtherTypes'
      <3>1. spinning' \in [Threads -> 0 .. SpinLoops]
        <4>1. SpinLoops \in Nat /\ spinning[t] \in 0 .. SpinLoops
          BY <1>4, TokensAssumption
        <4>2. \/ spinning' = spinning
              \/ spinning' = [spinning EXCEPT ![t] = spinning[t] + 1]
                 /\ spinning[t] < SpinLoops
          BY <1>6 DEF GiveUp, CountSpin
        <4>3. spinning[t] < SpinLoops => spinning[t] + 1 \in 0 .. SpinLoops
          BY <4>1
        <4> QED
          BY <1>4, <4>2, <4>3
      <3> QED
        BY <1>2, <1>4, <3>1 DEF OtherTypes
    <2>3. /\ call[t] \in {"get", "getshared", "switch", "getswitch"}
          /\ call[t] \in {"get", "getswitch"} => q[n].ex
          /\ q # <<>>
      BY <1>1, <1>6 DEF Place, InCalls, TryPCs
    <2>4. c \in {"switch", "getswitch"} /\ (c = "getswitch" => q[n].ex)
      BY <2>3
    <2> HIDE DEF c
    <2>5. Place(q, have[t], <<>>, "rel", c)
      BY <2>3, <2>4 DEF Place, PCs, InCalls, Pushing, TryPCs
    <2>6. Stack(q, "rel", c)
      BY <1>1, <1>6, StackMove DEF Settled
    <2>7. Local(q, have[t], <<>>, "rel", c)
      BY <1>1, <2>5, <2>6, GiveUpLists DEF Local
    <2>8. Moves(t, q, have[t], <<>>, "rel", c)
      BY <1>2, <2>1, Unmoved DEF Moves
    <2>9. "rel" \notin {"setref", "cas"}
      OBVIOUS
    <2> QED
      BY <1>1, <1>3, <2>2, <2>7, <2>8, <2>9, QuietStep
  <1> QED
    BY <1>5, <1>6

\* A failure that leaves TOK_EXCLREQ as it is.
LEMMA FailInv ==
  ASSUME IInv, NEW t \in Threads, Fail(t)
  PROVE  StepOK(t)
  <1>1. Trying(t) /\ Contended(t) /\ GiveUp(t) /\ UNCHANGED tokvars
    BY DEF Fail
  <1>2. pc[t] \in TryPCs /\ pc[t] # "setref" /\ Trying(t)
    BY <1>1 DEF TryPCs, Trying
  <1>3. call[t] # "try" => Stack(toks[t], "run", "none")
    BY <1>1, <1>2, ContendedStack
  <1>4. CountType' /\ t_ref' = t_ref /\ \A k \in Tokens : SameWord(k)
    BY <1>1 DEF IInv, Types, CountType, SameWord, tokvars
  <1> QED
    BY <1>1, <1>2, <1>3, <1>4, GiveUpInv

\* A failure that is going to set TOK_EXCLREQ.
LEMMA FailRequestInv ==
  ASSUME IInv, NEW t \in Threads, FailRequest(t)
  PROVE  StepOK(t)
  <1>p. PICK p \in {"setreq", "setlast"} : pc' = [pc EXCEPT ![t] = p]
    BY DEF FailRequest, Goto
  <1>1. /\ Trying(t) /\ Contended(t) /\ toks[t][Cur(t)].ex /\ call[t] # "try"
        /\ UNCHANGED <<tokvars, refvars, call, saw, spinning, idle>>
        /\ pc' = [pc EXCEPT ![t] = p]
    BY <1>p DEF FailRequest, Requests
  <1>2. pc[t] \in TryPCs /\ p \in TryPCs /\ Trying(t)
    BY <1>1 DEF TryPCs, Trying
  <1>3. /\ Lists(toks[t], have[t], want[t]) /\ Len(toks[t]) <= MaxToks[t]
        /\ Place(toks[t], have[t], want[t], pc[t], call[t])
    BY ThreadFacts
  <1>4. Place(toks[t], have[t], want[t], p, call[t])
    BY <1>1, <1>2, <1>3, PlaceWithin DEF Cur
  <1>5. Stack(toks[t], p, call[t])
    BY <1>1, <1>2, ContendedStack
  <1>6. Local(toks[t], have[t], want[t], p, call[t])
    BY <1>3, <1>4, <1>5 DEF Local
  <1>7. Moves(t, toks[t], have[t], want[t], p, call[t])
    BY <1>1, Unmoved DEF Moves, refvars
  <1>8. OtherTypes' /\ CountType' /\ t_ref' = t_ref /\ \A k \in Tokens : SameWord(k)
    BY <1>1 DEF IInv, Types, ThreadTypes, CountType, OtherTypes, SameWord, tokvars
  <1>9. pc[t] \notin {"setref", "cas"} /\ p \notin {"setref", "cas"}
    BY <1>1 DEF Trying
  <1> QED
    BY <1>3, <1>6, <1>7, <1>8, <1>9, QuietStep

\* TOK_EXCLREQ is set; the reference on top is tried again, or it was the last try.
LEMMA SetReqInv ==
  ASSUME IInv, NEW t \in Threads, SetReq(t)
  PROVE  StepOK(t)
  <1>1. /\ pc[t] \in {"setreq", "setlast"} /\ t_ref' = t_ref
        /\ t_count' = [t_count EXCEPT ![Tok(t)].req = TRUE]
    BY DEF SetReq
  <1>2. pc[t] \in TryPCs /\ "again" \in TryPCs /\ pc[t] # "setref"
    BY <1>1 DEF TryPCs
  <1>3. /\ Lists(toks[t], have[t], want[t]) /\ Len(toks[t]) <= MaxToks[t]
        /\ Place(toks[t], have[t], want[t], pc[t], call[t])
        /\ toks[t] \in Seq(Ref) /\ Stack(toks[t], pc[t], call[t])
    BY ThreadFacts
  <1>4. Stack(toks[t], "run", "none") /\ Stack(toks[t], "again", call[t])
    BY <1>1, <1>3, StackMove DEF Settled
  <1>5. CountType' /\ \A k \in Tokens : SameWord(k)
    BY <1>1, <1>2, TryFacts, RequestCounts
  <1>6. CASE pc[t] = "setreq"
    <2>1. /\ UNCHANGED <<refvars, call, saw, spinning, idle>>
          /\ pc' = [pc EXCEPT ![t] = "again"]
      BY <1>6 DEF SetReq, Goto
    <2>2. call[t] # "try"
      BY <1>1, <1>3 DEF Place
    <2>3. Place(toks[t], have[t], want[t], "again", call[t])
      BY <1>2, <1>3, <2>2, PlaceWithin
    <2>4. Local(toks[t], have[t], want[t], "again", call[t])
      BY <1>3, <1>4, <2>3 DEF Local
    <2>5. Moves(t, toks[t], have[t], want[t], "again", call[t])
      BY <2>1, Unmoved DEF Moves, refvars
    <2>6. OtherTypes'
      BY <2>1 DEF IInv, Types, ThreadTypes, OtherTypes
    <2>7. pc[t] \notin {"setref", "cas"} /\ "again" \notin {"setref", "cas"}
      BY <1>1
    <2> QED
      BY <1>1, <1>3, <1>5, <2>4, <2>5, <2>6, <2>7, QuietStep
  <1>7. CASE pc[t] # "setreq"
    <2>1. GiveUp(t)
      BY <1>7 DEF SetReq
    <2> QED
      BY <1>1, <1>2, <1>4, <1>5, <2>1, GiveUpInv
  <1> QED
    BY <1>6, <1>7

\* The stack in its own order, nothing acquired yet.
LEMMA AllLists ==
  ASSUME NEW s \in Seq(Ref)
  PROVE  Lists(s, <<>>, Up(Len(s)))
  <1> DEFINE n == Len(s)
             w == Up(n)
  <1>1. n \in Nat
    BY LenProperties
  <1>2. /\ w \in Seq(Nat) /\ Len(w) = n /\ \A i \in 1 .. n : w[i] = i
        /\ ToSet(w) = 1 .. n /\ IsInjective(w)
    BY <1>1, UpSeq
  <1> HIDE DEF w
  <1>3. <<>> \in Seq(Nat) /\ Len(<<>>) = 0 /\ ToSet(<<>>) = {} /\ IsInjective(<<>>)
    BY NoneSeq
  <1>4. \A q \in 1 .. Len(w), i \in 1 .. Len(s) :
           Deeper(s, i, w[q]) => \E o \in 1 .. q - 1 : w[o] = i
    BY <1>1, <1>2 DEF Deeper
  <1>5. \A q \in 1 .. Len(<<>>), i \in 1 .. Len(s) :
           Deeper(s, i, <<>>[q]) => \E o \in 1 .. q - 1 : <<>>[o] = i
    BY <1>3
  <1>6. Lists(s, <<>>, w)
    BY <1>2, <1>3, <1>4, <1>5 DEF Lists
  <1> QED
    BY <1>6 DEF w

\* lwkt_getalltokens() begins, in the order of the stack or of the addresses.
LEMMA GetAllTokensInv ==
  ASSUME IInv, NEW t \in Threads, GetAllTokens(t)
  PROVE  StepOK(t)
  <1> DEFINE s == toks[t]
             n == Len(s)
  <1>1. /\ pc[t] = "rel" /\ have[t] = <<>> /\ call[t] # "rel"
        /\ pc' = [pc EXCEPT ![t] = "try"]
        /\ UNCHANGED <<tokvars, toks, have, call, saw, spinning, idle>>
    BY DEF GetAllTokens, Goto
  <1>2. PICK w \in Order(t) : want' = [want EXCEPT ![t] = w]
    BY DEF GetAllTokens
  <1>3. /\ s \in Seq(Ref) /\ n \in Nat /\ n <= MaxToks[t]
        /\ Place(s, have[t], want[t], pc[t], call[t]) /\ Stack(s, pc[t], call[t])
    BY ThreadFacts
  <1>4. /\ call[t] \in {"switch", "getswitch"} /\ s # <<>>
        /\ call[t] = "getswitch" => s[n].ex
    BY <1>1, <1>3 DEF Place, InCalls, Pushing, TryPCs
  <1>5. Lists(s, <<>>, w) /\ ToSet(w) = 1 .. n
    <2>1. CASE spinning[t] < SpinLoops
      <3>1. w = Up(n)
        BY <1>2, <2>1 DEF Order, All, Up
      <3> QED
        BY <1>3, <3>1, AllLists, UpSeq
    <2>2. CASE ~ (spinning[t] < SpinLoops)
      <3>1. /\ w \in [1 .. n -> 1 .. n] /\ ToSet(w) = 1 .. n
            /\ \A i, j \in 1 .. n : i < j => Before(t, w[i], w[j])
        BY <1>2, <2>2 DEF Order
      <3>2. \A i, j \in 1 .. n : i < j => \/ s[w[i]].tok < s[w[j]].tok
                                          \/ s[w[i]].tok = s[w[j]].tok /\ w[i] < w[j]
        BY <3>1 DEF Before
      <3> QED
        BY <1>3, <3>1, <3>2, SortedLists
    <2> QED
      BY <2>1, <2>2
  <1>6. w # <<>>
    <2>1. 1 \in ToSet(w)
      BY <1>3, <1>4, <1>5, EmptySeq
    <2> QED
      BY <2>1, NoneSeq
  <1>7. Place(s, <<>>, w, "try", call[t])
    BY <1>4, <1>5, <1>6, NoneSeq DEF Place, PCs, InCalls, Pushing, TryPCs
  <1>8. Stack(s, "try", call[t])
    BY <1>1, <1>3, StackMove DEF Settled
  <1>9. Local(s, have[t], w, "try", call[t])
    BY <1>1, <1>5, <1>7, <1>8 DEF Local
  <1>10. Moves(t, s, have[t], w, "try", call[t])
    BY <1>1, <1>2, Unmoved DEF Moves
  <1>11. OtherTypes' /\ CountType' /\ t_ref' = t_ref /\ \A k \in Tokens : SameWord(k)
    BY <1>1 DEF IInv, Types, ThreadTypes, CountType, OtherTypes, SameWord, tokvars
  <1>12. pc[t] \notin {"setref", "cas"} /\ "try" \notin {"setref", "cas"}
    BY <1>1
  <1> QED
    BY <1>3, <1>9, <1>10, <1>11, <1>12, QuietStep
-----------------------------------------------------------------------------
(* Releases, and lwkt_token_swap() *)

\* The reference acquired last is released, and taken off the stack by
\* lwkt_reltoken().
LEMMA ReleasedStep ==
  ASSUME IInv, NEW t \in Threads, have[t] # <<>>, pc[t] \in {"rel", "cas"},
         Released(t), want' = want
  PROVE  \E s, p, c : /\ Moves(t, s, Front(have[t]), <<>>, p, c)
                      /\ Local(s, Front(have[t]), <<>>, p, c)
                      /\ p \notin {"setref", "cas"} /\ Len(s) <= MaxToks[t]
                      /\ \A i \in ToSet(Front(have[t])) : s[i] = toks[t][i]
  <1> DEFINE q == toks[t]
             n == Len(q)
             h == Front(have[t])
  <1>1. /\ Lists(q, have[t], want[t]) /\ Place(q, have[t], want[t], pc[t], call[t])
        /\ Stack(q, pc[t], call[t]) /\ q \in Seq(Ref) /\ n \in Nat
        /\ n <= MaxToks[t] /\ MaxToks[t] \in Nat
    BY ThreadFacts
  <1>2. have' = [have EXCEPT ![t] = h] /\ want' = [want EXCEPT ![t] = <<>>]
    BY <1>1, Unmoved DEF Released, Place
  <1>3. CASE call[t] = "rel"
    <2> DEFINE s == Front(q)
    <2>1. /\ toks' = [toks EXCEPT ![t] = s] /\ pc' = [pc EXCEPT ![t] = "run"]
          /\ call' = [call EXCEPT ![t] = "none"]
      BY <1>3 DEF Released, Goto
    <2>2. q # <<>> /\ have[t] = Up(n)
      BY <1>1, <1>3 DEF Place
    <2>3. /\ n \in Nat \ {0} /\ s \in Seq(Ref) /\ Len(s) = n - 1
          /\ \A i \in 1 .. n - 1 : s[i] = q[i]
      BY <1>1, <2>2, FrontSeq
    <2>4. Stack(s, "run", "none")
      BY <1>1, <2>2, StackPop
    <2>5. h = Up(n - 1)
      BY <2>2, <2>3, UpFront
    <2> HIDE DEF s, h
    <2>6. Lists(s, h, <<>>)
      BY <2>3, <2>5, UpLists
    <2>7. Place(s, h, <<>>, "run", "none")
      BY <2>3, <2>5 DEF Place, PCs, InCalls, Pushing, TryPCs
    <2>8. Local(s, h, <<>>, "run", "none")
      BY <2>4, <2>6, <2>7 DEF Local
    <2>9. Moves(t, s, h, <<>>, "run", "none")
      BY <1>2, <2>1 DEF Moves
    <2>10. ToSet(h) = 1 .. n - 1
      BY <2>3, <2>5, UpSeq
    <2>11. Len(s) <= MaxToks[t] /\ \A i \in ToSet(h) : s[i] = q[i]
      BY <1>1, <2>3, <2>10
    <2>12. "run" \notin {"setref", "cas"}
      OBVIOUS
    <2> QED
      BY <2>8, <2>9, <2>11, <2>12 DEF h
  <1>4. CASE call[t] # "rel"
    <2>1. toks' = toks /\ pc' = [pc EXCEPT ![t] = "rel"] /\ call' = call
      BY <1>4 DEF Released, Goto
    <2>2. /\ call[t] \in {"switch", "getswitch"} /\ q # <<>>
          /\ call[t] = "getswitch" => q[n].ex
      BY <1>1, <1>4 DEF Place, InCalls, Pushing, TryPCs
    <2>3. Lists(q, h, <<>>)
      BY <1>1, ReleaseLists
    <2> HIDE DEF h
    <2>4. Place(q, h, <<>>, "rel", call[t])
      BY <2>2 DEF Place, PCs, InCalls, Pushing, TryPCs
    <2>5. Stack(q, "rel", call[t])
      BY <1>1, StackMove DEF Settled
    <2>6. Local(q, h, <<>>, "rel", call[t])
      BY <2>3, <2>4, <2>5 DEF Local
    <2>7. Moves(t, q, h, <<>>, "rel", call[t])
      BY <1>2, <2>1, Unmoved DEF Moves
    <2>8. "rel" \notin {"setref", "cas"} /\ \A i \in ToSet(h) : q[i] = toks[t][i]
      OBVIOUS
    <2> QED
      BY <1>1, <2>6, <2>7, <2>8 DEF h
  <1> QED
    BY <1>3, <1>4

\* What the thread has is one reference less.
LEMMA LoseStep ==
  ASSUME IInv, NEW t \in Threads, have[t] # <<>>, pc[t] \in {"rel", "cas"}, NEW s, NEW p,
         NEW c,
         Moves(t, s, Front(have[t]), <<>>, p, c), p \notin {"setref", "cas"},
         \A i \in ToSet(Front(have[t])) : s[i] = toks[t][i]
  PROVE  /\ Frame(t)
         /\ \A k : /\ k = RelTok(t) => Loses(t, k, RelRef(t))
                   /\ k # RelTok(t) => Same(t, k)
                   /\ ~ Bare(t, k)'
  <1> DEFINE q == toks[t]
             h == Front(have[t])
  <1>1. pc[t] # "setref" /\ p # "setref" /\ Types
    BY DEF IInv
  <1>2. ToSet(h) = ToSet(have[t]) \ {RelRef(t)}
    BY ThreadFacts, ReleaseLists DEF RelRef
  <1>3. Frame(t) /\ toks'[t] = s
    BY <1>1, MovesFrame
  <1>4. \A k : /\ Held(t, k)' = Among(s, h, k) /\ ~ Bare(t, k)'
               /\ Held(t, k) = Among(q, have[t], k)
    BY <1>1, MovesHeld, HeldIs
  <1> HIDE DEF h
  <1>5. \A i \in ToSet(h) : s[i] = q[i]
    BY DEF h
  <1>6. /\ Among(s, h, RelTok(t)) = Among(q, have[t], RelTok(t)) \ {RelRef(t)}
        /\ \A k : k # RelTok(t) => Among(s, h, k) = Among(q, have[t], k)
    BY <1>2, <1>5 DEF Among, RelTok
  <1>7. \A k : \A i \in Held(t, k)' : toks'[t][i] = toks[t][i]
    BY <1>3, <1>4, <1>5 DEF Among
  <1>8. ASSUME NEW k, k = RelTok(t) PROVE Loses(t, k, RelRef(t))
    <2>1. RelRef(t) \in Held(t, k)
      BY <1>8, RelFacts
    <2>2. Held(t, k)' = Held(t, k) \ {RelRef(t)}
      BY <1>4, <1>6, <1>8
    <2> QED
      BY <1>7, <2>1, <2>2 DEF Loses
  <1>9. ASSUME NEW k, k # RelTok(t) PROVE Same(t, k)
    BY <1>4, <1>6, <1>7, <1>9 DEF Same
  <1> QED
    BY <1>3, <1>4, <1>8, <1>9

\* A counted reference is released.
LEMMA RelSharedInv ==
  ASSUME IInv, NEW t \in Threads, RelShared(t)
  PROVE  StepOK(t)
  <1> DEFINE k0 == RelTok(t)
  <1>1. /\ pc[t] = "rel" /\ have[t] # <<>> /\ t_ref[k0] # <<t, RelRef(t)>>
        /\ UNCHANGED <<t_ref, want, saw, spinning, idle>> /\ Types
    BY DEF RelShared, IInv
  <1>2. k0 \in Tokens /\ RelRef(t) \in Held(t, k0)
    BY <1>1, RelFacts
  <1>3. \A k : ~ Bare(t, k)
    BY <1>1, HeldIs
  <1>4. ~ toks[t][RelRef(t)].ex
    <2>1. toks[t][RelRef(t)].ex => (~ Bare(t, k0) => t_ref[k0] = <<t, RelRef(t)>>)
      BY <1>2, WordFacts
    <2> QED
      BY <1>1, <1>3, <2>1
  <1>5. t_count[k0].cnt > 0
    BY <1>2, <1>4, WordFacts
  <1>6. Released(t) /\ t_count' = [t_count EXCEPT ![k0].cnt = @ - 1]
    BY <1>5 DEF RelShared
  <1>7. PICK s, p, c : /\ Moves(t, s, Front(have[t]), <<>>, p, c)
                       /\ Local(s, Front(have[t]), <<>>, p, c)
                       /\ p \notin {"setref", "cas"} /\ Len(s) <= MaxToks[t]
                       /\ \A i \in ToSet(Front(have[t])) : s[i] = toks[t][i]
    BY <1>1, <1>6, ReleasedStep
  <1>8. /\ Frame(t)
        /\ \A k : /\ k = k0 => Loses(t, k, RelRef(t))
                  /\ k # k0 => Same(t, k)
                  /\ ~ Bare(t, k)'
    BY <1>1, <1>7, LoseStep
  <1>9. /\ CountType' /\ \A k \in Tokens : /\ t_count'[k].ex <=> t_count[k].ex
                                           /\ k # k0 => t_count'[k].cnt = t_count[k].cnt
        /\ t_count'[k0].cnt = t_count[k0].cnt - 1
    <2> DEFINE r == [t_count[k0] EXCEPT !.cnt = @ - 1]
    <2>0. t_count[k0] \in [ex : BOOLEAN, req : BOOLEAN, cnt : Nat]
      BY <1>1, <1>2 DEF Types
    <2>1. /\ r \in [ex : BOOLEAN, req : BOOLEAN, cnt : Nat]
          /\ (r.ex <=> t_count[k0].ex) /\ r.cnt = t_count[k0].cnt - 1
      BY <2>0, <1>5
    <2>2. t_count' = [t_count EXCEPT ![k0] = r]
      BY <1>1, <1>2, <1>6 DEF Types
    <2> HIDE DEF r, k0
    <2> QED
      BY <1>1, <1>2, <2>1, <2>2 DEF CountType, Types
  <1>10. ASSUME NEW k \in Tokens PROVE After(t, k)
    <2>1. Word(k) /\ IsFiniteSet(Holds(k)) /\ t_ref'[k] = t_ref[k]
      BY <1>1, HoldsFinite DEF IInv
    <2>2. CASE k # k0
      <3>1. SameWord(k)
        BY <1>9, <2>2 DEF SameWord
      <3> QED
        BY <1>3, <1>8, <2>1, <2>2, <3>1, WordSame
    <2>3. CASE k = k0
      BY <1>3, <1>4, <1>8, <1>9, <2>1, <2>3, WordReleaseShare
    <2> QED
      BY <2>2, <2>3
  <1>11. OtherTypes' /\ RefType'
    BY <1>1 DEF OtherTypes, RefType, Types, ThreadTypes
  <1> QED
    BY <1>7, <1>9, <1>10, <1>11, Assemble

\* The exclusive reference has the bit.
LEMMA RelClearBit ==
  ASSUME IInv, NEW t \in Threads, RelClear(t)
  PROVE  /\ t_count[RelTok(t)].ex /\ toks[t][RelRef(t)].ex
         /\ <<t, RelRef(t)>> \in ExclHolds(RelTok(t)) /\ RelTok(t) \in Tokens
  <1>1. /\ pc[t] = "rel" /\ have[t] # <<>> /\ t_ref[RelTok(t)] = <<t, RelRef(t)>>
    BY DEF RelClear
  <1>2. RelTok(t) \in Tokens /\ RelRef(t) \in Held(t, RelTok(t)) /\ RelRef(t) \in Nat
    BY <1>1, RelFacts
  <1>3. <<t, RelRef(t)>> # NULL
    BY <1>2, TokensAssumption
  <1>4. <<t, RelRef(t)>> \in ExclHolds(RelTok(t)) /\ t_count[RelTok(t)].ex
    BY <1>1, <1>2, <1>3, WordFacts
  <1> QED
    BY <1>2, <1>4, HoldsAre

\* The exclusive holder clears t_ref before it gives up the bit.
LEMMA RelClearInv ==
  ASSUME IInv, NEW t \in Threads, RelClear(t)
  PROVE  StepOK(t)
  <1> DEFINE k0 == RelTok(t)
             s == toks[t]
  <1>1. /\ pc[t] = "rel" /\ have[t] # <<>> /\ t_ref' = [t_ref EXCEPT ![k0] = NULL]
        /\ saw' = [saw EXCEPT ![t] = t_count[k0].req]
        /\ UNCHANGED <<t_count, toks, have, want, call, spinning, idle>> /\ Types
    BY DEF RelClear, IInv, refvars
  <1>2. /\ t_count[k0].ex /\ s[RelRef(t)].ex /\ <<t, RelRef(t)>> \in ExclHolds(k0)
        /\ k0 \in Tokens
    BY RelClearBit
  <1>3. pc' = [pc EXCEPT ![t] = "cas"]
    BY <1>2 DEF RelClear, Goto
  <1>4. /\ s \in Seq(Ref) /\ Stack(s, pc[t], call[t]) /\ Lists(s, have[t], want[t])
        /\ Place(s, have[t], want[t], pc[t], call[t]) /\ Len(s) <= MaxToks[t]
    BY ThreadFacts
  <1>5. Place(s, have[t], want[t], "cas", call[t])
    BY <1>1, <1>2, <1>4 DEF Place, PCs, InCalls, Pushing, TryPCs, RelRef
  <1>6. Stack(s, "cas", call[t])
    BY <1>1, <1>4, StackMove DEF Settled
  <1>7. Local(s, have[t], want[t], "cas", call[t])
    BY <1>4, <1>5, <1>6 DEF Local
  <1>8. Moves(t, s, have[t], want[t], "cas", call[t])
    BY <1>1, <1>3, Unmoved DEF Moves
  <1>9. /\ Frame(t) /\ toks'[t] = s
        /\ \A k : /\ Held(t, k)' = Held(t, k) /\ ~ Bare(t, k)
                  /\ Bare(t, k)' <=> k = k0
    <2>1. \A k : /\ Held(t, k) = Among(s, have[t], k) /\ ~ Bare(t, k)
      BY <1>1, HeldIs
    <2>2. \A k : /\ Held(t, k)' = Among(s, have[t], k)
                 /\ Bare(t, k)' <=> k = k0
      BY <1>1, <1>8, MovesHeld DEF RelTok, RelRef
    <2> QED
      BY <1>1, <1>8, <2>1, <2>2, MovesFrame
  <1>10. /\ \A k \in Tokens : k # k0 => t_ref'[k] = t_ref[k]
         /\ t_ref'[k0] = NULL /\ RefType'
    BY <1>1, <1>2 DEF Types, RefType
  <1>11. ASSUME NEW k \in Tokens PROVE After(t, k)
    <2>1. Word(k) /\ Same(t, k) /\ SameWord(k)
      BY <1>1, <1>9 DEF IInv, Same, SameWord
    <2>2. CASE k # k0
      <3>1. Bare(t, k)' <=> Bare(t, k)
        BY <1>9, <2>2
      <3> QED
        BY <1>9, <1>10, <2>1, <2>2, <3>1, WordSame
    <2>3. CASE k = k0
      BY <1>2, <1>9, <1>10, <2>1, <2>3, WordClearRef
    <2> QED
      BY <2>2, <2>3
  <1>12. OtherTypes' /\ CountType'
    <2>1. t_count[k0].req \in BOOLEAN
      BY <1>1, <1>2 DEF Types
    <2> QED
      BY <1>1, <2>1 DEF OtherTypes, CountType, Types, ThreadTypes
  <1> QED
    BY <1>4, <1>7, <1>8, <1>10, <1>11, <1>12, Assemble

\* What a thread in the middle of an exclusive release has.
LEMMA CasFacts ==
  ASSUME IInv, NEW t \in Threads, pc[t] = "cas"
  PROVE  /\ have[t] # <<>> /\ toks[t][RelRef(t)].ex /\ RelTok(t) \in Tokens
         /\ RelRef(t) \in Held(t, RelTok(t)) /\ <<t, RelRef(t)>> \in ExclHolds(RelTok(t))
         /\ \A k : /\ Bare(t, k) <=> k = RelTok(t)
                   /\ Held(t, k) = Among(toks[t], have[t], k)
  <1>1. have[t] # <<>> /\ toks[t][RelRef(t)].ex
    BY ThreadFacts DEF Place, RelRef
  <1>2. RelTok(t) \in Tokens /\ RelRef(t) \in Held(t, RelTok(t))
    BY <1>1, RelFacts
  <1>3. <<t, RelRef(t)>> \in ExclHolds(RelTok(t))
    BY <1>1, <1>2, HoldsAre
  <1>4. \A k : /\ Bare(t, k) <=> k = RelTok(t)
               /\ Held(t, k) = Among(toks[t], have[t], k)
    BY HeldIs DEF RelTok, RelRef
  <1> QED
    BY <1>1, <1>2, <1>3, <1>4

\* The bit is given up, or t_ref is restored because of a request in between.
LEMMA RelCasInv ==
  ASSUME IInv, NEW t \in Threads, RelCas(t)
  PROVE  StepOK(t)
  <1> DEFINE k0 == RelTok(t)
             q == toks[t]
  <1>1. /\ pc[t] = "cas" /\ saw' = [saw EXCEPT ![t] = FALSE]
        /\ UNCHANGED <<want, spinning, idle>> /\ Types
    BY DEF RelCas, IInv
  <1>2. /\ have[t] # <<>> /\ q[RelRef(t)].ex /\ k0 \in Tokens
        /\ RelRef(t) \in Held(t, k0) /\ <<t, RelRef(t)>> \in ExclHolds(k0)
        /\ \A k : /\ Bare(t, k) <=> k = k0
                  /\ Held(t, k) = Among(q, have[t], k)
    BY <1>1, CasFacts
  <1>3. OtherTypes'
    BY <1>1 DEF OtherTypes, Types, ThreadTypes
  <1>4. ASSUME NEW j \in Held(t, k0) PROVE j = RelRef(t)
    <2>1. /\ RelRef(t) \in 1 .. Len(q)
          /\ \A m \in ToSet(have[t]) : ~ Deeper(q, RelRef(t), m)
          /\ Stack(q, pc[t], call[t])
      BY <1>1, <1>2, RelFacts, ThreadFacts
    <2>2. j \in ToSet(have[t]) /\ q[j].tok = q[RelRef(t)].tok /\ j \in 1 .. Len(q)
      BY <1>2, HeldBounds DEF Among, RelTok
    <2>3. ~ Deeper(q, RelRef(t), j) /\ ~ Deeper(q, j, RelRef(t))
      BY <1>1, <1>2, <2>1, <2>2 DEF Stack, Topmost
    <2>4. j \in Int /\ RelRef(t) \in Int
      BY <2>1, <2>2
    <2> QED
      BY <2>2, <2>3, <2>4 DEF Deeper
  <1>5. CASE t_count[k0].req = saw[t]
    <2>1. Released(t) /\ t_count' = [t_count EXCEPT ![k0].ex = FALSE] /\ t_ref' = t_ref
      BY <1>5 DEF RelCas
    <2>2. PICK s, p, c : /\ Moves(t, s, Front(have[t]), <<>>, p, c)
                         /\ Local(s, Front(have[t]), <<>>, p, c)
                         /\ p \notin {"setref", "cas"} /\ Len(s) <= MaxToks[t]
                         /\ \A i \in ToSet(Front(have[t])) : s[i] = toks[t][i]
      BY <1>1, <1>2, <2>1, ReleasedStep
    <2>3. /\ Frame(t)
          /\ \A k : /\ k = k0 => Loses(t, k, RelRef(t))
                    /\ k # k0 => Same(t, k)
                    /\ ~ Bare(t, k)'
      BY <1>1, <1>2, <2>2, LoseStep
    <2>4. /\ CountType' /\ \A k \in Tokens : k # k0 => t_count'[k] = t_count[k]
          /\ ~ t_count'[k0].ex /\ t_count'[k0].cnt = t_count[k0].cnt
      <3> DEFINE r == [t_count[k0] EXCEPT !.ex = FALSE]
      <3>0. t_count[k0] \in [ex : BOOLEAN, req : BOOLEAN, cnt : Nat]
        BY <1>1, <1>2 DEF Types
      <3>1. /\ r \in [ex : BOOLEAN, req : BOOLEAN, cnt : Nat]
            /\ ~ r.ex /\ r.cnt = t_count[k0].cnt
        BY <3>0
      <3>2. t_count' = [t_count EXCEPT ![k0] = r]
        BY <1>1, <1>2, <2>1 DEF Types
      <3> HIDE DEF r, k0
      <3> QED
        BY <1>1, <1>2, <3>1, <3>2 DEF CountType, Types
    <2>5. ASSUME NEW k \in Tokens PROVE After(t, k)
      <3>1. Word(k) /\ t_ref'[k] = t_ref[k]
        BY <2>1 DEF IInv
      <3>2. CASE k # k0
        <4>1. SameWord(k)
          BY <2>4, <3>2 DEF SameWord
        <4> QED
          BY <1>2, <2>3, <3>1, <3>2, <4>1, WordSame
      <3>3. CASE k = k0
        <4>1. Bare(t, k)
          BY <1>2, <3>3
        <4>2. Held(t, k) = {RelRef(t)}
          BY <1>2, <1>4, <3>3
        <4> QED
          BY <1>2, <2>3, <2>4, <3>1, <3>3, <4>1, <4>2, WordReleaseExcl
      <3> QED
        BY <3>2, <3>3
    <2>6. RefType'
      BY <1>1, <2>1 DEF RefType, Types
    <2> QED
      BY <1>3, <2>2, <2>4, <2>5, <2>6, Assemble
  <1>6. CASE t_count[k0].req # saw[t]
    <2>1. /\ t_ref' = [t_ref EXCEPT ![k0] = <<t, RelRef(t)>>]
          /\ pc' = [pc EXCEPT ![t] = "rel"]
          /\ UNCHANGED <<t_count, toks, have, call>>
      BY <1>6 DEF RelCas, Goto
    <2>2. /\ q \in Seq(Ref) /\ Stack(q, pc[t], call[t]) /\ Lists(q, have[t], want[t])
          /\ Place(q, have[t], want[t], pc[t], call[t]) /\ Len(q) <= MaxToks[t]
      BY ThreadFacts
    <2>3. Place(q, have[t], want[t], "rel", call[t])
      BY <1>1, <2>2 DEF Place, PCs, InCalls, Pushing, TryPCs
    <2>4. Stack(q, "rel", call[t])
      BY <1>1, <2>2, StackMove DEF Settled
    <2>5. Local(q, have[t], want[t], "rel", call[t])
      BY <2>2, <2>3, <2>4 DEF Local
    <2>6. Moves(t, q, have[t], want[t], "rel", call[t])
      BY <1>1, <2>1, Unmoved DEF Moves
    <2>7. /\ Frame(t) /\ toks'[t] = q
          /\ \A k : Held(t, k)' = Held(t, k) /\ ~ Bare(t, k)'
      BY <1>1, <1>2, <2>6, MovesFrame, MovesHeld
    <2>8. /\ \A k \in Tokens : k # k0 => t_ref'[k] = t_ref[k]
          /\ t_ref'[k0] = <<t, RelRef(t)>> /\ RefType'
      <3>1. RelRef(t) \in Nat
        BY <1>1, <1>2, RelFacts
      <3> QED
        BY <1>1, <1>2, <2>1, <3>1 DEF Types, RefType
    <2>9. ASSUME NEW k \in Tokens PROVE After(t, k)
      <3>1. Word(k) /\ Same(t, k) /\ SameWord(k)
        BY <2>1, <2>7 DEF IInv, Same, SameWord
      <3>2. CASE k # k0
        <4>1. Bare(t, k)' <=> Bare(t, k)
          BY <1>2, <2>7, <3>2
        <4> QED
          BY <2>7, <2>8, <3>1, <3>2, <4>1, WordSame
      <3>3. CASE k = k0
        BY <1>2, <2>7, <2>8, <3>1, <3>3, WordSetRef
      <3> QED
        BY <3>2, <3>3
    <2>10. CountType'
      BY <1>1, <2>1 DEF CountType, Types
    <2> QED
      BY <1>3, <2>2, <2>5, <2>6, <2>8, <2>9, <2>10, Assemble
  <1> QED
    BY <1>5, <1>6

\* The exchange of the two references on top.
LEMMA SwapSeq ==
  ASSUME NEW q \in Seq(Ref), NEW n, n = Len(q), n >= 2, NEW s,
         s = [q EXCEPT ![n] = q[n - 1], ![n - 1] = q[n]]
  PROVE  /\ s \in Seq(Ref) /\ Len(s) = n /\ n \in Nat
         /\ s[n] = q[n - 1] /\ s[n - 1] = q[n]
         /\ \A i \in 1 .. n : i # n /\ i # n - 1 => s[i] = q[i]
  <1>1. n \in Nat /\ n \in 1 .. n /\ n - 1 \in 1 .. n /\ n # n - 1
    BY LenProperties
  <1>2. q[n] \in Ref /\ q[n - 1] \in Ref
    BY <1>1, ElementOfSeq
  <1> DEFINE r == [q EXCEPT ![n] = q[n - 1]]
  <1>3. /\ r \in Seq(Ref) /\ Len(r) = n
        /\ \A j \in 1 .. n : r[j] = IF j = n THEN q[n - 1] ELSE q[j]
    BY <1>1, <1>2, ExceptSeq
  <1>4. s = [r EXCEPT ![n - 1] = q[n]]
    OBVIOUS
  <1> HIDE DEF r
  <1>5. /\ s \in Seq(Ref) /\ Len(s) = n
        /\ \A j \in 1 .. n : s[j] = IF j = n - 1 THEN q[n] ELSE r[j]
    BY <1>1, <1>2, <1>3, <1>4, ExceptSeq
  <1> QED
    BY <1>1, <1>3, <1>5

\* After the exchange t_ref follows the reference that moved.
LEMMA SwapInv ==
  ASSUME IInv, NEW t \in Threads, Swap(t)
  PROVE  StepOK(t)
  <1> DEFINE q == toks[t]
             n == Len(q)
             s == [q EXCEPT ![n] = q[n - 1], ![n - 1] = q[n]]
             moved(r) == CASE r = <<t, n>> -> <<t, n - 1>>
                           [] r = <<t, n - 1>> -> <<t, n>>
                           [] OTHER -> r
  <1>1. /\ pc[t] = "run" /\ n >= 2 /\ q[n].tok # q[n - 1].tok
        /\ toks' = [toks EXCEPT ![t][n] = q[n - 1], ![t][n - 1] = q[n]]
        /\ t_ref' = [k \in Tokens |-> moved(t_ref[k])]
        /\ UNCHANGED <<t_count, have, want, pc, call, saw, spinning, idle>> /\ Types
    BY DEF Swap, IInv
  <1>2. /\ q \in Seq(Ref) /\ n \in Nat /\ Len(q) <= MaxToks[t]
        /\ Place(q, have[t], want[t], pc[t], call[t])
    BY ThreadFacts
  <1>3. /\ have[t] = Up(n) /\ want[t] = <<>> /\ ToSet(have[t]) = 1 .. n
        /\ Stack(q, "run", "none")
        /\ \A k : Held(t, k) = Among(q, have[t], k) /\ ~ Bare(t, k)
    BY <1>1, RunFacts
  <1>4. /\ s \in Seq(Ref) /\ Len(s) = n
        /\ s[n] = q[n - 1] /\ s[n - 1] = q[n]
        /\ \A i \in 1 .. n : i # n /\ i # n - 1 => s[i] = q[i]
    BY <1>1, <1>2, SwapSeq
  <1>5. Stack(s, "run", "none")
    BY <1>1, <1>2, <1>3, StackSwap
  <1>6. toks' = [toks EXCEPT ![t] = s]
    <2>1. toks \in [Threads -> Seq(Ref)]
      BY <1>1 DEF Types, ThreadTypes
    <2> QED
      BY <1>1, <2>1
  <1> HIDE DEF s
  <1>7. Lists(s, have[t], want[t])
    BY <1>3, <1>4, UpLists
  <1>8. Place(s, have[t], want[t], "run", "none")
    BY <1>3, <1>4 DEF Place, PCs, InCalls, Pushing, TryPCs
  <1>9. Local(s, have[t], want[t], "run", "none")
    BY <1>5, <1>7, <1>8 DEF Local
  <1>10. Moves(t, s, have[t], want[t], "run", "none")
    <2>1. call[t] = "none"
      BY <1>1, <1>2 DEF Place
    <2> QED
      BY <1>1, <1>6, <2>1, Unmoved DEF Moves
  <1>11. /\ Frame(t) /\ toks'[t] = s
         /\ \A k : Held(t, k)' = Among(s, have[t], k) /\ ~ Bare(t, k)'
    <2>1. Frame(t) /\ toks'[t] = s
      BY <1>1, <1>10, MovesFrame
    <2>2. \A k : Held(t, k)' = Among(s, have[t], k) /\ ~ Bare(t, k)'
      BY <1>1, <1>10, MovesHeld
    <2> QED
      BY <2>1, <2>2
  <1>12. n - 1 \in 1 .. n /\ n \in 1 .. n /\ n - 1 # n /\ n \in Nat /\ n - 1 \in Nat
    BY <1>1, <1>2
  <1>13. \A k : /\ Held(t, k) = {i \in 1 .. n : q[i].tok = k}
                /\ Held(t, k)' = {i \in 1 .. n : s[i].tok = k}
    BY <1>3, <1>11 DEF Among
  <1>14. ASSUME NEW k \in Tokens, NEW i \in Nat, t_ref[k] = <<t, i>> PROVE i \in Held(t, k)
    <2>1. t_ref[k] # NULL
      BY <1>14, TokensAssumption
    <2>2. <<t, i>> \in ExclHolds(k)
      BY <1>14, <2>1, WordFacts
    <2> QED
      BY <2>2, HoldsAre
  <1>15. CountType' /\ OtherTypes' /\ \A k \in Tokens : SameWord(k)
    BY <1>1 DEF CountType, OtherTypes, Types, ThreadTypes, SameWord
  <1>16. ASSUME NEW k \in Tokens PROVE t_ref'[k] = moved(t_ref[k])
    BY <1>1
  <1>17. RefType'
    <2>1. \A k \in Tokens : t_ref[k] \in {NULL} \cup (Threads \X Nat)
      BY <1>1 DEF Types
    <2>2. \A k \in Tokens : moved(t_ref[k]) \in {NULL} \cup (Threads \X Nat)
      BY <1>12, <2>1
    <2> QED
      BY <1>1, <2>2 DEF RefType
  <1> HIDE DEF moved
  <1>18. ASSUME NEW k \in Tokens PROVE After(t, k)
    <2>1. Word(k) /\ IsFiniteSet(Holds(k)) /\ SameWord(k)
      BY <1>15, HoldsFinite DEF IInv
    <2>2. CASE k = q[n].tok
      <3>1. /\ n \in Held(t, k) /\ n - 1 \notin Held(t, k)
            /\ Held(t, k)' = (Held(t, k) \ {n}) \cup {n - 1}
            /\ toks'[t][n - 1].ex <=> toks[t][n].ex
            /\ \A m \in Held(t, k) \ {n} : toks'[t][m].ex <=> toks[t][m].ex
        <4>1. n \in Held(t, k) /\ n - 1 \notin Held(t, k)
          BY <1>1, <1>12, <1>13, <2>2
        <4>2. \A i \in 1 .. n : s[i].tok = k <=> (q[i].tok = k /\ i # n) \/ i = n - 1
          BY <1>1, <1>4, <1>12, <2>2
        <4>3. Held(t, k)' = (Held(t, k) \ {n}) \cup {n - 1}
          BY <1>12, <1>13, <4>2
        <4>4. \A m \in Held(t, k) \ {n} : s[m] = q[m]
          BY <1>4, <1>13, <4>1
        <4> QED
          BY <1>4, <1>11, <4>1, <4>3, <4>4
      <3>2. t_ref'[k] = IF t_ref[k] = <<t, n>> THEN <<t, n - 1>> ELSE t_ref[k]
        <4>1. t_ref[k] # <<t, n - 1>>
          BY <1>12, <1>14, <3>1
        <4> QED
          BY <1>16, <4>1 DEF moved
      <3> QED
        BY <1>3, <1>11, <1>12, <2>1, <3>1, <3>2, WordRename
    <2>3. CASE k = q[n - 1].tok
      <3>1. /\ n - 1 \in Held(t, k) /\ n \notin Held(t, k)
            /\ Held(t, k)' = (Held(t, k) \ {n - 1}) \cup {n}
            /\ toks'[t][n].ex <=> toks[t][n - 1].ex
            /\ \A m \in Held(t, k) \ {n - 1} : toks'[t][m].ex <=> toks[t][m].ex
        <4>1. n - 1 \in Held(t, k) /\ n \notin Held(t, k)
          BY <1>1, <1>12, <1>13, <2>3
        <4>2. \A i \in 1 .. n : s[i].tok = k <=> (q[i].tok = k /\ i # n - 1) \/ i = n
          BY <1>1, <1>4, <1>12, <2>3
        <4>3. Held(t, k)' = (Held(t, k) \ {n - 1}) \cup {n}
          BY <1>12, <1>13, <4>2
        <4>4. \A m \in Held(t, k) \ {n - 1} : s[m] = q[m]
          BY <1>4, <1>13, <4>1
        <4> QED
          BY <1>4, <1>11, <4>1, <4>3, <4>4
      <3>2. t_ref'[k] = IF t_ref[k] = <<t, n - 1>> THEN <<t, n>> ELSE t_ref[k]
        <4>1. t_ref[k] # <<t, n>> /\ <<t, n - 1>> # <<t, n>>
          BY <1>12, <1>14, <3>1
        <4> QED
          BY <1>16, <4>1 DEF moved
      <3> QED
        BY <1>3, <1>11, <1>12, <2>1, <3>1, <3>2, WordRename
    <2>4. CASE k # q[n].tok /\ k # q[n - 1].tok
      <3>1. n \notin Held(t, k) /\ n - 1 \notin Held(t, k)
        BY <1>13, <2>4
      <3>2. Same(t, k)
        <4>1. \A i \in 1 .. n : s[i].tok = k <=> q[i].tok = k
          BY <1>4, <1>12, <2>4
        <4>2. Held(t, k)' = Held(t, k)
          BY <1>13, <4>1
        <4>3. \A m \in Held(t, k) : s[m] = q[m]
          BY <1>4, <1>13, <3>1
        <4> QED
          BY <1>11, <4>2, <4>3 DEF Same
      <3>3. t_ref'[k] = t_ref[k]
        <4>1. t_ref[k] # <<t, n>> /\ t_ref[k] # <<t, n - 1>>
          BY <1>12, <1>14, <3>1
        <4> QED
          BY <1>16, <4>1 DEF moved
      <3> QED
        BY <1>3, <1>11, <2>1, <3>2, <3>3, WordSame
    <2> QED
      BY <2>2, <2>3, <2>4
  <1> QED
    BY <1>2, <1>4, <1>9, <1>10, <1>15, <1>17, <1>18, Assemble
-----------------------------------------------------------------------------
(* The invariant *)

\* Nobody has anything at first.
LEMMA InitInv ==
  ASSUME Init
  PROVE  IInv
  <1>1. /\ t_count = [k \in Tokens |-> [ex |-> FALSE, req |-> FALSE, cnt |-> 0]]
        /\ t_ref = [k \in Tokens |-> NULL]
        /\ \A t \in Threads : /\ toks[t] = <<>> /\ have[t] = <<>> /\ want[t] = <<>>
                              /\ pc[t] = "run" /\ call[t] = "none"
    BY DEF Init
  <1>2. Up(0) = <<>>
    BY UpSeq, EmptySeq
  <1>3. <<>> \in Seq(Ref) /\ <<>> \in Seq(Nat) /\ Len(<<>>) = 0 /\ ToSet(<<>>) = {}
    <2>1. <<>> \in Seq(Ref)
      OBVIOUS
    <2> QED
      BY <2>1, NoneSeq
  <1>4. Local(<<>>, <<>>, <<>>, "run", "none")
    <2>1. Lists(<<>>, <<>>, <<>>)
      <3> DEFINE e == <<>>
      <3>1. e \in Seq(Ref) /\ Up(Len(e)) = e
        BY <1>2, <1>3
      <3> HIDE DEF e
      <3>2. Lists(e, Up(Len(e)), <<>>)
        BY <3>1, UpLists
      <3> QED
        BY <3>1, <3>2 DEF e
    <2>2. Place(<<>>, <<>>, <<>>, "run", "none")
      BY <1>2, <1>3 DEF Place, PCs, InCalls, Pushing, TryPCs
    <2>3. Stack(<<>>, "run", "none")
      BY <1>3 DEF Stack
    <2> QED
      BY <2>1, <2>2, <2>3 DEF Local
  <1>5. Types
    <2>1. /\ t_count \in [Tokens -> [ex : BOOLEAN, req : BOOLEAN, cnt : Nat]]
          /\ t_ref \in [Tokens -> {NULL} \cup (Threads \X Nat)]
      BY <1>1
    <2>2. /\ toks \in [Threads -> Seq(Ref)]
          /\ have \in [Threads -> Seq(Nat)] /\ want \in [Threads -> Seq(Nat)]
      BY <1>3 DEF Init
    <2>3. /\ pc \in [Threads -> PCs] /\ call \in [Threads -> InCalls]
          /\ saw \in [Threads -> BOOLEAN] /\ spinning \in [Threads -> 0 .. SpinLoops]
          /\ idle \in [Threads -> BOOLEAN]
      BY TokensAssumption DEF Init, PCs, InCalls
    <2>4. \A t \in Threads :
             /\ Len(toks[t]) <= MaxToks[t]
             /\ ToSet(have[t]) \cup ToSet(want[t]) \subseteq 1 .. Len(toks[t])
      <3>1. \A t \in Threads : MaxToks[t] \in Nat
        BY TokensAssumption
      <3> QED
        BY <1>1, <1>3, <3>1
    <2> QED
      BY <2>1, <2>2, <2>3, <2>4 DEF Types, ThreadTypes
  <1>6. ASSUME NEW k \in Tokens PROVE Word(k)
    <2>1. ASSUME NEW t \in Threads PROVE Held(t, k) = {}
      <3>1. pc[t] # "setref" /\ have[t] = <<>>
        BY <1>1
      <3> QED
        BY <3>1, <1>3, HeldIs DEF Among
    <2>2. Holds(k) = {}
      BY <2>1, HoldsAre
    <2>3. ExclHolds(k) = {} /\ Shares(k) = {}
      BY <2>2 DEF ExclHolds, Shares
    <2>4. Cardinality(Shares(k)) = 0
      BY <2>3, FS_EmptySet
    <2>5. ~ t_count[k].ex /\ t_count[k].cnt = 0 /\ t_ref[k] = NULL
      BY <1>1
    <2> QED
      BY <2>3, <2>4, <2>5 DEF Word
  <1> QED
    BY <1>1, <1>4, <1>5, <1>6 DEF IInv

\* Every call and every step of a thread.
LEMMA NextStep ==
  ASSUME IInv, Next
  PROVE  \E t \in Threads : StepOK(t)
  <1>1. PICK t \in Threads : Call(t) \/ Step(t)
    BY DEF Next
  <1> SUFFICES StepOK(t)
    OBVIOUS
  <1>2. ASSUME NEW k \in Tokens, Gettoken(t, k) PROVE StepOK(t)
    <2>1. "get" \in Pushing
      BY DEF Pushing
    <2> QED
      BY <1>2, <2>1, PushInv DEF Gettoken
  <1>3. ASSUME NEW k \in Tokens, GettokenShared(t, k) PROVE StepOK(t)
    <2>1. "getshared" \in Pushing
      BY DEF Pushing
    <2> QED
      BY <1>3, <2>1, PushInv DEF GettokenShared
  <1>4. ASSUME NEW k \in Tokens, Trytoken(t, k) PROVE StepOK(t)
    <2>1. "try" \in Pushing
      BY DEF Pushing
    <2> QED
      BY <1>4, <2>1, PushInv DEF Trytoken
  <1>5. CASE Reltoken(t)
    BY <1>5, ReltokenInv
  <1>6. CASE Swap(t)
    BY <1>6, SwapInv
  <1>7. CASE Switch(t, FALSE) \/ Switch(t, TRUE)
    BY <1>7, SwitchInv
  <1>8. CASE TakeExcl(t) \/ SetRef(t) \/ Recurse(t) \/ TakeShared(t)
    BY <1>8, TakeExclInv, SetRefInv, RecurseInv, TakeSharedInv
  <1>9. CASE Fail(t) \/ FailRequest(t) \/ SetReq(t) \/ CheckRef(t)
    BY <1>9, FailInv, FailRequestInv, SetReqInv, CheckRefInv
  <1>10. CASE RelClear(t) \/ RelCas(t) \/ RelShared(t) \/ GetAllTokens(t)
    BY <1>10, RelClearInv, RelCasInv, RelSharedInv, GetAllTokensInv
  <1> QED
    BY <1>1, <1>2, <1>3, <1>4, <1>5, <1>6, <1>7, <1>8, <1>9, <1>10 DEF Call, Step

\* A step that changes no variable.
LEMMA StutterInv ==
  ASSUME IInv, UNCHANGED vars
  PROVE  IInv'
  <1>1. /\ t_count' = t_count /\ t_ref' = t_ref /\ toks' = toks /\ have' = have
        /\ want' = want /\ pc' = pc /\ call' = call /\ saw' = saw
        /\ spinning' = spinning /\ idle' = idle
    BY DEF vars, tokvars, refvars
  <1>2. Types'
    BY <1>1 DEF IInv, Types, ThreadTypes
  <1>3. ASSUME NEW k \in Tokens PROVE Word(k)'
    <2>1. \A t : Held(t, k)' = Held(t, k) /\ (Bare(t, k)' <=> Bare(t, k))
      BY <1>1 DEF Held, Tok, Cur, Bare, RelTok, RelRef
    <2>2. Holds(k)' = Holds(k)
      BY <2>1 DEF Holds
    <2>3. ExclHolds(k)' = ExclHolds(k) /\ Shares(k)' = Shares(k)
      BY <1>1, <2>2 DEF ExclHolds, Shares
    <2>4. \A r \in ExclHolds(k)' : t_ref'[k] = IF Bare(r[1], k)' THEN NULL ELSE r
      BY <1>1, <2>1, <2>3 DEF IInv, Word
    <2> QED
      BY <1>1, <2>2, <2>3, <2>4 DEF IInv, Word
  <1> QED
    BY <1>1, <1>2, <1>3 DEF IInv

\* The invariant of every thread and every token holds throughout, whatever the
\* threads call: at every instruction of _lwkt_trytokref() and _lwkt_reltokref().
THEOREM TokenInvariance == Spec => []IInv
  <1>1. Init => IInv
    BY InitInv
  <1>2. IInv /\ [Next]_vars => IInv'
    BY NextStep, StutterInv DEF StepOK
  <1> QED
    BY <1>1, <1>2, PTL DEF Spec
-----------------------------------------------------------------------------
(* What it implies *)

\* The count fits: there are no more references than the stacks have room for.
LEMMA TypesHold ==
  ASSUME IInv
  PROVE  TypeOK
  <1>1. ASSUME NEW k \in Tokens PROVE t_count[k].cnt \in 0 .. Cardinality(Slots)
    <2>1. /\ t_count[k].cnt = Cardinality(Shares(k)) /\ Shares(k) \subseteq Slots
      BY HoldsFinite DEF IInv, Word, Shares
    <2>2. Cardinality(Slots) \in Nat
      BY SlotsFinite, FS_CardinalityType
    <2>3. Cardinality(Shares(k)) \in Nat /\ Cardinality(Shares(k)) <= Cardinality(Slots)
      BY <2>1, SlotsFinite, FS_Subset, FS_CardinalityType
    <2> QED
      BY <2>1, <2>2, <2>3
  <1>2. WordTypes
    BY <1>1 DEF IInv, Types, WordTypes
  <1> QED
    BY <1>2 DEF TypeOK, IInv, Types

\* The count and the bit of every word.
LEMMA CountsHold ==
  ASSUME IInv
  PROVE  CountMatches
  <1> SUFFICES ASSUME NEW k \in Tokens
               PROVE  /\ t_count[k].ex <=> ExclHolds(k) # {}
                      /\ Cardinality(ExclHolds(k)) <= 1
                      /\ t_count[k].cnt + Cardinality(ExclHolds(k)) = Cardinality(Holds(k))
    BY DEF CountMatches
  <1>1. /\ t_count[k].ex <=> ExclHolds(k) # {}
        /\ \A r, s \in ExclHolds(k) : r = s
        /\ t_count[k].cnt = Cardinality(Shares(k))
    BY DEF IInv, Word
  <1>2. IsFiniteSet(Shares(k)) /\ Cardinality(Shares(k)) \in Nat
    BY HoldsFinite, FS_Subset, FS_CardinalityType DEF Shares
  <1>3. CASE ExclHolds(k) = {}
    <2>1. Cardinality(ExclHolds(k)) = 0 /\ Shares(k) = Holds(k)
      BY <1>3, FS_EmptySet DEF Shares
    <2> QED
      BY <1>1, <1>2, <1>3, <2>1
  <1>4. ASSUME NEW r \in ExclHolds(k)
        PROVE  /\ Cardinality(ExclHolds(k)) <= 1
               /\ t_count[k].cnt + Cardinality(ExclHolds(k)) = Cardinality(Holds(k))
    <2>1. ExclHolds(k) = {r} /\ r \in Holds(k)
      BY <1>1, <1>4, HoldsAre
    <2>2. Cardinality(ExclHolds(k)) = 1
      BY <2>1, FS_Singleton
    <2>3. Holds(k) = Shares(k) \cup {r} /\ r \notin Shares(k)
      BY <2>1 DEF Shares
    <2>4. Cardinality(Holds(k)) = Cardinality(Shares(k)) + 1
      BY <1>2, <2>3, FS_AddElement
    <2> QED
      BY <1>1, <1>2, <2>2, <2>4
  <1> QED
    BY <1>1, <1>3, <1>4

\* t_ref is the deepest reference of its thread: the only exception to the order
\* of the stack is a reference on top that the thread does not have yet.
LEMMA DeepestHolds ==
  ASSUME IInv
  PROVE  DeepestRef
  <1>1. ASSUME NEW k \in Tokens, t_ref[k] # NULL, NEW t, t = t_ref[k][1], NEW i,
               i = t_ref[k][2]
        PROVE  /\ i \in Held(t, k)
               /\ \A j \in 1 .. Len(toks[t]) : toks[t][j].tok = k => i <= j
    <2>1. t_ref[k] \in ExclHolds(k)
      <3>1. PICK u \in Threads : TRUE
        BY <1>1 DEF IInv, Types
      <3> QED
        BY <1>1, <3>1, WordFacts
    <2>2. t_ref[k] = <<t, i>> /\ t \in Threads
      BY <1>1, <2>1, HoldsAre
    <2>3. i \in Held(t, k) /\ toks[t][i].ex
      BY <2>1, <2>2, HoldsAre
    <2>4. /\ Stack(toks[t], pc[t], call[t]) /\ Len(toks[t]) \in Nat
          /\ Place(toks[t], have[t], want[t], pc[t], call[t])
      BY <2>2, ThreadFacts
    <2>5. i \in 1 .. Len(toks[t])
      BY <2>2, <2>3, HeldBounds
    <2>6. toks[t][i].tok = k
      <3>1. CASE pc[t] # "setref"
        BY <2>3, <3>1, HeldIs DEF Among
      <3>2. CASE pc[t] = "setref"
        BY <2>3, <3>2, HeldIs DEF Among
      <3> QED
        BY <3>1, <3>2
    <2>7. ASSUME NEW j \in 1 .. Len(toks[t]), toks[t][j].tok = k, j < i PROVE FALSE
      <3>1. i = Len(toks[t]) /\ pc[t] = "try" /\ call[t] \in Pushing
        <4>1. Deeper(toks[t], j, i)
          BY <2>6, <2>7 DEF Deeper
        <4> QED
          BY <2>3, <2>4, <2>5, <4>1 DEF Stack, Topmost
      <3>2. have[t] = Up(Len(toks[t]) - 1)
        BY <2>4, <3>1 DEF Place
      <3>3. ToSet(have[t]) = 1 .. Len(toks[t]) - 1
        <4>1. Len(toks[t]) - 1 \in Nat
          BY <2>4, <2>5
        <4> QED
          BY <3>2, <4>1, UpSeq
      <3>4. i \in ToSet(have[t])
        BY <2>3, <3>1, HeldIs DEF Among
      <3> QED
        BY <2>4, <3>1, <3>3, <3>4
    <2> QED
      BY <2>3, <2>5, <2>7
  <1> QED
    BY <1>1 DEF DeepestRef

\* The word and t_ref of every token agree with the references that the threads
\* have, t_ref being the deepest one of its thread, at every instruction of
\* _lwkt_trytokref(), _lwkt_reltokref() and lwkt_token_swap().
THEOREM TokenConsistent == Spec => []Consistent
  <1>1. IInv => Consistent
    BY TypesHold, CountsHold, DeepestHolds DEF Consistent
  <1> QED
    BY <1>1, TokenInvariance, PTL

\* No KKASSERT of the token code fails.
THEOREM TokenNoPanic == Spec => []NoPanic
  <1>1. ASSUME IInv PROVE NoPanic
    <2>1. \A t \in Threads : pc[t] \in PCs \ {"panic"}
      BY <1>1, ThreadFacts DEF Place
    <2> QED
      BY <2>1 DEF NoPanic
  <1> QED
    BY <1>1, TokenInvariance, PTL

\* A running thread has each reference i of its stack.
LEMMA RunsHolds ==
  ASSUME IInv, NEW t \in Threads, pc[t] = "run", NEW i \in 1 .. Len(toks[t]),
         NEW k, k = toks[t][i].tok
  PROVE  IF toks[t][i].asked THEN Mine(t, k)
         ELSE t_count[k].cnt > 0 /\ (t_count[k].ex => Mine(t, k))
  <1>1. /\ Stack(toks[t], pc[t], call[t]) /\ toks[t] \in Seq(Ref) /\ Len(toks[t]) \in Nat
    BY ThreadFacts
  <1>2. k \in Tokens
    <2>1. toks[t][i] \in Ref
      BY <1>1, ElementOfSeq
    <2> QED
      BY <2>1 DEF Ref
  <1>3. \A j \in 1 .. Len(toks[t]) : toks[t][j].tok = k => j \in Held(t, k)
    BY RunFacts DEF Among
  <1>4. ~ Bare(t, k)
    BY RunFacts
  <1>5. ASSUME NEW j \in 1 .. Len(toks[t]), toks[t][j].tok = k, toks[t][j].ex
        PROVE  Mine(t, k)
    <2>1. /\ t_count[k].ex
          /\ ~ Bare(t, k) => t_ref[k] = <<t, j>>
      BY <1>2, <1>3, <1>5, WordFacts
    <2>2. <<t, j>> # NULL /\ <<t, j>>[1] = t
      BY <1>1, TokensAssumption
    <2> QED
      BY <1>4, <2>1, <2>2 DEF Mine
  <1>6. CASE toks[t][i].asked
    <2>1. \E j \in 1 .. Len(toks[t]) : toks[t][j].tok = k /\ toks[t][j].ex
      BY <1>1, <1>6 DEF Stack, Deeper
    <2> QED
      BY <1>5, <1>6, <2>1
  <1>7. CASE ~ toks[t][i].asked
    <2>1. ~ toks[t][i].ex /\ i \in Held(t, k)
      BY <1>1, <1>3, <1>7 DEF Stack
    <2>2. t_count[k].cnt > 0 /\ \A r \in ExclHolds(k) : r[1] = t
      BY <1>2, <2>1, WordFacts
    <2>3. ASSUME t_count[k].ex PROVE Mine(t, k)
      <3>1. PICK r \in ExclHolds(k) : t_ref[k] = IF Bare(r[1], k) THEN NULL ELSE r
        BY <1>2, <2>3 DEF IInv, Word
      <3>2. r[1] = t /\ r = <<r[1], r[2]>> /\ r[2] \in Held(t, k)
        BY <2>2, <3>1, HoldsAre
      <3>3. t_ref[k] = r
        BY <1>4, <3>1, <3>2
      <3>4. r[2] \in Nat
        BY <1>1, <3>2, HeldBounds
      <3>5. r # NULL
        BY <3>2, <3>4, TokensAssumption
      <3> QED
        BY <2>3, <3>2, <3>3, <3>5 DEF Mine
    <2> QED
      BY <1>7, <2>2, <2>3
  <1> QED
    BY <1>6, <1>7

\* A thread runs only with every token of its stack, exclusively those that it
\* asked for exclusively, however often lwkt_switch() took them away in between.
THEOREM TokenRunsWithAllTokens == Spec => []RunsWithAllTokens
  <1>1. IInv => RunsWithAllTokens
    BY RunsHolds DEF RunsWithAllTokens
  <1> QED
    BY <1>1, TokenInvariance, PTL
-----------------------------------------------------------------------------
(* Every token implements the abstract lock *)

\* The refinement mapping, of one token.
Ex(k) == [t \in Threads |-> IF Exclusive(t, k) THEN Cardinality(Held(t, k)) ELSE 0]
Sh(k) == [t \in Threads |-> IF Exclusive(t, k) THEN 0 ELSE Cardinality(Held(t, k))]

\* What a step has to show: the new counts of t, and that those of the others
\* are as they were.
LEMMA MapStep ==
  ASSUME NEW t \in Threads, Frame(t), NEW k
  PROVE  /\ \A u \in Threads \ {t} : Ex(k)'[u] = Ex(k)[u] /\ Sh(k)'[u] = Sh(k)[u]
         /\ \A u \in Threads \ {t} : Exclusive(u, k)' <=> Exclusive(u, k)
         /\ Ex(k)'[t] = IF Exclusive(t, k)' THEN Cardinality(Held(t, k)') ELSE 0
         /\ Sh(k)'[t] = IF Exclusive(t, k)' THEN 0 ELSE Cardinality(Held(t, k)')
         /\ Ex(k)[t] = IF Exclusive(t, k) THEN Cardinality(Held(t, k)) ELSE 0
         /\ Sh(k)[t] = IF Exclusive(t, k) THEN 0 ELSE Cardinality(Held(t, k))
  <1>1. \A u \in Threads \ {t} : /\ Held(u, k)' = Held(u, k)
                                 /\ Exclusive(u, k)' <=> Exclusive(u, k)
    <2> SUFFICES ASSUME NEW u \in Threads \ {t}
                 PROVE  /\ Held(u, k)' = Held(u, k)
                        /\ Exclusive(u, k)' <=> Exclusive(u, k)
      OBVIOUS
    <2>1. Held(u, k)' = Held(u, k) /\ \A i : toks'[u][i].ex = toks[u][i].ex
      BY FrameHeld
    <2> QED
      BY <2>1 DEF Exclusive
  <1>2. \A u \in Threads :
           /\ Ex(k)'[u] = IF Exclusive(u, k)' THEN Cardinality(Held(u, k)') ELSE 0
           /\ Sh(k)'[u] = IF Exclusive(u, k)' THEN 0 ELSE Cardinality(Held(u, k)')
           /\ Ex(k)[u] = IF Exclusive(u, k) THEN Cardinality(Held(u, k)) ELSE 0
           /\ Sh(k)[u] = IF Exclusive(u, k) THEN 0 ELSE Cardinality(Held(u, k))
    BY DEF Ex, Sh
  <1>3. \A u \in Threads \ {t} : Ex(k)'[u] = Ex(k)[u] /\ Sh(k)'[u] = Sh(k)[u]
    BY <1>1, <1>2
  <1> QED
    BY <1>1, <1>2, <1>3

\* The functions differ at most in t.
LEMMA MapEqual ==
  ASSUME NEW t \in Threads, NEW k,
         \A u \in Threads \ {t} : Ex(k)'[u] = Ex(k)[u] /\ Sh(k)'[u] = Sh(k)[u]
  PROVE  /\ Ex(k)' = [Ex(k) EXCEPT ![t] = Ex(k)'[t]]
         /\ Sh(k)' = [Sh(k) EXCEPT ![t] = Sh(k)'[t]]
         /\ Ex(k)'[t] = Ex(k)[t] => Ex(k)' = Ex(k)
         /\ Sh(k)'[t] = Sh(k)[t] => Sh(k)' = Sh(k)
  <1> DEFINE e == Ex(k)
             f == Ex(k)'
             g == Sh(k)
             h == Sh(k)'
  <1>1. /\ e = [u \in Threads |-> e[u]] /\ f = [u \in Threads |-> f[u]]
        /\ g = [u \in Threads |-> g[u]] /\ h = [u \in Threads |-> h[u]]
    BY DEF Ex, Sh
  <1> HIDE DEF e, f, g, h
  <1>2. \A u \in Threads \ {t} : f[u] = e[u] /\ h[u] = g[u]
    BY DEF e, f, g, h
  <1>3. f = [e EXCEPT ![t] = f[t]] /\ h = [g EXCEPT ![t] = h[t]]
    BY <1>1, <1>2
  <1>4. (f[t] = e[t] => f = e) /\ (h[t] = g[t] => h = g)
    BY <1>1, <1>2
  <1> QED
    BY <1>3, <1>4 DEF e, f, g, h

\* The references that a thread has can be counted.
LEMMA HeldCard ==
  ASSUME IInv, NEW t \in Threads, NEW k
  PROVE  IsFiniteSet(Held(t, k)) /\ Cardinality(Held(t, k)) \in Nat
  <1>1. Len(toks[t]) \in Int /\ 1 \in Int
    BY ThreadFacts
  <1>2. IsFiniteSet(1 .. Len(toks[t]))
    BY <1>1, FS_Interval
  <1> QED
    BY <1>2, HeldBounds, FS_Subset, FS_CardinalityType

\* A thread that acquires a reference shares the token with no exclusive holder,
\* and if it is one itself, with nobody.
LEMMA GainAlone ==
  ASSUME NEW t \in Threads, Frame(t), NEW k \in Tokens, Word(k)', NEW i, Gains(t, k, i),
         NEW u \in Threads \ {t}
  PROVE  ~ Exclusive(u, k) /\ (Exclusive(t, k)' => Held(u, k) = {})
  <1>1. <<t, i>> \in Holds(k)' /\ <<t, i>>[1] = t
    BY HoldsAreNext DEF Gains
  <1>2. \A r \in ExclHolds(k)', s \in Holds(k)' : s[1] = r[1]
    BY DEF Word
  <1>3. ASSUME NEW j \in Held(u, k), toks[u][j].ex PROVE FALSE
    <2>1. <<u, j>> \in ExclHolds(k)' /\ <<u, j>>[1] = u
      BY <1>3, HoldsAre, FrameHolds
    <2> QED
      BY <1>1, <1>2, <2>1
  <1>4. ASSUME NEW j \in Held(t, k)', toks'[t][j].ex, NEW m \in Held(u, k) PROVE FALSE
    <2>1. <<t, j>> \in ExclHolds(k)' /\ <<t, j>>[1] = t
      BY <1>4, HoldsAreNext
    <2>2. <<u, m>> \in Holds(k)' /\ <<u, m>>[1] = u
      BY <1>4, HoldsAre, FrameHolds
    <2> QED
      BY <1>2, <2>1, <2>2
  <1> QED
    BY <1>3, <1>4 DEF Exclusive

\* Every effect is a step of the abstract lock, or none.
LEMMA EffectMaps ==
  ASSUME IInv, IInv', NEW t \in Threads, Frame(t), NEW k \in Tokens, Effect(t, k)
  PROVE  \/ /\ Ex(k)' = Ex(k) /\ Sh(k)' = Sh(k)
         \/ /\ \A u \in Threads \ {t} : Ex(k)[u] = 0 /\ Sh(k)[u] = 0
            /\ Sh(k)[t] = 0 /\ Ex(k)[t] \in Nat
            /\ Ex(k)' = [Ex(k) EXCEPT ![t] = Ex(k)[t] + 1] /\ Sh(k)' = Sh(k)
         \/ /\ \A u \in Threads \ {t} : Ex(k)[u] = 0
            /\ Ex(k)[t] = 0 /\ Sh(k)[t] \in Nat
            /\ Sh(k)' = [Sh(k) EXCEPT ![t] = Sh(k)[t] + 1] /\ Ex(k)' = Ex(k)
         \/ /\ Ex(k)[t] \in Nat /\ Ex(k)[t] > 0
            /\ Ex(k)' = [Ex(k) EXCEPT ![t] = Ex(k)[t] - 1] /\ Sh(k)' = Sh(k)
         \/ /\ Sh(k)[t] \in Nat /\ Sh(k)[t] > 0
            /\ Sh(k)' = [Sh(k) EXCEPT ![t] = Sh(k)[t] - 1] /\ Ex(k)' = Ex(k)
  <1> DEFINE a == Held(t, k)
             b == Held(t, k)'
  <1>1. /\ \A u \in Threads \ {t} : Ex(k)'[u] = Ex(k)[u] /\ Sh(k)'[u] = Sh(k)[u]
        /\ Ex(k)'[t] = IF Exclusive(t, k)' THEN Cardinality(b) ELSE 0
        /\ Sh(k)'[t] = IF Exclusive(t, k)' THEN 0 ELSE Cardinality(b)
        /\ Ex(k)[t] = IF Exclusive(t, k) THEN Cardinality(a) ELSE 0
        /\ Sh(k)[t] = IF Exclusive(t, k) THEN 0 ELSE Cardinality(a)
    BY MapStep
  <1>2. /\ Ex(k)' = [Ex(k) EXCEPT ![t] = Ex(k)'[t]]
        /\ Sh(k)' = [Sh(k) EXCEPT ![t] = Sh(k)'[t]]
        /\ Ex(k)'[t] = Ex(k)[t] => Ex(k)' = Ex(k)
        /\ Sh(k)'[t] = Sh(k)[t] => Sh(k)' = Sh(k)
    BY <1>1, MapEqual
  <1>3. IsFiniteSet(a) /\ Cardinality(a) \in Nat /\ Word(k)'
    BY HeldCard DEF IInv
  <1>4. /\ Exclusive(t, k) <=> \E i \in a : toks[t][i].ex
        /\ Exclusive(t, k)' <=> \E i \in b : toks'[t][i].ex
    BY DEF Exclusive
  <1> HIDE DEF a, b
  <1>5. CASE Same(t, k)
    <2>1. b = a /\ \A i \in a : toks'[t][i].ex <=> toks[t][i].ex
      BY <1>5 DEF Same, a, b
    <2>2. Exclusive(t, k)' <=> Exclusive(t, k)
      BY <1>4, <2>1
    <2> QED
      BY <1>1, <1>2, <2>1, <2>2
  <1>6. ASSUME NEW i, Gains(t, k, i), toks'[t][i].ex => a = {}
        PROVE  \/ /\ \A u \in Threads \ {t} : Ex(k)[u] = 0 /\ Sh(k)[u] = 0
                  /\ Sh(k)[t] = 0 /\ Ex(k)[t] \in Nat
                  /\ Ex(k)' = [Ex(k) EXCEPT ![t] = Ex(k)[t] + 1] /\ Sh(k)' = Sh(k)
               \/ /\ \A u \in Threads \ {t} : Ex(k)[u] = 0
                  /\ Ex(k)[t] = 0 /\ Sh(k)[t] \in Nat
                  /\ Sh(k)' = [Sh(k) EXCEPT ![t] = Sh(k)[t] + 1] /\ Ex(k)' = Ex(k)
    <2>1. /\ i \notin a /\ b = a \cup {i}
          /\ \A j \in a : toks'[t][j].ex <=> toks[t][j].ex
      BY <1>6 DEF Gains, a, b
    <2>2. Cardinality(b) = Cardinality(a) + 1
      BY <1>3, <2>1, FS_AddElement
    <2>3. \A u \in Threads \ {t} : /\ ~ Exclusive(u, k)
                                   /\ Exclusive(t, k)' => Held(u, k) = {}
      BY <1>3, <1>6, GainAlone
    <2>4. \A u \in Threads \ {t} : Ex(k)[u] = 0
      BY <2>3 DEF Ex
    <2>5. CASE Exclusive(t, k)'
      <3>1. \A u \in Threads \ {t} : Sh(k)[u] = 0
        BY <2>3, <2>5, FS_EmptySet DEF Sh
      <3>2. Sh(k)[t] = 0 /\ Ex(k)[t] = Cardinality(a)
        <4>1. CASE Exclusive(t, k)
          BY <1>1, <4>1
        <4>2. CASE ~ Exclusive(t, k)
          <5>1. a = {}
            BY <1>4, <1>6, <2>1, <2>5, <4>2
          <5>2. Cardinality(a) = 0
            BY <5>1, FS_EmptySet
          <5> QED
            BY <1>1, <4>2, <5>2
        <4> QED
          BY <4>1, <4>2
      <3>3. Ex(k)'[t] = Ex(k)[t] + 1 /\ Sh(k)'[t] = Sh(k)[t]
        BY <1>1, <2>2, <2>5, <3>2
      <3> QED
        BY <1>2, <1>3, <2>4, <3>1, <3>2, <3>3
    <2>6. CASE ~ Exclusive(t, k)'
      <3>1. ~ Exclusive(t, k)
        BY <1>4, <2>1, <2>6
      <3>2. /\ Ex(k)[t] = 0 /\ Ex(k)'[t] = 0 /\ Sh(k)[t] = Cardinality(a)
            /\ Sh(k)'[t] = Sh(k)[t] + 1
        BY <1>1, <2>2, <2>6, <3>1
      <3> QED
        BY <1>2, <1>3, <2>4, <3>2
    <2> QED
      BY <2>5, <2>6
  <1>7. ASSUME NEW i, Loses(t, k, i), toks[t][i].ex => a = {i}
        PROVE  \/ /\ Ex(k)[t] \in Nat /\ Ex(k)[t] > 0
                  /\ Ex(k)' = [Ex(k) EXCEPT ![t] = Ex(k)[t] - 1] /\ Sh(k)' = Sh(k)
               \/ /\ Sh(k)[t] \in Nat /\ Sh(k)[t] > 0
                  /\ Sh(k)' = [Sh(k) EXCEPT ![t] = Sh(k)[t] - 1] /\ Ex(k)' = Ex(k)
    <2>1. /\ i \in a /\ b = a \ {i}
          /\ \A j \in b : toks'[t][j].ex <=> toks[t][j].ex
      BY <1>7 DEF Loses, a, b
    <2>2. Cardinality(b) = Cardinality(a) - 1 /\ IsFiniteSet(b)
      BY <1>3, <2>1, FS_RemoveElement
    <2>3. Cardinality(b) \in Nat
      BY <2>2, FS_CardinalityType
    <2>4. Cardinality(a) > 0
      BY <1>3, <2>2, <2>3
    <2>5. CASE Exclusive(t, k)
      <3>1. Ex(k)[t] = Cardinality(a) /\ Sh(k)[t] = 0
        BY <1>1, <2>5
      <3>2. Ex(k)'[t] = Cardinality(b) /\ Sh(k)'[t] = 0
        <4>1. CASE toks[t][i].ex
          <5>1. b = {}
            BY <1>7, <2>1, <4>1
          <5>2. Cardinality(b) = 0
            BY <5>1, FS_EmptySet
          <5> QED
            BY <1>1, <5>2
        <4>2. CASE ~ toks[t][i].ex
          <5>1. Exclusive(t, k)'
            BY <1>4, <2>1, <2>5, <4>2
          <5> QED
            BY <1>1, <5>1
        <4> QED
          BY <4>1, <4>2
      <3> QED
        BY <1>2, <1>3, <2>2, <2>4, <3>1, <3>2
    <2>6. CASE ~ Exclusive(t, k)
      <3>1. ~ Exclusive(t, k)'
        BY <1>4, <2>1, <2>6
      <3>2. /\ Ex(k)[t] = 0 /\ Ex(k)'[t] = 0 /\ Sh(k)[t] = Cardinality(a)
            /\ Sh(k)'[t] = Cardinality(b)
        BY <1>1, <2>6, <3>1
      <3> QED
        BY <1>2, <1>3, <2>2, <2>4, <3>2
    <2> QED
      BY <2>5, <2>6
  <1>8. ASSUME NEW i, NEW j, Renames(t, k, i, j) PROVE Ex(k)' = Ex(k) /\ Sh(k)' = Sh(k)
    <2>1. /\ i \in a /\ j \notin a /\ b = (a \ {i}) \cup {j}
          /\ toks'[t][j].ex <=> toks[t][i].ex
          /\ \A m \in a \ {i} : toks'[t][m].ex <=> toks[t][m].ex
      BY <1>8 DEF Renames, a, b
    <2>2. /\ IsFiniteSet(a \ {i}) /\ Cardinality(a \ {i}) = Cardinality(a) - 1
          /\ j \notin a \ {i}
      BY <1>3, <2>1, FS_RemoveElement
    <2>3. Cardinality(b) = Cardinality(a \ {i}) + 1
      BY <2>1, <2>2, FS_AddElement
    <2>4. Cardinality(b) = Cardinality(a)
      BY <1>3, <2>2, <2>3
    <2>5. Exclusive(t, k)' <=> Exclusive(t, k)
      BY <1>4, <2>1
    <2> QED
      BY <1>1, <1>2, <2>4, <2>5
  <1> QED
    BY <1>5, <1>6, <1>7, <1>8 DEF Effect, a

\* The same in the words of RWLock.
LEMMA RefineStep ==
  ASSUME IInv, IInv', NEW t \in Threads, Frame(t), NEW k \in Tokens, Effect(t, k)
  PROVE  RW(k)!RWNext \/ UNCHANGED RW(k)!rwvars
  <1>1. CASE Ex(k)' = Ex(k) /\ Sh(k)' = Sh(k)
    BY <1>1 DEF RW!rwvars, Ex, Sh
  <1>2. CASE /\ \A u \in Threads \ {t} : Ex(k)[u] = 0 /\ Sh(k)[u] = 0
             /\ Sh(k)[t] = 0 /\ Ex(k)[t] \in Nat
             /\ Ex(k)' = [Ex(k) EXCEPT ![t] = Ex(k)[t] + 1] /\ Sh(k)' = Sh(k)
    <2>1. RW(k)!AcquireExcl(t)
      BY <1>2 DEF RW!AcquireExcl, RW!NoOtherHold, Ex, Sh
    <2>2. Ex(k)' # Ex(k)
      <3>1. Ex(k)'[t] = Ex(k)[t] + 1
        BY <1>2 DEF Ex
      <3> QED
        BY <1>2, <3>1
    <2>3. RW(k)!rwvars' # RW(k)!rwvars
      BY <2>2 DEF RW!rwvars, Ex
    <2> QED
      BY <2>1, <2>3 DEF RW!RWNext
  <1>3. CASE /\ \A u \in Threads \ {t} : Ex(k)[u] = 0
             /\ Ex(k)[t] = 0 /\ Sh(k)[t] \in Nat
             /\ Sh(k)' = [Sh(k) EXCEPT ![t] = Sh(k)[t] + 1] /\ Ex(k)' = Ex(k)
    <2>1. RW(k)!AcquireShared(t)
      BY <1>3 DEF RW!AcquireShared, RW!NoOtherExcl, Ex, Sh
    <2>2. Sh(k)' # Sh(k)
      <3>1. Sh(k)'[t] = Sh(k)[t] + 1
        BY <1>3 DEF Sh
      <3> QED
        BY <1>3, <3>1
    <2>3. RW(k)!rwvars' # RW(k)!rwvars
      BY <2>2 DEF RW!rwvars, Sh
    <2> QED
      BY <2>1, <2>3 DEF RW!RWNext
  <1>4. CASE /\ Ex(k)[t] \in Nat /\ Ex(k)[t] > 0
             /\ Ex(k)' = [Ex(k) EXCEPT ![t] = Ex(k)[t] - 1] /\ Sh(k)' = Sh(k)
    <2>1. RW(k)!ReleaseExcl(t)
      BY <1>4 DEF RW!ReleaseExcl, Ex, Sh
    <2>2. Ex(k)' # Ex(k)
      <3>1. Ex(k)'[t] = Ex(k)[t] - 1
        BY <1>4 DEF Ex
      <3> QED
        BY <1>4, <3>1
    <2>3. RW(k)!rwvars' # RW(k)!rwvars
      BY <2>2 DEF RW!rwvars, Ex
    <2> QED
      BY <2>1, <2>3 DEF RW!RWNext
  <1>5. CASE /\ Sh(k)[t] \in Nat /\ Sh(k)[t] > 0
             /\ Sh(k)' = [Sh(k) EXCEPT ![t] = Sh(k)[t] - 1] /\ Ex(k)' = Ex(k)
    <2>1. RW(k)!ReleaseShared(t)
      BY <1>5 DEF RW!ReleaseShared, Ex, Sh
    <2>2. Sh(k)' # Sh(k)
      <3>1. Sh(k)'[t] = Sh(k)[t] - 1
        BY <1>5 DEF Sh
      <3> QED
        BY <1>5, <3>1
    <2>3. RW(k)!rwvars' # RW(k)!rwvars
      BY <2>2 DEF RW!rwvars, Sh
    <2> QED
      BY <2>1, <2>3 DEF RW!RWNext
  <1> QED
    BY <1>1, <1>2, <1>3, <1>4, <1>5, EffectMaps

\* Nobody has a token at first.
LEMMA RefineInit ==
  ASSUME Init, NEW k \in Tokens
  PROVE  RW(k)!RWInit
  <1>1. ASSUME NEW t \in Threads PROVE Held(t, k) = {}
    <2>1. pc[t] # "setref" /\ have[t] = <<>>
      BY DEF Init
    <2> QED
      BY <2>1, HeldIs, NoneSeq DEF Among
  <1>2. \A t \in Threads : ~ Exclusive(t, k) /\ Cardinality(Held(t, k)) = 0
    BY <1>1, FS_EmptySet DEF Exclusive
  <1> QED
    BY <1>2 DEF RW!RWInit

\* Every token implements the abstract lock, through recursion, swaps, failed
\* and repeated acquisitions of whole stacks, and releases in two steps.
THEOREM TokenRefinesRWLock == Spec => ImplementsRWLock
  <1>1. Init => \A k \in Tokens : RW(k)!RWInit
    BY RefineInit
  <1>2. ASSUME IInv, IInv', [Next]_vars
        PROVE  [\A k \in Tokens : RW(k)!RWNext \/ UNCHANGED RW(k)!rwvars]_vars
    <2>1. CASE Next
      <3>1. PICK t \in Threads : StepOK(t)
        BY <1>2, <2>1, NextStep
      <3>2. \A k \in Tokens : RW(k)!RWNext \/ UNCHANGED RW(k)!rwvars
        BY <1>2, <3>1, RefineStep DEF StepOK
      <3> QED
        BY <3>2
    <2> QED
      BY <1>2, <2>1
  <1> QED
    BY <1>1, <1>2, TokenInvariance, PTL DEF Spec, ImplementsRWLock
==============================================================================
