--------------------------- MODULE TokenizerProofs ---------------------------
(***************************************************************************)
(* Theorems about the tokenizer, for every text and however the reader     *)
(* cuts it into buffers: its types, and that the tokens it returns are     *)
(* those of the text.  The invariant says at every character which tokens  *)
(* are still to come, in terms of the definitions that have no buffers and *)
(* no modes.                                                               *)
(*                                                                         *)
(* These definitions are recursive functions.  Each is a chain: its value  *)
(* at a position is a head and then its value at a position further on.    *)
(* That a chain exists and is a sequence everywhere is proved from the     *)
(* position where it fails nearest to the end.                             *)
(***************************************************************************)
EXTENDS Tokenizer, NaturalLemmas, SequenceTheorems

-----------------------------------------------------------------------------
(* Chains *)

\* What a chain f has at position p.
Link(f, b, head, next, p) ==
  IF p = b THEN <<>> ELSE IF head[p] = <<>> THEN f[next[p]] ELSE head[p] \o f[next[p]]

IsChain(f, b, head, next) == f = [p \in 1 .. b |-> Link(f, b, head, next, p)]

Leads(S, b, head, next) ==
  \A p \in 1 .. b : p # b => head[p] \in Seq(S) /\ next[p] \in p + 1 .. b

\* A chain can be built from its end.
LEMMA ChainExists ==
  ASSUME NEW S, NEW b \in Nat \ {0}, NEW head, NEW next, Leads(S, b, head, next)
  PROVE  \E f : IsChain(f, b, head, next)
<1> DEFINE Holds(f, m) == \A p \in b - m .. b : f[p] = Link(f, b, head, next, p)
           Built(m) == \E f : f = [p \in 1 .. b |-> f[p]] /\ Holds(f, m)
           Missing == {m \in 0 .. b - 1 : ~Built(m)}
<1>1. Built(0)
  <2> DEFINE f == [p \in 1 .. b |-> <<>>]
  <2>1. f = [p \in 1 .. b |-> f[p]]
    OBVIOUS
  <2>2. \A p \in b - 0 .. b : p = b /\ p \in 1 .. b
    OBVIOUS
  <2>3. Holds(f, 0)
    BY <2>2 DEF Link
  <2> QED BY <2>1, <2>3
<1>2. ASSUME NEW m \in 1 .. b - 1, Built(m - 1) PROVE Built(m)
  <2>1. PICK g : g = [p \in 1 .. b |-> g[p]] /\ Holds(g, m - 1)
    BY <1>2
  <2> DEFINE q == b - m
             f == [p \in 1 .. b |-> IF p = q THEN Link(g, b, head, next, p) ELSE g[p]]
  <2>2. /\ q \in 1 .. b /\ q # b
        /\ \A p \in b - m .. b : p \in 1 .. b /\ (p = q \/ p \in b - (m - 1) .. b)
        /\ \A p \in b - m .. b : \A k \in p + 1 .. b : k \in 1 .. b /\ k # q
    OBVIOUS
  <2>3. f = [p \in 1 .. b |-> f[p]]
    OBVIOUS
  <2>4. \A p \in 1 .. b : f[p] = IF p = q THEN Link(g, b, head, next, p) ELSE g[p]
    OBVIOUS
  <2> HIDE DEF f, q
  <2>5. ASSUME NEW p \in b - m .. b PROVE f[p] = Link(f, b, head, next, p)
    <3>1. p \in 1 .. b
      BY <2>2
    <3>2. CASE p = b
      <4>1. p \in b - (m - 1) .. b /\ p # q
        BY <2>2, <3>2
      <4> QED BY <2>1, <2>4, <3>1, <3>2, <4>1 DEF Link
    <3>3. CASE p # b
      <4>1. next[p] \in p + 1 .. b
        BY <3>1, <3>3 DEF Leads
      <4>2. f[next[p]] = g[next[p]]
        BY <2>2, <2>4, <4>1
      <4>3. CASE p = q
        BY <2>4, <3>1, <3>3, <4>2, <4>3 DEF Link
      <4>4. CASE p # q
        <5>1. f[p] = g[p] /\ g[p] = Link(g, b, head, next, p)
          BY <2>1, <2>2, <2>4, <3>1, <4>4
        <5> QED BY <3>3, <4>2, <5>1 DEF Link
      <4> QED BY <4>3, <4>4
    <3> QED BY <3>2, <3>3
  <2>6. Holds(f, m)
    BY <2>5 DEF q
  <2> QED BY <2>3, <2>6
<1>3. Missing = {}
  <2> SUFFICES ASSUME Missing # {} PROVE FALSE
    OBVIOUS
  <2>1. Missing \in SUBSET Nat /\ \A m \in Missing : m \in 0 .. b - 1 /\ ~Built(m)
    OBVIOUS
  <2>2. \A m \in 0 .. b - 1 : m \notin Missing => Built(m)
    OBVIOUS
  <2> HIDE DEF Missing, Built
  <2>3. PICK m \in Missing : \A k \in Missing : m <= k
    BY <2>1, LeastNatural
  <2>4. m \in 1 .. b - 1
    <3>1. m # 0
      BY <1>1, <2>1
    <3> QED BY <2>1, <3>1
  <2>5. m - 1 \in 0 .. b - 1 /\ m - 1 \notin Missing
    BY <2>1, <2>3, <2>4
  <2> QED BY <1>2, <2>1, <2>2, <2>4, <2>5
<1>4. Built(b - 1)
  <2>1. b - 1 \in 0 .. b - 1
    OBVIOUS
  <2> QED BY <1>3, <2>1
<1>5. PICK f : f = [p \in 1 .. b |-> f[p]] /\ Holds(f, b - 1)
  BY <1>4
<1>6. \A p \in 1 .. b : f[p] = Link(f, b, head, next, p)
  <2>1. b - (b - 1) = 1
    OBVIOUS
  <2> QED BY <1>5, <2>1
<1>7. f = [p \in 1 .. b |-> Link(f, b, head, next, p)]
  <2> HIDE DEF Holds
  <2> QED BY <1>5, <1>6
<1> QED BY <1>7 DEF IsChain

\* A chain of sequences is one at every position.
AreSequences(f, S, b) == f[b] = <<>> /\ \A p \in 1 .. b : f[p] \in Seq(S)

LEMMA ChainOfSequences ==
  ASSUME NEW S, NEW b \in Nat \ {0}, NEW head, NEW next, Leads(S, b, head, next),
         NEW f, IsChain(f, b, head, next)
  PROVE  AreSequences(f, S, b)
<1>1. \A p \in 1 .. b : f[p] = Link(f, b, head, next, p)
  BY DEF IsChain
<1>2. f[b] = <<>>
  <2>1. b \in 1 .. b
    OBVIOUS
  <2> QED BY <1>1, <2>1 DEF Link
<1> DEFINE Wrong == {p \in 1 .. b : f[p] \notin Seq(S)}
<1>4. Wrong = {}
  <2> SUFFICES ASSUME Wrong # {} PROVE FALSE
    OBVIOUS
  <2>1. Wrong \in SUBSET (1 .. b)
    OBVIOUS
  <2>2. PICK p \in Wrong : \A k \in Wrong : k <= p
    <3> HIDE DEF Wrong
    <3> QED BY <2>1, GreatestNatural
  <2>3. p \in 1 .. b /\ f[p] \notin Seq(S)
    OBVIOUS
  <2>4. p # b
    BY <1>2, <2>3, EmptySeq
  <2>5. head[p] \in Seq(S) /\ next[p] \in p + 1 .. b
    BY <2>3, <2>4 DEF Leads
  <2>6. next[p] \in 1 .. b /\ ~(next[p] <= p)
    BY <2>3, <2>5
  <2>7. f[next[p]] \in Seq(S)
    BY <2>2, <2>6
  <2>8. f[p] \in Seq(S)
    BY <1>1, <2>3, <2>4, <2>5, <2>7, ConcatProperties DEF Link
  <2> QED BY <2>3, <2>8
<1> QED BY <1>2, <1>4 DEF AreSequences

-----------------------------------------------------------------------------
(* The first position *)

LEMMA LeastIsFirst ==
  ASSUME NEW T \in SUBSET Nat, T # {}
  PROVE  Least(T) \in T /\ \A q \in T : Least(T) <= q
BY LeastNatural DEF Least

LEMMA LeastIs ==
  ASSUME NEW T \in SUBSET Nat, NEW x \in T, \A q \in T : x <= q
  PROVE  Least(T) = x
<1>1. PICK y : y = Least(T)
  OBVIOUS
<1>2. y \in T /\ y <= x
  BY <1>1, LeastIsFirst
<1>3. x <= y /\ x \in Nat /\ y \in Nat
  BY <1>2
<1>4. x = y
  BY <1>2, <1>3
<1> QED BY <1>1, <1>4

LEMMA FirstOfRange ==
  ASSUME NEW S, NEW t \in Seq(S), NEW p \in 1 .. Len(t) + 1, NEW chars
  PROVE  /\ FirstOf(t, p, chars) \in p .. Len(t) + 1
         /\ FirstOf(t, p, chars) <= Len(t) => t[FirstOf(t, p, chars)] \in chars
<1> DEFINE T == {q \in p .. Len(t) : t[q] \in chars} \cup {Len(t) + 1}
<1>1. Len(t) \in Nat /\ T \in SUBSET Nat /\ T # {} /\ T \subseteq p .. Len(t) + 1
  OBVIOUS
<1>2. \A q \in T : q <= Len(t) => t[q] \in chars
  BY <1>1
<1>3. FirstOf(t, p, chars) = Least(T)
  BY DEF FirstOf
<1> HIDE DEF T
<1>4. Least(T) \in T
  BY <1>1, LeastIsFirst
<1> QED BY <1>1, <1>2, <1>3, <1>4

\* Behind the text there is none.
LEMMA FirstOfEnd ==
  ASSUME NEW S, NEW t \in Seq(S), NEW chars
  PROVE  FirstOf(t, Len(t) + 1, chars) = Len(t) + 1
<1>1. Len(t) \in Nat /\ Len(t) + 1 \in 1 .. Len(t) + 1
  OBVIOUS
<1>2. PICK x : x = FirstOf(t, Len(t) + 1, chars)
  OBVIOUS
<1>3. x \in Len(t) + 1 .. Len(t) + 1
  BY <1>1, <1>2, FirstOfRange
<1>4. x = Len(t) + 1
  BY <1>1, <1>3
<1> QED BY <1>2, <1>4

LEMMA FirstOfHere ==
  ASSUME NEW S, NEW t \in Seq(S), NEW p \in 1 .. Len(t), NEW chars, t[p] \in chars
  PROVE  FirstOf(t, p, chars) = p
<1> DEFINE T == {q \in p .. Len(t) : t[q] \in chars} \cup {Len(t) + 1}
<1>1. T \in SUBSET Nat /\ p \in T /\ \A q \in T : p <= q
  OBVIOUS
<1>2. FirstOf(t, p, chars) = Least(T)
  BY DEF FirstOf
<1> HIDE DEF T
<1> QED BY <1>1, <1>2, LeastIs

LEMMA FirstOfFurther ==
  ASSUME NEW S, NEW t \in Seq(S), NEW p \in 1 .. Len(t), NEW chars, t[p] \notin chars
  PROVE  FirstOf(t, p, chars) = FirstOf(t, p + 1, chars)
<1>1. {q \in p .. Len(t) : t[q] \in chars} = {q \in p + 1 .. Len(t) : t[q] \in chars}
  <2>1. \A q : q \in p .. Len(t) <=> q = p \/ q \in p + 1 .. Len(t)
    OBVIOUS
  <2> QED BY <2>1
<1> QED BY <1>1, Zenon DEF FirstOf

-----------------------------------------------------------------------------
(* The closing quote *)

Quotes(t, p) == {q \in p + 1 .. Len(t) : t[q] = "QUOTE" /\ ~Escaped(t, p, q)}

LEMMA ClosingIsLeast ==
  ASSUME NEW t, NEW p
  PROVE  Closing(t, p) = Least(Quotes(t, p) \cup {Len(t) + 1})
BY DEF Closing, Quotes

LEMMA ClosingRange ==
  ASSUME NEW S, NEW t \in Seq(S), NEW p \in 0 .. Len(t)
  PROVE  Closing(t, p) \in p + 1 .. Len(t) + 1
<1> DEFINE T == Quotes(t, p) \cup {Len(t) + 1}
<1>1. Len(t) \in Nat /\ T \in SUBSET Nat /\ T # {} /\ T \subseteq p + 1 .. Len(t) + 1
  BY DEF Quotes
<1> HIDE DEF T
<1>2. Least(T) \in T
  BY <1>1, LeastIsFirst
<1>3. Closing(t, p) = Least(T)
  BY ClosingIsLeast DEF T
<1> QED BY <1>1, <1>2, <1>3

\* A quote right behind the opening one closes.
LEMMA ClosingHere ==
  ASSUME NEW S, NEW t \in Seq(S), NEW p \in 0 .. Len(t) - 1, t[p + 1] = "QUOTE"
  PROVE  Closing(t, p) = p + 1
<1>1. ~Escaped(t, p, p + 1)
  <2> SUFFICES ASSUME Escaped(t, p, p + 1) PROVE FALSE
    OBVIOUS
  <2>1. PICK b \in p + 1 .. p + 1 : (p + 1 - b) % 2 = 1
    BY DEF Escaped
  <2>2. p + 1 - b = 0
    OBVIOUS
  <2> QED BY <2>1, <2>2
<1> DEFINE T == Quotes(t, p) \cup {Len(t) + 1}
<1>2. T \in SUBSET Nat /\ p + 1 \in T /\ \A q \in T : p + 1 <= q
  BY <1>1 DEF Quotes
<1>3. Closing(t, p) = Least(T)
  BY ClosingIsLeast
<1> HIDE DEF T
<1> QED BY <1>2, <1>3, LeastIs

\* Without a quote that closes, the text does.
LEMMA ClosingEnd ==
  ASSUME NEW S, NEW t \in Seq(S), NEW p, Quotes(t, p) = {}
  PROVE  Closing(t, p) = Len(t) + 1
<1> DEFINE T == {Len(t) + 1}
<1>1. T \in SUBSET Nat /\ Len(t) + 1 \in T /\ \A q \in T : Len(t) + 1 <= q
  OBVIOUS
<1>2. Closing(t, p) = Least(T)
  BY ClosingIsLeast
<1> HIDE DEF T
<1> QED BY <1>1, <1>2, LeastIs

\* A character that is no backslash separates what is behind it from what is before.
LEMMA ClosingBehindPlain ==
  ASSUME NEW S, NEW t \in Seq(S), NEW p \in 0 .. Len(t) - 1,
         t[p + 1] \notin {"QUOTE", "BACKSLASH"}
  PROVE  Closing(t, p) = Closing(t, p + 1)
<1>1. ASSUME NEW q \in p + 2 .. Len(t) PROVE Escaped(t, p, q) <=> Escaped(t, p + 1, q)
  <2>1. ASSUME Escaped(t, p, q) PROVE Escaped(t, p + 1, q)
    <3>1. PICK b \in p + 1 .. q :
            /\ (q - b) % 2 = 1
            /\ \A j \in b .. q - 1 : t[j] = "BACKSLASH"
            /\ b = p + 1 \/ t[b - 1] # "BACKSLASH"
      BY <2>1 DEF Escaped
    <3>2. b # p + 1
      <4>1. p + 1 \in p + 1 .. q - 1
        OBVIOUS
      <4> QED BY <3>1, <4>1
    <3>3. b \in p + 1 + 1 .. q
      BY <3>2
    <3> QED BY <3>1, <3>2, <3>3 DEF Escaped
  <2>2. ASSUME Escaped(t, p + 1, q) PROVE Escaped(t, p, q)
    <3>1. PICK b \in p + 1 + 1 .. q :
            /\ (q - b) % 2 = 1
            /\ \A j \in b .. q - 1 : t[j] = "BACKSLASH"
            /\ b = p + 1 + 1 \/ t[b - 1] # "BACKSLASH"
      BY <2>2 DEF Escaped
    <3>2. b \in p + 1 .. q
      OBVIOUS
    <3>3. t[b - 1] # "BACKSLASH"
      <4>1. CASE b = p + 1 + 1
        <5>1. b - 1 = p + 1
          BY <4>1
        <5> QED BY <5>1
      <4> QED BY <3>1, <4>1
    <3> QED BY <3>1, <3>2, <3>3 DEF Escaped
  <2> QED BY <2>1, <2>2
<1>2. Quotes(t, p) = Quotes(t, p + 1)
  <2>1. \A q : q \in p + 1 .. Len(t) <=> q = p + 1 \/ q \in p + 2 .. Len(t)
    OBVIOUS
  <2>2. p + 1 + 1 = p + 2
    OBVIOUS
  <2> QED BY <1>1, <2>1, <2>2 DEF Quotes
<1> QED BY <1>2, ClosingIsLeast, Zenon

\* So does a backslash with the character behind it, whichever that is.
LEMMA ClosingBehindEscape ==
  ASSUME NEW S, NEW t \in Seq(S), NEW p \in 0 .. Len(t) - 2, t[p + 1] = "BACKSLASH"
  PROVE  Closing(t, p) = Closing(t, p + 2)
<1>1. ASSUME NEW q \in p + 3 .. Len(t) PROVE Escaped(t, p, q) <=> Escaped(t, p + 2, q)
  <2>1. ASSUME Escaped(t, p, q) PROVE Escaped(t, p + 2, q)
    <3>1. PICK b \in p + 1 .. q :
            /\ (q - b) % 2 = 1
            /\ \A j \in b .. q - 1 : t[j] = "BACKSLASH"
            /\ b = p + 1 \/ t[b - 1] # "BACKSLASH"
      BY <2>1 DEF Escaped
    <3>2. b # p + 2
      <4> SUFFICES ASSUME b = p + 2 PROVE FALSE
        OBVIOUS
      <4>1. b - 1 = p + 1 /\ b # p + 1
        OBVIOUS
      <4> QED BY <3>1, <4>1
    <3>3. CASE b = p + 1
      <4>1. /\ (q - (p + 3)) % 2 = 1 /\ p + 3 = p + 2 + 1
            /\ p + 3 \in p + 2 + 1 .. q
            /\ \A j \in p + 3 .. q - 1 : j \in b .. q - 1
        BY <3>1, <3>3, Z3
      <4> QED BY <3>1, <4>1 DEF Escaped
    <3>4. CASE b # p + 1
      <4>1. b \in p + 2 + 1 .. q
        BY <3>2, <3>4
      <4> QED BY <3>1, <3>4, <4>1 DEF Escaped
    <3> QED BY <3>3, <3>4
  <2>2. ASSUME Escaped(t, p + 2, q) PROVE Escaped(t, p, q)
    <3>1. PICK b \in p + 2 + 1 .. q :
            /\ (q - b) % 2 = 1
            /\ \A j \in b .. q - 1 : t[j] = "BACKSLASH"
            /\ b = p + 2 + 1 \/ t[b - 1] # "BACKSLASH"
      BY <2>2 DEF Escaped
    <3>2. CASE t[b - 1] # "BACKSLASH"
      <4>1. b \in p + 1 .. q
        OBVIOUS
      <4> QED BY <3>1, <3>2, <4>1 DEF Escaped
    <3>3. CASE t[b - 1] = "BACKSLASH"
      <4>1. b = p + 3 /\ b - 1 = p + 2
        BY <3>1, <3>3
      <4>2. (q - (p + 1)) % 2 = 1 /\ p + 1 \in p + 1 .. q
        BY <3>1, <4>1, Z3
      <4>3. \A j \in p + 1 .. q - 1 : j = p + 1 \/ j = b - 1 \/ j \in b .. q - 1
        BY <4>1
      <4>4. \A j \in p + 1 .. q - 1 : t[j] = "BACKSLASH"
        BY <3>1, <3>3, <4>3
      <4> QED BY <4>2, <4>4 DEF Escaped
    <3> QED BY <3>2, <3>3
  <2> QED BY <2>1, <2>2
<1>2. Escaped(t, p, p + 2)
  <2>1. /\ p + 1 \in p + 1 .. p + 2 /\ (p + 2 - (p + 1)) % 2 = 1
        /\ \A j \in p + 1 .. p + 2 - 1 : j = p + 1
    BY Z3
  <2> QED BY <2>1 DEF Escaped
<1>3. Quotes(t, p) = Quotes(t, p + 2)
  <2>1. \A q : q \in p + 1 .. Len(t) <=> q = p + 1 \/ q = p + 2 \/ q \in p + 3 .. Len(t)
    OBVIOUS
  <2>2. p + 2 + 1 = p + 3
    OBVIOUS
  <2> QED BY <1>1, <1>2, <2>1, <2>2 DEF Quotes
<1> QED BY <1>3, ClosingIsLeast, Zenon

-----------------------------------------------------------------------------
(* What is between quotes *)

UnquotedHead(t, e) ==
  [q \in 1 .. e |-> IF t[q] # "BACKSLASH" THEN <<t[q]>>
                    ELSE IF q + 1 = e THEN <<>> ELSE <<Unescaped(t[q + 1])>>]
UnquotedNext(t, e) == [q \in 1 .. e |-> IF t[q] # "BACKSLASH" \/ q + 1 = e THEN q + 1 ELSE q + 2]

LEMMA UnescapedChar ==
  ASSUME NEW c \in Chars
  PROVE  Unescaped(c) \in Chars
BY TextsAssumption DEF TextsAssumption, Unescaped

LEMMA OneOfSeq ==
  ASSUME NEW S, NEW x \in S
  PROVE  <<x>> \in Seq(S) /\ Len(<<x>>) = 1 /\ <<x>> # <<>>
OBVIOUS

LEMMA UnquotedLeads ==
  ASSUME NEW t \in Seq(Chars), NEW e \in 1 .. Len(t) + 1
  PROVE  Leads(Chars, e, UnquotedHead(t, e), UnquotedNext(t, e))
<1> SUFFICES ASSUME NEW q \in 1 .. e, q # e
             PROVE  UnquotedHead(t, e)[q] \in Seq(Chars) /\ UnquotedNext(t, e)[q] \in q + 1 .. e
  BY DEF Leads
<1>1. q \in 1 .. Len(t) /\ (q + 1 = e \/ (q + 1 \in 1 .. Len(t) /\ q + 2 <= e))
  <2>1. PICK n \in Nat : n = Len(t)
    OBVIOUS
  <2>2. q \in 1 .. n /\ (q + 1 = e \/ (q + 1 \in 1 .. n /\ q + 2 <= e))
    BY <2>1
  <2> QED BY <2>1, <2>2, Zenon
<1>2. UnquotedNext(t, e)[q] \in q + 1 .. e
  BY <1>1 DEF UnquotedNext
<1>3. t[q] \in Chars /\ (q + 1 = e \/ t[q + 1] \in Chars)
  BY <1>1, ElementOfSeq
<1>4. <<t[q]>> \in Seq(Chars) /\ <<>> \in Seq(Chars)
  BY <1>3, OneOfSeq, EmptySeq
<1>5. q + 1 = e \/ <<Unescaped(t[q + 1])>> \in Seq(Chars)
  BY <1>3, UnescapedChar, OneOfSeq
<1>6. UnquotedHead(t, e)[q] \in Seq(Chars)
  BY <1>4, <1>5 DEF UnquotedHead
<1> QED BY <1>2, <1>6

LEMMA UnquotedLink ==
  ASSUME NEW t \in Seq(Chars), NEW e \in 1 .. Len(t) + 1, NEW f, f[e] = <<>>, NEW q \in 1 .. e
  PROVE  Link(f, e, UnquotedHead(t, e), UnquotedNext(t, e), q) = UnquotedAt(t, e, f, q)
<1> DEFINE head == UnquotedHead(t, e)[q]
           next == UnquotedNext(t, e)[q]
<1>1. CASE q = e
  BY <1>1 DEF Link, UnquotedAt
<1>2. CASE q # e /\ t[q] # "BACKSLASH"
  <2>1. head = <<t[q]>> /\ next = q + 1
    BY <1>2 DEF UnquotedHead, UnquotedNext
  <2> QED BY <1>2, <2>1 DEF Link, UnquotedAt
<1>3. CASE q # e /\ t[q] = "BACKSLASH" /\ q + 1 = e
  <2>1. head = <<>> /\ next = e
    BY <1>3 DEF UnquotedHead, UnquotedNext
  <2> QED BY <1>3, <2>1 DEF Link, UnquotedAt
<1>4. CASE q # e /\ t[q] = "BACKSLASH" /\ q + 1 # e
  <2>1. head = <<Unescaped(t[q + 1])>> /\ next = q + 2
    BY <1>4 DEF UnquotedHead, UnquotedNext
  <2> QED BY <1>4, <2>1 DEF Link, UnquotedAt
<1> QED BY <1>1, <1>2, <1>3, <1>4

LEMMA UnquotedIsChain ==
  ASSUME NEW t \in Seq(Chars), NEW e \in 1 .. Len(t) + 1
  PROVE  IsChain(UnquotedFrom(t, e), e, UnquotedHead(t, e), UnquotedNext(t, e))
<1> DEFINE IsUnquoted(f) == f = [q \in 1 .. e |-> UnquotedAt(t, e, f, q)]
<1>1. e \in Nat \ {0} /\ e \in 1 .. e
  OBVIOUS
<1> DEFINE head == UnquotedHead(t, e)
           next == UnquotedNext(t, e)
<1>a. Leads(Chars, e, head, next)
  BY UnquotedLeads
<1>2. PICK f : IsChain(f, e, head, next)
  <2> HIDE DEF head, next
  <2> QED BY <1>1, <1>a, ChainExists
<1>3. f[e] = <<>>
  <2>1. AreSequences(f, Chars, e)
    <3> HIDE DEF head, next
    <3> QED BY <1>1, <1>2, <1>a, ChainOfSequences
  <2> QED BY <2>1 DEF AreSequences
<1>4. IsUnquoted(f)
  BY <1>2, <1>3, UnquotedLink DEF IsChain
<1>5. IsUnquoted(UnquotedFrom(t, e))
  <2>1. UnquotedFrom(t, e) = CHOOSE g : IsUnquoted(g)
    BY DEF UnquotedFrom
  <2> HIDE DEF IsUnquoted
  <2> QED BY <1>4, <2>1
<1>6. PICK g : g = UnquotedFrom(t, e)
  OBVIOUS
<1>7. g = [q \in 1 .. e |-> UnquotedAt(t, e, g, q)]
  BY <1>5, <1>6
<1>8. g[e] = <<>>
  <2>1. g[e] = UnquotedAt(t, e, g, e)
    BY <1>1, <1>7
  <2> QED BY <2>1 DEF UnquotedAt
<1>9. IsChain(g, e, UnquotedHead(t, e), UnquotedNext(t, e))
  BY <1>7, <1>8, UnquotedLink DEF IsChain
<1> QED BY <1>6, <1>9

\* What is between p and e, by the character behind p.
LEMMA UnquotedProperties ==
  ASSUME NEW t \in Seq(Chars), NEW p \in 0 .. Len(t), NEW e \in p + 1 .. Len(t) + 1
  PROVE  /\ Unquoted(t, p, e) \in Seq(Chars)
         /\ p + 1 = e => Unquoted(t, p, e) = <<>>
         /\ p + 1 # e /\ t[p + 1] # "BACKSLASH"
              => Unquoted(t, p, e) = <<t[p + 1]>> \o Unquoted(t, p + 1, e)
         /\ p + 1 # e /\ t[p + 1] = "BACKSLASH" /\ p + 2 = e => Unquoted(t, p, e) = <<>>
         /\ p + 1 # e /\ t[p + 1] = "BACKSLASH" /\ p + 2 # e
              => Unquoted(t, p, e) = <<Unescaped(t[p + 2])>> \o Unquoted(t, p + 2, e)
<1>1. /\ e \in Nat \ {0} /\ e \in 1 .. Len(t) + 1 /\ p + 1 \in 1 .. e
      /\ p + 1 + 1 = p + 2 /\ p + 1 + 2 = p + 2 + 1
  OBVIOUS
<1>2. PICK f : f = UnquotedFrom(t, e)
  OBVIOUS
<1> DEFINE head == UnquotedHead(t, e)
           next == UnquotedNext(t, e)
<1>3. /\ \A q \in 1 .. e : f[q] \in Seq(Chars)
      /\ f[e] = <<>>
      /\ IsChain(f, e, head, next)
  <2>1. Leads(Chars, e, head, next) /\ IsChain(f, e, head, next)
    BY <1>1, <1>2, UnquotedLeads, UnquotedIsChain
  <2>2. AreSequences(f, Chars, e)
    <3> HIDE DEF head, next
    <3> QED BY <1>1, <2>1, ChainOfSequences
  <2> QED BY <2>1, <2>2 DEF AreSequences
<1>4. f[p + 1] = UnquotedAt(t, e, f, p + 1)
  <2>1. f[p + 1] = Link(f, e, UnquotedHead(t, e), UnquotedNext(t, e), p + 1)
    BY <1>1, <1>3 DEF IsChain
  <2> QED BY <1>1, <1>3, <2>1, UnquotedLink
<1>5. /\ Unquoted(t, p, e) = f[p + 1] /\ Unquoted(t, p + 1, e) = f[p + 2]
      /\ Unquoted(t, p + 2, e) = f[p + 1 + 2]
  BY <1>1, <1>2 DEF Unquoted
<1> QED BY <1>1, <1>3, <1>4, <1>5 DEF UnquotedAt

-----------------------------------------------------------------------------
(* The tokens of a text *)

TokensHead(t) ==
  [p \in 1 .. Len(t) + 1 |->
     CASE t[p] = "SP" -> <<>>
       [] t[p] = "NL" -> <<<<"NL">>>>
       [] t[p] = "#" -> IF FirstOf(t, p, {"NL"}) > Len(t) THEN <<>> ELSE <<<<"NL">>>>
       [] t[p] = "QUOTE" ->
            LET word == Unquoted(t, p, Closing(t, p))
            IN  IF Closing(t, p) > Len(t) /\ word = <<>> THEN <<>> ELSE <<word>>
       [] OTHER -> <<SubSeq(t, p, WordEnd(t, p) - 1)>>]

TokensNext(t) ==
  [p \in 1 .. Len(t) + 1 |->
     LET Behind(e) == IF e > Len(t) THEN Len(t) + 1 ELSE e + 1
     IN  CASE t[p] \in {"SP", "NL"} -> p + 1
           [] t[p] = "#" -> Behind(FirstOf(t, p, {"NL"}))
           [] t[p] = "QUOTE" -> Behind(Closing(t, p))
           [] OTHER -> BehindWord(t, WordEnd(t, p))]

LEMMA LineBreakToken == <<"NL">> \in Seq(Chars) /\ <<<<"NL">>>> \in Seq(Seq(Chars)) /\ <<<<"NL">>>> # <<>>
<1>1. <<"NL">> \in Seq(Chars)
  BY TextsAssumption, OneOfSeq DEF TextsAssumption
<1> QED BY <1>1, OneOfSeq

LEMMA BehindWordRange ==
  ASSUME NEW t \in Seq(Chars), NEW e \in 1 .. Len(t) + 1
  PROVE  BehindWord(t, e) \in e .. Len(t) + 1
<1>1. FirstOf(t, e, {"NL"}) \in e .. Len(t) + 1
  BY FirstOfRange
<1>2. e \in e .. Len(t) + 1
  OBVIOUS
<1> QED BY <1>1, <1>2 DEF BehindWord

LEMMA WordProperties ==
  ASSUME NEW t \in Seq(Chars), NEW p \in 1 .. Len(t)
  PROVE  /\ WordEnd(t, p) \in p + 1 .. Len(t) + 1
         /\ SubSeq(t, p, WordEnd(t, p) - 1) \in Seq(Chars)
<1>1. PICK e : e = WordEnd(t, p)
  OBVIOUS
<1>2. e \in p + 1 .. Len(t) + 1
  <2>1. p + 1 \in 1 .. Len(t) + 1
    OBVIOUS
  <2> QED BY <1>1, <2>1, FirstOfRange DEF WordEnd
<1>3. \A i \in p .. e - 1 : t[i] \in Chars
  <2>1. \A i \in p .. e - 1 : i \in 1 .. Len(t)
    BY <1>2
  <2> QED BY <2>1, ElementOfSeq
<1>4. SubSeq(t, p, e - 1) \in Seq(Chars)
  <2>1. p \in Int /\ e - 1 \in Int
    BY <1>2
  <2> QED BY <1>3, <2>1, SubSeqProperties
<1> QED BY <1>1, <1>2, <1>4

LEMMA TokensLeads ==
  ASSUME NEW t \in Seq(Chars)
  PROVE  Leads(Seq(Chars), Len(t) + 1, TokensHead(t), TokensNext(t))
<1> SUFFICES ASSUME NEW p \in 1 .. Len(t) + 1, p # Len(t) + 1
             PROVE  TokensHead(t)[p] \in Seq(Seq(Chars)) /\ TokensNext(t)[p] \in p + 1 .. Len(t) + 1
  BY DEF Leads
<1>1. Len(t) \in Nat /\ p \in 1 .. Len(t) /\ p \in 0 .. Len(t)
  OBVIOUS
<1>2. <<>> \in Seq(Seq(Chars))
  BY EmptySeq
<1>3. CASE t[p] \in {"SP", "NL"}
  <2>1. TokensNext(t)[p] = p + 1
    BY <1>3 DEF TokensNext
  <2>2. TokensHead(t)[p] \in {<<>>, <<<<"NL">>>>}
    BY <1>3 DEF TokensHead
  <2>3. TokensNext(t)[p] \in p + 1 .. Len(t) + 1
    BY <1>1, <2>1
  <2>4. TokensHead(t)[p] \in Seq(Seq(Chars))
    BY <1>2, <2>2, LineBreakToken
  <2> QED BY <2>3, <2>4
<1>4. CASE t[p] = "#"
  <2>1. PICK e : e = FirstOf(t, p, {"NL"})
    OBVIOUS
  <2>2. e \in p .. Len(t) + 1
    BY <1>1, <2>1, FirstOfRange
  <2>3. TokensNext(t)[p] = IF e > Len(t) THEN Len(t) + 1 ELSE e + 1
    BY <1>4, <2>1 DEF TokensNext
  <2>4. TokensNext(t)[p] \in p + 1 .. Len(t) + 1
    BY <1>1, <2>2, <2>3
  <2>5. TokensHead(t)[p] \in {<<>>, <<<<"NL">>>>}
    BY <1>4 DEF TokensHead
  <2> QED BY <1>2, <2>4, <2>5, LineBreakToken
<1>5. CASE t[p] = "QUOTE"
  <2>1. PICK e : e = Closing(t, p)
    OBVIOUS
  <2>2. e \in p + 1 .. Len(t) + 1
    BY <1>1, <2>1, ClosingRange
  <2>3. TokensNext(t)[p] = IF e > Len(t) THEN Len(t) + 1 ELSE e + 1
    BY <1>5, <2>1 DEF TokensNext
  <2>4. TokensNext(t)[p] \in p + 1 .. Len(t) + 1
    BY <1>1, <2>2, <2>3
  <2>5. <<Unquoted(t, p, e)>> \in Seq(Seq(Chars))
    BY <1>1, <2>2, UnquotedProperties, OneOfSeq
  <2>6. TokensHead(t)[p] \in {<<>>, <<Unquoted(t, p, e)>>}
    BY <1>5, <2>1 DEF TokensHead
  <2> QED BY <1>2, <2>4, <2>5, <2>6
<1>6. CASE t[p] \notin {"SP", "NL", "#", "QUOTE"}
  <2>1. PICK e : e = WordEnd(t, p)
    OBVIOUS
  <2>2. e \in p + 1 .. Len(t) + 1 /\ e \in 1 .. Len(t) + 1
    BY <1>1, <2>1, WordProperties
  <2>3. TokensNext(t)[p] = BehindWord(t, e)
    BY <1>6, <2>1 DEF TokensNext
  <2>4. TokensNext(t)[p] \in p + 1 .. Len(t) + 1
    BY <1>1, <2>2, <2>3, BehindWordRange
  <2>5. TokensHead(t)[p] = <<SubSeq(t, p, e - 1)>>
    BY <1>6, <2>1 DEF TokensHead
  <2>6. TokensHead(t)[p] \in Seq(Seq(Chars))
    BY <1>1, <2>1, <2>5, WordProperties, OneOfSeq
  <2> QED BY <2>4, <2>6
<1> QED BY <1>3, <1>4, <1>5, <1>6

LEMMA TokensLink ==
  ASSUME NEW t \in Seq(Chars), NEW f, f[Len(t) + 1] = <<>>, NEW p \in 1 .. Len(t) + 1
  PROVE  Link(f, Len(t) + 1, TokensHead(t), TokensNext(t), p) = TokensAt(t, f, p)
<1> DEFINE head == TokensHead(t)[p]
           next == TokensNext(t)[p]
<1>1. CASE p = Len(t) + 1
  BY <1>1 DEF Link, TokensAt
<1>2. CASE p # Len(t) + 1 /\ t[p] = "SP"
  <2>1. head = <<>> /\ next = p + 1
    BY <1>2 DEF TokensHead, TokensNext
  <2> QED BY <1>2, <2>1 DEF Link, TokensAt
<1>3. CASE p # Len(t) + 1 /\ t[p] = "NL"
  <2>1. head = <<<<"NL">>>> /\ next = p + 1
    BY <1>3 DEF TokensHead, TokensNext
  <2> QED BY <1>3, <2>1, LineBreakToken DEF Link, TokensAt
<1>4. CASE p # Len(t) + 1 /\ t[p] = "#"
  <2>1. PICK e : e = FirstOf(t, p, {"NL"})
    OBVIOUS
  <2>2. /\ head = IF e > Len(t) THEN <<>> ELSE <<<<"NL">>>>
        /\ next = IF e > Len(t) THEN Len(t) + 1 ELSE e + 1
    BY <1>4, <2>1 DEF TokensHead, TokensNext
  <2>3. TokensAt(t, f, p) = IF e > Len(t) THEN <<>> ELSE <<<<"NL">>>> \o f[e + 1]
    BY <1>4, <2>1 DEF TokensAt
  <2> QED BY <1>4, <2>2, <2>3, LineBreakToken DEF Link
<1>5. CASE p # Len(t) + 1 /\ t[p] = "QUOTE"
  <2>1. PICK e : e = Closing(t, p)
    OBVIOUS
  <2>2. PICK word : word = Unquoted(t, p, e)
    OBVIOUS
  <2>3. /\ head = IF e > Len(t) /\ word = <<>> THEN <<>> ELSE <<word>>
        /\ next = IF e > Len(t) THEN Len(t) + 1 ELSE e + 1
    BY <1>5, <2>1, <2>2 DEF TokensHead, TokensNext
  <2>4. TokensAt(t, f, p) = IF e <= Len(t) THEN <<word>> \o f[e + 1]
                            ELSE IF word = <<>> THEN <<>> ELSE <<word>>
    BY <1>5, <2>1, <2>2 DEF TokensAt
  <2>5. Len(t) \in Nat /\ p \in 0 .. Len(t) /\ e \in p + 1 .. Len(t) + 1 /\ (e > Len(t) <=> ~(e <= Len(t)))
    <3>1. Len(t) \in Nat /\ p \in 0 .. Len(t)
      BY <1>5
    <3>2. e \in p + 1 .. Len(t) + 1
      BY <2>1, <3>1, ClosingRange
    <3> QED BY <3>1, <3>2
  <2>6. <<word>> \in Seq(Seq(Chars)) /\ <<word>> # <<>>
    BY <2>2, <2>5, UnquotedProperties, OneOfSeq
  <2>7. <<word>> \o <<>> = <<word>>
    BY <2>6, ConcatEmptySeq
  <2> QED BY <1>5, <2>3, <2>4, <2>5, <2>6, <2>7 DEF Link
<1>6. CASE p # Len(t) + 1 /\ t[p] \notin {"SP", "NL", "#", "QUOTE"}
  <2>1. PICK e : e = WordEnd(t, p)
    OBVIOUS
  <2>2. head = <<SubSeq(t, p, e - 1)>> /\ next = BehindWord(t, e)
    BY <1>6, <2>1 DEF TokensHead, TokensNext
  <2>3. TokensAt(t, f, p) = <<SubSeq(t, p, e - 1)>> \o f[BehindWord(t, e)]
    BY <1>6, <2>1 DEF TokensAt
  <2>4. p \in 1 .. Len(t)
    BY <1>6
  <2>5. head # <<>>
    BY <2>1, <2>2, <2>4, WordProperties, OneOfSeq
  <2> QED BY <1>6, <2>2, <2>3, <2>5 DEF Link
<1> QED BY <1>1, <1>2, <1>3, <1>4, <1>5, <1>6

\* The tokens from a position on, by what is there.
LEMMA TokensFromProperties ==
  ASSUME NEW t \in Seq(Chars)
  PROVE  /\ AreSequences(TokensFrom(t), Seq(Chars), Len(t) + 1)
         /\ \A p \in 1 .. Len(t) + 1 : TokensFrom(t)[p] = TokensAt(t, TokensFrom(t), p)
<1> DEFINE IsTokens(f) == f = [p \in 1 .. Len(t) + 1 |-> TokensAt(t, f, p)]
           b == Len(t) + 1
           head == TokensHead(t)
           next == TokensNext(t)
<1>1. b \in Nat \ {0} /\ b \in 1 .. b
  OBVIOUS
<1>2. Leads(Seq(Chars), b, head, next)
  BY TokensLeads
<1>3. PICK f : IsChain(f, b, head, next)
  <2> HIDE DEF b, head, next
  <2> QED BY <1>1, <1>2, ChainExists
<1>4. f[b] = <<>>
  <2>1. AreSequences(f, Seq(Chars), b)
    <3> HIDE DEF b, head, next
    <3> QED BY <1>1, <1>2, <1>3, ChainOfSequences
  <2> QED BY <2>1 DEF AreSequences
<1>5. IsTokens(f)
  BY <1>3, <1>4, TokensLink DEF IsChain
<1>6. PICK g : g = TokensFrom(t)
  OBVIOUS
<1>7. g = [p \in 1 .. b |-> TokensAt(t, g, p)]
  <2>1. TokensFrom(t) = CHOOSE h : IsTokens(h)
    BY DEF TokensFrom
  <2>2. IsTokens(g)
    <3> HIDE DEF IsTokens
    <3> QED BY <1>5, <1>6, <2>1
  <2> QED BY <2>2
<1>8. \A p \in 1 .. b : g[p] = TokensAt(t, g, p)
  <2> HIDE DEF b
  <2> QED BY <1>7
<1>9. g[b] = <<>>
  BY <1>1, <1>8 DEF TokensAt
<1>10. IsChain(g, b, head, next)
  BY <1>7, <1>9, TokensLink DEF IsChain
<1>11. AreSequences(g, Seq(Chars), b)
  <2> HIDE DEF b, head, next
  <2> QED BY <1>1, <1>2, <1>10, ChainOfSequences
<1> QED BY <1>6, <1>8, <1>11

-----------------------------------------------------------------------------
(* The tokens still to come *)

\* A word of which this much was read goes on at p.
WordRest(t, word, p) ==
  LET e == FirstOf(t, p, EndsWord)
  IN  <<word \o SubSeq(t, p, e - 1)>> \o TokensFrom(t)[BehindWord(t, e)]

\* A comment goes on at p, with a word before it or none.
CommentRest(t, word, p) ==
  LET e == FirstOf(t, p, {"NL"})
  IN  IF word # <<>> THEN <<word>> \o TokensFrom(t)[e]
      ELSE IF e > Len(t) THEN <<>> ELSE <<<<"NL">>>> \o TokensFrom(t)[e + 1]

\* A quotation of which this much was read goes on behind p.
QuoteRest(t, word, p) ==
  LET e == Closing(t, p)
      all == word \o Unquoted(t, p, e)
  IN  IF e <= Len(t) THEN <<all>> \o TokensFrom(t)[e + 1]
      ELSE IF all = <<>> THEN <<>> ELSE <<all>>

Rest ==
  CASE mode \in {"SKIP", "NORMAL"} /\ token = <<>> -> TokensFrom(text)[at + 1]
    [] mode = "NORMAL" /\ token # <<>> -> WordRest(text, token, at + 1)
    [] mode = "COMMENT" -> CommentRest(text, token, at + 1)
    [] mode = "QUOTED" -> QuoteRest(text, token, at)
    [] mode = "ESCAPE" -> QuoteRest(text, token, at - 1)
    [] OTHER -> <<>>

ModesInv ==
  /\ mode = "SKIP" => token = <<>>
  /\ mode = "ESCAPE" => at > 0 /\ text[at] = "BACKSLASH"
  /\ mode = "NORMAL" /\ token = <<>> /\ at < Len(text) => Char # "SP"

\* What was returned and what is to come are the tokens of the text.
RestInv == mode # "FAILED" => Rest \in Seq(Seq(Chars)) /\ tokens \o Rest = Tokens(text)

TokInv == TokTypeOK /\ ModesInv /\ RestInv

-----------------------------------------------------------------------------
(* What is still to come, by the next character *)

LEMMA RestOfWhiteSpace ==
  ASSUME NEW t \in Seq(Chars), NEW p \in 1 .. Len(t)
  PROVE  /\ t[p] = "SP" => TokensFrom(t)[p] = TokensFrom(t)[p + 1]
         /\ t[p] = "NL" => TokensFrom(t)[p] = <<<<"NL">>>> \o TokensFrom(t)[p + 1]
<1>1. p \in 1 .. Len(t) + 1 /\ p # Len(t) + 1
  OBVIOUS
<1>2. TokensFrom(t)[p] = TokensAt(t, TokensFrom(t), p)
  BY <1>1, TokensFromProperties
<1> QED BY <1>1, <1>2 DEF TokensAt

LEMMA RestAtEnd ==
  ASSUME NEW t \in Seq(Chars)
  PROVE  TokensFrom(t)[Len(t) + 1] = <<>>
BY TokensFromProperties DEF AreSequences

LEMMA RestIsSeq ==
  ASSUME NEW t \in Seq(Chars), NEW p \in 1 .. Len(t) + 1
  PROVE  TokensFrom(t)[p] \in Seq(Seq(Chars))
BY TokensFromProperties DEF AreSequences

LEMMA RestOfNewComment ==
  ASSUME NEW t \in Seq(Chars), NEW p \in 1 .. Len(t), t[p] = "#"
  PROVE  TokensFrom(t)[p] = CommentRest(t, <<>>, p + 1)
<1>1. p \in 1 .. Len(t) + 1 /\ p # Len(t) + 1
  OBVIOUS
<1>2. TokensFrom(t)[p] = TokensAt(t, TokensFrom(t), p)
  BY <1>1, TokensFromProperties
<1>3. FirstOf(t, p, {"NL"}) = FirstOf(t, p + 1, {"NL"})
  BY FirstOfFurther
<1> QED BY <1>1, <1>2, <1>3 DEF TokensAt, CommentRest

LEMMA RestOfNewQuotation ==
  ASSUME NEW t \in Seq(Chars), NEW p \in 1 .. Len(t), t[p] = "QUOTE"
  PROVE  TokensFrom(t)[p] = QuoteRest(t, <<>>, p)
<1>1. p \in 1 .. Len(t) + 1 /\ p # Len(t) + 1 /\ p \in 0 .. Len(t)
  OBVIOUS
<1>2. TokensFrom(t)[p] = TokensAt(t, TokensFrom(t), p)
  BY <1>1, TokensFromProperties
<1>3. PICK e : e = Closing(t, p)
  OBVIOUS
<1>4. e \in p + 1 .. Len(t) + 1
  BY <1>1, <1>3, ClosingRange
<1>5. Unquoted(t, p, e) \in Seq(Chars)
  BY <1>1, <1>4, UnquotedProperties
<1>6. <<>> \o Unquoted(t, p, e) = Unquoted(t, p, e)
  BY <1>5, ConcatEmptySeq
<1> QED BY <1>1, <1>2, <1>3, <1>6 DEF TokensAt, QuoteRest

LEMMA RestOfNewWord ==
  ASSUME NEW t \in Seq(Chars), NEW p \in 1 .. Len(t), t[p] \notin {"SP", "NL", "#", "QUOTE"}
  PROVE  TokensFrom(t)[p] = WordRest(t, <<t[p]>>, p + 1)
<1>1. p \in 1 .. Len(t) + 1 /\ p # Len(t) + 1
  OBVIOUS
<1>2. TokensFrom(t)[p] = TokensAt(t, TokensFrom(t), p)
  BY <1>1, TokensFromProperties
<1>3. PICK e : e = WordEnd(t, p)
  OBVIOUS
<1>4. e \in p + 1 .. Len(t) + 1
  BY <1>3, WordProperties
<1>5. SubSeq(t, p, e - 1) = <<t[p]>> \o SubSeq(t, p + 1, e - 1)
  <2>1. e - 1 \in p .. Len(t)
    BY <1>4
  <2> QED BY <2>1, SubSeqRecursiveFirst
<1>6. e = FirstOf(t, p + 1, EndsWord)
  BY <1>3 DEF WordEnd
<1> QED BY <1>1, <1>2, <1>3, <1>5, <1>6 DEF TokensAt, WordRest

\* What is taken from the front of one sequence goes to the end of the other.
MovesOne(s, x, more) == s \o (<<x>> \o more) = Append(s, x) \o more

LEMMA OneMoved ==
  ASSUME NEW S, NEW s \in Seq(S), NEW x \in S, NEW more \in Seq(S)
  PROVE  MovesOne(s, x, more)
<1>1. <<x>> \in Seq(S) /\ Append(s, x) = s \o <<x>>
  BY OneOfSeq, AppendIsConcat
<1>2. (s \o <<x>>) \o more = s \o (<<x>> \o more)
  BY <1>1, ConcatAssociative
<1> QED BY <1>1, <1>2 DEF MovesOne

WordEnds(t, p) == p = Len(t) + 1 \/ t[p] \in {"SP", "NL", "QUOTE", "}"}

LEMMA RestOfWordAtEnd ==
  ASSUME NEW t \in Seq(Chars), NEW word \in Seq(Chars), NEW p \in 1 .. Len(t) + 1, WordEnds(t, p)
  PROVE  WordRest(t, word, p) = <<word>> \o TokensFrom(t)[p]
<1>1. FirstOf(t, p, EndsWord) = p
  <2>1. CASE p = Len(t) + 1
    BY <2>1, FirstOfEnd
  <2>2. CASE p # Len(t) + 1
    <3>1. p \in 1 .. Len(t)
      BY <2>2
    <3>2. t[p] \in EndsWord
      BY <2>2 DEF WordEnds, EndsWord
    <3> QED BY <3>1, <3>2, FirstOfHere
  <2> QED BY <2>1, <2>2
<1>2. word \o SubSeq(t, p, p - 1) = word
  <2>1. SubSeq(t, p, p - 1) = <<>>
    <3>1. p \in Int /\ p - 1 \in Int /\ p - 1 < p
      OBVIOUS
    <3> QED BY <3>1, SubSeqEmpty
  <2> QED BY <2>1, ConcatEmptySeq
<1>3. BehindWord(t, p) = p
  <2>1. p = Len(t) + 1 => ~(p <= Len(t))
    OBVIOUS
  <2> QED BY <2>1 DEF BehindWord, WordEnds
<1> QED BY <1>1, <1>2, <1>3 DEF WordRest

LEMMA RestOfWordBeforeComment ==
  ASSUME NEW t \in Seq(Chars), NEW word \in Seq(Chars), word # <<>>,
         NEW p \in 1 .. Len(t), t[p] = "#"
  PROVE  WordRest(t, word, p) = CommentRest(t, word, p + 1)
<1>1. FirstOf(t, p, EndsWord) = p
  BY FirstOfHere DEF EndsWord
<1>2. word \o SubSeq(t, p, p - 1) = word
  <2>1. SubSeq(t, p, p - 1) = <<>>
    <3>1. p \in Int /\ p - 1 \in Int /\ p - 1 < p
      OBVIOUS
    <3> QED BY <3>1, SubSeqEmpty
  <2> QED BY <2>1, ConcatEmptySeq
<1>3. BehindWord(t, p) = FirstOf(t, p + 1, {"NL"})
  <2>1. p <= Len(t) /\ FirstOf(t, p, {"NL"}) = FirstOf(t, p + 1, {"NL"})
    BY FirstOfFurther
  <2> QED BY <2>1 DEF BehindWord
<1> QED BY <1>1, <1>2, <1>3 DEF WordRest, CommentRest

LEMMA RestOfWordFurther ==
  ASSUME NEW t \in Seq(Chars), NEW word \in Seq(Chars),
         NEW p \in 1 .. Len(t), t[p] \notin EndsWord
  PROVE  WordRest(t, word, p) = WordRest(t, Append(word, t[p]), p + 1)
<1>1. FirstOf(t, p, EndsWord) = FirstOf(t, p + 1, EndsWord)
  BY FirstOfFurther
<1>2. PICK e : e = FirstOf(t, p + 1, EndsWord)
  OBVIOUS
<1>3. e \in p + 1 .. Len(t) + 1
  <2>1. p + 1 \in 1 .. Len(t) + 1
    OBVIOUS
  <2> QED BY <1>2, <2>1, FirstOfRange
<1>4. SubSeq(t, p, e - 1) = <<t[p]>> \o SubSeq(t, p + 1, e - 1)
  <2>1. e - 1 \in p .. Len(t)
    BY <1>3
  <2> QED BY <2>1, SubSeqRecursiveFirst
<1>5. t[p] \in Chars /\ \A i \in p + 1 .. e - 1 : t[i] \in Chars
  <2>1. \A i \in p + 1 .. e - 1 : i \in 1 .. Len(t)
    BY <1>3
  <2> QED BY <2>1, ElementOfSeq
<1>6. SubSeq(t, p + 1, e - 1) \in Seq(Chars)
  <2>1. p + 1 \in Int /\ e - 1 \in Int
    BY <1>3
  <2> QED BY <1>5, <2>1, SubSeqProperties
<1>7. PICK more \in Seq(Chars) : more = SubSeq(t, p + 1, e - 1)
  BY <1>6
<1>8. MovesOne(word, t[p], more)
  BY <1>5, OneMoved
<1>9. word \o SubSeq(t, p, e - 1) = Append(word, t[p]) \o SubSeq(t, p + 1, e - 1)
  BY <1>4, <1>7, <1>8 DEF MovesOne
<1> QED BY <1>1, <1>2, <1>9 DEF WordRest

LEMMA RestOfComment ==
  ASSUME NEW t \in Seq(Chars), NEW word, NEW p \in 1 .. Len(t)
  PROVE  /\ t[p] # "NL" => CommentRest(t, word, p) = CommentRest(t, word, p + 1)
         /\ t[p] = "NL" /\ word = <<>> => CommentRest(t, word, p) = <<<<"NL">>>> \o TokensFrom(t)[p + 1]
         /\ t[p] = "NL" /\ word # <<>> => CommentRest(t, word, p) = <<word>> \o TokensFrom(t)[p]
<1>1. CASE t[p] # "NL"
  <2>1. FirstOf(t, p, {"NL"}) = FirstOf(t, p + 1, {"NL"})
    BY <1>1, FirstOfFurther
  <2> QED BY <1>1, <2>1 DEF CommentRest
<1>2. CASE t[p] = "NL"
  <2>1. FirstOf(t, p, {"NL"}) = p /\ ~(p > Len(t))
    BY <1>2, FirstOfHere
  <2> QED BY <1>2, <2>1 DEF CommentRest
<1> QED BY <1>1, <1>2

LEMMA RestOfCommentAtEnd ==
  ASSUME NEW t \in Seq(Chars), NEW word
  PROVE  /\ word = <<>> => CommentRest(t, word, Len(t) + 1) = <<>>
         /\ word # <<>> => CommentRest(t, word, Len(t) + 1) = <<word>> \o TokensFrom(t)[Len(t) + 1]
<1>1. FirstOf(t, Len(t) + 1, {"NL"}) = Len(t) + 1 /\ Len(t) + 1 > Len(t)
  BY FirstOfEnd
<1> QED BY <1>1 DEF CommentRest

LEMMA RestOfQuotationAtQuote ==
  ASSUME NEW t \in Seq(Chars), NEW word \in Seq(Chars), NEW p \in 0 .. Len(t) - 1, t[p + 1] = "QUOTE"
  PROVE  QuoteRest(t, word, p) = <<word>> \o TokensFrom(t)[p + 2]
<1>1. Closing(t, p) = p + 1 /\ p + 1 <= Len(t) /\ p + 1 + 1 = p + 2
  BY ClosingHere
<1>2. Unquoted(t, p, p + 1) = <<>>
  <2>1. p \in 0 .. Len(t) /\ p + 1 \in p + 1 .. Len(t) + 1
    OBVIOUS
  <2> QED BY <2>1, UnquotedProperties
<1>3. word \o <<>> = word
  BY ConcatEmptySeq
<1> QED BY <1>1, <1>2, <1>3 DEF QuoteRest

LEMMA RestOfQuotationFurther ==
  ASSUME NEW t \in Seq(Chars), NEW word \in Seq(Chars), NEW p \in 0 .. Len(t) - 1,
         t[p + 1] \notin {"QUOTE", "BACKSLASH"}
  PROVE  QuoteRest(t, word, p) = QuoteRest(t, Append(word, t[p + 1]), p + 1)
<1>1. Closing(t, p) = Closing(t, p + 1)
  BY ClosingBehindPlain
<1>2. PICK e : e = Closing(t, p + 1)
  OBVIOUS
<1>3. /\ p \in 0 .. Len(t) /\ p + 1 \in 0 .. Len(t) /\ p + 1 \in 1 .. Len(t)
      /\ p + 2 = p + 1 + 1
  OBVIOUS
<1>4. e \in p + 2 .. Len(t) + 1
  BY <1>2, <1>3, ClosingRange
<1>5. e \in p + 1 .. Len(t) + 1 /\ p + 1 # e
  BY <1>4
<1>6. Unquoted(t, p, e) = <<t[p + 1]>> \o Unquoted(t, p + 1, e)
  BY <1>3, <1>5, UnquotedProperties
<1>7. Unquoted(t, p + 1, e) \in Seq(Chars)
  <2> DEFINE q == p + 1
  <2>1. q \in 0 .. Len(t) /\ e \in q + 1 .. Len(t) + 1
    BY <1>3, <1>4
  <2> HIDE DEF q
  <2>2. Unquoted(t, q, e) \in Seq(Chars)
    BY <2>1, UnquotedProperties
  <2> QED BY <2>2 DEF q
<1>8. t[p + 1] \in Chars
  BY <1>3, ElementOfSeq
<1>9. PICK c \in Chars : c = t[p + 1]
  BY <1>8
<1>10. PICK more \in Seq(Chars) : more = Unquoted(t, p + 1, e)
  BY <1>7
<1>11. MovesOne(word, c, more)
  BY OneMoved
<1>12. word \o Unquoted(t, p, e) = Append(word, t[p + 1]) \o Unquoted(t, p + 1, e)
  BY <1>6, <1>9, <1>10, <1>11 DEF MovesOne
<1> QED BY <1>1, <1>2, <1>12 DEF QuoteRest

LEMMA RestOfQuotationEscaped ==
  ASSUME NEW t \in Seq(Chars), NEW word \in Seq(Chars), NEW p \in 0 .. Len(t) - 2,
         t[p + 1] = "BACKSLASH"
  PROVE  QuoteRest(t, word, p) = QuoteRest(t, Append(word, Unescaped(t[p + 2])), p + 2)
<1>1. Closing(t, p) = Closing(t, p + 2)
  BY ClosingBehindEscape
<1>2. PICK e : e = Closing(t, p + 2)
  OBVIOUS
<1>3. p \in 0 .. Len(t) /\ p + 2 \in 0 .. Len(t) /\ p + 2 \in 1 .. Len(t)
  OBVIOUS
<1>4. e \in p + 2 + 1 .. Len(t) + 1
  BY <1>2, <1>3, ClosingRange
<1>5. e \in p + 1 .. Len(t) + 1 /\ p + 1 # e /\ p + 2 # e
  BY <1>4
<1>6. Unquoted(t, p, e) = <<Unescaped(t[p + 2])>> \o Unquoted(t, p + 2, e)
  BY <1>3, <1>5, UnquotedProperties
<1>7. Unquoted(t, p + 2, e) \in Seq(Chars)
  <2> DEFINE q == p + 2
  <2>1. q \in 0 .. Len(t) /\ e \in q + 1 .. Len(t) + 1
    BY <1>3, <1>4
  <2> HIDE DEF q
  <2>2. Unquoted(t, q, e) \in Seq(Chars)
    BY <2>1, UnquotedProperties
  <2> QED BY <2>2 DEF q
<1>8. Unescaped(t[p + 2]) \in Chars
  BY <1>3, ElementOfSeq, UnescapedChar
<1>9. PICK c \in Chars : c = Unescaped(t[p + 2])
  BY <1>8
<1>10. PICK more \in Seq(Chars) : more = Unquoted(t, p + 2, e)
  BY <1>7
<1>11. MovesOne(word, c, more)
  BY OneMoved
<1>12. word \o Unquoted(t, p, e) = Append(word, Unescaped(t[p + 2])) \o Unquoted(t, p + 2, e)
  BY <1>6, <1>9, <1>10, <1>11 DEF MovesOne
<1> QED BY <1>1, <1>2, <1>12 DEF QuoteRest

\* The text ends inside a quotation, behind a backslash or not.
LEMMA RestOfQuotationAtEnd ==
  ASSUME NEW t \in Seq(Chars), NEW word \in Seq(Chars), NEW p \in 0 .. Len(t),
         p = Len(t) \/ (p + 1 = Len(t) /\ t[p + 1] = "BACKSLASH")
  PROVE  /\ word = <<>> => QuoteRest(t, word, p) = <<>>
         /\ word # <<>> => QuoteRest(t, word, p) = <<word>> \o TokensFrom(t)[Len(t) + 1]
<1>1. PICK e : e = Len(t) + 1
  OBVIOUS
<1>2. e \in p + 1 .. Len(t) + 1 /\ ~(e <= Len(t)) /\ (p + 1 = e \/ (p + 1 # e /\ p + 2 = e))
  BY <1>1
<1>3. Quotes(t, p) = {}
  <2>1. \A q \in p + 1 .. Len(t) : q = p + 1 /\ t[p + 1] = "BACKSLASH"
    OBVIOUS
  <2> QED BY <2>1 DEF Quotes
<1>4. Closing(t, p) = e
  BY <1>1, <1>3, ClosingEnd
<1>5. Unquoted(t, p, e) = <<>>
  <2>1. CASE p + 1 = e
    BY <1>2, <2>1, UnquotedProperties
  <2>2. CASE p + 1 # e
    <3>1. p + 2 = e /\ t[p + 1] = "BACKSLASH"
      BY <1>1, <1>2, <2>2
    <3> QED BY <1>2, <2>2, <3>1, UnquotedProperties
  <2> QED BY <2>1, <2>2
<1>6. word \o <<>> = word /\ <<word>> \o <<>> = <<word>>
  <2>1. <<word>> \in Seq(Seq(Chars))
    BY OneOfSeq
  <2> QED BY <2>1, ConcatEmptySeq
<1> QED BY <1>2, <1>4, <1>5, <1>6, RestAtEnd DEF QuoteRest

-----------------------------------------------------------------------------
(* Types *)

LEMMA TypeInit == TokInit => TokTypeOK /\ ModesInv
<1> SUFFICES ASSUME TokInit PROVE TokTypeOK /\ ModesInv
  OBVIOUS
<1>1. <<>> \in Seq(Chars) /\ <<>> \in Seq(Seq(Chars)) /\ text \in Seq(Chars)
  BY TextsAssumption, EmptySeq DEF TokInit, TextsAssumption
<1>2. Len(text) \in Nat
  BY <1>1
<1> QED BY <1>1, <1>2 DEF TokInit, TokTypeOK, ModesInv, Modes

LEMMA TextFacts ==
  ASSUME TokTypeOK
  PROVE  /\ text \in Seq(Chars) /\ Len(text) \in Nat
         /\ at \in 0 .. Len(text) /\ at + 1 \in 1 .. Len(text) + 1
         /\ Look => at \in 0 .. Len(text) - 1 /\ at + 1 \in 1 .. Len(text) /\ Char \in Chars
         /\ Eof => at = Len(text)
<1>1. text \in Seq(Chars) /\ Len(text) \in Nat
  BY TextsAssumption DEF TokTypeOK, TextsAssumption
<1>2. at \in 0 .. Len(text) /\ at + 1 \in 1 .. Len(text) + 1 /\ (Eof => at = Len(text))
  BY <1>1 DEF TokTypeOK, Eof
<1>3. Look => at \in 0 .. Len(text) - 1 /\ at + 1 \in 1 .. Len(text)
  BY <1>1 DEF TokTypeOK, Look
<1>4. Look => Char \in Chars
  BY <1>1, <1>3, ElementOfSeq DEF Char
<1> QED BY <1>1, <1>2, <1>3, <1>4

\* The loop goes on behind a character.
LEMMA StepTypes ==
  ASSUME TokTypeOK, Look, NEW m \in Modes, NEW t \in Seq(Chars), Step(m, t)
  PROVE  TokTypeOK'
BY DEF TokTypeOK, Look, Step

\* A token is returned at or right behind a character.
LEMMA ReturnTypes ==
  ASSUME TokTypeOK, NEW p \in Nat, NEW t \in Seq(Chars), Return(p, t), p <= filled
  PROVE  TokTypeOK' /\ ModesInv'
<1>1. tokens' \in Seq(Seq(Chars)) /\ <<>> \in Seq(Chars)
  BY AppendProperties, EmptySeq DEF TokTypeOK, Return
<1> QED BY <1>1 DEF TokTypeOK, ModesInv, Modes, Return

LEMMA TypeStep ==
  ASSUME TokTypeOK, ModesInv, [TokNext]_tkvars
  PROVE  TokTypeOK' /\ ModesInv'
<1> USE DEF Modes
<1>a. token \in Seq(Chars) /\ text \in Seq(Chars)
  BY TextFacts DEF TokTypeOK
<1>b. Look => at \in Nat /\ at <= filled /\ at + 1 \in Nat /\ at + 1 <= filled
  BY DEF TokTypeOK, Look
<1>c. Look => Char \in Chars /\ Append(token, Char) \in Seq(Chars) /\ Append(token, Char) # <<>>
  BY <1>a, TextFacts, AppendProperties
<1>1. CASE Fill
  BY <1>1, <1>a DEF Fill, TokTypeOK, ModesInv, Char
<1>2. CASE BufferRead
  BY <1>2 DEF BufferRead, TokTypeOK, ModesInv, Char
<1>3. CASE Skip
  <2>1. Look /\ Step("SKIP", token) /\ token = <<>>
    BY <1>3 DEF Skip, ModesInv
  <2>2. TokTypeOK'
    BY <1>a, <2>1, StepTypes
  <2> QED BY <2>1, <2>2 DEF Step, ModesInv
<1>4. CASE SkipEnds
  BY <1>4 DEF SkipEnds, TokTypeOK, ModesInv, Char
<1>5. CASE Normal
  <2>1. Look
    BY <1>5 DEF Normal
  <2>2. CASE Step("COMMENT", token)
    BY <1>a, <2>1, <2>2, StepTypes DEF Step, ModesInv
  <2>3. CASE Step("QUOTED", token)
    BY <1>a, <2>1, <2>3, StepTypes DEF Step, ModesInv
  <2>4. CASE Return(at + 1, <<"NL">>)
    BY <1>b, <2>1, <2>4, ReturnTypes, LineBreakToken
  <2>5. CASE Return(at, token)
    BY <1>a, <1>b, <2>1, <2>5, ReturnTypes
  <2>6. CASE Step("NORMAL", Append(token, Char))
    BY <1>c, <2>1, <2>6, StepTypes DEF Step, ModesInv
  <2> QED BY <1>5, <2>2, <2>3, <2>4, <2>5, <2>6 DEF Normal
<1>6. CASE Quoted
  <2>1. Look
    BY <1>6 DEF Quoted
  <2>2. CASE Return(at + 1, token)
    BY <1>a, <1>b, <2>1, <2>2, ReturnTypes
  <2>3. CASE Char = "BACKSLASH" /\ Step("ESCAPE", token)
    <3>1. TokTypeOK'
      BY <1>a, <2>1, <2>3, StepTypes
    <3>2. text'[at'] = "BACKSLASH" /\ at' > 0
      BY <1>b, <2>1, <2>3 DEF Step, Char
    <3> QED BY <2>3, <3>1, <3>2 DEF Step, ModesInv
  <2>4. CASE Step("QUOTED", Append(token, Char))
    BY <1>c, <2>1, <2>4, StepTypes DEF Step, ModesInv
  <2> QED BY <1>6, <2>2, <2>3, <2>4 DEF Quoted
<1>7. CASE Escape
  <2>1. Look
    BY <1>7 DEF Escape
  <2>2. CASE Step("QUOTED", Append(token, Unescaped(Char)))
    <3>1. Append(token, Unescaped(Char)) \in Seq(Chars)
      BY <1>a, <1>c, <2>1, UnescapedChar, AppendProperties
    <3> QED BY <2>1, <2>2, <3>1, StepTypes DEF Step, ModesInv
  <2>3. CASE mode' = "FAILED" /\ UNCHANGED <<text, filled, consumed, at, token, tokens>>
    BY <2>3 DEF TokTypeOK, ModesInv
  <2> QED BY <1>7, <2>2, <2>3 DEF Escape
<1>8. CASE Comment
  <2>1. Look
    BY <1>8 DEF Comment
  <2>2. CASE Step("COMMENT", token)
    BY <1>a, <2>1, <2>2, StepTypes DEF Step, ModesInv
  <2>3. CASE Return(at + 1, <<"NL">>)
    BY <1>b, <2>1, <2>3, ReturnTypes, LineBreakToken
  <2>4. CASE Return(at, token)
    BY <1>a, <1>b, <2>1, <2>4, ReturnTypes
  <2> QED BY <1>8, <2>2, <2>3, <2>4 DEF Comment
<1>9. CASE EndOfFile
  <2>1. Eof /\ at = Len(text) /\ consumed \in Nat /\ consumed <= filled
    BY <1>9, TextFacts DEF EndOfFile, TokTypeOK
  <2>2. CASE Return(consumed, token)
    BY <1>a, <2>1, <2>2, ReturnTypes
  <2>3. CASE mode' \in {"NORMAL", "END"} /\ UNCHANGED <<text, filled, consumed, at, token, tokens>>
    <3>1. ~(at < Len(text))
      BY <2>1
    <3> QED BY <2>3, <3>1 DEF TokTypeOK, ModesInv
  <2> QED BY <1>9, <2>2, <2>3 DEF EndOfFile
<1>10. CASE UNCHANGED tkvars
  BY <1>10 DEF tkvars, TokTypeOK, ModesInv, Char
<1> QED BY <1>1, <1>2, <1>3, <1>4, <1>5, <1>6, <1>7, <1>8, <1>9, <1>10 DEF TokNext, TokStep, TokDone

-----------------------------------------------------------------------------
(* The tokens returned are those of the text *)

LEMMA RestInit == TokInit => RestInv
<1> SUFFICES ASSUME TokInit PROVE RestInv
  OBVIOUS
<1>1. text \in Seq(Chars) /\ 1 \in 1 .. Len(text) + 1 /\ at + 1 = 1
  BY TextsAssumption DEF TokInit, TextsAssumption
<1>2. Rest = Tokens(text)
  BY <1>1 DEF TokInit, Rest, Tokens
<1>3. Tokens(text) \in Seq(Seq(Chars))
  BY <1>1, RestIsSeq DEF Tokens
<1> QED BY <1>2, <1>3, ConcatEmptySeq DEF TokInit, RestInv

\* A token is taken from what is to come.
Takes(p, w) ==
  /\ mode # "FAILED" /\ Rest = <<w>> \o TokensFrom(text)[p + 1]
  /\ p \in 0 .. Len(text) /\ w \in Seq(Chars) /\ Return(p, w)

LEMMA ReturnKeeps ==
  ASSUME TokTypeOK, RestInv, NEW p, NEW w, Takes(p, w)
  PROVE  RestInv'
<1> USE DEF Takes
<1>1. PICK more : more = TokensFrom(text)[p + 1]
  OBVIOUS
<1>2. more \in Seq(Seq(Chars))
  <2>1. p + 1 \in 1 .. Len(text) + 1
    BY TextFacts
  <2> QED BY <1>1, <2>1, RestIsSeq, TextFacts
<1>3. Rest' = more /\ tokens' = Append(tokens, w) /\ mode' = "SKIP" /\ text' = text
  BY <1>1 DEF Return, Rest
<1>4. MovesOne(tokens, w, more)
  <2> DEFINE Token == Seq(Chars)
  <2>1. tokens \in Seq(Token) /\ w \in Token /\ more \in Seq(Token)
    BY <1>2 DEF TokTypeOK
  <2> HIDE DEF Token
  <2> QED BY <2>1, OneMoved
<1> QED BY <1>1, <1>2, <1>3, <1>4 DEF RestInv, MovesOne

\* What is to come is said another way.
LEMMA StepKeeps ==
  ASSUME RestInv, mode # "FAILED", UNCHANGED <<text, tokens>>, Rest' = Rest
  PROVE  RestInv'
BY DEF RestInv

LEMMA RestStep ==
  ASSUME TokTypeOK, ModesInv, RestInv, [TokNext]_tkvars
  PROVE  RestInv'
<1> DEFINE p == at + 1
<1>a. /\ token \in Seq(Chars) /\ text \in Seq(Chars) /\ Len(text) \in Nat /\ at \in Nat
      /\ Look => /\ at \in 0 .. Len(text) - 1 /\ at \in 0 .. Len(text) /\ p \in 0 .. Len(text)
                 /\ p \in 1 .. Len(text) /\ text[p] = Char /\ Char \in Chars
                 /\ at + 1 = p /\ at + 2 = p + 1 /\ p - 1 = at
  BY TextFacts DEF TokTypeOK, Char
<1>b. Scanning => mode # "FAILED"
  BY DEF Scanning
<1> HIDE DEF p
<1>1. CASE Fill
  BY <1>1, <1>b, StepKeeps DEF Fill, Rest
<1>2. CASE BufferRead
  BY <1>2, <1>b, StepKeeps DEF BufferRead, Rest
<1>3. CASE Skip
  <2>1. Look /\ text[p] = "SP" /\ mode = "SKIP" /\ token = <<>> /\ at' = p /\ token' = <<>> /\ mode' = "SKIP"
        /\ UNCHANGED <<text, tokens>>
    BY <1>3, <1>a DEF Skip, Step, ModesInv
  <2>2. TokensFrom(text)[p] = TokensFrom(text)[p + 1]
    BY <1>a, <2>1, RestOfWhiteSpace
  <2>3. Rest' = Rest
    BY <1>a, <2>1, <2>2 DEF Rest
  <2> QED BY <2>1, <2>3, StepKeeps
<1>4. CASE SkipEnds
  <2>1. token = <<>>
    BY <1>4 DEF SkipEnds, ModesInv
  <2>2. Rest' = Rest
    BY <1>4, <2>1 DEF SkipEnds, Rest
  <2> QED BY <1>4, <2>2, StepKeeps DEF SkipEnds
<1>5. CASE Normal
  <2>1. Look /\ mode = "NORMAL"
    BY <1>5 DEF Normal
  <2>2. CASE token = <<>>
    <3>1. Rest = TokensFrom(text)[p]
      BY <1>a, <2>1, <2>2 DEF Rest
    <3>2. Char # "SP"
      <4>1. at < Len(text)
        BY <1>a, <2>1
      <4> QED BY <2>1, <2>2, <4>1 DEF ModesInv
    <3>3. CASE Char = "#" /\ Step("COMMENT", token)
      <4>1. TokensFrom(text)[p] = CommentRest(text, <<>>, p + 1)
        BY <1>a, <2>1, <3>3, RestOfNewComment
      <4>2. Rest' = CommentRest(text, <<>>, p + 1)
        BY <1>a, <2>1, <2>2, <3>3 DEF Rest, Step
      <4> QED BY <2>1, <3>1, <3>3, <4>1, <4>2, StepKeeps DEF Step
    <3>4. CASE Char = "QUOTE" /\ Step("QUOTED", token)
      <4>1. TokensFrom(text)[p] = QuoteRest(text, <<>>, p)
        BY <1>a, <2>1, <3>4, RestOfNewQuotation
      <4>2. Rest' = QuoteRest(text, <<>>, p)
        BY <1>a, <2>1, <2>2, <3>4 DEF Rest, Step
      <4> QED BY <2>1, <3>1, <3>4, <4>1, <4>2, StepKeeps DEF Step
    <3>5. CASE Char = "NL" /\ Return(p, <<"NL">>)
      <4>1. Rest = <<<<"NL">>>> \o TokensFrom(text)[p + 1]
        BY <1>a, <2>1, <3>1, <3>5, RestOfWhiteSpace
      <4>2. Takes(p, <<"NL">>)
        BY <1>a, <2>1, <3>5, <4>1, LineBreakToken DEF Takes
      <4> QED BY <4>2, ReturnKeeps
    <3>6. CASE Char \notin {"#", "QUOTE", "NL", "SP"} /\ Step("NORMAL", Append(token, Char))
      <4>1. TokensFrom(text)[p] = WordRest(text, <<text[p]>>, p + 1)
        BY <1>a, <2>1, <3>6, RestOfNewWord
      <4>2. Append(token, Char) = <<Char>> /\ <<Char>> # <<>>
        BY <2>2
      <4>3. Rest' = WordRest(text, <<Char>>, p + 1)
        BY <1>a, <2>1, <3>6, <4>2 DEF Rest, Step
      <4> QED BY <1>a, <2>1, <3>1, <3>6, <4>1, <4>3, StepKeeps DEF Step
    <3> QED BY <1>5, <1>a, <2>1, <2>2, <3>2, <3>3, <3>4, <3>5, <3>6 DEF Normal
  <2>3. CASE token # <<>>
    <3>1. Rest = WordRest(text, token, p)
      BY <1>a, <2>1, <2>3 DEF Rest
    <3>2. CASE Char = "#" /\ Step("COMMENT", token)
      <4>1. WordRest(text, token, p) = CommentRest(text, token, p + 1)
        BY <1>a, <2>1, <2>3, <3>2, RestOfWordBeforeComment
      <4>2. Rest' = CommentRest(text, token, p + 1)
        BY <1>a, <2>1, <3>2 DEF Rest, Step
      <4> QED BY <2>1, <3>1, <3>2, <4>1, <4>2, StepKeeps DEF Step
    <3>3. CASE Char \in {"QUOTE", "SP", "NL", "}"} /\ Return(at, token)
      <4>1. p \in 1 .. Len(text) + 1
        BY <1>a, <2>1
      <4>2. WordEnds(text, p)
        BY <1>a, <2>1, <3>3 DEF WordEnds
      <4>3. Rest = <<token>> \o TokensFrom(text)[at + 1]
        BY <1>a, <2>1, <3>1, <4>1, <4>2, RestOfWordAtEnd
      <4>4. Takes(at, token)
        BY <1>a, <2>1, <3>3, <4>3 DEF Takes
      <4> QED BY <4>4, ReturnKeeps
    <3>4. CASE Char \notin EndsWord /\ Step("NORMAL", Append(token, Char))
      <4>1. WordRest(text, token, p) = WordRest(text, Append(token, Char), p + 1)
        BY <1>a, <2>1, <3>4, RestOfWordFurther
      <4>2. Append(token, Char) # <<>>
        BY <1>a, <2>1, AppendProperties
      <4>3. Rest' = WordRest(text, Append(token, Char), p + 1)
        BY <1>a, <2>1, <3>4, <4>2 DEF Rest, Step
      <4> QED BY <2>1, <3>1, <3>4, <4>1, <4>3, StepKeeps DEF Step
    <3> QED BY <1>5, <2>1, <2>3, <3>2, <3>3, <3>4 DEF Normal, IsBlank, EndsWord
  <2> QED BY <2>2, <2>3
<1>6. CASE Quoted
  <2>1. Look /\ mode = "QUOTED"
    BY <1>6 DEF Quoted
  <2>2. Rest = QuoteRest(text, token, at)
    BY <2>1 DEF Rest
  <2>3. CASE Char = "QUOTE" /\ Return(p, token)
    <3>1. Rest = <<token>> \o TokensFrom(text)[p + 1]
      BY <1>a, <2>1, <2>2, <2>3, RestOfQuotationAtQuote
    <3>2. Takes(p, token)
      BY <1>a, <2>1, <2>3, <3>1 DEF Takes
    <3> QED BY <3>2, ReturnKeeps
  <2>4. CASE Char = "BACKSLASH" /\ Step("ESCAPE", token)
    <3>1. Rest' = QuoteRest(text, token, at)
      BY <1>a, <2>1, <2>4 DEF Rest, Step
    <3> QED BY <2>1, <2>2, <2>4, <3>1, StepKeeps DEF Step
  <2>5. CASE Char \notin {"QUOTE", "BACKSLASH"} /\ Step("QUOTED", Append(token, Char))
    <3>1. QuoteRest(text, token, at) = QuoteRest(text, Append(token, Char), p)
      BY <1>a, <2>1, <2>5, RestOfQuotationFurther
    <3>2. Rest' = QuoteRest(text, Append(token, Char), p)
      BY <1>a, <2>1, <2>5 DEF Rest, Step
    <3> QED BY <2>1, <2>2, <2>5, <3>1, <3>2, StepKeeps DEF Step
  <2> QED BY <1>6, <1>a, <2>1, <2>3, <2>4, <2>5 DEF Quoted
<1>7. CASE Escape
  <2>1. Look /\ mode = "ESCAPE"
    BY <1>7 DEF Escape
  <2>2. Rest = QuoteRest(text, token, at - 1)
    BY <2>1 DEF Rest
  <2>3. CASE Step("QUOTED", Append(token, Unescaped(Char)))
    <3> DEFINE q == at - 1
    <3>1. q \in 0 .. Len(text) - 2 /\ text[q + 1] = "BACKSLASH" /\ q + 2 = p
      <4>1. at > 0 /\ text[at] = "BACKSLASH"
        BY <2>1 DEF ModesInv
      <4>2. q + 1 = at
        BY <1>a
      <4> QED BY <1>a, <2>1, <4>1, <4>2
    <3> HIDE DEF q
    <3>2. QuoteRest(text, token, q) = QuoteRest(text, Append(token, Unescaped(text[q + 2])), q + 2)
      BY <1>a, <3>1, RestOfQuotationEscaped
    <3>3. QuoteRest(text, token, at - 1) = QuoteRest(text, Append(token, Unescaped(Char)), p)
      BY <1>a, <2>1, <3>1, <3>2 DEF q
    <3>4. Rest' = QuoteRest(text, Append(token, Unescaped(Char)), p)
      BY <1>a, <2>1, <2>3 DEF Rest, Step
    <3> QED BY <2>1, <2>2, <2>3, <3>3, <3>4, StepKeeps DEF Step
  <2>4. CASE mode' = "FAILED"
    BY <2>4 DEF RestInv
  <2> QED BY <1>7, <2>3, <2>4 DEF Escape
<1>8. CASE Comment
  <2>1. Look /\ mode = "COMMENT"
    BY <1>8 DEF Comment
  <2>2. Rest = CommentRest(text, token, p)
    BY <1>a, <2>1 DEF Rest
  <2>3. CASE Char # "NL" /\ Step("COMMENT", token)
    <3>1. CommentRest(text, token, p) = CommentRest(text, token, p + 1)
      BY <1>a, <2>1, <2>3, RestOfComment
    <3>2. Rest' = CommentRest(text, token, p + 1)
      BY <1>a, <2>1, <2>3 DEF Rest, Step
    <3> QED BY <2>1, <2>2, <2>3, <3>1, <3>2, StepKeeps DEF Step
  <2>4. CASE Char = "NL" /\ token = <<>> /\ Return(p, <<"NL">>)
    <3>1. Rest = <<<<"NL">>>> \o TokensFrom(text)[p + 1]
      BY <1>a, <2>1, <2>2, <2>4, RestOfComment
    <3>2. Takes(p, <<"NL">>)
      BY <1>a, <2>1, <2>4, <3>1, LineBreakToken DEF Takes
    <3> QED BY <3>2, ReturnKeeps
  <2>5. CASE Char = "NL" /\ token # <<>> /\ Return(at, token)
    <3>1. CommentRest(text, token, p) = <<token>> \o TokensFrom(text)[p]
      BY <1>a, <2>1, <2>5, RestOfComment
    <3>2. Rest = <<token>> \o TokensFrom(text)[at + 1]
      BY <1>a, <2>1, <2>2, <3>1, Zenon
    <3>3. Takes(at, token)
      BY <1>a, <2>1, <2>5, <3>2 DEF Takes
    <3> QED BY <3>3, ReturnKeeps
  <2> QED BY <1>8, <1>a, <2>1, <2>3, <2>4, <2>5 DEF Comment
<1>9. CASE EndOfFile
  <2>1. Scanning /\ at = Len(text) /\ consumed = Len(text)
    BY <1>9, TextFacts DEF EndOfFile, Eof
  <2>2. mode \in {"SKIP", "NORMAL", "QUOTED", "COMMENT", "ESCAPE"}
    BY <2>1 DEF Scanning, TokTypeOK, Modes
  <2>3. CASE mode = "SKIP"
    <3>1. token = <<>>
      BY <2>3 DEF ModesInv
    <3>2. mode' = "NORMAL" /\ UNCHANGED <<text, filled, consumed, at, token, tokens>>
      BY <1>9, <2>3, <3>1 DEF EndOfFile
    <3>3. Rest' = Rest
      BY <2>3, <3>1, <3>2 DEF Rest
    <3> QED BY <2>3, <3>2, <3>3, StepKeeps
  <2>4. CASE mode # "SKIP"
    <3>1. Len(text) + 1 \in 1 .. Len(text) + 1 /\ p = Len(text) + 1 /\ Len(text) \in 0 .. Len(text)
      BY <1>a, <2>1 DEF p
    <3>2. /\ token = <<>> => Rest = <<>>
          /\ token # <<>> => Rest = <<token>> \o TokensFrom(text)[Len(text) + 1]
      <4>1. CASE mode = "NORMAL"
        <5>1. token = <<>> => Rest = TokensFrom(text)[Len(text) + 1]
          BY <2>1, <4>1 DEF Rest
        <5>2. token # <<>> => Rest = WordRest(text, token, Len(text) + 1)
          BY <2>1, <4>1 DEF Rest
        <5>3. WordEnds(text, Len(text) + 1)
          BY DEF WordEnds
        <5> QED BY <1>a, <3>1, <5>1, <5>2, <5>3, RestAtEnd, RestOfWordAtEnd
      <4>2. CASE mode = "COMMENT"
        <5>1. Rest = CommentRest(text, token, Len(text) + 1)
          BY <2>1, <4>2 DEF Rest
        <5> QED BY <1>a, <5>1, RestOfCommentAtEnd
      <4>3. CASE mode = "QUOTED"
        <5>1. Rest = QuoteRest(text, token, Len(text))
          BY <2>1, <4>3 DEF Rest
        <5> QED BY <1>a, <3>1, <5>1, RestOfQuotationAtEnd
      <4>4. CASE mode = "ESCAPE"
        <5> DEFINE q == at - 1
        <5>1. Rest = QuoteRest(text, token, q)
          BY <4>4 DEF Rest
        <5>2. q \in 0 .. Len(text) /\ q + 1 = Len(text) /\ text[q + 1] = "BACKSLASH"
          <6>1. at > 0 /\ text[at] = "BACKSLASH"
            BY <4>4 DEF ModesInv
          <6>2. q + 1 = at
            BY <1>a
          <6> QED BY <1>a, <2>1, <6>1, <6>2
        <5> HIDE DEF q
        <5> QED BY <1>a, <5>1, <5>2, RestOfQuotationAtEnd
      <4> QED BY <2>2, <2>4, <4>1, <4>2, <4>3, <4>4
    <3>3. CASE token # <<>>
      <4>1. Return(Len(text), token)
        BY <1>9, <2>1, <2>4, <3>3 DEF EndOfFile
      <4>2. Takes(Len(text), token)
        BY <1>a, <1>b, <2>1, <3>1, <3>2, <3>3, <4>1 DEF Takes
      <4> QED BY <4>2, ReturnKeeps
    <3>4. CASE token = <<>>
      <4>1. mode' = "END" /\ UNCHANGED <<text, filled, consumed, at, token, tokens>>
        BY <1>9, <2>4, <3>4 DEF EndOfFile
      <4>2. Rest' = <<>>
        BY <4>1 DEF Rest
      <4> QED BY <1>b, <2>1, <3>2, <3>4, <4>1, <4>2, StepKeeps
    <3> QED BY <3>3, <3>4
  <2> QED BY <2>3, <2>4
<1>10. CASE UNCHANGED tkvars
  BY <1>10 DEF tkvars, RestInv, Rest
<1> QED BY <1>1, <1>2, <1>3, <1>4, <1>5, <1>6, <1>7, <1>8, <1>9, <1>10 DEF TokNext, TokStep, TokDone

\* The invariant says more than the property: at the end there is nothing to come.
LEMMA RestImplies ==
  ASSUME TokTypeOK, RestInv
  PROVE  TokensAreThoseOfText
<1> SUFFICES ASSUME mode # "FAILED"
             PROVE  /\ Len(tokens) <= Len(Tokens(text))
                    /\ tokens = SubSeq(Tokens(text), 1, Len(tokens))
                    /\ mode = "END" => tokens = Tokens(text)
  BY DEF TokensAreThoseOfText
<1> DEFINE Token == Seq(Chars)
<1>1. PICK rest : rest = Rest /\ rest \in Seq(Token) /\ Tokens(text) = tokens \o rest
  BY DEF RestInv
<1>2. PICK all : all = tokens \o rest
  OBVIOUS
<1>3. tokens \in Seq(Token)
  BY DEF TokTypeOK
<1>4. mode = "END" => rest = <<>>
  BY <1>1 DEF Rest
<1> HIDE DEF Token
<1>5. PICK n \in Nat, m \in Nat : n = Len(tokens) /\ m = Len(rest)
  BY <1>1, <1>3
<1>6. /\ Len(all) = n + m
      /\ \A i \in 1 .. n + m : all[i] = IF i <= n THEN tokens[i] ELSE rest[i - n]
  BY <1>1, <1>2, <1>3, <1>5, ConcatProperties
<1>7. n <= n + m /\ \A i \in 1 .. n : i \in 1 .. n + m /\ i <= n /\ 1 + i - 1 = i
  OBVIOUS
<1>8. tokens = SubSeq(all, 1, n)
  <2>1. \A i \in 1 .. n : all[i] = tokens[i] /\ tokens[i] \in Token
    BY <1>3, <1>5, <1>6, <1>7, ElementOfSeq
  <2>2. PICK start : start = SubSeq(all, 1, n)
    OBVIOUS
  <2>3. /\ start \in Seq(Token)
        /\ Len(start) = IF 1 <= n THEN n - 1 + 1 ELSE 0
        /\ \A i \in 1 .. n - 1 + 1 : start[i] = all[1 + i - 1]
    <3>1. 1 \in Int /\ n \in Int /\ \A i \in 1 .. n : all[i] \in Token
      BY <2>1
    <3> QED BY <2>2, <3>1, SubSeqProperties
  <2>4. (IF 1 <= n THEN n - 1 + 1 ELSE 0) = n /\ n - 1 + 1 = n
    OBVIOUS
  <2>5. Len(start) = Len(tokens) /\ \A i \in 1 .. Len(tokens) : tokens[i] = start[i]
    BY <1>5, <1>7, <2>1, <2>3, <2>4
  <2> QED BY <1>3, <2>2, <2>3, <2>5, SeqEqual
<1>9. mode = "END" => all = tokens
  BY <1>2, <1>3, <1>4, ConcatEmptySeq
<1> QED BY <1>1, <1>2, <1>5, <1>6, <1>7, <1>8, <1>9

\* Every variable keeps its type, for every text and however it is cut into buffers.
THEOREM TokenizerTypeCorrect == TokSpec => []TokTypeOK
<1>1. TokInit => TokTypeOK /\ ModesInv
  BY TypeInit
<1>2. TokTypeOK /\ ModesInv /\ [TokNext]_tkvars => TokTypeOK' /\ ModesInv'
  BY TypeStep
<1> QED BY <1>1, <1>2, PTL DEF TokSpec

\* However the reader cuts a text into buffers, next_token returns its tokens, in
\* order, and all of them when it is read to its end.
THEOREM TokensAreReturned == TokSpec => []TokensAreThoseOfText
<1>1. TokInit => TokInv
  BY TypeInit, RestInit DEF TokInv
<1>2. TokInv /\ [TokNext]_tkvars => TokInv'
  BY TypeStep, RestStep DEF TokInv
<1>3. TokInv => TokensAreThoseOfText
  BY RestImplies DEF TokInv
<1> QED BY <1>1, <1>2, <1>3, PTL DEF TokSpec
=============================================================================
