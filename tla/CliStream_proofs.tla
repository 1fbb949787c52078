--------------------------- MODULE CliStream_proofs ---------------------------
(***************************************************************************)
(* What is proved of the reader of the CLI's event stream: for streams of  *)
(* any length, it has collected what the whole stream means.               *)
(***************************************************************************)
EXTENDS CliStream, SequenceTheorems, WellFoundedInduction, TLAPS

-----------------------------------------------------------------------------
(* Induction and folds.                                                     *)

(* A set that has 0, and with each number below n the next, has all up to n.*)
LEMMA UpTo ==
  ASSUME NEW n \in Nat, NEW S, 0 \in S, \A k \in 0 .. n - 1 : k \in S => k + 1 \in S
  PROVE  \A k \in 0 .. n : k \in S
<1> DEFINE T == {k \in 0 .. n : k \notin S}
           R == OpToRel(<, Nat)
<1> SUFFICES ASSUME T # {} PROVE FALSE
  OBVIOUS
<1>1. T \subseteq Nat
  OBVIOUS
<1>2. \E x \in T : \A y \in T : ~(<<y, x>> \in R)
  <2>1. IsWellFoundedOn(R, Nat)
    BY NatLessThanWellFounded
  <2> HIDE DEF T, R
  <2> QED BY <1>1, <2>1, WFMin
<1>3. PICK x \in T : \A y \in T : ~(<<y, x>> \in R)
  BY <1>2
<1>4. x - 1 \in T
  OBVIOUS
<1>5. <<x - 1, x>> \in R
  BY DEF OpToRel
<1> QED BY <1>3, <1>4, <1>5

(* The greatest of the numbers up to k + 1, if it is among them.            *)
LEMMA MaxOfUpTo ==
  ASSUME NEW k \in Nat
  PROVE  /\ Max(1 .. k + 1) = k + 1
         /\ \A s \in SUBSET (1 .. k + 1) : k + 1 \in s => Max(s) = k + 1
<1>1. ASSUME NEW s \in SUBSET (1 .. k + 1), k + 1 \in s PROVE Max(s) = k + 1
  <2>1. \A y \in s : k + 1 >= y
    OBVIOUS
  <2>2. \A x \in s : (\A y \in s : x >= y) => x = k + 1
    BY <1>1
  <2> QED BY <1>1, <2>1, <2>2 DEF Max
<1> QED BY <1>1

(* A set of numbers up to n has a greatest.                                 *)
LEMMA MaxInSet ==
  ASSUME NEW n \in Nat, NEW s \in SUBSET (1 .. n), s # {}
  PROVE  Max(s) \in s /\ \A y \in s : Max(s) >= y
<1> DEFINE S == {k \in Nat : \A t \in SUBSET (1 .. k) :
                               t # {} => \E x \in t : \A y \in t : x >= y}
<1>1. 0 \in S
  <2>1. SUBSET (1 .. 0) = {{}}
    OBVIOUS
  <2> QED BY <2>1
<1>2. ASSUME NEW k \in 0 .. n - 1, k \in S PROVE k + 1 \in S
  <2> SUFFICES ASSUME NEW t \in SUBSET (1 .. k + 1), t # {}
               PROVE  \E x \in t : \A y \in t : x >= y
    OBVIOUS
  <2>1. CASE k + 1 \in t
    BY <2>1
  <2>2. CASE k + 1 \notin t
    <3>1. t \in SUBSET (1 .. k)
      BY <2>2
    <3> QED BY <1>2, <3>1
  <2> QED BY <2>1, <2>2
<1>3. \A k \in 0 .. n : k \in S
  <2> HIDE DEF S
  <2> QED BY <1>1, <1>2, UpTo
<1>4. n \in 0 .. n
  OBVIOUS
<1>5. \E x \in s : \A y \in s : x >= y
  BY <1>3, <1>4
<1> QED BY <1>5 DEF Max

(* What MapThenFoldSet looks for when it folds from the left.               *)
Folds(f, n, base, g) ==
  \A s \in SUBSET (1 .. n) :
    f[s] = IF s = {} THEN base ELSE g[<<Max(s), f[s \ {Max(s)}]>>]

(* There is a fold of every step function.                                  *)
LEMMA FoldExists ==
  ASSUME NEW n \in Nat, NEW D, NEW base \in D, NEW g \in [(1 .. n) \X D -> D]
  PROVE  \E f \in [SUBSET (1 .. n) -> D] : Folds(f, n, base, g)
<1> DEFINE Some(k) == \E f \in [SUBSET (1 .. k) -> D] : Folds(f, k, base, g)
           S == {k \in Nat : Some(k)}
<1>1. 0 \in S
  <2> DEFINE f == [s \in SUBSET (1 .. 0) |-> base]
  <2>1. SUBSET (1 .. 0) = {{}}
    OBVIOUS
  <2>2. f \in [SUBSET (1 .. 0) -> D]
    OBVIOUS
  <2>3. \A s \in SUBSET (1 .. 0) : f[s] = base /\ s = {}
    BY <2>1
  <2> HIDE DEF f
  <2>4. Folds(f, 0, base, g)
    BY <2>3 DEF Folds
  <2> QED BY <2>2, <2>4
<1>2. ASSUME NEW k \in 0 .. n - 1, k \in S PROVE k + 1 \in S
  <2>1. PICK f \in [SUBSET (1 .. k) -> D] : Folds(f, k, base, g)
    BY <1>2
  <2> DEFINE h == [s \in SUBSET (1 .. k + 1) |->
                     IF k + 1 \in s THEN g[<<k + 1, f[s \ {k + 1}]>>] ELSE f[s]]
  <2>2. \A s \in SUBSET (1 .. k + 1) : s \ {k + 1} \in SUBSET (1 .. k)
    OBVIOUS
  <2>3. \A s \in SUBSET (1 .. k + 1) : k + 1 \notin s => s \in SUBSET (1 .. k)
    OBVIOUS
  <2>4. \A s \in SUBSET (1 .. k) : s \in SUBSET (1 .. k + 1) /\ k + 1 \notin s
    OBVIOUS
  <2>5. k + 1 \in 1 .. n
    OBVIOUS
  <2>6. \A s \in SUBSET (1 .. k + 1) : h[s] \in D
    BY <2>2, <2>3, <2>5
  <2>7. \A s \in SUBSET (1 .. k) : h[s] = f[s]
    BY <2>4
  <2>8. \A s \in SUBSET (1 .. k + 1) :
          k + 1 \in s => h[s] = g[<<k + 1, h[s \ {k + 1}]>>]
    BY <2>2, <2>7
  <2>9. h \in [SUBSET (1 .. k + 1) -> D]
    BY <2>6
  <2> HIDE DEF h
  <2>10. Folds(h, k + 1, base, g)
    <3> SUFFICES ASSUME NEW s \in SUBSET (1 .. k + 1)
                 PROVE  h[s] = IF s = {} THEN base ELSE g[<<Max(s), h[s \ {Max(s)}]>>]
      BY DEF Folds
    <3>1. CASE k + 1 \in s
      BY <2>8, <3>1, MaxOfUpTo
    <3>2. CASE k + 1 \notin s
      <4>1. s \in SUBSET (1 .. k) /\ s \ {Max(s)} \in SUBSET (1 .. k)
        BY <2>3, <3>2
      <4> QED BY <2>1, <2>7, <4>1 DEF Folds
    <3> QED BY <3>1, <3>2
  <2> QED BY <2>9, <2>10
<1>3. \A k \in 0 .. n : k \in S
  <2> HIDE DEF S
  <2> QED BY <1>1, <1>2, UpTo
<1>4. n \in S
  <2>1. n \in 0 .. n
    OBVIOUS
  <2> HIDE DEF S
  <2> QED BY <1>3, <2>1
<1> QED BY <1>4

(* The same of an f of which only this is known.                            *)
FoldsWithin(f, n, D, base, g) ==
  \A s \in SUBSET (1 .. n) :
    IF s = {} THEN f[s] = base
    ELSE f[s \ {Max(s)}] \in D => f[s] = g[<<Max(s), f[s \ {Max(s)}]>>]

(* A run of n steps from base to where f is.                                *)
Runs(f, n, D, base, g) ==
  \E st \in [0 .. n -> D] :
    /\ st[0] = base /\ st[n] = f[1 .. n]
    /\ \A k \in 0 .. n - 1 : st[k + 1] = g[<<k + 1, st[k]>>]

(* A fold from the left takes one element after the other.                  *)
LEMMA FoldRuns ==
  ASSUME NEW n \in Nat, NEW D, NEW base \in D, NEW g \in [(1 .. n) \X D -> D], NEW f,
         FoldsWithin(f, n, D, base, g)
  PROVE  Runs(f, n, D, base, g)
<1> DEFINE S == {k \in Nat : f[1 .. k] \in D}
           st == [k \in 0 .. n |-> f[1 .. k]]
<1>1. f[1 .. 0] = base
  <2>1. 1 .. 0 = {} /\ {} \in SUBSET (1 .. n)
    OBVIOUS
  <2>2. f[{}] = base
    BY <2>1 DEF FoldsWithin
  <2> QED BY <2>1, <2>2
<1>2. ASSUME NEW k \in 0 .. n - 1, f[1 .. k] \in D
      PROVE  f[1 .. k + 1] = g[<<k + 1, f[1 .. k]>>] /\ f[1 .. k + 1] \in D
  <2>1. k \in Nat /\ k + 1 \in 1 .. n
    OBVIOUS
  <2>2. Max(1 .. k + 1) = k + 1
    BY <2>1, MaxOfUpTo
  <2>3. 1 .. k + 1 # {} /\ (1 .. k + 1) \ {k + 1} = 1 .. k /\ 1 .. k + 1 \in SUBSET (1 .. n)
    BY <2>1
  <2>4. f[1 .. k + 1] = g[<<k + 1, f[1 .. k]>>]
    BY <1>2, <2>2, <2>3 DEF FoldsWithin
  <2> QED BY <1>2, <2>1, <2>4
<1>3. \A k \in 0 .. n : k \in S
  <2>1. 0 \in S
    BY <1>1
  <2>2. ASSUME NEW k \in 0 .. n - 1, k \in S PROVE k + 1 \in S
    <3>1. f[1 .. k] \in D /\ k + 1 \in Nat
      BY <2>2
    <3> QED BY <1>2, <3>1
  <2> HIDE DEF S
  <2> QED BY <2>1, <2>2, UpTo
<1>4. st \in [0 .. n -> D] /\ st[0] = base /\ st[n] = f[1 .. n]
  BY <1>1, <1>3
<1>5. ASSUME NEW k \in 0 .. n - 1 PROVE st[k + 1] = g[<<k + 1, st[k]>>]
  <2>1. k \in 0 .. n /\ k + 1 \in 0 .. n
    OBVIOUS
  <2> QED BY <1>2, <1>3, <2>1
<1> HIDE DEF st
<1> QED BY <1>4, <1>5 DEF Runs

-----------------------------------------------------------------------------
(* The states of the reader.                                                *)

Reader ==
  [result : Payload \cup {None}, conversation : Conversation \cup {None}, valid : BOOLEAN,
   malformed : BOOLEAN, final : BOOLEAN, texts : SUBSET Text, chars : Nat, bytes : Nat,
   overflow : BOOLEAN, oversized : BOOLEAN]

(* Consuming a line, and starting, give a state of the reader.              *)
LEMMA ReaderType ==
  /\ Nothing \in Reader
  /\ \A c \in Reader, e \in Line : Consume(c, e) \in Reader
<1>1. Nothing \in Reader
  BY DEF Nothing, Reader
<1>2. ASSUME NEW c \in Reader, NEW e \in Line PROVE Consume(c, e) \in Reader
  <2> DEFINE v == [c EXCEPT !.valid = TRUE]
  <2>1. v \in Reader
    BY DEF Reader
  <2>2. e.kind = "init" => e.conversation \in Conversation \cup {None}
    BY DEF Line
  <2>3. e.kind = "result" => e.result \in Payload \cup {None}
    BY DEF Line
  <2>4. e.kind = "delta" => Heard(v, e) \in Reader
    <3> HIDE DEF v
    <3>1. e.kind = "delta" => e.delta \in Text /\ e.chars \in Nat /\ e.bytes \in Nat
      BY DEF Line
    <3>2. \A t \in SUBSET Text : [v EXCEPT !.overflow = TRUE, !.texts = t] \in Reader
      BY <2>1 DEF Reader
    <3>3. \A t \in SUBSET Text, m, b \in Nat :
            [v EXCEPT !.chars = m, !.bytes = b, !.texts = t] \in Reader
      BY <2>1 DEF Reader
    <3>4. ASSUME e.kind = "delta"
          PROVE  /\ v.chars + e.chars \in Nat /\ v.bytes + e.bytes \in Nat
                 /\ v.texts \cup {e.delta} \in SUBSET Text
      BY <2>1, <3>1, <3>4 DEF Reader
    <3> QED BY <2>1, <3>2, <3>3, <3>4 DEF Heard
  <2>5. e.kind = "init" => [v EXCEPT !.conversation = e.conversation] \in Reader
    BY <2>1, <2>2 DEF Reader
  <2>6. e.kind = "result" => [v EXCEPT !.final = TRUE, !.result = e.result] \in Reader
    BY <2>1, <2>3 DEF Reader
  <2>7. [c EXCEPT !.oversized = TRUE] \in Reader /\ [c EXCEPT !.malformed = TRUE] \in Reader
    BY DEF Reader
  <2> HIDE DEF v
  <2> QED BY <2>1, <2>4, <2>5, <2>6, <2>7 DEF Consume, v
<1> QED BY <1>1, <1>2

(* The reader takes the stream line by line.                                *)
LEMMA ConsumedRuns ==
  ASSUME NEW events \in Seq(Line)
  PROVE  \E st \in [0 .. Len(events) -> Reader] :
           /\ st[0] = Nothing /\ st[Len(events)] = Consumed(events)
           /\ \A k \in 0 .. Len(events) - 1 : st[k + 1] = Consume(st[k], events[k + 1])
<1> DEFINE n == Len(events)
           g == [x \in (1 .. n) \X Reader |-> Consume(x[2], events[x[1]])]
           Fold(f) == f = [s \in SUBSET DOMAIN events |->
                             IF s = {} THEN Nothing
                             ELSE Consume(f[s \ {Max(s)}], events[Max(s)])]
           iter == CHOOSE f : Fold(f)
<1>1. n \in Nat /\ DOMAIN events = 1 .. n /\ \A k \in 1 .. n : events[k] \in Line
  BY LenProperties, ElementOfSeq
<1>2. Consumed(events) = iter[DOMAIN events]
  BY DEF Consumed, FoldLeft, MapThenFoldSet
<1>3. g \in [(1 .. n) \X Reader -> Reader]
  BY <1>1, ReaderType
<1> HIDE DEF n
<1>4. PICK f \in [SUBSET (1 .. n) -> Reader] : Folds(f, n, Nothing, g)
  <2> HIDE DEF g
  <2> QED BY <1>1, <1>3, ReaderType, FoldExists
<1>5. \A s \in SUBSET (1 .. n) : f[s] = IF s = {} THEN Nothing
                                     ELSE Consume(f[s \ {Max(s)}], events[Max(s)])
  <2> SUFFICES ASSUME NEW s \in SUBSET (1 .. n), s # {}
               PROVE  f[s] = Consume(f[s \ {Max(s)}], events[Max(s)])
    BY <1>4 DEF Folds
  <2>1. Max(s) \in 1 .. n
    BY <1>1, MaxInSet
  <2>2. s \ {Max(s)} \in SUBSET (1 .. n)
    OBVIOUS
  <2>3. f[s] = g[<<Max(s), f[s \ {Max(s)}]>>]
    BY <1>4 DEF Folds
  <2> QED BY <2>1, <2>2, <2>3
<1>6. Fold(f)
  BY <1>1, <1>5
<1>7. Fold(iter)
  <2> HIDE DEF Fold
  <2> QED BY <1>6
<1> HIDE DEF iter
<1>8. FoldsWithin(iter, n, Reader, Nothing, g)
  <2> SUFFICES ASSUME NEW s \in SUBSET (1 .. n)
               PROVE  IF s = {} THEN iter[s] = Nothing
                      ELSE iter[s \ {Max(s)}] \in Reader
                             => iter[s] = g[<<Max(s), iter[s \ {Max(s)}]>>]
    BY DEF FoldsWithin
  <2>1. iter[s] = IF s = {} THEN Nothing ELSE Consume(iter[s \ {Max(s)}], events[Max(s)])
    BY <1>1, <1>7
  <2>2. s # {} => Max(s) \in 1 .. n
    BY <1>1, MaxInSet
  <2> QED BY <2>1, <2>2
<1>9. \A k \in 1 .. n, x \in Reader : g[<<k, x>>] = Consume(x, events[k])
  OBVIOUS
<1> HIDE DEF g
<1>10. PICK st \in [0 .. n -> Reader] :
         /\ st[0] = Nothing /\ st[n] = iter[1 .. n]
         /\ \A k \in 0 .. n - 1 : st[k + 1] = g[<<k + 1, st[k]>>]
  <2>1. n \in Nat /\ Nothing \in Reader
    BY <1>1, ReaderType
  <2>2. Runs(iter, n, Reader, Nothing, g)
    BY <1>3, <1>8, <2>1, FoldRuns
  <2> QED BY <2>2 DEF Runs
<1>11. \A k \in 0 .. n - 1 : st[k + 1] = Consume(st[k], events[k + 1])
  <2>1. \A k \in 0 .. n - 1 : k \in 0 .. n /\ k + 1 \in 1 .. n
    BY <1>1
  <2> QED BY <1>9, <1>10, <2>1
<1>12. st[0] = Nothing /\ st[n] = Consumed(events)
  BY <1>1, <1>2, <1>10
<1> QED BY <1>11, <1>12 DEF n

(* The length of a text is the sum of the sizes of its deltas, in either    *)
(* unit.                                                                    *)
LEMMA LengthRuns ==
  ASSUME NEW events \in Seq(Line), NEW unit \in {"chars", "bytes"}
  PROVE  \E ln \in [0 .. Len(events) -> Nat] :
           /\ ln[0] = 0 /\ ln[Len(events)] = Length(events, unit)
           /\ \A k \in 0 .. Len(events) - 1 :
                ln[k + 1] =
                  ln[k] + IF events[k + 1].kind = "delta" THEN events[k + 1][unit] ELSE 0
<1> DEFINE n == Len(events)
           Add(m, e) == IF e.kind = "delta" THEN m + e[unit] ELSE m
           g == [x \in (1 .. n) \X Nat |-> Add(x[2], events[x[1]])]
           Fold(f) == f = [s \in SUBSET DOMAIN events |->
                             IF s = {} THEN 0 ELSE Add(f[s \ {Max(s)}], events[Max(s)])]
           iter == CHOOSE f : Fold(f)
<1>1. n \in Nat /\ DOMAIN events = 1 .. n /\ \A k \in 1 .. n : events[k] \in Line
  BY LenProperties, ElementOfSeq
<1>2. Length(events, unit) = iter[DOMAIN events]
  BY DEF Length, FoldLeft, MapThenFoldSet
<1>3. \A m \in Nat, k \in 1 .. n : Add(m, events[k]) \in Nat
  BY <1>1 DEF Line
<1> HIDE DEF Add, n
<1>4. g \in [(1 .. n) \X Nat -> Nat]
  BY <1>3
<1>5. PICK f \in [SUBSET (1 .. n) -> Nat] : Folds(f, n, 0, g)
  <2> HIDE DEF g
  <2> QED BY <1>1, <1>4, FoldExists
<1>6. \A s \in SUBSET (1 .. n) :
        f[s] = IF s = {} THEN 0 ELSE Add(f[s \ {Max(s)}], events[Max(s)])
  <2> SUFFICES ASSUME NEW s \in SUBSET (1 .. n), s # {}
               PROVE  f[s] = Add(f[s \ {Max(s)}], events[Max(s)])
    BY <1>5 DEF Folds
  <2>1. Max(s) \in 1 .. n
    BY <1>1, MaxInSet
  <2>2. s \ {Max(s)} \in SUBSET (1 .. n)
    OBVIOUS
  <2>3. f[s] = g[<<Max(s), f[s \ {Max(s)}]>>]
    BY <1>5 DEF Folds
  <2> QED BY <2>1, <2>2, <2>3
<1>7. Fold(iter)
  <2>1. Fold(f)
    BY <1>1, <1>6
  <2> HIDE DEF Fold
  <2> QED BY <2>1
<1> HIDE DEF iter
<1>8. FoldsWithin(iter, n, Nat, 0, g)
  <2> SUFFICES ASSUME NEW s \in SUBSET (1 .. n)
               PROVE  IF s = {} THEN iter[s] = 0
                      ELSE iter[s \ {Max(s)}] \in Nat
                             => iter[s] = g[<<Max(s), iter[s \ {Max(s)}]>>]
    BY DEF FoldsWithin
  <2>1. iter[s] = IF s = {} THEN 0 ELSE Add(iter[s \ {Max(s)}], events[Max(s)])
    BY <1>1, <1>7
  <2>2. s # {} => Max(s) \in 1 .. n
    BY <1>1, MaxInSet
  <2> QED BY <2>1, <2>2
<1>9. \A k \in 1 .. n, x \in Nat : g[<<k, x>>] = Add(x, events[k])
  OBVIOUS
<1> HIDE DEF g
<1>10. PICK ln \in [0 .. n -> Nat] :
         /\ ln[0] = 0 /\ ln[n] = iter[1 .. n]
         /\ \A k \in 0 .. n - 1 : ln[k + 1] = g[<<k + 1, ln[k]>>]
  <2>1. n \in Nat /\ 0 \in Nat
    BY <1>1
  <2>2. Runs(iter, n, Nat, 0, g)
    BY <1>4, <1>8, <2>1, FoldRuns
  <2> QED BY <2>2 DEF Runs
<1>11. \A k \in 0 .. n - 1 : ln[k + 1] = Add(ln[k], events[k + 1])
  <2>1. \A k \in 0 .. n - 1 : k \in 0 .. n /\ k + 1 \in 1 .. n
    BY <1>1
  <2> QED BY <1>9, <1>10, <2>1
<1>12. ln[0] = 0 /\ ln[n] = Length(events, unit)
  BY <1>1, <1>2, <1>10
<1>13. ASSUME NEW k \in 0 .. n - 1
       PROVE  ln[k + 1] =
                ln[k] + IF events[k + 1].kind = "delta" THEN events[k + 1][unit] ELSE 0
  <2>1. ln[k] \in Nat
    BY <1>1
  <2> QED BY <1>11, <2>1 DEF Add
<1> QED BY <1>12, <1>13 DEF n

-----------------------------------------------------------------------------
(* What the reader knows of the first k lines.                              *)

Seen(events, k, kind) == \E i \in 1 .. k : events[i].kind = kind

LastOf(events, k, kind) ==
  {i \in 1 .. k : events[i].kind = kind /\ \A j \in i + 1 .. k : events[j].kind # kind}

Spoken(events, k) == {events[i].delta : i \in {j \in 1 .. k : events[j].kind = "delta"}}

Valid(events, k) == \E i \in 1 .. k : events[i].kind \notin {"oversized", "malformed"}

(* The length and the bytes are those of the first k lines.                 *)
Reads(c, length, bytes, events, k) ==
  /\ c.oversized <=> Seen(events, k, "oversized")
  /\ ~c.oversized =>
       /\ c.malformed <=> Seen(events, k, "malformed")
       /\ c.valid <=> Valid(events, k)
       /\ c.final <=> Seen(events, k, "result")
       /\ ~Seen(events, k, "result") => c.result = None
       /\ \A i \in LastOf(events, k, "result") : c.result = events[i].result
       /\ ~Seen(events, k, "init") => c.conversation = None
       /\ \A i \in LastOf(events, k, "init") : c.conversation = events[i].conversation
       /\ c.overflow <=> length > MaxChars
       /\ c.overflow => c.texts = {}
       /\ ~c.overflow => c.chars = length /\ c.bytes = bytes /\ c.texts = Spoken(events, k)

(* One line more.                                                           *)
LEMMA OneMore ==
  ASSUME NEW events, NEW k \in Nat
  PROVE  /\ \A kind : Seen(events, k + 1, kind)
                        <=> Seen(events, k, kind) \/ events[k + 1].kind = kind
         /\ \A kind : LastOf(events, k + 1, kind) =
                      IF events[k + 1].kind = kind THEN {k + 1} ELSE LastOf(events, k, kind)
         /\ Spoken(events, k + 1) =
              Spoken(events, k) \cup IF events[k + 1].kind = "delta"
                                       THEN {events[k + 1].delta} ELSE {}
         /\ Valid(events, k + 1)
              <=> Valid(events, k) \/ events[k + 1].kind \notin {"oversized", "malformed"}
<1>1. 1 .. k + 1 = (1 .. k) \cup {k + 1}
  OBVIOUS
<1>2. \A kind : Seen(events, k + 1, kind)
                 <=> Seen(events, k, kind) \/ events[k + 1].kind = kind
  BY <1>1 DEF Seen
<1>3. ASSUME NEW kind
      PROVE  LastOf(events, k + 1, kind) =
               IF events[k + 1].kind = kind THEN {k + 1} ELSE LastOf(events, k, kind)
  <2>1. CASE events[k + 1].kind = kind
    BY <1>1, <2>1 DEF LastOf
  <2>2. CASE events[k + 1].kind # kind
    BY <1>1, <2>2 DEF LastOf
  <2> QED BY <2>1, <2>2
<1>4. Spoken(events, k + 1) =
        Spoken(events, k) \cup IF events[k + 1].kind = "delta"
                                 THEN {events[k + 1].delta} ELSE {}
  BY <1>1 DEF Spoken
<1>5. Valid(events, k + 1)
        <=> Valid(events, k) \/ events[k + 1].kind \notin {"oversized", "malformed"}
  BY <1>1 DEF Valid
<1> QED BY <1>2, <1>3, <1>4, <1>5

(* Of no line there is nothing to know.                                     *)
LEMMA ReadsNothing ==
  ASSUME NEW events
  PROVE  Reads(Nothing, 0, 0, events, 0)
<1>1. 1 .. 0 = {}
  OBVIOUS
<1>2. /\ \A kind : ~Seen(events, 0, kind) /\ LastOf(events, 0, kind) = {}
      /\ Spoken(events, 0) = {} /\ ~Valid(events, 0)
  BY <1>1 DEF Seen, LastOf, Spoken, Valid
<1> QED BY <1>2, MaxCharsAssumption DEF Reads, Nothing

(* What the reader knows of k lines and the next one, it knows of k + 1.    *)
LEMMA ReadsNext ==
  ASSUME NEW events, NEW k \in Nat, events[k + 1] \in Line,
         NEW c \in Reader, NEW n \in Nat, NEW b \in Nat, Reads(c, n, b, events, k)
  PROVE  LET e == events[k + 1]
         IN Reads(Consume(c, e), n + IF e.kind = "delta" THEN e.chars ELSE 0,
                  b + IF e.kind = "delta" THEN e.bytes ELSE 0, events, k + 1)
<1> DEFINE e == events[k + 1]
           d == Consume(c, e)
           m == n + IF e.kind = "delta" THEN e.chars ELSE 0
           p == b + IF e.kind = "delta" THEN e.bytes ELSE 0
<1> SUFFICES Reads(d, m, p, events, k + 1)
  OBVIOUS
<1>1. e.kind \in {"oversized", "malformed", "other", "init", "delta", "result"}
  BY DEF Line
<1>2. CASE c.oversized
  BY <1>2, OneMore DEF Reads, Consume
<1>3. CASE ~c.oversized /\ e.kind = "oversized"
  <2>1. /\ m = n /\ p = b
        /\ d.oversized
    BY <1>3 DEF Consume, Reader
  <2> HIDE DEF d, m, p
  <2> QED BY <1>3, <2>1, OneMore DEF Reads
<1>4. CASE ~c.oversized /\ e.kind = "malformed"
  <2>1. /\ m = n /\ p = b
        /\ d.malformed /\ d.valid = c.valid /\ d.final = c.final
        /\ d.result = c.result /\ d.conversation = c.conversation
        /\ d.oversized = c.oversized /\ d.overflow = c.overflow
        /\ d.chars = c.chars /\ d.bytes = c.bytes /\ d.texts = c.texts
    BY <1>4 DEF Consume, Reader
  <2> HIDE DEF d, m, p
  <2> QED BY <1>4, <2>1, OneMore DEF Reads
<1>5. CASE ~c.oversized /\ e.kind = "other"
  <2>1. /\ m = n /\ p = b
        /\ d.valid /\ d.malformed = c.malformed /\ d.final = c.final
        /\ d.result = c.result /\ d.conversation = c.conversation
        /\ d.oversized = c.oversized /\ d.overflow = c.overflow
        /\ d.chars = c.chars /\ d.bytes = c.bytes /\ d.texts = c.texts
    BY <1>5 DEF Consume, Reader
  <2> HIDE DEF d, m, p
  <2> QED BY <1>5, <2>1, OneMore DEF Reads
<1>6. CASE ~c.oversized /\ e.kind = "init"
  <2>1. /\ m = n /\ p = b
        /\ d.valid /\ d.malformed = c.malformed /\ d.final = c.final
        /\ d.result = c.result /\ d.conversation = e.conversation
        /\ d.oversized = c.oversized /\ d.overflow = c.overflow
        /\ d.chars = c.chars /\ d.bytes = c.bytes /\ d.texts = c.texts
    <3> DEFINE v == [c EXCEPT !.valid = TRUE]
    <3>1. /\ v \in Reader /\ v.valid /\ v.chars = c.chars /\ v.bytes = c.bytes /\ v.texts = c.texts
          /\ v.overflow = c.overflow /\ v.oversized = c.oversized /\ v.final = c.final
          /\ v.result = c.result /\ v.conversation = c.conversation
          /\ v.malformed = c.malformed
      BY DEF Reader
    <3>2. d = [v EXCEPT !.conversation = e.conversation] /\ m = n /\ p = b
      BY <1>6 DEF Consume
    <3> HIDE DEF v, d, m, p
    <3> QED BY <3>1, <3>2 DEF Reader
  <2>2. \A kind \in {"oversized", "malformed", "result"} :
          /\ Seen(events, k + 1, kind) <=> Seen(events, k, kind)
          /\ LastOf(events, k + 1, kind) = LastOf(events, k, kind)
    BY <1>6, OneMore
  <2>3. Seen(events, k + 1, "init") /\ LastOf(events, k + 1, "init") = {k + 1}
    BY <1>6, OneMore
  <2>4. Spoken(events, k + 1) = Spoken(events, k)
    <3>1. Spoken(events, k + 1) = Spoken(events, k) \cup {}
      BY <1>6, OneMore
    <3> QED BY <3>1
  <2>5. Valid(events, k + 1)
    BY <1>6, OneMore
  <2> HIDE DEF d, m, p
  <2> QED BY <1>6, <2>1, <2>2, <2>3, <2>4, <2>5 DEF Reads
<1>7. CASE ~c.oversized /\ e.kind = "result"
  <2>1. /\ m = n /\ p = b
        /\ d.valid /\ d.malformed = c.malformed /\ d.final
        /\ d.result = e.result /\ d.conversation = c.conversation
        /\ d.oversized = c.oversized /\ d.overflow = c.overflow
        /\ d.chars = c.chars /\ d.bytes = c.bytes /\ d.texts = c.texts
    <3> DEFINE v == [c EXCEPT !.valid = TRUE]
    <3>1. /\ v \in Reader /\ v.valid /\ v.chars = c.chars /\ v.bytes = c.bytes /\ v.texts = c.texts
          /\ v.overflow = c.overflow /\ v.oversized = c.oversized /\ v.final = c.final
          /\ v.result = c.result /\ v.conversation = c.conversation
          /\ v.malformed = c.malformed
      BY DEF Reader
    <3>2. d = [v EXCEPT !.final = TRUE, !.result = e.result] /\ m = n /\ p = b
      BY <1>7 DEF Consume
    <3> HIDE DEF v, d, m, p
    <3> QED BY <3>1, <3>2 DEF Reader
  <2> HIDE DEF d, m, p
  <2> QED BY <1>7, <2>1, OneMore DEF Reads
<1>8. CASE ~c.oversized /\ e.kind = "delta"
  <2> DEFINE v == [c EXCEPT !.valid = TRUE]
  <2>1. v \in Reader /\ d = Heard(v, e) /\ e.delta \in Text /\ e.chars \in Nat /\ e.bytes \in Nat
        /\ m = n + e.chars /\ p = b + e.bytes
    BY <1>8 DEF Reader, Line, Consume
  <2>2. /\ v.overflow = c.overflow /\ v.chars = c.chars /\ v.bytes = c.bytes /\ v.texts = c.texts
        /\ v.valid
        /\ \A f \in {"result", "conversation", "malformed", "final", "oversized"} : v[f] = c[f]
    BY DEF Reader
  <2>3. /\ d.valid
        /\ \A f \in {"result", "conversation", "malformed", "final", "oversized"} : d[f] = c[f]
    BY <2>1, <2>2 DEF Heard, Reader
  <2>4. /\ d.overflow <=> m > MaxChars
        /\ d.overflow => d.texts = {}
        /\ ~d.overflow => d.chars = m /\ d.bytes = p /\ d.texts = Spoken(events, k + 1)
    <3>1. Spoken(events, k + 1) = Spoken(events, k) \cup {e.delta}
      BY <1>8, OneMore
    <3>2. CASE v.overflow
      BY <1>8, <2>1, <2>2, <3>2, MaxCharsAssumption DEF Heard, Reads
    <3>3. CASE ~v.overflow /\ v.chars + e.chars <= MaxChars
      <4>1. d = [v EXCEPT !.chars = v.chars + e.chars, !.bytes = v.bytes + e.bytes,
                         !.texts = v.texts \cup {e.delta}]
        BY <2>1, <3>3 DEF Heard
      <4>2. /\ d.chars = v.chars + e.chars /\ d.bytes = v.bytes + e.bytes
            /\ d.texts = v.texts \cup {e.delta} /\ ~d.overflow
        BY <2>1, <3>3, <4>1 DEF Reader
      <4> QED BY <1>8, <2>1, <2>2, <3>1, <3>3, <4>2, MaxCharsAssumption DEF Reads
    <3>4. CASE ~v.overflow /\ ~(v.chars + e.chars <= MaxChars)
      <4>1. d = [v EXCEPT !.overflow = TRUE, !.texts = {}]
        BY <2>1, <3>4 DEF Heard
      <4>2. d.overflow /\ d.texts = {}
        BY <2>1, <4>1 DEF Reader
      <4>3. c.chars = n
        BY <1>8, <2>2, <3>4 DEF Reads
      <4>4. m > MaxChars
        BY <2>1, <2>2, <3>4, <4>3, MaxCharsAssumption
      <4> QED BY <4>2, <4>4
    <3> QED BY <3>2, <3>3, <3>4
  <2>5. /\ \A kind \in {"oversized", "malformed", "result", "init"} :
             /\ Seen(events, k + 1, kind) <=> Seen(events, k, kind)
             /\ LastOf(events, k + 1, kind) = LastOf(events, k, kind)
        /\ Valid(events, k + 1)
    BY <1>8, OneMore
  <2> HIDE DEF d, m, p, v
  <2> QED BY <1>8, <2>3, <2>4, <2>5 DEF Reads
<1> QED BY <1>1, <1>2, <1>3, <1>4, <1>5, <1>6, <1>7, <1>8

(* What the reader knows at the end.                                        *)
LEMMA ConsumedReads ==
  ASSUME NEW events \in Seq(Line)
  PROVE  /\ Consumed(events) \in Reader /\ \A unit \in {"chars", "bytes"} : Length(events, unit) \in Nat
         /\ Reads(Consumed(events), Length(events, "chars"), Length(events, "bytes"),
                  events, Len(events))
<1>1. Len(events) \in Nat /\ \A k \in 1 .. Len(events) : events[k] \in Line
  BY LenProperties, ElementOfSeq
<1>2. PICK st \in [0 .. Len(events) -> Reader] :
        /\ st[0] = Nothing /\ st[Len(events)] = Consumed(events)
        /\ \A k \in 0 .. Len(events) - 1 : st[k + 1] = Consume(st[k], events[k + 1])
  BY ConsumedRuns
<1>3. PICK ln \in [0 .. Len(events) -> Nat] :
        /\ ln[0] = 0 /\ ln[Len(events)] = Length(events, "chars")
        /\ \A k \in 0 .. Len(events) - 1 :
             ln[k + 1] = ln[k] + IF events[k + 1].kind = "delta" THEN events[k + 1].chars ELSE 0
  BY LengthRuns
<1>10. PICK bs \in [0 .. Len(events) -> Nat] :
        /\ bs[0] = 0 /\ bs[Len(events)] = Length(events, "bytes")
        /\ \A k \in 0 .. Len(events) - 1 :
             bs[k + 1] = bs[k] + IF events[k + 1].kind = "delta" THEN events[k + 1].bytes ELSE 0
  BY LengthRuns
<1> DEFINE n == Len(events)
           S == {k \in Nat : Reads(st[k], ln[k], bs[k], events, k)}
<1>4. 0 \in S
  BY <1>2, <1>3, <1>10, ReadsNothing
<1>5. ASSUME NEW k \in 0 .. n - 1, k \in S PROVE k + 1 \in S
  <2>1. k \in Nat /\ k + 1 \in Nat /\ k \in 0 .. n /\ k + 1 \in 1 .. n
    BY <1>1
  <2>2. /\ events[k + 1] \in Line /\ st[k] \in Reader /\ ln[k] \in Nat /\ bs[k] \in Nat
        /\ Reads(st[k], ln[k], bs[k], events, k)
    BY <1>1, <1>5, <2>1
  <2>3. LET e == events[k + 1]
        IN Reads(Consume(st[k], e), ln[k] + IF e.kind = "delta" THEN e.chars ELSE 0,
                 bs[k] + IF e.kind = "delta" THEN e.bytes ELSE 0, events, k + 1)
    BY <2>1, <2>2, ReadsNext
  <2>4. Reads(st[k + 1], ln[k + 1], bs[k + 1], events, k + 1)
    BY <1>2, <1>3, <1>10, <2>3
  <2> QED BY <2>1, <2>4
<1>6. n \in 0 .. n
  BY <1>1
<1>7. n \in S
  <2> HIDE DEF S
  <2> QED BY <1>1, <1>4, <1>5, <1>6, UpTo
<1>8. Length(events, "chars") \in Nat /\ Length(events, "bytes") \in Nat
  BY <1>3, <1>6, <1>10
<1> QED BY <1>1, <1>2, <1>3, <1>7, <1>8, <1>10

-----------------------------------------------------------------------------
(* What the stream means.                                                   *)

(* The indices of the whole stream and those of its first Len(events) lines.*)
LEMMA AtTheEnd ==
  ASSUME NEW events \in Seq(Line)
  PROVE  LET n == Len(events)
         IN /\ \A kind : At(events, kind) # {} <=> Seen(events, n, kind)
            /\ \A kind : At(events, kind) # {} => Max(At(events, kind)) \in LastOf(events, n, kind)
            /\ {events[i].delta : i \in At(events, "delta")} = Spoken(events, n)
            /\ ~Seen(events, n, "oversized") =>
                 ((events # <<>> /\ At(events, "malformed") = DOMAIN events)
                    <=> (Seen(events, n, "malformed") /\ ~Valid(events, n)))
<1> DEFINE n == Len(events)
<1>1. n \in Nat /\ DOMAIN events = 1 .. n /\ (events # <<>> <=> n # 0)
  BY LenProperties, EmptySeq
<1> HIDE DEF n
<1>2. \A kind : At(events, kind) # {} <=> Seen(events, n, kind)
  BY <1>1 DEF At, Seen
<1>3. ASSUME NEW kind, At(events, kind) # {}
      PROVE  Max(At(events, kind)) \in LastOf(events, n, kind)
  <2> DEFINE top == Max(At(events, kind))
  <2>1. At(events, kind) \in SUBSET (1 .. n)
    BY <1>1 DEF At
  <2>2. top \in At(events, kind) /\ \A y \in At(events, kind) : top >= y
    BY <1>1, <1>3, <2>1, MaxInSet
  <2> HIDE DEF top
  <2>3. top \in 1 .. n /\ events[top].kind = kind
    BY <1>1, <2>2 DEF At
  <2>4. ASSUME NEW j \in top + 1 .. n PROVE events[j].kind # kind
    <3>1. j \in 1 .. n /\ ~(top >= j)
      BY <1>1, <2>3
    <3> QED BY <1>1, <2>2, <3>1 DEF At
  <2> QED BY <2>3, <2>4 DEF LastOf, top
<1>4. {events[i].delta : i \in At(events, "delta")} = Spoken(events, n)
  BY <1>1 DEF At, Spoken
<1>5. ASSUME ~Seen(events, n, "oversized")
      PROVE  (events # <<>> /\ At(events, "malformed") = DOMAIN events)
               <=> (Seen(events, n, "malformed") /\ ~Valid(events, n))
  <2>1. \A i \in 1 .. n : events[i].kind # "oversized"
    BY <1>5 DEF Seen
  <2>2. At(events, "malformed") = DOMAIN events <=> ~Valid(events, n)
    BY <1>1, <2>1 DEF At, Valid
  <2>3. ~Valid(events, n) => (Seen(events, n, "malformed") <=> n # 0)
    BY <1>1, <2>1 DEF Valid, Seen
  <2> QED BY <1>1, <2>2, <2>3
<1> QED BY <1>2, <1>3, <1>4, <1>5 DEF n

(* What is handed on, o, against what the stream means, m.                  *)
Faithful(o, m) ==
  IF m.text \in Written
  THEN /\ ~o.exceeded /\ o.result # None /\ o.result.status = "SUCCESS"
       /\ o.result.response = m.text /\ o.result.conversation = m.conversation
  ELSE /\ m.text = "none"
       /\ o.exceeded => m.error = "output_limit"
       /\ ~o.exceeded => o.result # None
       /\ ~o.exceeded /\ o.result.status # "SUCCESS"
            => m.error = IF o.result.error = "none" THEN "any" ELSE o.result.error
       /\ ~o.exceeded /\ o.result.status = "SUCCESS"
            => /\ o.result.response \notin Written
               /\ m.error =
                    IF o.result.response = "notstr" THEN "content_parse_failed" ELSE "any"

(* What the wrapper writes for a failure of the stream is a result.         *)
LEMMA FailureFields ==
  ASSUME NEW e \in OwnErrors
  PROVE  /\ Failure(e) \in Payload /\ Failure(e).status = "ERROR" /\ Failure(e).error = e
         /\ Failure(e).conversation = None /\ Failure(e).bytes = FailureBytes
<1>1. /\ e \in STRING \cup OwnErrors /\ "absent" \in Response /\ "absent" \in Text \cup {"absent"}
      /\ None \in Conversation \cup {None} /\ {} \in SUBSET STRING
      /\ FailureBytes \in Nat /\ 0 \in Nat
  BY BytesAssumption DEF Response
<1> QED BY <1>1 DEF Failure, Payload

Named(r, i, x) == [r EXCEPT !.conversation = i, !.bytes = @ + x]

(* A result with a conversation that takes x bytes,                         *)
LEMMA WithConversation ==
  ASSUME NEW r \in Payload, NEW i \in Conversation \cup {None}, NEW x \in Nat
  PROVE  /\ Named(r, i, x) \in Payload /\ Named(r, i, x).status = r.status
         /\ Named(r, i, x).error = r.error /\ Named(r, i, x).response = r.response
         /\ Named(r, i, x).content = r.content /\ Named(r, i, x).conversation = i
         /\ Named(r, i, x).bytes = r.bytes + x /\ Named(r, i, x).copy = r.copy
<1>1. r.bytes + x \in Nat
  BY DEF Payload
<1> DEFINE y == r.bytes + x
           s == [r EXCEPT !.conversation = i, !.bytes = y]
<1>2. Named(r, i, x) = s
  BY DEF Named
<1> HIDE DEF y
<1>3. /\ s \in Payload /\ s.status = r.status /\ s.error = r.error
      /\ s.response = r.response /\ s.content = r.content /\ s.conversation = i
      /\ s.bytes = y /\ s.copy = r.copy
  BY <1>1 DEF Payload, y
<1> HIDE DEF s
<1> QED BY <1>2, <1>3 DEF y

(* and with a text that does, is still a result,                            *)
LEMMA WithText ==
  ASSUME NEW r \in Payload, NEW t \in Text, NEW x \in Nat
  PROVE  /\ Recovered(r, t, x) \in Payload /\ Recovered(r, t, x).status = r.status
         /\ Recovered(r, t, x).response = t /\ Recovered(r, t, x).bytes = r.bytes + x
         /\ Recovered(r, t, x).conversation = r.conversation
<1>1. t \in Response /\ r.bytes + x \in Nat
  BY DEF Response, Payload
<1> DEFINE y == r.bytes + x
           s == [r EXCEPT !.response = t, !.bytes = y]
<1>2. Recovered(r, t, x) = s
  BY DEF Recovered
<1> HIDE DEF y
<1>3. /\ s \in Payload /\ s.status = r.status /\ s.response = t /\ s.bytes = y
      /\ s.conversation = r.conversation
  BY <1>1 DEF Payload, y
<1> HIDE DEF s
<1> QED BY <1>2, <1>3 DEF y

(* and so is what stays of one whose text was past the bound.               *)
LEMMA WithoutText ==
  ASSUME NEW r \in Payload
  PROVE  /\ PastTheBound(r) \in Payload /\ PastTheBound(r).status = "ERROR"
         /\ PastTheBound(r).error = "output_limit"
<1> DEFINE f == Failure("output_limit")
           x == IF r.conversation = None THEN 0 ELSE IdBytes
<1>1. f \in Payload /\ f.status = "ERROR" /\ f.error = "output_limit" /\ f.bytes = FailureBytes
  BY FailureFields DEF OwnErrors
<1>2. /\ r.conversation \in Conversation \cup {None} /\ r.tokens \in BOOLEAN
      /\ r.usage \in Nat /\ x \in Nat
  BY BytesAssumption DEF Payload
<1>3. PastTheBound(r) = [f EXCEPT !.conversation = r.conversation, !.tokens = r.tokens,
                                  !.usage = r.usage, !.bytes = @ + r.usage + x]
  BY DEF PastTheBound
<1>4. f.bytes + r.usage + x \in Nat
  BY <1>1, <1>2, BytesAssumption
<1> HIDE DEF f, x
<1> QED BY <1>1, <1>2, <1>3, <1>4 DEF Payload

(* What stands for the result, in terms of the reader's state.              *)
LEMMA ResultIs ==
  ASSUME NEW c \in Reader
  PROVE  /\ ResultOf(c) \in Payload
         /\ c.result = None =>
              /\ ResultOf(c).status = "ERROR" /\ ResultOf(c).bytes <= MaxChars
              /\ ResultOf(c).error = IF c.final \/ (c.malformed /\ ~c.valid)
                                       THEN "content_parse_failed"
                                       ELSE "stream_closed_before_final"
         /\ c.result # None =>
              /\ ResultOf(c).status = c.result.status /\ ResultOf(c).error = c.result.error
              /\ ResultOf(c).response = c.result.response
              /\ ResultOf(c).content = c.result.content /\ ResultOf(c).copy = c.result.copy
              /\ ResultOf(c).conversation = IF c.result.conversation = None
                                              THEN c.conversation ELSE c.result.conversation
              /\ ResultOf(c).bytes =
                   c.result.bytes + IF c.result.conversation # None \/ c.conversation = None
                                      THEN 0 ELSE IdBytes
<1>1. /\ c.result \in Payload \cup {None} /\ c.conversation \in Conversation \cup {None}
      /\ IdBytes \in Nat /\ FailureBytes \in Nat
  BY BytesAssumption DEF Reader
<1>2. CASE c.result = None
  <2> DEFINE missing == IF c.final \/ (c.malformed /\ ~c.valid)
                          THEN "content_parse_failed" ELSE "stream_closed_before_final"
  <2>1. missing \in OwnErrors
    BY DEF OwnErrors
  <2> DEFINE f == Failure(missing)
             s == Named(f, c.conversation, IdBytes)
  <2>2. ResultOf(c) = IF f.conversation = None /\ c.conversation # None THEN s ELSE f
    BY <1>2 DEF ResultOf, Named
  <2> HIDE DEF missing
  <2>3. f \in Payload /\ f.status = "ERROR" /\ f.error = missing /\ f.bytes = FailureBytes
    BY <2>1, FailureFields
  <2> HIDE DEF f
  <2>4. s \in Payload /\ s.status = "ERROR" /\ s.error = missing /\ s.bytes = FailureBytes + IdBytes
    <3>1. /\ s \in Payload /\ s.status = f.status /\ s.error = f.error
          /\ s.bytes = f.bytes + IdBytes
      BY <1>1, <2>3, WithConversation
    <3> HIDE DEF s
    <3> QED BY <2>3, <3>1
  <2> HIDE DEF s
  <2>5. /\ ResultOf(c) \in Payload /\ ResultOf(c).status = "ERROR"
        /\ ResultOf(c).error = missing /\ ResultOf(c).bytes <= MaxChars
    BY <1>1, <2>2, <2>3, <2>4, BytesAssumption, MaxCharsAssumption
  <2> QED BY <1>2, <2>5 DEF missing
<1>3. CASE c.result # None
  <2> DEFINE r == c.result
             s == Named(r, c.conversation, IdBytes)
  <2>1. r \in Payload
    BY <1>1, <1>3
  <2>2. ResultOf(c) = IF r.conversation = None /\ c.conversation # None THEN s ELSE r
    BY <1>3 DEF ResultOf, Named
  <2>3. r.conversation \in Conversation \cup {None} /\ r.bytes \in Nat
    BY <2>1 DEF Payload
  <2> HIDE DEF r
  <2>4. /\ s \in Payload /\ s.status = r.status /\ s.error = r.error
        /\ s.response = r.response /\ s.content = r.content
        /\ s.conversation = c.conversation /\ s.bytes = r.bytes + IdBytes /\ s.copy = r.copy
    BY <1>1, <2>1, WithConversation
  <2> HIDE DEF s
  <2>5. /\ ResultOf(c) \in Payload /\ ResultOf(c).status = r.status
        /\ ResultOf(c).error = r.error /\ ResultOf(c).response = r.response
        /\ ResultOf(c).content = r.content /\ ResultOf(c).copy = r.copy
        /\ ResultOf(c).conversation = IF r.conversation = None THEN c.conversation
                                      ELSE r.conversation
        /\ ResultOf(c).bytes = r.bytes + IF r.conversation # None \/ c.conversation = None
                                           THEN 0 ELSE IdBytes
    BY <2>1, <2>2, <2>3, <2>4
  <2> QED BY <1>3, <2>5 DEF r
<1> QED BY <1>2, <1>3

(* For a stream of any length: the reader hands on the text that the whole  *)
(* stream means, as a success, unless that is past a bound; where it means  *)
(* none, the error that it calls for (_collect_stream_output and its        *)
(* consume, against Meant).                                                 *)
THEOREM CollectedMeans ==
  ASSUME NEW events \in Seq(Line)
  PROVE  Faithful(Collected(events), Meant(events))
<1> DEFINE c == Consumed(events)
           n == Length(events, "chars")
           b == Length(events, "bytes")
           last == IF At(events, "result") = {} THEN None ELSE Latest(events, "result").result
           announced ==
             IF At(events, "init") = {} THEN None ELSE Latest(events, "init").conversation
           spoken == Joined({events[i].delta : i \in At(events, "delta")})
           complete == last.status # "SUCCESS" \/ last.response \in Written \cup {"notstr"}
           named == last.conversation # None \/ announced = None
           text == IF last.response \in Written THEN last.response
                   ELSE IF last.content \in Written THEN last.content ELSE spoken
           borrowed == CASE complete -> 0
                         [] ~complete /\ last.content \in Written -> last.copy
                         [] ~complete /\ last.content \notin Written /\ spoken \in Written -> b
                         [] OTHER -> 0
           whole == last.bytes + (IF named THEN 0 ELSE IdBytes) + borrowed
           lost == \/ whole > MaxChars
                   \/ ~complete /\ last.content \notin Written /\ n > MaxChars
           misread == \/ At(events, "result") # {}
                      \/ events # <<>> /\ At(events, "malformed") = DOMAIN events
           gaveUp == At(events, "oversized") # {}
           result == ResultOf(c)
           handed == Recover(c, result)
           exceeded == c.oversized \/ TooLong(handed)
           o == Collected(events)
           m == Meant(events)
<1> SUFFICES Faithful(o, m)
  OBVIOUS
<1>1. c \in Reader /\ n \in Nat /\ b \in Nat /\ Reads(c, n, b, events, Len(events))
  BY ConsumedReads
<1>2. /\ c.oversized <=> gaveUp
      /\ ~c.oversized =>
           /\ c.result = last /\ c.conversation = announced
           /\ c.overflow <=> n > MaxChars
           /\ ~c.overflow => c.bytes = b /\ Joined(c.texts) = spoken
           /\ (c.final \/ (c.malformed /\ ~c.valid)) <=> misread
  BY <1>1, AtTheEnd DEF Reads, Latest
<1>3. m = IF gaveUp THEN NoText("output_limit")
          ELSE IF last = None
          THEN NoText(IF misread THEN "content_parse_failed" ELSE "stream_closed_before_final")
          ELSE IF lost THEN NoText("output_limit")
          ELSE IF last.status # "SUCCESS"
          THEN NoText(IF last.error = "none" THEN "any" ELSE last.error)
          ELSE IF last.response = "notstr" THEN NoText("content_parse_failed")
          ELSE IF text \notin Written THEN NoText("any")
          ELSE [text |-> text, error |-> "none",
                conversation |-> IF last.conversation = None THEN announced
                                 ELSE last.conversation]
  BY DEF Meant
<1>4. /\ o.exceeded = exceeded
      /\ ~exceeded => o.result = handed
  BY DEF Collected
<1>5. \A e : NoText(e).text = "none" /\ NoText(e).error = e
  BY DEF NoText
<1>6. "none" \notin Written /\ "notstr" \notin Written
  BY DEF Written
<1>7. spoken \in Text
  BY DEF Joined, Text
<1>8. /\ result \in Payload
      /\ c.result = None =>
           /\ result.status = "ERROR" /\ result.bytes <= MaxChars
           /\ result.error = IF c.final \/ (c.malformed /\ ~c.valid)
                               THEN "content_parse_failed" ELSE "stream_closed_before_final"
      /\ c.result # None =>
           /\ result.status = c.result.status /\ result.error = c.result.error
           /\ result.response = c.result.response /\ result.content = c.result.content
           /\ result.copy = c.result.copy
           /\ result.conversation = IF c.result.conversation = None
                                      THEN c.conversation ELSE c.result.conversation
           /\ result.bytes =
                c.result.bytes + IF c.result.conversation # None \/ c.conversation = None
                                   THEN 0 ELSE IdBytes
  BY <1>1, ResultIs
<1>9. result \in Payload /\ result # None /\ result.bytes \in Nat /\ result.copy \in Nat
  BY <1>8, NoneAssumption DEF Payload
<1>10. whole = last.bytes + (IF named THEN 0 ELSE IdBytes) + borrowed
  OBVIOUS
<1>11. ~c.oversized /\ last # None => result.bytes = last.bytes + IF named THEN 0 ELSE IdBytes
  BY <1>2, <1>8
<1>12. exceeded <=> c.oversized \/ handed.bytes > MaxChars
  BY DEF TooLong
<1> HIDE DEF c, n, b, last, announced, spoken, misread, gaveUp, result, o, m, whole, named,
             handed, exceeded
<1>13. CASE c.oversized
  BY <1>2, <1>3, <1>5, <1>4, <1>6, <1>12, <1>13 DEF Faithful
<1>14. CASE ~c.oversized /\ result.status # "SUCCESS"
  <2>1. handed = result
    BY <1>14 DEF FromDeltas, Textless, Recover, handed
  <2>2. CASE last = None
    <3>1. ~exceeded /\ o.result = result
      BY <1>2, <1>4, <1>8, <1>9, <1>12, <1>14, <2>1, <2>2, MaxCharsAssumption
    <3>2. m = NoText(result.error) /\ result.error # "none"
      BY <1>2, <1>3, <1>8, <1>14, <2>2
    <3> QED BY <1>4, <1>5, <1>6, <1>9, <1>14, <3>1, <3>2 DEF Faithful
  <2>3. CASE last # None
    <3>1. last.status # "SUCCESS" /\ complete /\ borrowed = 0 /\ last.error = result.error
      BY <1>2, <1>8, <1>14, <2>3
    <3>2. whole = result.bytes
      BY <1>9, <1>10, <1>11, <1>14, <2>3, <3>1
    <3>3. lost <=> exceeded
      BY <1>12, <1>14, <2>1, <3>1, <3>2
    <3>4. m = IF exceeded THEN NoText("output_limit")
              ELSE NoText(IF result.error = "none" THEN "any" ELSE result.error)
      <4> HIDE DEF lost
      <4> QED BY <1>2, <1>3, <1>14, <2>3, <3>1, <3>3
    <3> QED BY <1>4, <1>5, <1>6, <1>9, <1>14, <2>1, <3>4 DEF Faithful
  <2> QED BY <2>2, <2>3
<1>15. CASE ~c.oversized /\ result.status = "SUCCESS"
  <2>1. /\ ~gaveUp /\ last # None /\ last.status = "SUCCESS"
        /\ last.response = result.response /\ last.content = result.content
        /\ last.copy = result.copy
        /\ result.conversation = IF last.conversation = None THEN announced
                                 ELSE last.conversation
    BY <1>2, <1>8, <1>15
  <2>2. result.response \in Response /\ result.content \in Text \cup {"absent"}
    BY <1>8 DEF Payload
  <2>3. whole = result.bytes + borrowed
    BY <1>10, <1>11, <1>15, <2>1
  <2>4. m = IF lost THEN NoText("output_limit")
            ELSE IF result.response = "notstr" THEN NoText("content_parse_failed")
            ELSE IF text \notin Written THEN NoText("any")
            ELSE [text |-> text, error |-> "none", conversation |-> result.conversation]
    <3> HIDE DEF lost, text
    <3> QED BY <1>3, <2>1
  <2>5. CASE result.response \in Written \cup {"notstr"}
    <3>1. handed = result
      BY <2>5 DEF FromDeltas, Textless, Recover, Written, handed
    <3>2. complete /\ whole = result.bytes
      BY <1>9, <2>1, <2>3, <2>5
    <3>3. lost <=> exceeded
      BY <1>12, <1>15, <3>1, <3>2
    <3>4. result.response \in Written => text = result.response
      BY <2>1
    <3> HIDE DEF lost, text
    <3>5. CASE exceeded
      BY <1>4, <1>5, <1>6, <2>4, <3>3, <3>5 DEF Faithful
    <3>6. CASE ~exceeded /\ result.response = "notstr"
      <4>1. m = NoText("content_parse_failed") /\ o.result = result /\ ~o.exceeded
        BY <1>4, <2>4, <3>1, <3>3, <3>6
      <4> QED BY <1>5, <1>6, <1>9, <1>15, <3>6, <4>1 DEF Faithful
    <3>7. CASE ~exceeded /\ result.response \in Written
      <4>1. /\ o.result = result /\ ~o.exceeded
            /\ m = [text |-> result.response, error |-> "none",
                    conversation |-> result.conversation]
        BY <1>4, <1>6, <2>4, <3>1, <3>3, <3>4, <3>7
      <4> QED BY <1>9, <1>15, <3>7, <4>1 DEF Faithful
    <3> QED BY <2>5, <3>5, <3>6, <3>7
  <2>6. CASE Textless(result)
    <3>1. /\ result.response \in {"absent", "null", "blank"} /\ result.response \notin Written
          /\ result.response # "notstr" /\ ~complete
          /\ text = IF result.content \in Written THEN result.content ELSE spoken
      BY <1>15, <2>1, <2>6 DEF Textless, Written
    <3>2. CASE result.content \in Written
      <4>1. handed = Recovered(result, result.content, result.copy)
        BY <2>6, <3>2 DEF FromDeltas, Recover, handed
      <4>2. result.content \in Text
        BY <3>2 DEF Text, Written
      <4>3. /\ handed \in Payload /\ handed.status = "SUCCESS"
            /\ handed.response = result.content /\ handed.conversation = result.conversation
            /\ handed.bytes = result.bytes + result.copy
        BY <1>9, <1>15, <4>1, <4>2, WithText
      <4>4. whole = handed.bytes
        BY <2>1, <2>3, <3>1, <3>2, <4>3
      <4>5. lost <=> exceeded
        BY <1>12, <1>15, <2>1, <3>2, <4>4
      <4>6. m = IF exceeded THEN NoText("output_limit")
                ELSE [text |-> result.content, error |-> "none",
                      conversation |-> result.conversation]
        <5> HIDE DEF lost, text
        <5> QED BY <2>4, <3>1, <3>2, <4>5
      <4>7. o.exceeded = exceeded /\ (~exceeded => o.result = handed)
        BY <1>4
      <4> QED BY <1>5, <1>6, <3>2, <4>3, <4>6, <4>7, NoneAssumption DEF Faithful
    <3>3. CASE result.content \notin Written /\ n > MaxChars
      <4>1. c.overflow /\ lost
        BY <1>2, <1>15, <2>1, <3>1, <3>3
      <4>2. handed = PastTheBound(result)
        BY <2>6, <3>3, <4>1 DEF FromDeltas, Recover, handed
      <4>3. m = NoText("output_limit")
        <5> HIDE DEF lost, text
        <5> QED BY <2>4, <4>1
      <4>4. handed \in Payload /\ handed.status = "ERROR" /\ handed.error = "output_limit"
        BY <1>9, <4>2, WithoutText
      <4>5. o.exceeded = exceeded /\ (~exceeded => o.result = handed)
        BY <1>4
      <4> QED BY <1>5, <1>6, <4>3, <4>4, <4>5, NoneAssumption DEF Faithful
    <3>4. CASE result.content \notin Written /\ ~(n > MaxChars) /\ spoken \in Written
      <4>1. ~c.overflow /\ c.bytes = b /\ Joined(c.texts) = spoken
        BY <1>2, <1>15, <3>4
      <4>2. FromDeltas(c, result)
        BY <2>6, <3>4, <4>1 DEF FromDeltas
      <4>3. handed = Recovered(result, spoken, b)
        BY <3>4, <4>1, <4>2 DEF Recover, handed
      <4>4. /\ handed \in Payload /\ handed.status = "SUCCESS" /\ handed.response = spoken
            /\ handed.conversation = result.conversation /\ handed.bytes = result.bytes + b
        <5>1. b \in Nat
          BY <1>1
        <5> QED BY <1>7, <1>9, <1>15, <4>3, <5>1, WithText
      <4>5. whole = handed.bytes
        BY <2>1, <2>3, <3>1, <3>4, <4>4
      <4>6. lost <=> exceeded
        BY <1>12, <1>15, <3>4, <4>5
      <4>7. m = IF exceeded THEN NoText("output_limit")
                ELSE [text |-> spoken, error |-> "none", conversation |-> result.conversation]
        <5> HIDE DEF lost, text
        <5> QED BY <2>4, <3>1, <3>4, <4>6
      <4>8. o.exceeded = exceeded /\ (~exceeded => o.result = handed)
        BY <1>4
      <4> QED BY <1>5, <1>6, <3>4, <4>4, <4>7, <4>8, NoneAssumption DEF Faithful
    <3>5. CASE result.content \notin Written /\ ~(n > MaxChars) /\ spoken \notin Written
      <4>1. ~c.overflow /\ Joined(c.texts) = spoken
        BY <1>2, <1>15, <3>5
      <4>2. handed = result
        BY <3>5, <4>1 DEF FromDeltas, Recover, handed
      <4>3. whole = result.bytes
        BY <1>9, <2>1, <2>3, <3>1, <3>5
      <4>4. lost <=> exceeded
        BY <1>12, <1>15, <3>5, <4>2, <4>3
      <4>5. m = IF exceeded THEN NoText("output_limit") ELSE NoText("any")
        <5> HIDE DEF lost, text
        <5> QED BY <2>4, <3>1, <3>5, <4>4
      <4>6. o.exceeded = exceeded /\ (~exceeded => o.result = result)
        BY <1>4, <4>2
      <4> QED BY <1>5, <1>6, <1>9, <1>15, <3>1, <4>5, <4>6 DEF Faithful
    <3> QED BY <3>2, <3>3, <3>4, <3>5
  <2> QED BY <1>15, <2>2, <2>5, <2>6 DEF Textless, Response, Text, Written
<1> QED BY <1>13, <1>14, <1>15
===============================================================================
