------------------------- MODULE AnchorForestProofs -------------------------
(***************************************************************************)
(* Theorems about AnchorForest, for any finite set of anchors and every     *)
(* width of unsigned int that can count them.                               *)
(***************************************************************************)
EXTENDS AnchorForest, CommonLemmas

(* Two anchors somebody asked, directly or not, to unite.                   *)
Tied(x, y) == \E b \in asked : x \in b /\ y \in b

(* The links descend; a search holds anchors.                               *)
LinkInv ==
    /\ alive \subseteq Anchors
    /\ next \in [Anchors -> Anchors] /\ DOMAIN children = Anchors
    /\ \A a \in Anchors : next[a] <= a
    /\ pc \in {"idle", "splice", "climb", "fault"}
    /\ pc \in {"splice", "climb"} => uv[1] \in alive /\ uv[2] \in alive

(* The unions asked for are a partition of the anchors.                     *)
AskedInv ==
    /\ UNION asked = Anchors
    /\ \A b, c \in asked : b \cap c # {} => b = c

(* Links and searches stay within it.                                       *)
TiedInv ==
    /\ \A a \in alive : next[a] \in alive => Tied(next[a], a)
    /\ pc = "splice" => Tied(uv[1], uv[2])

(* Links lead to living anchors, which count them.                          *)
CountInv ==
    /\ drift \in Nat
    /\ drift = 0 =>
          /\ pc \in {"idle", "climb"}
          /\ \A a \in alive :
                next[a] \in alive /\ children[a] = Cardinality(Referrers(a))

IInv == LinkInv /\ AskedInv /\ TiedInv /\ CountInv

-----------------------------------------------------------------------------
(* Paths and roots.                                                         *)

LEMMA LinksDescend ==
    ASSUME LinkInv
    PROVE  /\ Descending(next)
           /\ \A c \in DOMAIN next : next[c] \in DOMAIN next
           /\ DOMAIN next = Anchors /\ Anchors \subseteq Nat
           /\ \A a : Path(a) = Reach(next, a)
BY AnchorsAssumption DEF LinkInv, Descending, Path, Reach

(* RecSimpleFind ends at the one root on the way.                           *)
LEMMA RootFound ==
    ASSUME LinkInv, NEW a \in Anchors
    PROVE  /\ Root(a) \in Path(a) /\ next[Root(a)] = Root(a)
           /\ \A c \in Path(a) : c \in Anchors /\ next[c] \in Path(a)
           /\ \A c \in Path(a) : Root(a) <= c
           /\ \A c \in Path(a) : next[c] = c => c = Root(a)
<1>1. \E r \in Path(a) :
        /\ next[r] = r
        /\ \A c \in Path(a) : r <= c
        /\ \A c \in Path(a) : next[c] = c => c = r
  BY LinksDescend, ReachRoot
<1>2. Root(a) \in Path(a) /\ next[Root(a)] = Root(a)
  BY <1>1 DEF Root
<1>3. \A c \in Path(a) : c \in Anchors /\ next[c] \in Path(a)
  BY LinksDescend, ReachClosed
<1> QED
  BY <1>1, <1>2, <1>3

(* Where only links to living anchors are followed, paths stay alive.       *)
LEMMA PathAlive ==
    ASSUME LinkInv, NEW a \in alive, \A c \in alive : next[c] \in alive
    PROVE  Path(a) \subseteq alive
<1>1. alive \in SUBSET DOMAIN next /\ a \in DOMAIN next
  BY LinksDescend DEF LinkInv
<1> QED
  BY <1>1, LinksDescend, ReachClosed

-----------------------------------------------------------------------------
(* The unions asked for.                                                    *)

LEMMA BlockFound ==
    ASSUME AskedInv, NEW a \in Anchors
    PROVE  /\ Block(a) \in asked /\ a \in Block(a)
           /\ \A b \in asked : a \in b => b = Block(a)
BY DEF AskedInv, Block

LEMMA TiedIsEquivalence ==
    ASSUME AskedInv
    PROVE  /\ \A x \in Anchors : Tied(x, x)
           /\ \A x, y : Tied(x, y) => Tied(y, x)
           /\ \A x, y, z : Tied(x, y) /\ Tied(y, z) => Tied(x, z)
           /\ \A x, y \in Anchors : Tied(x, y) <=> Block(x) = Block(y)
<1>1. \A x \in Anchors : Tied(x, x)
  BY DEF AskedInv, Tied
<1>2. \A x, y : Tied(x, y) => Tied(y, x)
  BY DEF Tied
<1>3. \A x, y, z : Tied(x, y) /\ Tied(y, z) => Tied(x, z)
  BY DEF AskedInv, Tied
<1>4. \A x, y \in Anchors : Tied(x, y) <=> Block(x) = Block(y)
  BY BlockFound DEF Tied
<1> QED
  BY <1>1, <1>2, <1>3, <1>4

(* Asking keeps a partition, keeps what is tied and ties the two.           *)
LEMMA Asking ==
    ASSUME AskedInv, NEW a \in Anchors, NEW b \in Anchors, Ask(a, b)
    PROVE  /\ AskedInv'
           /\ \A x, y : Tied(x, y) => Tied(x, y)'
           /\ Tied(a, b)' /\ Tied(b, a)'
<1> DEFINE A == Block(a)
           B == Block(b)
<1>1. A \in asked /\ a \in A /\ B \in asked /\ b \in B
  BY BlockFound
<1>2. asked' = (asked \ {A, B}) \cup {A \cup B}
  BY DEF Ask
<1> HIDE DEF A, B
<1>3. UNION asked' = Anchors
  <2>1. UNION asked = Anchors
    BY DEF AskedInv
  <2>2. \A x : (\E c \in asked' : x \in c) <=> (\E c \in asked : x \in c)
    BY <1>1, <1>2
  <2> QED
    BY <2>1, <2>2
<1>4. ASSUME NEW c \in asked', NEW d \in asked', c \cap d # {} PROVE c = d
  BY <1>1, <1>2, <1>4 DEF AskedInv
<1>5. \A x, y : Tied(x, y) => Tied(x, y)'
  BY <1>1, <1>2 DEF Tied
<1>6. Tied(a, b)' /\ Tied(b, a)'
  BY <1>1, <1>2 DEF Tied
<1> QED
  BY <1>3, <1>4, <1>5, <1>6 DEF AskedInv

(* Everything on the way from an anchor is tied to it.                      *)
LEMMA PathTied ==
    ASSUME IInv, NEW a \in alive, Path(a) \subseteq alive, NEW c \in Path(a)
    PROVE  Tied(c, a)
<1> DEFINE S == {s \in Path(a) : Tied(s, a)}
<1>1. a \in Anchors /\ a \in DOMAIN next
  BY LinksDescend DEF IInv, LinkInv
<1>2. a \in S /\ S \in SUBSET DOMAIN next
  BY <1>1, LinksDescend, ReachClosed, TiedIsEquivalence DEF IInv
<1>3. ASSUME NEW s \in S PROVE next[s] \in S
  <2>1. s \in alive /\ next[s] \in Path(a) /\ next[s] \in alive
    BY <1>1, RootFound DEF IInv
  <2>2. Tied(next[s], s) /\ Tied(s, a)
    BY <2>1 DEF IInv, TiedInv
  <2> QED
    BY <2>1, <2>2, TiedIsEquivalence DEF IInv
<1> HIDE DEF S
<1>4. Reach(next, a) \subseteq S
  BY <1>1, <1>2, <1>3, LinksDescend, ReachClosed DEF IInv
<1> QED
  BY <1>4, LinksDescend DEF IInv, S

-----------------------------------------------------------------------------
(* The steps.                                                               *)

LEMMA InitInv == Init => IInv
<1> SUFFICES ASSUME Init PROVE IInv
  OBVIOUS
<1>1. LinkInv /\ CountInv
  BY AnchorsAssumption DEF Init, LinkInv, CountInv
<1>2. AskedInv
  <2>1. asked = {{a} : a \in Anchors}
    BY DEF Init
  <2>2. UNION asked = Anchors
    BY <2>1
  <2>3. \A b, c \in asked : b \cap c # {} => b = c
    BY <2>1
  <2> QED
    BY <2>2, <2>3 DEF AskedInv
<1>3. TiedInv
  BY DEF Init, TiedInv
<1> QED
  BY <1>1, <1>2, <1>3 DEF IInv

LEMMA FaultInv ==
    ASSUME IInv, NEW T, Fault(T), drift = 0 => T \subseteq alive
    PROVE  IInv'
<1>1. drift # 0
  BY DEF Fault
<1>2. LinkInv'
  BY DEF IInv, LinkInv, Fault
<1>3. AskedInv'
  BY DEF IInv, AskedInv, Fault
<1>4. TiedInv'
  BY DEF IInv, TiedInv, Tied, Fault
<1>5. CountInv'
  BY <1>1 DEF IInv, CountInv, Fault
<1> QED
  BY <1>2, <1>3, <1>4, <1>5 DEF IInv

(* The living anchors, who are few enough to be counted.                    *)
LEMMA AliveCounted ==
    ASSUME LinkInv, NEW S \in SUBSET alive
    PROVE  IsFiniteSet(S) /\ Cardinality(S) \in 0..(Word - 1)
<1>1. S \subseteq Anchors
  BY DEF LinkInv
<1>2. IsFiniteSet(S) /\ Cardinality(S) <= Cardinality(Anchors)
  BY <1>1, AnchorsAssumption, FS_Subset
<1>3. Cardinality(S) \in Nat /\ Cardinality(Anchors) \in Nat
  BY <1>2, AnchorsAssumption, FS_CardinalityType
<1> QED
  BY <1>2, <1>3, CountsFit, WordAssumption

LEMMA CreateInv == ASSUME IInv, NEW a \in Anchors, Create(a) PROVE IInv'
<1>1. /\ pc = "idle" /\ pc' = "idle" /\ a \notin alive /\ Referrers(a) = {}
      /\ alive' = alive \cup {a} /\ drift' = drift /\ asked' = asked
      /\ next' = [next EXCEPT ![a] = a] /\ children' = [children EXCEPT ![a] = 1]
  BY DEF Create
<1>2. LinkInv'
  BY <1>1, AnchorsAssumption DEF IInv, LinkInv
<1>3. AskedInv'
  BY <1>1 DEF IInv, AskedInv
<1>4. /\ next'[a] = a /\ children'[a] = 1
      /\ \A c \in Anchors : c # a => next'[c] = next[c] /\ children'[c] = children[c]
      /\ \A c \in alive : c # a /\ next[c] # a /\ c \in Anchors
  BY <1>1 DEF IInv, LinkInv, Referrers
<1>5. TiedInv'
  <2>1. Tied(a, a)
    BY TiedIsEquivalence DEF IInv
  <2> QED
    BY <1>1, <1>4, <2>1 DEF IInv, TiedInv, Tied
<1>6. CountInv'
  <2>1. Referrers(a)' = {a}
    BY <1>1, <1>4 DEF Referrers
  <2>2. \A c \in alive : Referrers(c)' = Referrers(c)
    BY <1>1, <1>4 DEF Referrers
  <2>3. Cardinality(Referrers(a)') = 1
    BY <2>1, FS_Singleton
  <2>4. ASSUME drift = 0, NEW c \in alive'
        PROVE  next'[c] \in alive' /\ children'[c] = Cardinality(Referrers(c)')
    <3>1. CASE c = a
      BY <1>1, <1>4, <2>3, <3>1
    <3>2. CASE c # a
      <4>1. c \in alive /\ next[c] \in alive /\ children[c] = Cardinality(Referrers(c))
        BY <1>1, <2>4, <3>2 DEF IInv, CountInv
      <4> QED
        BY <1>1, <1>4, <2>2, <3>2, <4>1
    <3> QED
      BY <3>1, <3>2
  <2> QED
    BY <1>1, <2>4 DEF IInv, CountInv
<1> QED
  BY <1>2, <1>3, <1>5, <1>6 DEF IInv

LEMMA CreateUnderInv ==
    ASSUME IInv, NEW a \in Anchors, NEW p \in Anchors, CreateUnder(a, p) PROVE IInv'
<1>1. /\ pc = "idle" /\ pc' = "idle" /\ a \notin alive /\ Referrers(a) = {}
      /\ p \in alive /\ p < a /\ a # p
      /\ alive' = alive \cup {a} /\ drift' = drift /\ Ask(a, p)
      /\ next' = [next EXCEPT ![a] = p]
      /\ children' = [children EXCEPT ![a] = 0, ![p] = children[p] + 1]
  BY AnchorsAssumption DEF CreateUnder
<1>2. LinkInv'
  BY <1>1, AnchorsAssumption DEF IInv, LinkInv
<1>3. AskedInv' /\ (\A x, y : Tied(x, y) => Tied(x, y)') /\ Tied(p, a)'
  BY <1>1, Asking DEF IInv
<1>4. /\ next'[a] = p /\ children'[a] = 0 /\ children'[p] = children[p] + 1
      /\ \A c \in Anchors : c # a => next'[c] = next[c]
      /\ \A c \in Anchors : c # a /\ c # p => children'[c] = children[c]
      /\ \A c \in alive : c # a /\ next[c] # a /\ c \in Anchors
  BY <1>1 DEF IInv, LinkInv, Referrers
<1>5. TiedInv'
  BY <1>1, <1>3, <1>4 DEF IInv, TiedInv
<1>6. CountInv'
  <2>1. Referrers(a)' = {}
    BY <1>1, <1>4 DEF Referrers
  <2>2. \A c \in alive : c # p => Referrers(c)' = Referrers(c)
    BY <1>1, <1>4 DEF Referrers
  <2>3. Referrers(p)' = Referrers(p) \cup {a} /\ a \notin Referrers(p)
    BY <1>1, <1>4 DEF Referrers
  <2>4. IsFiniteSet(Referrers(p))
    BY AliveCounted DEF IInv, Referrers
  <2>5. Cardinality(Referrers(p)') = Cardinality(Referrers(p)) + 1
    BY <2>3, <2>4, FS_AddElement
  <2>6. Cardinality(Referrers(a)') = 0
    BY <2>1, FS_EmptySet
  <2>7. ASSUME drift = 0, NEW c \in alive'
        PROVE  next'[c] \in alive' /\ children'[c] = Cardinality(Referrers(c)')
    <3>1. CASE c = a
      BY <1>1, <1>4, <2>6, <3>1
    <3>2. CASE c # a
      <4>1. c \in alive /\ next[c] \in alive /\ children[c] = Cardinality(Referrers(c))
        BY <1>1, <2>7, <3>2 DEF IInv, CountInv
      <4>2. next'[c] \in alive'
        BY <1>1, <1>4, <3>2, <4>1
      <4>3. children'[c] = Cardinality(Referrers(c)')
        BY <1>4, <2>2, <2>5, <3>2, <4>1
      <4> QED
        BY <4>2, <4>3
    <3> QED
      BY <3>1, <3>2
  <2> QED
    BY <1>1, <2>7 DEF IInv, CountInv
<1> QED
  BY <1>2, <1>3, <1>5, <1>6 DEF IInv

LEMMA HangInv ==
    ASSUME IInv, NEW r \in Anchors, NEW p \in Anchors, Hang(r, p) PROVE IInv'
<1>1. /\ pc = "idle" /\ pc' = "idle" /\ r \in alive /\ next[r] = r
      /\ p \in alive /\ p < r /\ r # p
      /\ alive' = alive /\ drift' = drift /\ Ask(r, p)
      /\ next' = [next EXCEPT ![r] = p]
      /\ children' = [children EXCEPT ![r] = (children[r] - 1) % Word,
                                      ![p] = children[p] + 1]
  BY AnchorsAssumption DEF Hang
<1>2. LinkInv'
  BY <1>1, AnchorsAssumption DEF IInv, LinkInv
<1>3. AskedInv' /\ (\A x, y : Tied(x, y) => Tied(x, y)') /\ Tied(p, r)'
  BY <1>1, Asking DEF IInv
<1>4. /\ next'[r] = p /\ children'[r] = (children[r] - 1) % Word
      /\ children'[p] = children[p] + 1
      /\ \A c \in Anchors : c # r => next'[c] = next[c]
      /\ \A c \in Anchors : c # r /\ c # p => children'[c] = children[c]
      /\ \A c \in alive : c \in Anchors
  BY <1>1 DEF IInv, LinkInv
<1>5. TiedInv'
  BY <1>1, <1>3, <1>4 DEF IInv, TiedInv
<1>6. CountInv'
  <2>1. Referrers(r)' = Referrers(r) \ {r} /\ r \in Referrers(r)
    BY <1>1, <1>4 DEF Referrers
  <2>2. \A c \in alive : c # p /\ c # r => Referrers(c)' = Referrers(c)
    BY <1>1, <1>4 DEF Referrers
  <2>3. Referrers(p)' = Referrers(p) \cup {r} /\ r \notin Referrers(p)
    BY <1>1, <1>4 DEF Referrers
  <2>4. /\ IsFiniteSet(Referrers(p)) /\ IsFiniteSet(Referrers(r))
        /\ Cardinality(Referrers(r)) \in 0..(Word - 1)
    BY AliveCounted DEF IInv, Referrers
  <2>5. Cardinality(Referrers(p)') = Cardinality(Referrers(p)) + 1
    BY <2>3, <2>4, FS_AddElement
  <2>6. /\ Cardinality(Referrers(r)') = Cardinality(Referrers(r)) - 1
        /\ Cardinality(Referrers(r)') \in Nat
    BY <2>1, <2>4, FS_RemoveElement, FS_CardinalityType
  <2>7. drift = 0 => children'[r] = Cardinality(Referrers(r)')
    <3>1. (Cardinality(Referrers(r)) - 1) % Word = Cardinality(Referrers(r)) - 1
      BY <2>4, <2>6, WordSmall, WordAssumption
    <3> QED
      BY <1>1, <1>4, <2>6, <3>1 DEF IInv, CountInv
  <2>8. ASSUME drift = 0, NEW c \in alive'
        PROVE  next'[c] \in alive' /\ children'[c] = Cardinality(Referrers(c)')
    <3>1. c \in alive /\ next[c] \in alive /\ children[c] = Cardinality(Referrers(c))
      BY <1>1, <2>8 DEF IInv, CountInv
    <3>2. next'[c] \in alive'
      BY <1>1, <1>4, <3>1
    <3>3. children'[c] = Cardinality(Referrers(c)')
      BY <1>4, <2>2, <2>5, <2>7, <2>8, <3>1
    <3> QED
      BY <3>2, <3>3
  <2> QED
    BY <1>1, <2>8 DEF IInv, CountInv
<1> QED
  BY <1>2, <1>3, <1>5, <1>6 DEF IInv

(* A step that leaves anchors, counts and unions as they are.               *)
LEMMA QuietInv ==
    ASSUME IInv, UNCHANGED <<alive, next, children, asked, drift>>,
           pc' \in {"idle", "climb", "splice"},
           pc' \in {"splice", "climb"} => uv'[1] \in alive /\ uv'[2] \in alive,
           pc' = "splice" => pc = "splice" /\ uv' = uv
    PROVE  IInv'
<1>1. LinkInv'
  BY DEF IInv, LinkInv
<1>2. AskedInv'
  BY DEF IInv, AskedInv
<1>3. TiedInv'
  BY DEF IInv, TiedInv, Tied
<1>4. \A c : Referrers(c)' = Referrers(c)
  BY DEF Referrers
<1>5. CountInv'
  BY <1>4 DEF IInv, CountInv
<1> QED
  BY <1>1, <1>2, <1>3, <1>5 DEF IInv

(* A link given back to its anchor, with the counts left behind.            *)
LEMMA ResetInv ==
    ASSUME IInv, NEW a \in alive, pc = "idle", pc' = "idle",
           next' = [next EXCEPT ![a] = a], UNCHANGED <<alive, asked>>,
           DOMAIN children' = Anchors, drift' = drift + 1
    PROVE  IInv'
<1>1. /\ a \in Anchors /\ alive \subseteq Anchors /\ DOMAIN next = Anchors
      /\ next'[a] = a /\ \A c \in Anchors : c # a => next'[c] = next[c]
  BY DEF IInv, LinkInv
<1>2. LinkInv'
  BY <1>1, AnchorsAssumption DEF IInv, LinkInv
<1>3. AskedInv'
  BY DEF IInv, AskedInv
<1>4. TiedInv'
  <2>1. Tied(a, a)
    BY <1>1, TiedIsEquivalence DEF IInv
  <2> QED
    BY <1>1, <2>1 DEF IInv, TiedInv, Tied
<1>5. CountInv'
  BY DEF IInv, CountInv
<1> QED
  BY <1>2, <1>3, <1>4, <1>5 DEF IInv

LEMMA ResetsInv ==
    ASSUME IInv, NEW a \in Anchors, Reset(a) \/ ResetObsolete(a) PROVE IInv'
<1>1. CASE Reset(a) /\ next[a] = a
  <2>1. next' = next
    BY <1>1 DEF Reset, IInv, LinkInv
  <2> QED
    BY <1>1, <2>1, QuietInv DEF Reset
<1>2. CASE Reset(a) /\ next[a] # a
  BY <1>2, ResetInv DEF Reset, IInv, LinkInv
<1>3. CASE ResetObsolete(a) /\ Fault({next[a]})
  BY <1>3, FaultInv DEF ResetObsolete, IInv, CountInv
<1>4. CASE ResetObsolete(a) /\ ~Fault({next[a]})
  BY <1>4, ResetInv DEF ResetObsolete, IInv, LinkInv
<1> QED
  BY <1>1, <1>2, <1>3, <1>4

LEMMA RecFindInv == ASSUME IInv, NEW a \in Anchors, RecFind(a) PROVE IInv'
<1> DEFINE r == Root(a)
           way == Path(a) \ {r}
           Lost(c) == {d \in way : next[d] = c}
<1>1. pc = "idle" /\ a \in alive /\ alive \subseteq Anchors
  BY DEF RecFind, IInv, LinkInv
<1>2. CASE Fault(Path(a))
  BY <1>1, <1>2, FaultInv, PathAlive DEF IInv, CountInv
<1>3. CASE Path(a) \subseteq alive /\ ~Fault(Path(a))
  <2>1. /\ UNCHANGED <<alive, uv, asked, drift, pc>>
        /\ next' = [c \in Anchors |-> IF c \in way THEN r ELSE next[c]]
        /\ children' = [c \in Anchors |->
               (children[c] - Cardinality(Lost(c))
                 + (IF c = r THEN Cardinality(way) ELSE 0)) % Word]
    BY <1>3 DEF RecFind
  <2>2. /\ r \in Path(a) /\ next[r] = r
        /\ \A c \in Path(a) : r <= c /\ c \in Anchors
    BY RootFound DEF IInv
  <2> HIDE DEF r
  <2>3. /\ way \subseteq alive /\ r \in alive /\ r \notin way
        /\ \A c \in way : r <= c /\ c \in Anchors
    BY <1>3, <2>2
  <2>4. \A c \in way : Tied(r, c)
    BY <1>1, <1>3, <2>2, PathTied, TiedIsEquivalence DEF IInv
  <2> HIDE DEF way
  <2>5. /\ \A c \in Anchors : next'[c] = IF c \in way THEN r ELSE next[c]
        /\ DOMAIN next' = Anchors /\ DOMAIN children' = Anchors
    BY <2>1
  <2>6. LinkInv'
    BY <1>1, <2>1, <2>3, <2>5 DEF IInv, LinkInv
  <2>7. AskedInv'
    BY <2>1 DEF IInv, AskedInv
  <2>8. TiedInv'
    <3>1. \A c \in alive : next'[c] \in alive => Tied(next'[c], c)
      BY <1>1, <2>4, <2>5 DEF IInv, TiedInv
    <3> QED
      BY <1>1, <2>1, <3>1 DEF TiedInv, Tied
  <2>9. ASSUME drift = 0, NEW c \in alive
        PROVE  next'[c] \in alive /\ children'[c] = Cardinality(Referrers(c)')
    <3> DEFINE R == Referrers(c)
               kept == R \ Lost(c)
    <3>1. next[c] \in alive /\ children[c] = Cardinality(R) /\ c \in Anchors
      BY <1>1, <2>9 DEF IInv, CountInv
    <3>2. /\ Lost(c) \subseteq R /\ R \subseteq alive /\ kept \cap way = {}
          /\ Referrers(c)' = IF c = r THEN kept \cup way ELSE kept
      BY <1>1, <2>1, <2>3, <2>5 DEF Referrers
    <3>3. /\ IsFiniteSet(R) /\ IsFiniteSet(way) /\ IsFiniteSet(Lost(c)) /\ IsFiniteSet(kept)
          /\ Cardinality(R) \in Nat /\ Cardinality(way) \in Nat /\ Cardinality(kept) \in Nat
          /\ Cardinality(Lost(c)) \in Nat
          /\ Cardinality(Referrers(c)') \in 0..(Word - 1)
      <4>1. /\ R \in SUBSET alive /\ way \in SUBSET alive /\ kept \in SUBSET alive
            /\ Lost(c) \in SUBSET alive /\ Referrers(c)' \in SUBSET alive
        BY <2>3, <3>2
      <4> HIDE DEF R, kept, Lost
      <4> QED
        BY <4>1, AliveCounted DEF IInv
    <3> HIDE DEF R, Lost
    <3>4. Cardinality(kept) = Cardinality(R) - Cardinality(Lost(c))
      <4>1. R = kept \cup Lost(c) /\ kept \cap Lost(c) = {}
        BY <3>2
      <4> HIDE DEF kept
      <4>2. Cardinality(kept \cup Lost(c))
              = Cardinality(kept) + Cardinality(Lost(c)) - Cardinality(kept \cap Lost(c))
        BY <3>3, FS_Union
      <4>3. Cardinality(kept \cap Lost(c)) = 0
        BY <4>1, FS_EmptySet
      <4> QED
        BY <3>3, <4>1, <4>2, <4>3
    <3> HIDE DEF kept
    <3>5. Cardinality(Referrers(c)')
            = Cardinality(kept) + (IF c = r THEN Cardinality(way) ELSE 0)
      <4>1. /\ Cardinality(kept \cup way)
              = Cardinality(kept) + Cardinality(way) - Cardinality(kept \cap way)
            /\ Cardinality(kept \cap way) = 0
        BY <3>2, <3>3, FS_Union, FS_EmptySet
      <4> QED
        BY <3>2, <3>3, <4>1
    <3>6. children'[c] = (children[c] - Cardinality(Lost(c))
                            + (IF c = r THEN Cardinality(way) ELSE 0)) % Word
      BY <2>1, <3>1
    <3>7. children'[c] = Cardinality(Referrers(c)') % Word
      BY <3>1, <3>3, <3>4, <3>5, <3>6
    <3>8. next'[c] \in alive
      BY <2>3, <2>5, <3>1
    <3> QED
      BY <3>3, <3>7, <3>8, WordSmall, WordAssumption
  <2>10. CountInv'
    BY <2>1, <2>9 DEF IInv, CountInv
  <2> QED
    BY <2>6, <2>7, <2>8, <2>10 DEF IInv
<1> QED
  BY <1>2, <1>3 DEF RecFind

(* The recursion of Del climbs the way to the root: it tries the anchor it  *)
(* is given, and each other one just after the one before it is known to    *)
(* go, with no second one among the gone linked to it.                      *)
Tried(a, dead) ==
    {c \in Path(a) : \A d \in Path(a) \ {c} : c \in Path(d) => d \in dead}

LEMMA DelClimbs ==
    ASSUME LinkInv, NEW a \in Anchors, NEW dead, NEW tried, NEW gone,
           tried = Tried(a, dead), gone = tried \cap dead
    PROVE  /\ a \in tried
           /\ \A c \in tried \ {a} :
                 \E d \in gone : /\ d # c /\ next[d] = c
                                 /\ \A e \in gone \ {c} : next[e] = c => e = d
           /\ \A d \in gone : next[d] \in tried
           /\ \A d \in gone : next[d] = a => d = a
<1> USE DEF Tried
<1>1. /\ a \in Path(a) /\ Path(a) \subseteq Anchors
      /\ \A x \in Anchors : x \in Nat /\ next[x] \in Anchors /\ next[x] <= x
      /\ \A x \in Path(a) : next[x] \in Path(a)
  BY LinksDescend, ReachClosed DEF LinkInv
<1>2. \A x \in Anchors : /\ x \in Path(x)
                        /\ \A y \in Path(x) : y \in Anchors /\ y <= x /\ next[y] \in Path(x)
  BY LinksDescend, ReachClosed, ReachBelow
<1>3. \A x \in Anchors : Path(x) = {x} \cup Path(next[x])
  BY LinksDescend, ReachStep
<1>4. \A d, e \in Path(a) : d \in Path(e) \/ e \in Path(d)
  BY LinksDescend, ReachChain
<1>5. a \in tried
  <2>1. ASSUME NEW d \in Path(a) \ {a}, a \in Path(d) PROVE FALSE
    BY <1>1, <1>2, <2>1
  <2> QED
    BY <1>1, <2>1
<1>6. ASSUME NEW d \in gone PROVE next[d] \in tried
  <2> DEFINE c == next[d]
  <2>1. d \in Path(a) /\ d \in dead /\ c \in Path(a) /\ c \in Anchors /\ d \in Anchors
        /\ \A e \in Path(a) \ {d} : d \in Path(e) => e \in dead
    BY <1>1
  <2>2. ASSUME NEW e \in Path(a) \ {c}, c \in Path(e) PROVE e \in dead
    <3>1. CASE d \in Path(e)
      BY <2>1, <3>1
    <3>2. CASE e \in Path(d) /\ e # d
      <4>1. e \in Path(c)
        BY <1>3, <2>1, <3>2
      <4>2. e <= c /\ c <= e /\ e \in Nat /\ c \in Nat
        BY <1>1, <1>2, <2>1, <2>2, <4>1
      <4> QED
        BY <2>2, <4>2
    <3>3. CASE e = d
      BY <2>1, <3>3
    <3> QED
      BY <1>4, <2>1, <3>1, <3>2, <3>3
  <2> QED
    BY <2>1, <2>2
<1>7. ASSUME NEW d \in gone, next[d] = a PROVE d = a
  <2>1. d \in Path(a) /\ d <= a /\ a <= d /\ d \in Nat /\ a \in Nat
    BY <1>1, <1>2, <1>7
  <2> QED
    BY <2>1
<1>8. ASSUME NEW c \in tried \ {a}
      PROVE  \E d \in gone : /\ d # c /\ next[d] = c
                             /\ \A e \in gone \ {c} : next[e] = c => e = d
  <2>1. c \in Path(a) /\ c # a /\ c \in Anchors
        /\ \A e \in Path(a) \ {c} : c \in Path(e) => e \in dead
    BY <1>1
  <2>2. PICK d \in Path(a) : d # c /\ next[d] = c
    BY <2>1, LinksDescend, ReachPredecessor
  <2>3. d \in dead
    BY <1>1, <1>2, <2>1, <2>2
  <2>4. ASSUME NEW e \in Path(a) \ {d}, d \in Path(e) PROVE e \in dead
    <3>1. c \in Path(e)
      BY <1>1, <1>2, <2>2, <2>4
    <3>2. e # c
      <4>1. e = c => d <= c /\ c <= d /\ c \in Nat /\ d \in Nat
        BY <1>1, <1>2, <2>1, <2>2, <2>4
      <4> QED
        BY <2>2, <4>1
    <3> QED
      BY <2>1, <3>1, <3>2
  <2>5. d \in gone
    BY <2>3, <2>4
  <2>6. ASSUME NEW x \in Path(a), NEW y \in Path(a), x # y, x # c, y # c,
               next[x] = c, next[y] = c, x \in Path(y)
        PROVE  FALSE
    <3>1. x \in Path(c)
      BY <1>1, <1>3, <2>6
    <3>2. x <= c /\ c <= x /\ x \in Nat /\ c \in Nat
      BY <1>1, <1>2, <2>1, <2>6, <3>1
    <3> QED
      BY <2>6, <3>2
  <2>7. \A e \in gone \ {c} : next[e] = c => e = d
    BY <1>4, <2>2, <2>6
  <2> QED
    BY <2>2, <2>5, <2>7
<1> QED
  BY <1>5, <1>6, <1>7, <1>8

(* Forgetting the unions of the anchors gone.                               *)
Forget(gone) == ({b \ gone : b \in asked} \ {{}}) \cup {{c} : c \in gone}

LEMMA Forgetting ==
    ASSUME AskedInv, NEW gone \in SUBSET Anchors, asked' = Forget(gone)
    PROVE  /\ AskedInv'
           /\ \A x, y : Tied(x, y) /\ x \notin gone /\ y \notin gone => Tied(x, y)'
<1> USE DEF Forget
<1>1. \A c \in asked' : \/ \E b \in asked : c = b \ gone
                       \/ \E g \in gone : c = {g}
  OBVIOUS
<1>2. \A g \in gone : {g} \in asked'
  OBVIOUS
<1>3. ASSUME NEW b \in asked, NEW x \in b, x \notin gone PROVE b \ gone \in asked'
  BY <1>3
<1>4. UNION asked' = Anchors
  <2>1. UNION asked = Anchors
    BY DEF AskedInv
  <2>2. ASSUME NEW x \in Anchors PROVE x \in UNION asked'
    <3>1. CASE x \in gone
      BY <1>2, <3>1
    <3>2. CASE x \notin gone
      <4>1. PICK b \in asked : x \in b
        BY <2>1
      <4>2. b \ gone \in asked' /\ x \in b \ gone
        BY <1>3, <3>2, <4>1
      <4> QED
        BY <4>2
    <3> QED
      BY <3>1, <3>2
  <2>3. ASSUME NEW c \in asked', NEW x \in c PROVE x \in Anchors
    BY <1>1, <2>1
  <2> QED
    BY <2>2, <2>3
<1>5. ASSUME NEW c \in asked', NEW d \in asked', c \cap d # {} PROVE c = d
  <2>1. PICK x : x \in c /\ x \in d
    BY <1>5
  <2>2. CASE x \in gone
    <3>1. c = {x} /\ d = {x}
      BY <1>1, <2>1, <2>2
    <3> QED
      BY <3>1
  <2>3. CASE x \notin gone
    <3>1. PICK b \in asked : c = b \ gone
      BY <1>1, <2>1, <2>3
    <3>2. PICK e \in asked : d = e \ gone
      BY <1>1, <2>1, <2>3
    <3>3. b = e
      BY <2>1, <3>1, <3>2 DEF AskedInv
    <3> QED
      BY <3>1, <3>2, <3>3
  <2> QED
    BY <2>2, <2>3
<1>6. ASSUME NEW x, NEW y, Tied(x, y), x \notin gone, y \notin gone PROVE Tied(x, y)'
  BY <1>3, <1>6 DEF Tied
<1> QED
  BY <1>4, <1>5, <1>6 DEF AskedInv

LEMMA DelInv == ASSUME IInv, NEW a \in Anchors, Del(a) PROVE IInv'
<1> DEFINE Left(c) == IF c = a THEN children[c] ELSE (children[c] - 1) % Word
           Dies(c) == Left(c) = (IF next[c] = c THEN 1 ELSE 0)
           tried   == {c \in Path(a) :
                          \A d \in Path(a) \ {c} : c \in Path(d) => Dies(d)}
           gone    == {c \in tried : Dies(c)}
           dead    == {c \in Anchors : Dies(c)}
<1>1. /\ pc = "idle" /\ a \in alive /\ alive \subseteq Anchors
      /\ Path(a) \subseteq Anchors
  BY RootFound DEF Del, IInv, LinkInv
<1>2. CASE Fault(tried)
  BY <1>1, <1>2, FaultInv, PathAlive DEF IInv, CountInv
<1>3. CASE /\ tried \subseteq alive
           /\ alive' = alive \ gone
           /\ asked' = ({b \ gone : b \in asked} \ {{}}) \cup {{c} : c \in gone}
           /\ children' = [c \in Anchors |-> IF c \in tried THEN Left(c) ELSE children[c]]
           /\ UNCHANGED <<next, uv, drift, pc>>
  <2>1. /\ tried = Tried(a, dead) /\ gone = tried \cap dead
        /\ gone \subseteq tried /\ tried \subseteq Anchors
        /\ \A c \in gone : Dies(c)
    BY <1>1 DEF Tried
  <2> HIDE DEF tried, gone, dead
  <2>2. /\ a \in tried
        /\ \A c \in tried \ {a} :
              \E d \in gone : /\ d # c /\ next[d] = c
                              /\ \A e \in gone \ {c} : next[e] = c => e = d
        /\ \A d \in gone : next[d] \in tried
        /\ \A d \in gone : next[d] = a => d = a
    BY <2>1, DelClimbs DEF IInv
  <2>3. LinkInv'
    BY <1>1, <1>3 DEF IInv, LinkInv
  <2>4. AskedInv' /\ \A x, y : Tied(x, y) /\ x \notin gone /\ y \notin gone => Tied(x, y)'
    <3>1. asked' = Forget(gone) /\ gone \in SUBSET Anchors
      BY <1>3, <2>1 DEF Forget
    <3> QED
      BY <3>1, Forgetting DEF IInv
  <2>5. TiedInv'
    BY <1>1, <1>3, <2>4 DEF IInv, TiedInv
  <2>6. ASSUME drift = 0, NEW c \in alive
        PROVE  /\ next[c] \in alive /\ next[next[c]] \in alive
               /\ children[c] = Cardinality(Referrers(c))
               /\ IsFiniteSet(Referrers(c)) /\ Cardinality(Referrers(c)) \in 0..(Word - 1)
               /\ c \in Referrers(next[c]) /\ c \in Anchors
    BY <1>1, <2>6, AliveCounted DEF IInv, CountInv, Referrers
  <2>7. ASSUME drift = 0, NEW c \in tried \ {a}
        PROVE  \E d \in gone :
                  /\ d # c /\ d \in Referrers(c) /\ \A e \in gone \ {c} : next[e] = c => e = d
                  /\ Left(c) = Cardinality(Referrers(c) \ {d})
    <3>1. PICK d \in gone : /\ d # c /\ next[d] = c
                            /\ \A e \in gone \ {c} : next[e] = c => e = d
      BY <2>2
    <3>2. d \in Referrers(c)
      BY <1>3, <2>1, <3>1 DEF Referrers
    <3> DEFINE R == Referrers(c)
    <3>3. /\ children[c] = Cardinality(R)
          /\ IsFiniteSet(R) /\ Cardinality(R) \in 0..(Word - 1)
      BY <1>3, <2>6, <2>7
    <3> HIDE DEF R
    <3>4. Cardinality(R \ {d}) = Cardinality(R) - 1 /\ Cardinality(R \ {d}) \in Nat
      BY <3>2, <3>3, FS_RemoveElement, FS_CardinalityType DEF R
    <3>5. (Cardinality(R) - 1) % Word = Cardinality(R) - 1
      BY <3>3, <3>4, WordSmall, WordAssumption
    <3>6. Left(c) = Cardinality(R \ {d})
      BY <2>7, <3>3, <3>4, <3>5
    <3> QED
      BY <3>1, <3>2, <3>6 DEF R
  <2>8. ASSUME drift = 0, NEW c \in alive \ gone PROVE next[c] \in alive \ gone
    <3> SUFFICES ASSUME next[c] \in gone PROVE FALSE
      BY <2>6, <2>8
    <3> DEFINE g == next[c]
    <3>1. /\ g \in gone /\ c # g /\ c \in Referrers(g) /\ g \in tried /\ g \in alive
          /\ next[g] = g => g \in Referrers(g)
          /\ Left(g) = IF next[g] = g THEN 1 ELSE 0
      BY <1>3, <2>1, <2>6, <2>8 DEF Referrers
    <3> HIDE DEF Left
    <3>2. PICK T \in SUBSET Referrers(g) :
             Left(g) = Cardinality(T) /\ c \in T /\ (next[g] = g => g \in T)
      <4>1. CASE g = a
        BY <2>6, <2>8, <3>1, <4>1 DEF Left
      <4>2. CASE g # a
        <5>1. PICK d \in gone : d # g /\ Left(g) = Cardinality(Referrers(g) \ {d})
          BY <2>7, <2>8, <3>1, <4>2
        <5> QED
          BY <2>8, <3>1, <5>1
      <4> QED
        BY <4>1, <4>2
    <3> HIDE DEF g
    <3>3. IsFiniteSet(T)
      BY <2>6, <2>8, <3>1, FS_Subset
    <3>4. CASE next[g] = g
      BY <3>1, <3>2, <3>3, <3>4, AtLeastTwo
    <3>5. CASE next[g] # g
      BY <3>1, <3>2, <3>3, <3>5, FS_EmptySet
    <3> QED
      BY <3>4, <3>5
  <2>9. ASSUME drift = 0, NEW c \in alive \ gone
        PROVE  children'[c] = Cardinality(Referrers(c)')
    <3>1. Referrers(c)' = Referrers(c) \ gone
      BY <1>3 DEF Referrers
    <3>2. CASE c \notin tried
      <4>1. Referrers(c)' = Referrers(c)
        BY <2>2, <3>1, <3>2 DEF Referrers
      <4> QED
        BY <1>3, <2>6, <2>9, <3>2, <4>1
    <3>3. CASE c = a
      <4>1. Referrers(c)' = Referrers(c)
        BY <2>2, <2>9, <3>1, <3>3 DEF Referrers
      <4> QED
        BY <1>1, <1>3, <2>2, <2>6, <2>9, <3>3, <4>1
    <3>4. CASE c \in tried /\ c # a
      <4>1. PICK d \in gone :
              /\ d # c /\ d \in Referrers(c) /\ \A e \in gone \ {c} : next[e] = c => e = d
              /\ Left(c) = Cardinality(Referrers(c) \ {d})
        BY <2>7, <2>9, <3>4
      <4>2. Referrers(c)' = Referrers(c) \ {d}
        BY <2>9, <3>1, <4>1 DEF Referrers
      <4> HIDE DEF Left
      <4>3. children'[c] = Left(c)
        BY <1>3, <2>1, <3>4
      <4> QED
        BY <4>1, <4>2, <4>3
    <3> QED
      BY <3>2, <3>3, <3>4
  <2>10. CountInv'
    BY <1>1, <1>3, <2>8, <2>9 DEF IInv, CountInv
  <2> QED
    BY <2>3, <2>4, <2>5, <2>10 DEF IInv
<1> QED
  BY <1>2, <1>3 DEF Del

LEMMA CallParallelFindInv ==
    ASSUME IInv, NEW a \in Anchors, NEW b \in Anchors, CallParallelFind(a, b)
    PROVE  IInv'
<1>1. /\ a \in alive /\ b \in alive /\ uv' = <<a, b>> /\ Ask(a, b)
      /\ drift' = drift + 1 /\ pc' = "splice" /\ UNCHANGED <<alive, next, children>>
  BY DEF CallParallelFind
<1>2. LinkInv'
  BY <1>1 DEF IInv, LinkInv
<1>3. AskedInv' /\ (\A x, y : Tied(x, y) => Tied(x, y)') /\ Tied(a, b)'
  BY <1>1, Asking DEF IInv
<1>4. TiedInv'
  BY <1>1, <1>3 DEF IInv, TiedInv
<1>5. CountInv'
  BY <1>1 DEF IInv, CountInv
<1> QED
  BY <1>2, <1>3, <1>4, <1>5 DEF IInv

(* A step of RecParallelFind, seen from the cursor u that stays: the other, *)
(* v, moves up to its parent q, which is linked to the smaller p.           *)
SpliceStep(u, v, p, q) ==
    /\ pc = "splice" /\ pc' = "splice"
    /\ \/ u = uv[1] /\ v = uv[2]
       \/ u = uv[2] /\ v = uv[1]
    /\ p = next[u] /\ q = next[v]
    /\ p \in alive /\ q \in alive /\ p < q
    /\ uv' = <<u, q>> \/ uv' = <<q, u>>
    /\ next' = [next EXCEPT ![q] = p]
    /\ UNCHANGED <<alive, children, asked, drift>>

LEMMA SpliceSteps ==
    ASSUME Splice, ~Fault({next[uv[1]], next[uv[2]]})
    PROVE  \/ SpliceStep(uv[1], uv[2], next[uv[1]], next[uv[2]]) /\ uv' = <<uv[1], next[uv[2]]>>
           \/ SpliceStep(uv[2], uv[1], next[uv[2]], next[uv[1]]) /\ uv' = <<next[uv[1]], uv[2]>>
<1> DEFINE p == next[uv[1]]
           q == next[uv[2]]
<1>1. /\ pc = "splice" /\ {p, q} \subseteq alive /\ UNCHANGED <<alive, children, asked, drift, pc>>
      /\ \/ p < q /\ uv' = <<uv[1], q>> /\ next' = [next EXCEPT ![q] = p]
         \/ q < p /\ uv' = <<p, uv[2]>> /\ next' = [next EXCEPT ![p] = q]
  BY DEF Splice
<1> HIDE DEF p, q
<1>2. CASE p < q /\ uv' = <<uv[1], q>> /\ next' = [next EXCEPT ![q] = p]
  BY <1>1, <1>2 DEF SpliceStep, p, q
<1>3. CASE q < p /\ uv' = <<p, uv[2]>> /\ next' = [next EXCEPT ![p] = q]
  BY <1>1, <1>3 DEF SpliceStep, p, q
<1> QED
  BY <1>1, <1>2, <1>3 DEF p, q

LEMMA SpliceInv == ASSUME IInv, Splice PROVE IInv'
<1>1. ASSUME NEW u, NEW v, NEW p, NEW q, SpliceStep(u, v, p, q) PROVE IInv'
  <2>1. /\ u \in alive /\ v \in alive /\ p \in alive /\ q \in alive /\ p < q
        /\ alive \subseteq Anchors /\ p = next[u] /\ q = next[v] /\ Tied(u, v)
        /\ drift # 0
    <3>1. uv[1] \in alive /\ uv[2] \in alive /\ alive \subseteq Anchors /\ drift # 0
      BY <1>1 DEF SpliceStep, IInv, LinkInv, CountInv
    <3>2. Tied(uv[1], uv[2]) /\ Tied(uv[2], uv[1])
      BY <1>1, TiedIsEquivalence DEF SpliceStep, IInv, TiedInv
    <3> QED
      BY <1>1, <3>1, <3>2 DEF SpliceStep
  <2>2. Tied(p, q) /\ Tied(u, q) /\ Tied(q, u)
    <3>1. Tied(p, u) /\ Tied(q, v)
      BY <2>1 DEF IInv, TiedInv
    <3> QED
      BY <2>1, <3>1, TiedIsEquivalence DEF IInv
  <2>3. /\ next'[q] = p /\ \A c \in Anchors : c # q => next'[c] = next[c]
        /\ next' \in [Anchors -> Anchors]
    BY <1>1, <2>1 DEF SpliceStep, IInv, LinkInv
  <2>4. uv'[1] \in {u, q} /\ uv'[2] \in {u, q} /\ Tied(uv'[1], uv'[2])
    BY <1>1, <2>2 DEF SpliceStep
  <2>5. LinkInv'
    BY <1>1, <2>1, <2>3, <2>4, AnchorsAssumption DEF SpliceStep, IInv, LinkInv
  <2>6. AskedInv'
    BY <1>1 DEF SpliceStep, IInv, AskedInv
  <2>7. TiedInv'
    <3>1. \A c \in alive : next'[c] \in alive => Tied(next'[c], c)
      BY <2>1, <2>2, <2>3 DEF IInv, TiedInv
    <3> QED
      BY <1>1, <2>4, <3>1 DEF SpliceStep, TiedInv, Tied
  <2>8. CountInv'
    BY <1>1, <2>1 DEF SpliceStep, IInv, CountInv
  <2> QED
    BY <2>5, <2>6, <2>7, <2>8 DEF IInv
<1>2. CASE Fault({next[uv[1]], next[uv[2]]})
  BY <1>2, FaultInv DEF Splice, IInv, CountInv
<1> QED
  BY <1>1, <1>2, SpliceSteps

LEMMA ClimbInv == ASSUME IInv, Climb PROVE IInv'
<1>1. CASE Fault({next[uv[1]], next[uv[2]]})
  <2>1. drift = 0 => {next[uv[1]], next[uv[2]]} \subseteq alive
    BY DEF Climb, IInv, LinkInv, CountInv
  <2> QED
    BY <1>1, <2>1, FaultInv
<1>2. CASE ~Fault({next[uv[1]], next[uv[2]]})
  BY <1>2, QuietInv DEF Climb, IInv, LinkInv
<1> QED
  BY <1>1, <1>2

LEMMA NextInv == IInv /\ [Next]_vars => IInv'
<1> SUFFICES ASSUME IInv, [Next]_vars PROVE IInv'
  OBVIOUS
<1>1. ASSUME NEW a \in Anchors,
             Create(a) \/ Reset(a) \/ ResetObsolete(a) \/ RecFind(a) \/ Del(a)
      PROVE  IInv'
  BY <1>1, CreateInv, ResetsInv, RecFindInv, DelInv
<1>2. ASSUME NEW a \in Anchors, NEW b \in Anchors,
             CreateUnder(a, b) \/ Hang(a, b) \/ CallParallelFind(a, b)
      PROVE  IInv'
  BY <1>2, CreateUnderInv, HangInv, CallParallelFindInv
<1>3. ASSUME NEW a \in Anchors, NEW b \in Anchors, CallWOSplicing(a, b) PROVE IInv'
  BY <1>3, QuietInv DEF CallWOSplicing
<1>4. CASE Splice
  BY <1>4, SpliceInv
<1>5. CASE Climb
  BY <1>5, ClimbInv
<1>6. CASE Return
  BY <1>6, QuietInv DEF Return
<1>7. CASE UNCHANGED vars
  <2>1. LinkInv'
    BY <1>7 DEF vars, IInv, LinkInv
  <2>2. AskedInv'
    BY <1>7 DEF vars, IInv, AskedInv
  <2>3. TiedInv'
    BY <1>7 DEF vars, IInv, TiedInv, Tied
  <2>4. CountInv'
    BY <1>7 DEF vars, IInv, CountInv, Referrers
  <2> QED
    BY <2>1, <2>2, <2>3, <2>4 DEF IInv
<1> QED
  BY <1>1, <1>2, <1>3, <1>4, <1>5, <1>6, <1>7 DEF Next, Search

(* Whatever the caller does, and at every call of a search, the links       *)
(* descend within the unions asked for and the counts cover them.           *)
THEOREM Invariance == Spec => []IInv
BY InitInv, NextInv, PTL DEF Spec

-----------------------------------------------------------------------------
(* Links lead to no larger id, so that no way up the links has a loop, and  *)
(* a link between living anchors stays within the unions asked for,         *)
(* whatever the order of unions, searches, resets and deletions.            *)
THEOREM TreesStayWithinAsked == Spec => []TreesWithinAsked
<1>1. IInv => TreesWithinAsked
  BY TiedIsEquivalence DEF IInv, LinkInv, TiedInv, TreesWithinAsked
<1> QED
  BY <1>1, Invariance, PTL

(* As long as nothing was done that leaves the counts behind, the counts    *)
(* are the numbers of links, no link dangles, and no operation reads an     *)
(* anchor that was freed.                                                   *)
THEOREM CountsKeepAnchors == Spec => []CountsHoldAnchors
<1>1. IInv => CountsHoldAnchors
  BY DEF IInv, CountInv, CountsHoldAnchors
<1> QED
  BY <1>1, Invariance, PTL

(* Linking the root q under the root p hands the tree of q over to p and    *)
(* changes no other anchor's root.                                          *)
LEMMA RootRelinked ==
    ASSUME NEW f, Descending(f), NEW p \in DOMAIN f, NEW q \in DOMAIN f, p < q,
           f[p] = p, f[q] = q, NEW g, DOMAIN g = DOMAIN f,
           \A x \in DOMAIN f : g[x] = IF x = q THEN p ELSE f[x],
           NEW c \in DOMAIN f, NEW r \in Reach(f, c), f[r] = r,
           NEW t \in Reach(g, c), g[t] = t
    PROVE  t = IF r = q THEN p ELSE r
<1>1. /\ DOMAIN g = DOMAIN f /\ \A x \in DOMAIN f : g[x] = IF x = q THEN p ELSE f[x]
      /\ \A x \in DOMAIN f : f[x] \in DOMAIN f /\ g[x] \in DOMAIN f /\ x \in Nat
  BY DEF Descending
<1>2. Descending(g)
  BY <1>1 DEF Descending
<1>3. Reach(f, c) \subseteq Reach(g, c) /\ Reach(f, c) \subseteq DOMAIN f
  BY <1>1, ReachRelinked, ReachClosed
<1>4. \A d \in Reach(g, c) : g[d] \in Reach(g, c) /\ (g[d] = d => d = t)
  <2>1. c \in DOMAIN g /\ \A x \in DOMAIN g : g[x] \in DOMAIN g
    BY <1>1
  <2>2. \E s \in Reach(g, c) : \A d \in Reach(g, c) : g[d] = d => d = s
    BY <1>2, <2>1, ReachRoot
  <2>3. \A d \in Reach(g, c) : g[d] \in Reach(g, c)
    BY <2>1, ReachClosed
  <2> QED
    BY <2>2, <2>3
<1>5. p # q
  BY <1>1
<1>6. CASE r = q
  <2>1. q \in Reach(g, c) /\ p \in Reach(g, c) /\ g[p] = p
    BY <1>1, <1>3, <1>4, <1>5, <1>6
  <2> QED
    BY <1>4, <1>6, <2>1
<1>7. CASE r # q
  BY <1>1, <1>3, <1>4, <1>7
<1> QED
  BY <1>6, <1>7

(* RecParallelFind between two trees whose cursors hang from their roots    *)
(* unites exactly these two trees.                                          *)
LEMMA ShallowStep ==
    ASSUME IInv, [Next]_vars, pc = "splice", pc' = "splice",
           next[next[uv[1]]] = next[uv[1]], next[next[uv[2]]] = next[uv[2]],
           ~UNCHANGED vars
    PROVE  Tree(uv[1])' = Tree(uv[1]) \cup Tree(uv[2])
<1>1. Splice
  BY DEF Next, Search, Create, Reset, ResetObsolete, RecFind, Del, CreateUnder, Hang,
         CallParallelFind, CallWOSplicing, Climb, Return
<1>2. ~Fault({next[uv[1]], next[uv[2]]}) /\ IInv'
  BY NextInv DEF Fault
<1>3. ASSUME NEW u, NEW v, NEW p, NEW q, SpliceStep(u, v, p, q),
             next[p] = p, next[q] = q
      PROVE  uv'[1] \in {u, q} /\ Tree(uv[1])' = Tree(u) \cup Tree(v)
  <2>1. /\ u \in Anchors /\ v \in Anchors /\ p \in Anchors /\ q \in Anchors /\ p < q
        /\ alive' = alive /\ alive \subseteq Anchors /\ uv'[1] \in {u, q}
        /\ next' = [next EXCEPT ![q] = p] /\ p # q
    <3>1. uv[1] \in alive /\ uv[2] \in alive /\ alive \subseteq Anchors
      BY <1>3 DEF SpliceStep, IInv, LinkInv
    <3>2. /\ u \in alive /\ v \in alive /\ p \in alive /\ q \in alive /\ p < q
          /\ alive' = alive /\ uv'[1] \in {u, q} /\ next' = [next EXCEPT ![q] = p]
      BY <1>3, <3>1 DEF SpliceStep
    <3> QED
      BY <3>1, <3>2, AnchorsAssumption
  <2>2. ASSUME NEW c \in Anchors PROVE Root(c)' = IF Root(c) = q THEN p ELSE Root(c)
    <3>1. PICK g : g = next'
      OBVIOUS
    <3>2. /\ Root(c) \in Reach(next, c) /\ next[Root(c)] = Root(c)
          /\ Descending(next) /\ DOMAIN next = Anchors
      BY RootFound, LinksDescend DEF IInv
    <3>3. Descending(g) /\ DOMAIN g = Anchors
      BY <1>2, <3>1, AnchorsAssumption DEF IInv, LinkInv, Descending
    <3>4. PICK t \in Reach(g, c) : g[t] = t /\ \A d \in Reach(g, c) : g[d] = d => d = t
      BY <3>3, ReachRoot
    <3>5. Root(c)' = CHOOSE d \in Reach(g, c) : g[d] = d
      BY <3>1, <3>3 DEF Root, Path, Reach
    <3>6. Root(c)' = t
      BY <3>4, <3>5
    <3> DEFINE r == Root(c)
    <3>7. DOMAIN g = DOMAIN next /\ \A x \in DOMAIN next : g[x] = IF x = q THEN p ELSE next[x]
      BY <2>1, <3>1, <3>2
    <3>8. t = IF Root(c) = q THEN p ELSE Root(c)
      <4>1. /\ r \in Reach(next, c) /\ next[r] = r /\ c \in DOMAIN next
            /\ p \in DOMAIN next /\ q \in DOMAIN next /\ next[p] = p /\ next[q] = q
        BY <1>3, <2>1, <3>2
      <4> HIDE DEF r
      <4>2. t = IF r = q THEN p ELSE r
        BY <2>1, <3>2, <3>4, <3>7, <4>1, RootRelinked
      <4> QED
        BY <4>2 DEF r
    <3> QED
      BY <3>6, <3>8
  <2>3. Root(u) = p /\ Root(v) = q /\ Root(q) = q
    <3>1. \A x \in Anchors : x \in Path(x) /\ next[x] \in Path(x)
      BY LinksDescend, ReachClosed DEF IInv
    <3>2. p = next[u] /\ q = next[v]
      BY <1>3 DEF SpliceStep
    <3> QED
      BY <1>3, <2>1, <3>1, <3>2, RootFound DEF IInv
  <2>4. Root(u)' = p /\ Root(q)' = p
    BY <2>1, <2>2, <2>3
  <2>5. Root(uv[1])' = p
    BY <2>1, <2>4
  <2> QED
    BY <2>1, <2>2, <2>3, <2>5 DEF Tree
<1> QED
  BY <1>1, <1>2, <1>3, SpliceSteps

(* RecParallelFind on two trees no deeper than one link, which overwrites    *)
(* the link of the node it has climbed to, leaves them one tree all the     *)
(* same.                                                                    *)
THEOREM UnitesShallowTrees == Spec => ShallowUnion
<1>1. IInv /\ [Next]_vars =>
        [ LET p == next[uv[1]]
              q == next[uv[2]]
          IN  pc = "splice" /\ pc' = "splice" /\ next[p] = p /\ next[q] = q =>
                  Tree(uv[1])' = Tree(uv[1]) \cup Tree(uv[2]) ]_vars
  BY ShallowStep
<1> QED
  BY <1>1, Invariance, PTL DEF Spec, ShallowUnion

(* RecParallelFind and RecParallelFindWOSplicing end: each recursive call    *)
(* is lower in the forest than the one before.                              *)
LEMMA Lower ==
    ASSUME IInv, pc' = pc, pc \in {"splice", "climb"}, Next
    PROVE  Height' < Height
<1>1. Splice \/ Climb
  BY DEF Next, Search, Create, CreateUnder, Hang, Reset, ResetObsolete, RecFind,
         Del, CallParallelFind, CallWOSplicing, Return, Fault
<1>2. ~Fault({next[uv[1]], next[uv[2]]})
  BY DEF Fault
<1>3. /\ next \in [Anchors -> Anchors] /\ \A c \in Anchors : next[c] <= c
      /\ Anchors \subseteq Nat
      /\ uv[1] \in Anchors /\ uv[2] \in Anchors
  BY AnchorsAssumption DEF IInv, LinkInv
<1>4. PICK u \in Anchors, v \in Anchors : u = uv[1] /\ v = uv[2]
  BY <1>3
<1>5. PICK p \in Anchors, q \in Anchors :
          p = next[u] /\ q = next[v] /\ p <= u /\ q <= v
  BY <1>3
<1>6. Height = u + v + p + q
  BY <1>4, <1>5 DEF Height
<1>7. ASSUME NEW a \in Anchors, NEW b \in Anchors, NEW c \in Anchors,
             NEW d \in Anchors, SpliceStep(a, b, c, d)
      PROVE  Height' = a + d + c + c /\ c < d /\ c = next[a] /\ d = next[b]
  <2>1. /\ c < d /\ c = next[a] /\ d = next[b]
        /\ next' = [next EXCEPT ![d] = c]
        /\ uv' = <<a, d>> \/ uv' = <<d, a>>
    BY <1>7 DEF SpliceStep
  <2>2. next'[a] = c /\ next'[d] = c
    BY <1>3, <2>1
  <2>3. Height' = a + d + next'[a] + next'[d] \/ Height' = d + a + next'[d] + next'[a]
    BY <2>1 DEF Height
  <2>4. a \in Nat /\ d \in Nat /\ c \in Nat
    BY <1>3
  <2> QED
    BY <2>1, <2>2, <2>3, <2>4
<1>8. CASE Splice
  <2>1. SpliceStep(u, v, p, q) \/ SpliceStep(v, u, q, p)
    BY <1>2, <1>4, <1>5, <1>8, SpliceSteps
  <2> QED
    BY <1>3, <1>5, <1>6, <1>7, <2>1
<1>9. CASE Climb
  <2>1. /\ p # u /\ q # v /\ next' = next
        /\ uv' = <<u, q>> \/ uv' = <<p, v>>
    BY <1>2, <1>4, <1>5, <1>9 DEF Climb
  <2>2. \/ Height' = u + q + next[u] + next[q]
        \/ Height' = p + v + next[p] + next[v]
    BY <2>1 DEF Height
  <2>3. next[q] <= q /\ next[p] <= p /\ next[p] \in Nat /\ next[q] \in Nat
    BY <1>3
  <2>4. p \in Nat /\ q \in Nat /\ u \in Nat /\ v \in Nat /\ p < u /\ q < v
    BY <1>3, <1>5, <2>1
  <2> QED
    BY <1>5, <1>6, <2>2, <2>3, <2>4
<1> QED
  BY <1>1, <1>8, <1>9

THEOREM SearchesDescend == Spec => SearchDescends
<1>1. IInv /\ [Next]_vars =>
        [ pc' = pc /\ pc \in {"splice", "climb"} => Height' < Height ]_vars
  BY Lower
<1> QED
  BY <1>1, Invariance, PTL DEF Spec, SearchDescends

=============================================================================
