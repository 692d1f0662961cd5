---------------------------- MODULE AnchorForest ----------------------------
(***************************************************************************)
(* The Anchor nodes of anchor.h and the UnionFind operations over them      *)
(* (union_find.h): RecSimpleFind, RecParallelFind, RecParallelFindWOSplicing,*)
(* RecFind and Del, with the constructors and the two Reset methods.        *)
(*                                                                         *)
(* An Anchor holds its id, a link to another Anchor (to itself at a root)   *)
(* and a count of children, which starts at 1 for a root: its own link      *)
(* counts.  Del frees by that count.  Anchors are identified by their ids;  *)
(* the comparison operators of Anchor compare ids.                          *)
(*                                                                         *)
(* The sources hold the operations and no caller.  The caller modelled here *)
(* creates anchors, hangs a root or a new anchor under a smaller one with   *)
(* the accessors (SetNext, IncChildren, DecChildren, SetChildren) keeping   *)
(* the counts that RecFind moves and Del reads, and calls the operations on *)
(* anchors it has not freed, in any order.                                  *)
(***************************************************************************)
EXTENDS Integers, FiniteSets

CONSTANTS
    Anchors,                (* the ids a caller may give                    *)
    Word,                   (* 2 ^ (width of unsigned int)                  *)
    MaxChildren,            (* bound: a caller hangs no anchor under one    *)
                            (* whose count has reached it                   *)
    MaxDrift                (* bound: calls that leave the counts behind    *)

ASSUME AnchorsAssumption == Anchors \subseteq Nat /\ IsFiniteSet(Anchors)
ASSUME WordAssumption == Word \in Nat /\ MaxChildren \in 1..(Word - 1)
(* Ids are distinct unsigned numbers: only 2 ^ 32 anchors at once could wrap *)
(* a count.                                                                 *)
ASSUME CountsFit == Cardinality(Anchors) < Word
ASSUME DriftAssumption == MaxDrift \in Nat

VARIABLES
    alive,                  (* anchors created and not deleted              *)
    next,                   (* link.second                                  *)
    children,
    uv,                     (* the cursors of the search in progress        *)
    asked,                  (* history: the unions asked for, as blocks     *)
    drift,                  (* history: calls that left the counts behind   *)
    pc

vars == <<alive, next, children, uv, asked, drift, pc>>

Init ==
    /\ alive = {}
    /\ next = [a \in Anchors |-> a]
    /\ children = [a \in Anchors |-> 0]
    /\ uv = <<0, 0>>
    /\ asked = {{a} : a \in Anchors}
    /\ drift = 0
    /\ pc = "idle"

-----------------------------------------------------------------------------
(* The anchors whose link is a, a's own included.                           *)
Referrers(a) == {c \in alive : next[c] = a}

(* The anchors on the way from a to its root, both included.                *)
Path(a) ==
    {c \in Anchors :
        \A S \in SUBSET Anchors :
            a \in S /\ (\A s \in S : next[s] \in S) => c \in S}

(* RecSimpleFind                                                            *)
Root(a) == CHOOSE r \in Path(a) : next[r] = r

Tree(a) == {c \in alive : Root(c) = Root(a)}

Block(a) == CHOOSE b \in asked : a \in b

Ask(a, b) ==
    asked' = (asked \ {Block(a), Block(b)}) \cup {Block(a) \cup Block(b)}

(* Reading a freed anchor is undefined behaviour: nothing more is said.     *)
Fault(touched) ==
    /\ ~(touched \subseteq alive)
    /\ pc' = "fault"
    /\ UNCHANGED <<alive, next, children, uv, asked, drift>>

-----------------------------------------------------------------------------
(* Anchor(id).  The caller keeps ids unique; an id some link still names is *)
(* not taken again, as that link would not lead to the new anchor.          *)
Create(a) ==
    /\ pc = "idle"
    /\ a \notin alive /\ Referrers(a) = {}
    /\ alive' = alive \cup {a}
    /\ next' = [next EXCEPT ![a] = a]
    /\ children' = [children EXCEPT ![a] = 1]
    /\ UNCHANGED <<uv, asked, drift, pc>>

(* Anchor(id, p) leaves the count unset: the caller sets it, and counts the *)
(* new link at p.                                                           *)
CreateUnder(a, p) ==
    /\ pc = "idle"
    /\ a \notin alive /\ Referrers(a) = {}
    /\ p \in alive /\ p < a /\ children[p] < MaxChildren
    /\ alive' = alive \cup {a}
    /\ next' = [next EXCEPT ![a] = p]
    /\ children' = [children EXCEPT ![a] = 0, ![p] = @ + 1]
    /\ Ask(a, p)
    /\ UNCHANGED <<uv, drift, pc>>

(* A caller links the root r under p.                                       *)
Hang(r, p) ==
    /\ pc = "idle"
    /\ r \in alive /\ next[r] = r
    /\ p \in alive /\ p < r /\ children[p] < MaxChildren
    /\ next' = [next EXCEPT ![r] = p]
    /\ children' = [children EXCEPT ![r] = (@ - 1) % Word, ![p] = @ + 1]
    /\ Ask(r, p)
    /\ UNCHANGED <<alive, uv, drift, pc>>

(* Reset: the link comes back, the counts stay where they were, which suits *)
(* a root only.                                                             *)
Reset(a) ==
    /\ pc = "idle"
    /\ a \in alive
    /\ next' = [next EXCEPT ![a] = a]
    /\ next[a] # a => drift < MaxDrift
    /\ drift' = IF next[a] = a THEN drift ELSE drift + 1
    /\ UNCHANGED <<alive, children, uv, asked, pc>>

(* ResetObsolete gives back the child its parent had counted, at a root the *)
(* root itself, and does not count the new link to itself.                  *)
ResetObsolete(a) ==
    /\ pc = "idle"
    /\ a \in alive
    /\ drift < MaxDrift
    /\ \/ Fault({next[a]})
       \/ /\ next[a] \in alive
          /\ children' = [children EXCEPT ![next[a]] = (@ - 1) % Word]
          /\ next' = [next EXCEPT ![a] = a]
          /\ drift' = drift + 1
          /\ UNCHANGED <<alive, uv, asked, pc>>

-----------------------------------------------------------------------------
(* A slip: the count left at the parent the anchor had.                     *)
RecFindKeepsOld(a) ==
    /\ pc = "idle"
    /\ a \in alive
    /\ Path(a) \subseteq alive
    /\ LET way == Path(a) \ {Root(a)}
       IN  /\ next' = [c \in Anchors |-> IF c \in way THEN Root(a) ELSE next[c]]
           /\ children' = [children EXCEPT ![Root(a)] = (@ + Cardinality(way)) % Word]
    /\ UNCHANGED <<alive, uv, asked, drift, pc>>

(* RecFind: every anchor on the way is linked to the root.  Going down each *)
(* takes one child from its parent, coming back gives one to the root.      *)
RecFind(a) ==
    /\ pc = "idle"
    /\ a \in alive
    /\ \/ Fault(Path(a))
       \/ /\ Path(a) \subseteq alive
          /\ LET way  == Path(a) \ {Root(a)}
                 Lost(c) == Cardinality({d \in way : next[d] = c})
             IN  /\ next' = [c \in Anchors |->
                                IF c \in way THEN Root(a) ELSE next[c]]
                 /\ children' = [c \in Anchors |->
                        (children[c] - Lost(c)
                          + (IF c = Root(a) THEN Cardinality(way) ELSE 0)) % Word]
          /\ UNCHANGED <<alive, uv, asked, drift, pc>>

(* Del: an anchor without children is freed after its parent, which loses   *)
(* a child, has been tried in turn; a root goes when its own link is the    *)
(* last.  The history forgets the anchors freed.                            *)
Del(a) ==
    /\ pc = "idle"
    /\ a \in alive
    /\ LET Left(c) == IF c = a THEN children[c] ELSE (children[c] - 1) % Word
           Dies(c) == Left(c) = (IF next[c] = c THEN 1 ELSE 0)
           tried   == {c \in Path(a) :
                          \A d \in Path(a) \ {c} : c \in Path(d) => Dies(d)}
           gone    == {c \in tried : Dies(c)}
       IN  \/ Fault(tried)
           \/ /\ tried \subseteq alive
              /\ alive' = alive \ gone
              /\ asked' = ({b \ gone : b \in asked} \ {{}}) \cup {{c} : c \in gone}
              /\ children' = [c \in Anchors |->
                     IF c \in tried THEN Left(c) ELSE children[c]]
              /\ UNCHANGED <<next, uv, drift, pc>>

-----------------------------------------------------------------------------
(* RecParallelFind and RecParallelFindWOSplicing, one call per step.        *)
CallParallelFind(a, b) ==
    /\ pc = "idle"
    /\ a \in alive /\ b \in alive
    /\ uv' = <<a, b>>
    /\ Ask(a, b)
    /\ drift < MaxDrift
    /\ drift' = drift + 1
    /\ pc' = "splice"
    /\ UNCHANGED <<alive, next, children>>

(* Slips: the larger parent made the root; the old anchor relinked before   *)
(* the cursor moves through its link; the cursor left where it was.         *)
SpliceUp ==
    /\ pc = "splice"
    /\ LET p == next[uv[1]]
           q == next[uv[2]]
       IN  \/ p < q /\ uv' = <<p, uv[2]>> /\ next' = [next EXCEPT ![p] = q]
           \/ p > q /\ uv' = <<uv[1], q>> /\ next' = [next EXCEPT ![q] = p]
    /\ UNCHANGED <<alive, children, asked, drift, pc>>

SpliceRelinkFirst ==
    /\ pc = "splice"
    /\ LET p == next[uv[1]]
           q == next[uv[2]]
       IN  \/ p < q /\ uv' = <<uv[1], p>> /\ next' = [next EXCEPT ![uv[2]] = p]
           \/ p > q /\ uv' = <<q, uv[2]>> /\ next' = [next EXCEPT ![uv[1]] = q]
    /\ UNCHANGED <<alive, children, asked, drift, pc>>

SpliceStays ==
    /\ pc = "splice"
    /\ LET p == next[uv[1]]
           q == next[uv[2]]
       IN  \/ p < q /\ next' = [next EXCEPT ![q] = p]
           \/ p > q /\ next' = [next EXCEPT ![p] = q]
    /\ UNCHANGED <<alive, children, uv, asked, drift, pc>>

(* The cursor with the larger parent moves to it, and that parent is linked *)
(* to the other's parent.  No count follows.                                *)
Splice ==
    /\ pc = "splice"
    /\ LET p == next[uv[1]]
           q == next[uv[2]]
       IN  \/ Fault({p, q})
           \/ /\ {p, q} \subseteq alive
              /\ \/ p < q /\ uv' = <<uv[1], q>> /\ next' = [next EXCEPT ![q] = p]
                 \/ p > q /\ uv' = <<p, uv[2]>> /\ next' = [next EXCEPT ![p] = q]
              /\ UNCHANGED <<alive, children, asked, drift, pc>>

CallWOSplicing(a, b) ==
    /\ pc = "idle"
    /\ a \in alive /\ b \in alive
    /\ uv' = <<a, b>>
    /\ pc' = "climb"
    /\ UNCHANGED <<alive, next, children, asked, drift>>

(* Without splicing the search climbs only while neither cursor is a root.  *)
Climb ==
    /\ pc = "climb"
    /\ next[uv[1]] # uv[1] /\ next[uv[2]] # uv[2]
    /\ LET p == next[uv[1]]
           q == next[uv[2]]
       IN  \/ Fault({p, q})
           \/ /\ {p, q} \subseteq alive
              /\ \/ p < q /\ uv' = <<uv[1], q>>
                 \/ p > q /\ uv' = <<p, uv[2]>>
              /\ UNCHANGED <<alive, next, children, asked, drift, pc>>

Return ==
    /\ \/ /\ pc \in {"splice", "climb"}
          /\ next[uv[1]] = next[uv[2]] /\ next[uv[1]] \in alive
       \/ /\ pc = "climb"
          /\ next[uv[1]] = uv[1] \/ next[uv[2]] = uv[2]
    /\ uv' = <<0, 0>>
    /\ pc' = "idle"
    /\ UNCHANGED <<alive, next, children, asked, drift>>

Search == Splice \/ Climb \/ Return

Next ==
    \/ \E a \in Anchors :
          Create(a) \/ Reset(a) \/ ResetObsolete(a) \/ RecFind(a) \/ Del(a)
    \/ \E a, b \in Anchors :
          \/ CreateUnder(a, b) \/ Hang(a, b)
          \/ CallParallelFind(a, b) \/ CallWOSplicing(a, b)
    \/ Search

(* A search is a recursion of sequential code: it goes on while it can.     *)
Spec == Init /\ [][Next]_vars /\ WF_vars(Search)

-----------------------------------------------------------------------------
(* Links climb to smaller ids, so that every search and every recursion has *)
(* an end, and no operation ties together anchors nobody asked to unite.    *)
TreesWithinAsked ==
    \A a \in alive :
        /\ next[a] <= a
        /\ next[a] \in alive => Block(next[a]) = Block(a)

(* RecFind and Del keep the counts equal to the links, as long as no caller *)
(* resets an anchor that is not a root or unites by RecParallelFind.  Hence *)
(* nothing is freed while an anchor links to it, and no operation reads     *)
(* freed memory.                                                            *)
CountsHoldAnchors ==
    drift = 0 =>
        /\ pc # "fault"
        /\ \A a \in alive :
              /\ next[a] \in alive
              /\ children[a] = Cardinality(Referrers(a))

(* A step of RecParallelFind between two trees whose cursors hang from      *)
(* their roots unites exactly these two trees.                              *)
ShallowUnion ==
    [][ LET p == next[uv[1]]
            q == next[uv[2]]
        IN  pc = "splice" /\ pc' = "splice" /\ next[p] = p /\ next[q] = q =>
                Tree(uv[1])' = Tree(uv[1]) \cup Tree(uv[2]) ]_vars

(* Where the cursors and their parents stand.                               *)
Height == uv[1] + uv[2] + next[uv[1]] + next[uv[2]]

(* A recursive call of either search starts lower than its caller did, also  *)
(* where RecParallelFind has just overwritten a link the search goes by:     *)
(* no search recurses deeper than its first cursors stand high.              *)
SearchDescends ==
    [][ pc' = pc /\ pc \in {"splice", "climb"} => Height' < Height ]_vars

(* A search of two cursors comes to an end.                                 *)
SearchesEnd == (pc \in {"splice", "climb"}) ~> (pc \in {"idle", "fault"})

=============================================================================
