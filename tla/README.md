# Partitions: a TLA+ verification project

The repository is a C++ header library that represents a partition of a set of
objects (rows of a table) as a hashed container, and computes with partitions:
`P * Q` (meet: the common refinement), `P + Q` (join: the finest partition
coarser than both) and `P - Q` (what of `P` is not a mere piece of `Q`).
Expressions over partitions are expression templates, rewritten at compile
time. A front end reads columns from LMDB databases, turns them into partitions
and groups rows by several columns at once; a loader reads directories of csv
files; a logger writes a trace stamped with the time.

Everything is single-threaded. What is hard is elsewhere: loops that relabel
the container they iterate over, in an iteration order a hash table chooses;
ClassId objects identified sometimes by address and sometimes by id; raw
pointers to objects whose last shared pointer a loop may drop; union-finds
whose correctness depends on the order of their links; equality decided by
counting shared pointers; unsigned counters moved up and down; memory read
before it is set; exceptions through half-made resources; files another program
changes meanwhile; division of negative numbers.

## 1. Inventory

| Component | Source | State | Operations | Modelled in |
|---|---|---|---|---|
| Class container | `universe.h` | element per object: object id, `shared_ptr<ClassId>`; each ClassId an `_id` and a `_next` link | `insert`, `replace`, `merge`, `merge_unsafe`, `fragment` | `Universe` |
| Partition2 store | `partition2.h` 54-252 | `_size`, `_classes_nb`, `_data`, `_name` | constructors (default, top, array, lists), `add`, copy, `Randomize`, `IsEqual` | `Partition2` |
| Meet | `partition2.h` 335-432 | accumulator, table `zt` of intersections, iterator | `Mul`, `MulEqual` | `Meet` |
| Join | `partition2.h` 301-316, 434-524; `union_find.h` 87-159 | accumulator, ClassId links, `bridge` table, set of anchors | `Add`, `AddEqual`, `RecParallelFind2`, `RecFind` | `Join` |
| Less | `partition2.h` 318-333, 526-572 | accumulator, `zt_ht`, `z_set`, `to_keep`, `to_frag` | `Sub`, `SubEqual` | `Less` |
| Anchor union-find | `anchor.h`, `union_find.h` 45-85, 111-145, 160-184 | nodes with parent link and children count | constructors, `Reset`, `ResetObsolete`, `RecSimpleFind`, `RecFind`, `RecParallelFind`, `RecParallelFindWOSplicing`, `Del` | `AnchorForest` |
| Expressions | `noeud.h`, `traits.h`, `mediateur.h`, `macros.h`, `evaluation.h` | compile-time tree, vector of operand references, accumulator and temporaries | `Evaluate`, alias test | `Evaluation`, on trees of `Expression` |
| Rewriting | `optimisation.h`, `transformation.h` | tree and positions of its operands | rotation, permutation, index swap | `Expression` |
| Front end | `postPartition.h`, `main.cpp` | id lists read, labels, `size`, `class_nb`, `groupbyNameID` | three constructors with `extractFromLMDB`, `parseID`, `array2partition`, `P2A`, `JoinName` | `PostPartition` |
| LMDB classes | `lmdb++.h` | a pointer each in `env`, `txn`, `cursor` | create, open, begin, get, close, abort, destructors, `error::raise` | `Lmdb` |
| Table, dataset | `table.h`, `dataset.h` | header flags, sizes, array of row pointers; vector of tables | both passes over a file, both destructors | `Loader` |
| Logger | `logger.h` | the one `Log`, its destroyer, `trace.log` | `Append`, destruction at exit | `Logger` |
| Date library | `date.h` | | calendar types and `time_of_day`: conversion, arithmetic, comparison | `Chrono`, `Calendar`, `TimeOfDay` |
| LMDB C interface | `lmdb.h` | | | no: external; its rules are in `Lmdb` |
| Build | `Makefile` | | | no |

How they interact: the front end builds `Partition2` values (array constructor)
and combines them with an expression; `ExpressionEvaluator::Evaluate` walks the
rewritten tree and calls, through the mediators `AddOp`, `SubOp`, `MulOp`,
either the three-argument form (`Add(acc, P, Q)`, both operands variables) or
the in-place form (`AddEqual(acc, Q)`, `acc` holding the left subexpression).
These call `Join`, `Less` and `Meet`, which work on the container through
`merge`, `merge_unsafe` and `fragment`, and `Join` on the union-find. The
operations log their timings; the logger prints the time with `date.h`. The
union-find over Anchors is what `Join` used before ClassIds had links of their
own: the sources keep it and call it nowhere. The loader stands by itself.

What makes each one correct:

* container and store: a class is named by its smallest object, its elements
  share one ClassId, `_classes_nb` counts the classes: whatever the sequence
  of calls. The three operations depend on all three facts;
* Meet, Join, Less: the accumulator ends up as `P * Q`, `P + Q`, `P - Q`,
  again with names, sharing and counter right, in any iteration order and
  for either kind of accumulator;
* rewriting: every operand stays with its leaf through rotations and
  permutations; the rewritten tree means the same under the laws declared for
  `+` and `*`, and needs no more temporaries;
* evaluation: the assigned variable ends with the value the expression had
  before the statement, also when it is one of the operands;
* Anchors: links lead to smaller ids of the same union; a count of children
  is the number of links, so that `Del` frees nothing that is linked to;
* front end: whatever throws, every C object is released, once; equal
  attribute values make equal classes; a group has the ids of its value;
* loader: the two passes agree on what a row is; every entry the destructor
  deletes has been set;
* logger: the file has the lines of the run, each with its time;
* dates: the closed formulas agree with counting days.

## 2. The modules

### Partitions

**`Universe`** is the container as a function from objects to ClassId
*handles* `[id, alloc]`. `id` is what the class index and every `Id()`
comparison see; `alloc` tells apart ClassIds of equal `_id`, which is what
code that compares `shared_ptr`s sees (the tables `zt` of Meet and `zt_ht` of
Less). `Merge`, `MergeUnsafe`, `Fragment` and their counts are the functions of
`universe.h`; each of their `replace` loops is one function update, because the
range a loop goes through is fixed before it starts and no element of it is
read after it was replaced.

**`PartitionLattice`** has the reference definitions, on sets of blocks:
`MeetBlocks`, `JoinBlocks` (the least sets closed under both operands' blocks),
`LessBlocks`, and `LessByPointer`, which takes the right operand for the
ClassIds it holds (`Pointers`); and the representation conditions `NamedByMin`
and `WellShared`.

**`Operation`** is the abstract specification of any of the operations: the
result appears in one step and stays. `Meet` and `Less` are shown to implement
it (`Promise == INSTANCE Operation WITH ...`, property `PromiseKept`).

**`Meet`** has one action per kind of iteration: `Visit` (object in both
operands: look up or create the intersection, take over its name when smaller,
insert or replace, `merge_unsafe`), `Skip` and `Erase` (object missing from
`Q`), between `Start` (clearing a separate accumulator) and `Finish`. The
iteration order is any order: `Visit(o)` for any object not yet visited.
`Erase` in place advances an iterator to an erased element: its outcome is
either the next element or `pc = "undefined"`.

**`Join`** has `Fill`; the scan (`Pass`, `Link`), class after class in any order
and any order within a class, as the grouped hash index allows; each recursive
call of `RecParallelFind2` as a step (`SpliceFirst`, `SpliceSecond`), `Joined`
back in the loop body with the bridge; `Compress` (one `RecFind`) and
`MergeClass` for each anchor in order of id. Elements of the accumulator that
share an id share the ClassId (what `SharedUnlessTop` and `WellShared` in the
other modules say), so a ClassId is its id here.

**`Less`** looks up the objects 0 .. `_size` - 1 in turn: `FirstOfClass` (with
the shared-pointer counts as they stand at that moment, including the tables'
own pointers), `SecondMeeting`, `KnownPair`, `NotFound` (an `end()`
dereferenced); `EndScan` is the set difference, `FragmentClass` the last loop.
Its classes are handles, as the code's are `shared_ptr`s: `zt_ht` has pairs of
them and `use_count()` counts the elements that hold one. The left operand is the
accumulator, which was copied or computed and so has one handle to a class
(`WellShared`), but any `_size`: Meet leaves it too large (`AfterMeet`), Join too
small (`AfterJoin`). The right operand is used where it lies; `RightOperands`
are also the containers that the top constructor and `add` leave (`TopBuilt`),
with several handles to the class 0. `to_keep` and `to_frag` hold elements, as the
code holds pointers to them, ordered by class id (`Register`); `FragmentClass`
reads the id through the element, in the container as it is by then.

**`Partition2`** is a store of variables and every way of giving them a value
without an expression. A call of `add` or of the list constructor (`AddClass`,
`AddClasses`, `FromLists`) goes through its lists (`StartList`, `EndList`,
`Return`) with one `merge_unsafe` per step (`MergeNext`), its result added to the
unsigned `_classes_nb` each time; the other constructions, which only fill a
fresh container, are a step each. A history variable `given` has the blocks
each construction asked for.

**`Expression`** has the trees, which like the `Noeud` types do not know their
operands, and the positions that go along with them; `RotationGauche`, `Permuter`,
`VerificatonPermutation`, `Swap`, `ReecritureAlgebrique` and `SADCount` are
functions on both, as the templates are. (Two comments of the code announce more
than it does: the "modularité" rotation of `optimisation.h` 66 has no
specialisation of `EstAssociatif`, and the reduction of `A op A`,
`transformation.h` 172, returns its argument.) Values are terms modulo exactly
the declared laws: a sum or a product is the bag of its terms, a difference a
pair. Two rewritings that agree there agree for the operators of any structure
that obeys the laws.

**`Evaluation`** is the statement `accum = expression`: `Evaluate` rewrites, makes
the alias test and unfolds the tree into the straight-line code the templates
generate (`CodeOf`); then one action per kind of instruction, on the accumulator,
which is the assigned variable or the latest temporary. `CombineOperands` knows
that `Add` and `Sub` assign the left operand, and `Mul` clears the accumulator,
before the right operand is read.

### The Anchor union-find

**`AnchorForest`** is the forest of Anchors, identified by their ids. Every
method is an action; `RecFind` and `Del`, whose recursion nothing can interrupt,
are one step each, and the two searches take a step per recursive call
(`Splice`, `Climb`, `Return`). A caller is modelled with them (`Hang`,
`CreateUnder`): it uses the accessors the way `RecFind` and `Del` expect, and
may do the three things that leave the counts behind (`Reset` of a linked
anchor, `ResetObsolete`, `RecParallelFind`), which `drift` counts. Reading a
deleted Anchor is `pc = "fault"`.

### Front end and LMDB

**`Lmdb`** has the wrapper classes: which hold a pointer, and the C objects
behind them. A call returns, or throws and changes nothing (`Raise`). The rules
of the C library (what may be freed when) are assumptions; `misused` is set when
one is broken.

**`PostPartition`** EXTENDS it and is the constructors of `postPartition` for
one, two or three directories. `Prologue`, `Get`, `Epilogue` are
`extractFromLMDB` call by call, any of which may throw, after which `Unwind`
destroys what there is in reverse order; `Parse` is `parseID` and
`array2partition`, with memory that `memset` did not clear; `Group` is the
products, `P2A`, `JoinName` and the map. The header does not compile at this
commit. Where it spells a name in two ways (`IDS`, `joinN`, `extractFromLDB`,
`dimension`), the declared one is meant here (`IDs`, `joinName`,
`extractFromLMDB`, `size`); nothing else is guessed.

### Loader

**`Loader`** takes the entries of a directory one by one; for a csv file it
counts words (`CountWord`, `EndCount`), then loads rows (`SkipWord`, `Unparsed`,
`LoadRow`, `EndLoad`), and in the end frees the tables. `CutFile` is another
program, which takes the last word, whole, off the file between the passes; a
cut inside a word, or of more words, is not modelled. A word is known by how much of it parses; a row longer or shorter than the first is cut, or filled
with what lies behind it (any class value).

### Time

**`Chrono`** has the types of `date.h` and their operators, as functions of
integers with the widths of `unsigned char` and `short` and the division of C.
**`Calendar`** is a calendar on the wall: `Midnight` turns a day, knowing
the lengths of months and the order of weekdays; its invariants hold the
functions of `Chrono` against it. **`TimeOfDay`** has the four classes of a time
since midnight, the change between the faces of 24 and 12 hours, and what a
reader finds in the text. **`Logger`** has the one Log, its destroyer and file
through any number of runs, exits and crashes of the program (every step may be
followed by `Restart`), and a `time_of_day` that the program turns about.

Operators whose comment says *slip* are not part of any specification: each
is a definition of the model as a plausible mistake in the code would have it,
kept to show that the properties notice.

`MC*.tla` have the instances, the `.cfg` files the bounds. `Meet` has a type
invariant, which its proofs start from; elsewhere the comments at VARIABLES say
what a variable holds, and the invariants relate the values.

## 3. The runs

| Run | Bounds | What it shows |
|---|---|---|
| `meet` | 4 objects, operands on any of them, both accumulators | loop invariant `LoopSound` (`VisitedIsMeet`, `UnvisitedUntouched`); result `MeetIsMeet`; steps `OnlyRenames`; refinement `PromiseKept` |
| `meet_top` (violated) | 3 objects | `Top * Q` is not `Q` |
| `join` | 5 objects; operands on all, four, three, two or none of them | forest acyclic and inside `P + Q` (`ForestWithinJoin`); never coarser than `P + Q`, with names and links fit for the next operation (`JoinSound`); exactly `P + Q` up to four objects, also after a `Fill` that adds objects (`ExactUpToFour`); `AnchorsAlive`; `CountLags`; splicing ends (`Termination`), every step leaving less to do (`Descends`) |
| `join_exact` (violated) | 5 objects | two pieces of one class of `P + Q` |
| `less` | 5 objects; operands on all of them, on 0, 1, 2, or on 0, 1, 3; left operands of any `_size`, right ones also from the top constructor | the count test decides equality (`CountDecidesEquality`); the result by `Q`'s ClassIds, which is `P - Q` when `Q` has one to a class (`LessIsLess`); refinement (`PromiseKept`); nothing but an unchecked lookup keeps it from returning (`Returns`) |
| `partition2` | 2 variables, 3 objects; a list of up to 3 objects, or up to 2 lists each empty or of 2 objects | blocks after any sequence of calls; names, counter, sharing and equality also after each `merge_unsafe` within one |
| `evaluation` | all trees of 2 to 5 operands, the assigned variable at any subset of them | the value assigned, every operand intact until its last use, temporaries |
| `anchors` | 4 Anchors, counts up to 4, 2 calls that leave counts behind | `TreesWithinAsked`; counts and lifetimes `CountsHoldAnchors`; `ShallowUnion`; `SearchesEnd`, each call lower than the one before (`SearchDescends`) |
| `loader` | one file of up to 4 words out of 5 kinds, with or without an end of line, or two directory entries with files of up to one | `LoadedAsWritten`; `RowsInPlace` in any file |
| `post_partition` | one directory of 2 values with up to 2 ids or 4 with one; two of up to 2; three of up to 2 | `HandlesReleased`; `PartitionByValue`; `SingleGroups` |
| `calendar` | the 400 years from -30 and from 1970, 4 years at both ends of `short` | `DateOfPoint`, `PointOfDate`, `NthWeekday`, `MonthsAddUp`, `DaysAddUp` |
| `logger` | 9 instants about midnight before and after 1970-01-01 and at a month's end, 20 ticks to a second, 2 lines a run; durations of up to a day either way | `LogTellsThisRun`, `FaceTellsTime` |

Why the bounds are enough. Take-over of a name in Meet needs three objects of
one intersection visited in a bad order; four leave room for a second
intersection whose name interferes. A class lost in Join needs five: a link
must be overwritten before the class it led to is linked again, and the
overwriting itself takes two other classes; with four every order
gives the exact join. Less needs four to have a class meeting two classes of
`Q` next to one to break; five add a class kept as equal. Two ClassIds for one
class of `Q` suffice to make a class of two objects meet both. Lists in
`Partition2` need two classes bridged by a third list. Five operands are the
least with which the right subtree can itself have been rotated or permuted
before the rotation above it, next to a left subtree of more than one operand;
segments of different lengths change places from three on. Four Anchors make a
path of two links (compression moves a count twice) next to a second tree, and
let `Del` free an ancestor. Four words are two header lines and two rows, or
four rows, of which one may be ragged and the next refused. Two values with two
ids each are the least where the order of ids in the file differs from their
numbers within and across values; four ids are the least size of which `memset`
clears anything. Every date formula has a period of 400 years; the two periods
have the turn of an era, a century that is leap and ones that are not, and year
0 in them. `Word` (the range of `unsigned int`) is 8 or 16: any value above the
number of objects behaves alike, as the counters never leave that range except
by wrapping.

Symmetry is used in `partition2` only, on the variables: objects are ordered
(smaller ids win), so they are not interchangeable.

Deadlock is not checked: each operation ends, and a finished operation has no
next step.

Fairness is assumed of loops and recursions alone, where a property needs it:
`WF_vars(Next)` in `Join` (`Termination`: the recursion of `RecParallelFind2`
ends) and `Less` (`Returns`: the lookups are not lost when both operands have
the objects 0 .. `_size` - 1, which is what the unchecked lookup relies on), and
`WF_vars(Search)` in `AnchorForest` (`SearchesEnd`). It is sequential code that
goes on while it can, and no action competes with another for progress. In
`AnchorForest` the caller's actions are left without fairness: nothing obliges
it to call.

### What the violated runs say

* `join_exact`: `RecParallelFind2` moves the cursor to its parent and then
  overwrites *that* node's link (`union_find.h` 92-97, 102-105). Rem's
  algorithm writes the link of the node the cursor leaves. The old link of the
  parent is lost, and with it, sometimes, a class: the join then is finer than
  `P + Q` (line 433 of `partition2.h` promises `P \join Q`). It is never
  coarser (`JoinSound`). `RecParallelFind` on Anchors has the same order; there
  `ShallowUnion` says when it is harmless.
* `meet_top`: line 58 calls the result the top partition, but every element
  has its own `ClassId(0)`, and Meet distinguishes ClassIds by address, in either
  operand. Copying such a value repairs it (`operator=` shares one ClassId per
  id), so that the left operand of `Sub`, which is copied or was computed, does
  not suffer; Join reads ids only and does not either. The right
  operand of `Less` is another matter: see below.

### Further divergences met while modelling

These are in the models as the code has them; the properties are stated so that
the reader sees where they stop.

* The right operand of `Sub` and `SubEqual` is never copied (`partition2.h`
  324-333), and Less keys `zt_ht` by address (540) and counts pointers (550). If
  the top constructor built it, a class of `P` inside its one class meets a second
  ClassId at its second object and is kept (557): `{{0,1},{2}}` less the top
  partition of three objects keeps `{0,1}`, which `P - Q` breaks up. `LessIsLess`
  says what is true: the result is right for the ClassIds `Q` holds
  (`LessByPointer`), and so for its classes if each has one.
* Join adds the objects its first term lacks (444) and leaves `_size` at that
  term's; a later Less looks at the first `_size` objects only (537). With `A` on
  `{0}` and `B` = `{{0,1,2}}`, the sum `A + B` is `{{0,1,2}}` with `_size` 1, and
  taking `{{0,1},{2}}` away breaks it up after one look, although it meets two
  classes. `LessIsLess` says what is left when `_size` does not count
  (`SizeCounts`): each class of `P` whole or in single objects, with names,
  sharing and counter right.
* `partition2.h` 375 promises the intersection of the supports. In place, the
  loop of Meet erases through its own iterator (379); and `_size`, set before
  the loop (362), still counts the objects dropped, which a later Less looks up:
  it then dereferences the `end()` of a container (539).
* Classes that Join adds for objects `P` lacks (444) are not counted in
  `_classes_nb` either: `CountLags` says by how much the counter is short, modulo the
  width of `unsigned int`.
* `array2partition` clears a quarter of its arrays (`postPartition.h` 177-178);
  `JoinName` and the constructors read `size` (the number of objects) entries
  from vectors that have one per attribute value (203, 44); with two or three
  directories the i-th names are paired (215) while the groups are the classes
  of the product. `PartitionByValue` and `SingleGroups` say when the result is
  nevertheless the file's.
* A file without an end of line loses its last row, and one with too few words
  makes `row_size` wrap (`table.h` 56); rows of another width, or a file cut
  between the passes, leave entries unset that the destructor deletes (66); a
  directory that cannot be opened is read all the same (`dataset.h` 25-30).
* `ResetObsolete` (which its comment calls obsolete) and `RecParallelFind` leave
  children counts behind.
* Dates: `year::max()` has a next day whose year wraps; 29 February plus a year
  is a date that is not `ok()`, as `date.h` intends.

### Where the properties stop

Some hazards are in the models and in no property: nothing in the sources says
what should happen, and the properties are about callers, or runs, that do not
meet them. They are Meet's erase in place (`partition2.h` 379), the lookups of
Less that find nothing (539), also after a Meet that dropped objects (362),
`IsEqual` on different objects (244), the counts that `Reset`, `ResetObsolete` and
`RecParallelFind` leave behind (`drift` > 0 in `AnchorForest`), memory that
`memset` did not clear (`postPartition.h` 177) and vectors read past their end
(203; `SingleGroups` excludes it by asking, in effect, for one id per value). In
each case the model goes to a state that says so (`pc = "undefined"`,
`"fault"`, an answer `"undefined"`, any value), and the property's premise is the
precondition of the code.

## 4. What is proved

`MeetProofs` proves about `Meet`, for every finite set `Objects` of naturals,
every set of supports and both accumulators, with no assumption but
`ObjectsAssumption`, `SupportsAssumption` and `ModesAssumption`:

| Theorem | Statement |
|---|---|
| `TypeCorrect` | `Spec => []TypeOK` |
| `LoopCorrect` | `Spec => []LoopSound` |
| `RenamingOnly` | `Spec => OnlyRenames` |
| `MeetCorrect` | `Spec => []MeetIsMeet` |
| `MeetRefinesOperation` | `Spec` implies the initial condition and the step relation of `Operation` under the refinement mapping |

The argument. None of the invariants is inductive alone: `VisitedIsMeet` does
not say what `zt` holds, and `zt` is what the next step reads. The inductive
invariant `IInv` adds, while the loop runs: `Covered`, which objects are in the
accumulator; `Unvisited`, the elements still to be read are those of `P`;
`Named`, every visited object is filed under a visited object of its own
intersection with a fresh handle; `Least`, two visited objects of one
intersection are filed alike, under a name no larger than either; and `Table`,
the domain of `zt` is the set of intersections of visited objects and its
entries are exactly the names in use. The lemma that carries the weight is
`VisitEffect`: `merge_unsafe`, which moves a group selected by class id only,
moves exactly the visited objects of the intersection just renamed. It holds
because a name in use by visited objects is a visited object of the same
intersection, and because an unvisited element carries an original name, whose
group cannot be the one moved unless its named object is unvisited too.
Then one lemma per action, and the theorems follow.
`MeetCorrect` needs in addition that the groups of the finished accumulator are
the non-empty intersections of blocks (`MeetBlocksAreIntersections`,
`DoneBlocks`) and that `zt` has one entry for each (`TableCountsBlocks`).

`LessProofs`, `JoinProofs` and `Partition2Proofs` do the same for the other parts
of the store, for every finite set of objects, every set of supports or lists,
and, where a counter is unsigned, every `Word` that exceeds the number of
objects (`WordAssumption`; a container cannot hold more objects than ids).

| Theorem | Statement |
|---|---|
| `LessProofs!CountsDecide` | `Spec => []CountDecidesEquality` |
| `LessProofs!LessCorrect` | `Spec => []LessIsLess` |
| `LessProofs!LessRefinesOperation` | `Spec => PromiseKept` |
| `JoinProofs!ForestStaysWithin` | `Spec => []ForestWithinJoin` |
| `JoinProofs!MergeOfLivingClasses` | `Spec => []AnchorsAlive` |
| `JoinProofs!CounterLags` | `Spec => []CountLags` |
| `JoinProofs!JoinReturnsSound` | `Spec => []JoinSound` |
| `JoinProofs!JoinDescends` | `Spec => Descends` |
| `Partition2Proofs!BuildsAsGiven` | `Spec => []BuiltAsGiven` |
| `Partition2Proofs!CounterExact` | `Spec => []CounterCounts` |
| `Partition2Proofs!SharesUnlessTop` | `Spec => []SharedUnlessTop` |
| `Partition2Proofs!EqualityDecided` | `Spec => []EqualityDecides` |

*Less.* The theorems hold for any `_size` of the left operand and for right
operands as the top constructor and `add` leave them; the proofs use of `Q` only
that names are smallest members (`RightShape`), not that a class has one ClassId.
The code decides whether a class of `P` is a class of `Q` by comparing names and
use counts. `UseCountsAtFirst` computes the counts at the first object of a class
(elements that hold the ClassId, and the entries of the loop's own table);
`FirstMeeting` concludes: if names and counts agree and the class is not what
`Q`'s ClassId holds, then it cannot lie strictly inside that, for it would have
fewer pointers, so it meets a second ClassId and is to be kept anyway; and if it
is what that ClassId holds, no entry of `zt_ht` can have the ClassId yet, and the
counts agree. `KeptIsSurvives` says that keeping by ClassIds is keeping by
classes when `Q` has one ClassId to each.
`ScanInv` says what is in `zt_ht` and `to_keep` in terms of the objects looked
up: `zt_ht` has for each class met the pair of its first object, and since a
class is named by its smallest object, looked up first, that pair is a function
of the class's name. The last clause of `ScanInv` (everything kept is to be kept)
asks that `Q` has all the objects of `P` (`Within`), which follows if `_size`
counts and no lookup failed. `FragmentInv` gives the container element by element
while classes are broken, whatever `_size` made the scan look at.

*Join.* `ForestWithinJoin` is nearly inductive: all it needs besides is that the
two cursors of `RecParallelFind2` stand at ids that no set closed under both
operands' blocks separates from the object at hand (`SpliceInv`). Stating this
with closed sets (`Uncut`) instead of `JoinBlocks`, which is the least such
partition, is what makes each step a one-line argument. What takes the most
work is that the merge loop is complete: it visits `anchors` only, the ids that
the scan recorded, while links may lead elsewhere. `ScanInv` says that every id
with a link, or linked to, or in `bridge`, is `Touched`: it is an anchor or has
an element whose turn in the scan is still to come. So at the end of the scan
every id that is not a root is an anchor (`CompressInv`), and after the
compression, where every anchor points at its root, one `merge` each moves
every element to the class of its root (`MergeInv`, `MergeMoves`). Since a
link leads to a smaller id, the class named by the root is named by its
smallest object. `Descends` is the argument for `Termination`, which itself is
beyond the prover: the stage, what is left in the loop, whether a link is being
made, and `Height`, the sum of the cursors and their parents, fall in this order.
What is not obvious is that `Height` falls although a call overwrites a link the
search goes by (`SpliceDescends`): the node it overwrites is the one the cursor
moves to, and its new link is below the old. (Both parents are then the same, so
that `RecParallelFind2` never recurses twice; a correction of what
`join_exact` shows would need `Height` to fall further.)

*Store.* `Renamed` says of one `merge_unsafe` what it does to the name of every
element; `RenamedSound`, that names stay minima; `RenamedCount`, that the number
it returns is the change of the number of classes. `Holds(d, B, S)` says that
container `d` has the blocks `B` with the ones touching `S` made into one;
`HoldsMore` adds an object to `S` with each step, `HoldsNone` and `HoldsAll` are
the two ends of the loop. `EqualityDecided` follows because names are
determined by blocks (`NamesFollowBlocks`).

`AnchorForestProofs` proves about `AnchorForest`, for every finite set of
anchors, every bound on drift, and `CountsFit` (an `unsigned int` can count the
anchors: they have distinct unsigned ids, so only 2^32 of them at once would
not fit):

| Theorem | Statement |
|---|---|
| `TreesStayWithinAsked` | `Spec => []TreesWithinAsked` |
| `CountsKeepAnchors` | `Spec => []CountsHoldAnchors` |
| `UnitesShallowTrees` | `Spec => ShallowUnion` |
| `SearchesDescend` | `Spec => SearchDescends` |

Here the invariant has four parts: links descend; `asked` is a partition; links
and cursors stay within its blocks; and, while nothing has left the counts
behind (`drift = 0`), every link of a living anchor leads to a living one, whose
count is the number of links to it. The last part is where `RecFind` and `Del`
earn their keep: `RecFindInv` follows a whole path of relinked nodes, each
moving a count from its old parent to the root, and `Forgetting` and
`DelClimbs` the frees that go up while counts reach zero. That links descend is
also why both searches end: `SearchesDescend` needs no other part.

`InputProofs` proves about `Loader`, for any directories of any files with
`FilesFit` (an `unsigned int` can count the words of a file, which is what the
counters of `table.h` are declared as):

| Theorem | Statement |
|---|---|
| `RowsStayInPlace` | `Spec => []RowsInPlace` |
| `LoadsAsWritten` | `Spec => []LoadedAsWritten` |

`CountInv` and `LoadInv` say where each pass stands, word by word; `Counted` is
what the first hands to the second. `FileInv` relates the file as it is now to
the file the table was opened on, of which it is a beginning, so that
what a cut leaves is still in place. `WellFormedCounted` is the arithmetic of
the unsigned `row_size`, `KeptRow` one row of a well-formed file.

and about `PostPartition`, for any requests of one to three directories whose
id lists hold at least one id (`RequestsAssumption`; what `parseID` does with an
empty list is undefined, `postPartition.h` 154-157):

| Theorem | Statement |
|---|---|
| `HandlesAlwaysReleased` | `FrontSpec => []HandlesReleased` |
| `GroupedByValue` | `FrontSpec => []PartitionByValue` |
| `SinglesGrouped` | `FrontSpec => []SingleGroups` |

For the handles, `HandleInv` says that a wrapper holds a pointer exactly while
the C object behind it lives, and which of them do at each stage. In the stages
of unwinding, which may start after any call, it can only say that the cursor
goes first and the environment last; that is enough, because each destructor
looks at its pointer. For the values, `FrontInv` says what has been read
(`ProgressInv`) and, on cleared memory, what was `Made` of each directory:
labels that are equal exactly for objects of one attribute value, and where
every value has one id, each object its own class. Which ids there are, and how
many, is said of the concatenation of the id lists, which the community modules
define by a recursion; `Gathers` says of a sequence what matters of its being
that concatenation (its elements, its length, that no element comes twice only
if the lists are disjoint), and `FlatGathers` finds it for every length by the
least-element principle. `GroupSingle` is the map of a single directory; the
order in which it goes through the classes is written as `InOrder` (the k-th is
the one that k - 1 are smaller than), since the prover knows nothing of the
library's sort.

`CommonLemmas` has what these proofs share: facts about groups, blocks and
`JoinBlocks`, and the theory of descending links (`ReachRoot`, `ReachRelinked`),
in which "every path ends at one root" is proved by the least-element principle
(`LeastElement`) instead of an induction over an operator.

`CalendarProofs` proves about `Calendar`, for every set `Starts` (any 1
January the types can hold, any number of days from it) and every `Months`, from
`StartsAssumption` and `MonthsAssumption`:

| Theorem | Statement |
|---|---|
| `DateOfPointAlways` | `Spec => []DateOfPoint` |
| `PointOfDateAlways` | `Spec => []PointOfDate` |
| `MonthsAlwaysAddUp` | `Spec => []MonthsAddUp` |
| `DaysAlwaysAddUp` | `Spec => []DaysAddUp` |
| `NthAlwaysRight` | `Spec => []NthWeekday` |

so that the two 400-year periods of the run become all years of a `short`, and
its five numbers of months any. The inductive invariant is that today's date is
a real one, that its day number computed by `DayPoint` is `point`, and that the
weekday is `(point + 4) % 7`. `DayPointAfter` carries the step: the formula of
`operator day_point` grows by one from a day to the next. It rests on
`YearLength` (a year from March to February has 366 days exactly if it ends in
a leap February, by cases of the year modulo 400) and on the formula `(153 m +
2) / 5`, checked month by month. The way back, `FromDayPointInverts`, follows
within an era from `YearOfEraRight` (the division by 365 after the leap days
are taken off finds the year: its argument grows with the day and is bracketed
by those of the year's ends) and `MonthAndDay`, and across eras from
`DayEraFloor` (C's division with its correction is the floor). For `NthWeekday`
a second invariant is needed, `SeenInv`: what the wall calendar has counted of
each weekday is a function of the day and the weekday. Sums of months rest on
`SumIs` (what comes of a year and a month, and that it does not wrap when there
is room) and `MonthsApart`; that an n-th weekday is good exactly if it is in
its month on `MonthOfDay`, which applies `FromDayPointInverts` in the month and
in the one after.

And about `Logger`, for every set `Instants` of instants that fit 64-bit
nanoseconds (`InstantsAssumption`), every set of durations of up to a day, any
number of lines, and every number `Den` of ticks to a second up to 10^9 that
some power of ten is a multiple of (`DenAssumption`, `DecimalsAssumption`: a
nanosecond clock and what the code can print in decimals):

| Theorem | Statement |
|---|---|
| `LogAlwaysTellsThisRun` | `LogSpec => []LogTellsThisRun` |
| `FaceAlwaysTellsTime` | `LogSpec => []FaceTellsTime` |

`DestroyerHasLog` says that the destroyer knows the Log exactly while there is
one, `LogInv` that the file has the stamp of each instant said, and `FaceInv`
that the `time_of_day` is the one its duration makes, on one face or the other.
What remains is that a stamp and a face can be read back. The way goes through
three descriptions of the same hour, minute, second and fraction: `Parts`, what a
duration divides into, the same before midnight and after (`PartsOf`, from
`SinceMidnight`, which takes off one unit after the other by a division that
truncates); `Tells`, what a face holds, on 24 hours or on 12 (`FaceTells`,
`FaceTells12`); `Shows`, what its text says (`TextShows`; that the decimals give
the fraction back is `DecimalsTell`, where `CeilLog10` has to be shown to give
the number of decimals). `ReadShown` is the way back from a
text to the duration. For the date, `from_day_point` has to be right on every
day number: `DateOfDay` finds a date with that number, and
`FromDayPointInverts`, proved for the calendar, does the rest
(`DayPointInverts`).

`Operation` promises safety only, so `MeetRefinesOperation` and
`LessRefinesOperation` prove all of `PromiseKept`. What Less delivers is `P - Q` by
the ClassIds of `Q` (`LessByPointer`); on a `_size` that does not count the objects
it delivers nothing.

Only model-checked:

* liveness (`Termination`, `Returns`, `SearchesEnd`), which is beyond the prover;
  `Descends` and `SearchDescends`, which are proved, leave it that a step is
  possible while the work is not done;
* `Join`'s `ExactUpToFour`, whose bound is part of what it says: with five
  objects it is false (`join_exact`), and what is true up to four is a matter of
  cases, which the run goes through;
* `Evaluation`: the rewriting is recursive on trees, and a statement about every
  tree needs an induction over data.

## 5. What is not modelled, and why

* Names, log messages and timings: no other state depends on them.
* Hash functions and load factors: iteration order is left open instead.
* Two-argument `Add`, `Sub`, `Mul`: they occur only in `typeof`.
* `univ_difference`, `OnlyFirst`, `deck_view`, `RandomHashMap`: unused.
* `Partition2(0, name)`, the start value of temporaries: always overwritten
  (`Empty` in `Evaluation` stands for it and never reaches a result).
* Unary nodes (there is no unary operator), the one-argument `Evaluate` and
  `EvaluateWithoutAliasingCheck` (nothing calls them), `operator==` on
  expressions (two evaluations into fresh variables, then `IsEqual`).
* `Anchor`'s `bridge`, written and never read; `anchors_table.h`, an index type.
* Column names in `table.h`, parsed and never read; printed warnings.
* Id lists that are not numbers (`stoi` throws in `parseID`), in
  `postPartition.h`.
* `date.h`: `operator/` (composing a date from its fields), literals, the text
  of types the log does not print, floating-point durations.
* `lmdb++.h`: writing transactions, statistics, operations nothing calls;
  `lmdb.h`: declarations of an external library.

## 6. Plan

Done: every component of the inventory that has behaviour of its own, and
proofs of every safety property the passing runs check but `Join`'s `ExactUpToFour` and
those of `Evaluation`.

What could come next:

1. `Workspace`: `Partition2` variables and the three operations together, the
   result of one the operand of the next: names and sharing stay fit, and what
   becomes of `_size` and `_classes_nb` along a long expression.
2. The front end with `Meet` as it is, step by step, in place of the product's
   value.
3. Should `RecParallelFind2` be corrected: `JoinIsJoin` for any number of objects,
   from the invariants of `JoinProofs` and one more, that the forest unites what
   has been linked.
