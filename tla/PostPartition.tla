--------------------------- MODULE PostPartition ----------------------------
(***************************************************************************)
(* The group-by front end, postPartition.h: the constructors with one, two  *)
(* or three directories.  Each directory is an LMDB environment that maps   *)
(* an attribute value to a list of object ids; run() extracts it, turns it  *)
(* into an array and the array into a Partition2; the constructor meets the *)
(* partitions, makes the names of the groups and fills groupbyNameID.       *)
(*                                                                         *)
(* A directory is the sequence of its id lists in key order: the k-th       *)
(* attribute value is named k, a group of two of them <<k, l>>.  Names the  *)
(* file spells in two ways (IDS, joinN, extractFromLDB, dimension) are read *)
(* as the one declared (IDs, joinName, extractFromLMDB, size).              *)
(*                                                                         *)
(* A read past the end of a vector is undefined behaviour: stage = "fault"  *)
(* and nothing more is said.  An empty list of ids is left out for the same *)
(* reason: parseID reads the character before the value's first.            *)
(***************************************************************************)
EXTENDS Lmdb, SequencesExt

CONSTANT Requests           (* the calls: sequences of one to three         *)
                            (* directories, each a sequence of id lists     *)

ASSUME RequestsAssumption ==
    \A r \in Requests : Len(r) \in 1..3 /\ r \in Seq(Seq(Seq(Int) \ {<< >>}))

VARIABLES
    dirs,                   (* the constructor's arguments                  *)
    done,                   (* results of the runs finished                 *)
    ids,                    (* IDs, as far as extracted                     *)
    clean,                  (* history: fresh arrays have held zeros        *)
    groups,                 (* groupbyNameID                                *)
    stage

frontVars == <<env, txn, cursor, pointer, misused, dirs, done, ids, clean, groups, stage>>

FrontInit ==
    /\ LmdbInit
    /\ dirs \in Requests
    /\ done = << >>
    /\ ids = << >>
    /\ clean = TRUE
    /\ groups = [n \in {} |-> {}]
    /\ stage = "create"

Dir == dirs[Len(done) + 1]

-----------------------------------------------------------------------------
(* A call of extractFromLMDB: it succeeds, or throws and what the function  *)
(* has constructed so far is destroyed in reverse order.                    *)
Call(at, effect, next) ==
    /\ stage = at
    /\ \/ effect /\ stage' = next
       \/ Raise /\ stage' = "unwind cursor"
    /\ UNCHANGED <<dirs, done, ids, clean, groups>>

Prologue ==
    \/ Call("create", EnvCreate, "mapsize")
    \/ Call("mapsize", EnvUse, "open")
    \/ Call("open", EnvUse, "begin")
    \/ Call("begin", TxnBegin, "dbi")
    \/ Call("dbi", DbiOpen, "cursor")
    \/ Call("cursor", CursorOpen, "get")

(* One turn of the loop: another record, the end, or an error.              *)
Get ==
    /\ stage = "get"
    /\ CursorGet
    /\ IF Len(ids) < Len(Dir)
       THEN /\ ids' = Append(ids, Dir[Len(ids) + 1])
            /\ UNCHANGED stage
       ELSE /\ stage' = "close"
            /\ UNCHANGED ids
    /\ UNCHANGED <<dirs, done, clean, groups>>

GetFails ==
    /\ stage = "get"
    /\ Raise
    /\ stage' = "unwind cursor"
    /\ UNCHANGED <<dirs, done, ids, clean, groups>>

(* The end of the function: close, abort, then the destructors, which find  *)
(* the cursor and the transaction gone.                                     *)
Closing(at, effect, next) ==
    /\ stage = at
    /\ effect
    /\ stage' = next
    /\ UNCHANGED <<dirs, done, ids, clean, groups>>

Epilogue ==
    \/ Closing("close", CursorClose, "abort")
    \/ Closing("abort", TxnAbort, "leave cursor")
    \/ Closing("leave cursor", CursorClose, "leave txn")
    \/ Closing("leave txn", TxnDestroy, "leave env")
    \/ Closing("leave env", EnvDestroy, "parse")

(* The exception leaves the constructor: no postPartition comes to be.      *)
Unwind ==
    \/ Closing("unwind cursor", CursorClose, "unwind txn")
    \/ Closing("unwind txn", TxnDestroy, "unwind env")
    \/ Closing("unwind env", EnvDestroy, "thrown")

-----------------------------------------------------------------------------
(* A slip: the labels in the order of the file, as correlate has the ids.   *)
LabelOfPosition(i) == IF i < Len(ids) THEN i + 1 ELSE 0

(* parseID: an id belongs to the first attribute value that lists it.       *)
originalID == FlattenSeq(ids)
Known == Range(originalID)
size == Cardinality(Known)
Label(i) == IF i \in Known
            THEN CHOOSE k \in DOMAIN ids :
                    i \in Range(ids[k]) /\ \A l \in 1..(k - 1) : i \notin Range(ids[l])
            ELSE 0

(* array2partition: the objects i and j fall together when the ids i and j  *)
(* (not the i-th and the j-th id) have the same attribute value.  memset    *)
(* clears size bytes, a quarter of the array: the rest holds what the heap  *)
(* did, and an object whose mark T is not clear starts no class, so that    *)
(* its entry of P may keep what the heap held (one value for all of them).  *)
Cleared == 0..((size \div 4) - 1)

Names(T, P) ==
    [j \in 0..(size - 1) |->
        LET leaders == {i \in 0..j : Label(i) = Label(j) /\ i \notin T}
        IN  IF leaders = {} THEN P
            ELSE CHOOSE i \in leaders : \A l \in leaders : i <= l]

(* The constructor of Partition2 from an array looks up the class t[j] of   *)
(* an object j that is not its own leader and reads the result unchecked.   *)
Constructible(t) ==
    \A j \in DOMAIN t : t[j] # j => t[j] < j /\ t[t[j]] = t[j]

Parse ==
    /\ stage = "parse"
    /\ \E T \in SUBSET ((0..(size - 1)) \ Cleared), P \in 0..size :
          /\ clean' = (clean /\ T = {})
          /\ IF Constructible(Names(T, P))
             THEN /\ done' = Append(done,
                        [class |-> Names(T, P), class_nb |-> Len(ids), size |-> size,
                         correlate |-> [i \in 0..(size - 1) |-> originalID[i + 1]]])
                  /\ stage' = IF Len(done') < Len(dirs) THEN "create" ELSE "group"
             ELSE stage' = "fault" /\ UNCHANGED done
    /\ ids' = << >>
    /\ UNCHANGED <<lmdbVars, dirs, groups>>

-----------------------------------------------------------------------------
(* The member variable size keeps the value of the last run.                *)
Size == done[Len(dirs)].size

(* p1, p1 * p2 or p1 * p2 * p3: the class of each object they all cover,    *)
(* named by its least member, as a constructible partition names its own.   *)
Class ==
    LET common == {j \in DOMAIN done[1].class : \A k \in DOMAIN done : j \in DOMAIN done[k].class}
        Same(i, j) == \A k \in DOMAIN done : done[k].class[i] = done[k].class[j]
    IN  [j \in common |-> CHOOSE i \in common :
            Same(i, j) /\ \A l \in common : Same(l, j) => i <= l]

(* The members of a set of numbers, the least first: a walk over classID.   *)
InOrder(S) ==
    [k \in 1..Cardinality(S) |->
        CHOOSE c \in S : Cardinality({d \in S : d < c}) = k - 1]

(* A slip: the objects' numbers for the ids they stand for.                 *)
GroupsUncorrelated(M) ==
    LET order == InOrder(Range(Class))
    IN  [k \in DOMAIN order |-> {j \in 0..(Size - 1) : M[j] = order[k]}]

(* P2A: the classes in the order of their ids, as ids of the first file.    *)
(* An object beyond p1 * p2 has whatever class the array M held, and one    *)
(* beyond the first file gets the id 0 by operator[].                       *)
GroupsOf(M) ==
    LET Ids(c) == {IF j \in DOMAIN done[1].correlate THEN done[1].correlate[j] ELSE 0 :
                      j \in {k \in 0..(Size - 1) : M[k] = c}}
        order == InOrder(Range(Class))
    IN  [k \in DOMAIN order |-> Ids(order[k])]

(* JoinName: the names of the first size records of each file, once each.   *)
(* There are class_nb of them in a file.                                    *)
NamesReadable == \A k \in DOMAIN done : Size <= done[k].class_nb

JoinNames ==
    [i \in 1..Size |-> [k \in DOMAIN dirs |-> i]]

Group ==
    /\ stage = "group"
    /\ \E M \in [0..(Size - 1) -> 0..Size] :
          /\ \A j \in (0..(Size - 1)) \cap DOMAIN Class : M[j] = Class[j]
          /\ IF NamesReadable /\ Size <= Len(GroupsOf(M))
             THEN /\ groups' = [n \in Range(JoinNames) |-> GroupsOf(M)[n[1]]]
                  /\ stage' = "done"
             ELSE stage' = "fault" /\ UNCHANGED groups
    /\ UNCHANGED <<lmdbVars, dirs, done, ids, clean>>

FrontNext == Prologue \/ Get \/ GetFails \/ Epilogue \/ Unwind \/ Parse \/ Group

FrontSpec == FrontInit /\ [][FrontNext]_frontVars

-----------------------------------------------------------------------------
(* However the extraction goes, and whichever call throws, the rules of the *)
(* C library are kept, and nothing it allocated is left when the function   *)
(* has been left.                                                           *)
HandlesReleased ==
    /\ ~misused
    /\ stage \in {"parse", "group", "done", "fault", "thrown"} =>
          "live" \notin {env, txn, cursor} /\ pointer = {}

(* On zeroed memory the partition made from a file that lists the objects   *)
(* 0..n-1 once each puts two objects together exactly when an attribute     *)
(* value lists both, whatever the order of the ids in the file; and making  *)
(* it never fails on such a file.                                           *)
ListsAll(d) ==
    LET listed == FlattenSeq(d)
    IN  IsInjective(listed) /\ Range(listed) = 0..(Len(listed) - 1)

PartitionByValue ==
    clean =>
        /\ \A k \in DOMAIN done : ListsAll(dirs[k]) =>
              \A i, j \in DOMAIN done[k].class :
                 done[k].class[i] = done[k].class[j]
                     <=> \E v \in DOMAIN dirs[k] : {i, j} \subseteq Range(dirs[k][v])
        /\ stage = "fault" /\ Len(done) < Len(dirs) => ~ListsAll(Dir)

(* One id per attribute value, the ids 0, 1, ... in any order.              *)
OneEach(d) ==
    /\ \A k \in DOMAIN d : Len(d[k]) = 1
    /\ {d[k][1] : k \in DOMAIN d} = 0..(Len(d) - 1)

(* The ids the k-th attribute value of a directory lists.                   *)
Listed(d, k) == Range(d[k])

(* One directory: on zeroed memory, when each attribute value has one id of *)
(* a file that numbers its objects from 0, the groups are the file's and no *)
(* vector is read past its end; and a constructor that does get through     *)
(* gives a name no ids but its own when no id is listed twice.              *)
SingleGroups ==
    Len(dirs) = 1 /\ clean =>
        /\ stage = "done" /\ IsInjective(FlattenSeq(dirs[1])) =>
              \A n \in DOMAIN groups : groups[n] = Listed(dirs[1], n[1])
        /\ OneEach(dirs[1]) => stage # "fault"

=============================================================================
