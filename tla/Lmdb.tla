-------------------------------- MODULE Lmdb --------------------------------
(***************************************************************************)
(* The resource classes of lmdb++.h as postPartition.h uses them: env, txn  *)
(* (read-only), dbi and cursor, each wrapping an object of the C library.   *)
(*                                                                         *)
(* A wrapper holds a pointer or null.  Its destructor releases what it      *)
(* points at, through close() or abort(), which set the pointer to null; a  *)
(* call that fails throws (error::raise) and leaves the C objects as they   *)
(* were.  The C side is external and modelled by its rules (lmdb.h): the    *)
(* environment is closed after everything opened in it, a freed object is   *)
(* not used again, a cursor of a read-only transaction outlives it until it *)
(* is closed.  Breaking one of them is undefined behaviour, noted in        *)
(* `misused'.                                                               *)
(***************************************************************************)
VARIABLES
    env, txn, cursor,       (* the C objects                                *)
    pointer,                (* which wrappers hold a pointer                *)
    misused                 (* a rule of the C library has been broken      *)

lmdbVars == <<env, txn, cursor, pointer, misused>>

CStates == {"none", "live", "freed"}

LmdbInit ==
    /\ env = "none" /\ txn = "none" /\ cursor = "none"
    /\ pointer = {}
    /\ misused = FALSE

Using(objects) == misused' = (misused \/ \E o \in objects : o # "live")

(* A call that returned an error: nothing was made, an exception is thrown. *)
Raise == UNCHANGED lmdbVars

-----------------------------------------------------------------------------
(* env::create, for a new scope: the wrappers of the one before are gone.   *)
EnvCreate ==
    /\ misused' = (misused \/ "live" \in {env, txn, cursor})
    /\ env' = "live" /\ txn' = "none" /\ cursor' = "none"
    /\ pointer' = {"env"}

(* env::set_mapsize, env::open                                              *)
EnvUse == Using({env}) /\ UNCHANGED <<env, txn, cursor, pointer>>

(* dbi::open: a dbi is a number, and its destructor does nothing.           *)
DbiOpen == Using({env, txn}) /\ UNCHANGED <<env, txn, cursor, pointer>>

(* txn::begin                                                               *)
TxnBegin ==
    /\ Using({env})
    /\ txn' = "live"
    /\ pointer' = pointer \cup {"txn"}
    /\ UNCHANGED <<env, cursor>>

(* cursor::open                                                             *)
CursorOpen ==
    /\ Using({env, txn})
    /\ cursor' = "live"
    /\ pointer' = pointer \cup {"cursor"}
    /\ UNCHANGED <<env, txn>>

(* cursor::get                                                              *)
CursorGet ==
    Using({env, txn, cursor}) /\ UNCHANGED <<env, txn, cursor, pointer>>

-----------------------------------------------------------------------------
(* A slip: the pointer not reset, for the destructor to close again.        *)
CursorCloseKeeps ==
    /\ IF "cursor" \in pointer
       THEN cursor' = "freed" /\ Using({env, cursor})
       ELSE UNCHANGED <<cursor, misused>>
    /\ UNCHANGED <<env, txn, pointer>>

(* cursor::close, without effect on a null pointer.                         *)
CursorClose ==
    /\ IF "cursor" \in pointer
       THEN /\ cursor' = "freed"
            /\ pointer' = pointer \ {"cursor"}
            /\ Using({env, cursor})
       ELSE UNCHANGED <<cursor, pointer, misused>>
    /\ UNCHANGED <<env, txn>>

(* txn::abort does not look at the pointer first.                           *)
TxnAbort ==
    /\ txn' = "freed"
    /\ pointer' = pointer \ {"txn"}
    /\ Using({env, txn})
    /\ UNCHANGED <<env, cursor>>

(* ~txn                                                                     *)
TxnDestroy == IF "txn" \in pointer THEN TxnAbort ELSE UNCHANGED lmdbVars

(* ~env, by env::close                                                      *)
EnvDestroy ==
    /\ IF "env" \in pointer
       THEN /\ env' = "freed"
            /\ pointer' = pointer \ {"env"}
            /\ misused' = (misused \/ env # "live" \/ "live" \in {txn, cursor})
       ELSE UNCHANGED <<env, pointer, misused>>
    /\ UNCHANGED <<txn, cursor>>

=============================================================================
