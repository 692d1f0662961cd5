------------------------------- MODULE Loader -------------------------------
(***************************************************************************)
(* Dataset (dataset.h) and Table (table.h): a directory is read, every csv  *)
(* file in it becomes a Table, and the Dataset's destructor frees them.     *)
(*                                                                         *)
(* A Table reads its file twice.  The first pass counts the words and tells *)
(* from the first two whether there are a header and a schema line; the     *)
(* number of rows follows.  The second pass parses the rows into the array  *)
(* data_tuples of that many pointers.  The file may be cut short by someone *)
(* else between the two.                                                    *)
(*                                                                         *)
(* A file is a sequence of words (operator>> reads words, not lines), with  *)
(* or without white space after the last one: after white space the stream  *)
(* is still good and one empty word more is read.  A word is a list of      *)
(* numbers ("numeric"), a list of numbers with something after it           *)
(* ("mixed"), which parses as the numbers before it, or something else      *)
(* ("text"); `width' counts the numbers and `class' is the last of them.    *)
(***************************************************************************)
EXTENDS Integers, Sequences, FiniteSets

CONSTANTS
    Words,                  (* the words of the files                       *)
    Directories,            (* [opened, entries], entries of [csv, file]    *)
    Word                    (* 2 ^ (width of unsigned int)                  *)

ASSUME WordAssumption == Word \in Nat \ {0}

Kinds == {"numeric", "mixed", "text"}

ASSUME WordsAssumption == Words \subseteq [kind : Kinds, width : Nat, class : Nat]

Files == [words : Seq(Words), tail : BOOLEAN, missing : BOOLEAN]

ASSUME DirectoriesAssumption ==
    Directories \subseteq [opened : BOOLEAN, entries : Seq([csv : BOOLEAN, file : Files])]

(* An unsigned int can count the words of a file and the empty one after.   *)
ASSUME FilesFit ==
    \A d \in Directories : \A i \in DOMAIN d.entries :
        Len(d.entries[i].file.words) + 1 < Word

Empty == [kind |-> "text", width |-> 0, class |-> 0]
NoFile == [words |-> << >>, tail |-> FALSE, missing |-> TRUE]

Numeric(w) == w.kind = "numeric"
Parses(w)  == w.kind \in {"numeric", "mixed"}
Classes    == {w.class : w \in Words}

VARIABLES
    dir,                    (* whether it opened; the entries of readdir    *)
    at,                     (* how many of them have been taken             *)
    file,                   (* the file being read                          *)
    cut,                    (* history: it was cut between the passes       *)
    lines,
    obs,
    last_cs,
    classes,                (* class values met                             *)
    table,                  (* the Table under construction                 *)
    tables,                 (* data_tables                                  *)
    pc

vars == <<dir, at, file, cut, lines, obs, last_cs, classes, table, tables, pc>>

(* rows: the entries of data_tuples that are set.                           *)
NewTable(f) ==
    [file |-> f, has_header |-> TRUE, has_schema |-> TRUE, row_size |-> 0,
     col_size |-> 0, rows |-> << >>, classes_num |-> 0, cut |-> FALSE]

Init ==
    /\ dir \in Directories
    /\ at = 0
    /\ file = NoFile
    /\ cut = FALSE
    /\ lines = 0 /\ obs = 0 /\ last_cs = 0
    /\ classes = {}
    /\ table = NewTable(NoFile)
    /\ tables = << >>
    /\ pc = "readdir"

-----------------------------------------------------------------------------
(* How many words a pass over f reads before the stream is no longer good.  *)
Reads(f) ==
    IF f.missing THEN 0
    ELSE IF f.words = << >> THEN 1
    ELSE Len(f.words) + (IF f.tail THEN 1 ELSE 0)

WordAt(f, i) == IF i <= Len(f.words) THEN f.words[i] ELSE Empty

Flag(b) == IF b THEN 1 ELSE 0

(* The words before the first row.                                          *)
Skipped(t) == Flag(t.has_header) + Flag(t.has_schema)

(* readdir on the null pointer of a failed opendir is undefined behaviour.  *)
ReadNull ==
    /\ pc = "readdir"
    /\ ~dir.opened
    /\ pc' = "fault"
    /\ UNCHANGED <<dir, at, file, cut, lines, obs, last_cs, classes, table, tables>>

PassEntry ==
    /\ pc = "readdir"
    /\ dir.opened
    /\ at < Len(dir.entries)
    /\ ~dir.entries[at + 1].csv
    /\ at' = at + 1
    /\ UNCHANGED <<dir, file, cut, lines, obs, last_cs, classes, table, tables, pc>>

(* new Table(...): the constructor opens the file, which may be gone.       *)
OpenTable ==
    /\ pc = "readdir"
    /\ dir.opened
    /\ at < Len(dir.entries)
    /\ dir.entries[at + 1].csv
    /\ file' = dir.entries[at + 1].file
    /\ table' = NewTable(dir.entries[at + 1].file)
    /\ at' = at + 1
    /\ cut' = FALSE
    /\ lines' = 0 /\ obs' = 0 /\ last_cs' = 0
    /\ classes' = {}
    /\ pc' = "count"
    /\ UNCHANGED <<dir, tables>>

-----------------------------------------------------------------------------
CountWord ==
    /\ pc = "count"
    /\ lines < Reads(file)
    /\ LET w == WordAt(file, lines + 1)
       IN  table' = [table EXCEPT
               !.has_header = @ /\ ~(lines = 0 /\ Numeric(w)),
               !.has_schema = @ /\ ~(lines = 1 /\ Numeric(w))]
    /\ lines' = lines + 1
    /\ UNCHANGED <<dir, at, file, cut, obs, last_cs, classes, tables, pc>>

(* A slip: the empty word at the end taken for a row.                       *)
EndCountTail ==
    /\ pc = "count"
    /\ lines = Reads(file)
    /\ table' = [table EXCEPT !.row_size = (lines - Skipped(table)) % Word]
    /\ lines' = 0
    /\ pc' = "load"
    /\ UNCHANGED <<dir, at, file, cut, obs, last_cs, classes, tables>>

(* row_size is unsigned and wraps for a file with too few words.            *)
EndCount ==
    /\ pc = "count"
    /\ lines = Reads(file)
    /\ table' = [table EXCEPT !.row_size = (lines - Skipped(table) - 1) % Word]
    /\ lines' = 0
    /\ pc' = "load"
    /\ UNCHANGED <<dir, at, file, cut, obs, last_cs, classes, tables>>

(* Someone else takes the last word away, whole, between the passes.        *)
CutFile ==
    /\ pc = "load"
    /\ lines = 0 /\ obs = 0
    /\ ~cut
    /\ file.words # << >>
    /\ file' = [file EXCEPT !.words = SubSeq(@, 1, Len(@) - 1)]
    /\ cut' = TRUE
    /\ UNCHANGED <<dir, at, lines, obs, last_cs, classes, table, tables, pc>>

-----------------------------------------------------------------------------
SkipWord ==
    /\ pc = "load"
    /\ lines < Reads(file) /\ obs < table.row_size
    /\ lines < Skipped(table)
    /\ lines' = lines + 1
    /\ UNCHANGED <<dir, at, file, cut, obs, last_cs, classes, table, tables, pc>>

(* A slip: the next row takes the entry.                                    *)
UnparsedSameEntry ==
    /\ pc = "load"
    /\ lines < Reads(file) /\ obs < table.row_size
    /\ lines >= Skipped(table)
    /\ ~Parses(WordAt(file, lines + 1))
    /\ last_cs' = 0
    /\ lines' = lines + 1
    /\ UNCHANGED <<dir, at, file, cut, obs, classes, table, tables, pc>>

(* A word that does not start with a number: its entry stays unset.         *)
Unparsed ==
    /\ pc = "load"
    /\ lines < Reads(file) /\ obs < table.row_size
    /\ lines >= Skipped(table)
    /\ ~Parses(WordAt(file, lines + 1))
    /\ last_cs' = 0
    /\ obs' = obs + 1
    /\ lines' = lines + 1
    /\ UNCHANGED <<dir, at, file, cut, classes, table, tables, pc>>

(* A row: the first one sets the width and allocates the array.  The width  *)
(* compared is the one of the row before, so a row of another width is kept *)
(* (cut to the first width, or filled from past its end) and the next one   *)
(* is refused: its entry stays unset.  A row of another width has whatever  *)
(* class value stands in the last column.                                   *)
LoadRow ==
    /\ pc = "load"
    /\ lines < Reads(file) /\ obs < table.row_size
    /\ lines >= Skipped(table)
    /\ LET w    == WordAt(file, lines + 1)
           cs   == IF table.col_size = 0 THEN w.width ELSE table.col_size
           last == IF table.col_size = 0 THEN w.width ELSE last_cs
       IN  /\ Parses(w)
           /\ \/ /\ cs = last
                 /\ table' = [table EXCEPT !.col_size = cs,
                                  !.rows = Append(@, [at |-> obs, word |-> w])]
                 /\ \E c \in Classes :
                       /\ w.width = cs => c = w.class
                       /\ classes' = classes \cup {c}
              \/ cs # last /\ UNCHANGED <<table, classes>>
           /\ last_cs' = w.width
    /\ obs' = obs + 1
    /\ lines' = lines + 1
    /\ UNCHANGED <<dir, at, file, cut, tables, pc>>

EndLoad ==
    /\ pc = "load"
    /\ lines = Reads(file) \/ obs >= table.row_size
    /\ tables' = Append(tables, [table EXCEPT !.classes_num = Cardinality(classes),
                                              !.cut = cut])
    /\ pc' = "readdir"
    /\ UNCHANGED <<dir, at, file, cut, lines, obs, last_cs, classes, table>>

-----------------------------------------------------------------------------
(* ~Dataset, when the caller lets go of it.                                 *)
Release ==
    /\ pc = "readdir"
    /\ dir.opened
    /\ at = Len(dir.entries)
    /\ pc' = "free"
    /\ UNCHANGED <<dir, at, file, cut, lines, obs, last_cs, classes, table, tables>>

(* Every entry below row_size has been set.                                 *)
Whole(t) == {t.rows[i].at : i \in DOMAIN t.rows} = 0..(t.row_size - 1)

(* ~Table: delete[] of every entry below row_size; reading one that was     *)
(* never set, or the array that was never allocated, is undefined.          *)
FreeTable ==
    /\ pc = "free"
    /\ tables # << >>
    /\ IF Whole(Head(tables))
       THEN /\ tables' = Tail(tables)
            /\ pc' = IF tables' = << >> THEN "done" ELSE "free"
       ELSE /\ pc' = "fault"
            /\ UNCHANGED tables
    /\ UNCHANGED <<dir, at, file, cut, lines, obs, last_cs, classes, table>>

NothingToFree ==
    /\ pc = "free"
    /\ tables = << >>
    /\ pc' = "done"
    /\ UNCHANGED <<dir, at, file, cut, lines, obs, last_cs, classes, table, tables>>

Next ==
    \/ ReadNull \/ PassEntry \/ OpenTable
    \/ CountWord \/ EndCount
    \/ SkipWord \/ Unparsed \/ LoadRow \/ EndLoad
    \/ Release \/ FreeTable \/ NothingToFree
    \/ CutFile

Spec == Init /\ [][Next]_vars

-----------------------------------------------------------------------------
(* A file as the loader wants it: a header line, or a header and a schema   *)
(* line, or neither and then two rows at least; rows of numbers, at least   *)
(* one, all of one width; an end of line after the last.                    *)
WellFormed(f, head) ==
    /\ ~f.missing /\ f.tail
    /\ Len(f.words) > IF head = 0 THEN 1 ELSE head
    /\ \A i \in 1..head : ~Parses(f.words[i])
    /\ \A i \in (head + 1)..Len(f.words) :
          Numeric(f.words[i]) /\ f.words[i].width = f.words[head + 1].width

Rows(f, head) == SubSeq(f.words, head + 1, Len(f.words))

(* The table of such a file has it row for row, with its class values       *)
(* counted, unless the file was cut meanwhile.                              *)
Faithful(t) ==
    \A head \in 0..2 :
        LET r == Rows(t.file, head)
        IN  WellFormed(t.file, head) /\ ~t.cut =>
               /\ t.row_size = Len(r)
               /\ t.rows = [i \in 1..Len(r) |-> [at |-> i - 1, word |-> r[i]]]
               /\ t.classes_num = Cardinality({r[i].class : i \in DOMAIN r})

(* Well-formed files are loaded as they are written, unless cut, and a      *)
(* directory of such files is freed without a fault.                        *)
LoadedAsWritten ==
    /\ \A k \in DOMAIN tables : Faithful(tables[k])
    /\ pc = "fault" =>
          \/ ~dir.opened
          \/ Head(tables).cut
          \/ \A head \in 0..2 : ~WellFormed(Head(tables).file, head)

(* The entry i of the array, when it is set, holds the i-th word after the  *)
(* header lines.                                                            *)
InPlace(t) ==
    \A i \in DOMAIN t.rows :
        /\ t.rows[i].at < t.row_size
        /\ t.rows[i].word = WordAt(t.file, Skipped(t) + t.rows[i].at + 1)

(* Whatever the files, also when one loses its last word between the two    *)
(* passes, these agree on where a row is.                                   *)
RowsInPlace == \A k \in DOMAIN tables : InPlace(tables[k])

=============================================================================
