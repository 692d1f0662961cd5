----------------------------- MODULE InputProofs -----------------------------
(***************************************************************************)
(* Theorems about the two components that read what they are given.  About  *)
(* Loader, for any directories whose files' words an unsigned int can       *)
(* count: each row is where the two passes agree that it is, and            *)
(* well-formed files are loaded as written and freed.  About PostPartition, *)
(* for any requests: whatever throws, the C objects of LMDB are released;   *)
(* on zeroed memory a directory becomes the partition by its values; and    *)
(* the groups of a single directory are its lists.                          *)
(*                                                                         *)
(* A run of the front end joins the lists of a directory (Gathers says what *)
(* is known of the result, whatever the lists), labels each object by the   *)
(* first list with its id (LabelByValue) and names it by the first object   *)
(* with its label (NamesClean).  Made says what a finished run has made of  *)
(* its directory, and FrontInv carries it from the runs to the groups.      *)
(***************************************************************************)
EXTENDS Loader, PostPartition, FiniteSetTheorems, TLAPS

-----------------------------------------------------------------------------
(* Loader                                                                   *)
Row == [at : Nat, word : Words]

Table ==
    [file : Files, has_header : BOOLEAN, has_schema : BOOLEAN, row_size : Nat,
     col_size : Nat, rows : Seq(Row), classes_num : Nat, cut : BOOLEAN]

TypeInv ==
    /\ dir \in Directories
    /\ at \in 0..Len(dir.entries)
    /\ file \in Files
    /\ cut \in BOOLEAN
    /\ lines \in Nat /\ obs \in Nat /\ last_cs \in Nat
    /\ IsFiniteSet(classes)
    /\ table \in Table
    /\ tables \in Seq(Table)

(* What is left of the file is the beginning of what the table was opened   *)
(* on, all of it unless it was cut.                                         *)
FileInv ==
    /\ pc \in {"count", "load"} => Len(table.file.words) + 1 < Word
    /\ file.missing = table.file.missing
    /\ Len(file.words) <= Len(table.file.words)
    /\ \A i \in 1..Len(file.words) : file.words[i] = table.file.words[i]
    /\ ~cut => file = table.file

(* The flags after the first n words of the file have been looked at.       *)
Flagged(t, n) ==
    /\ t.has_header <=> ~(n >= 1 /\ Numeric(WordAt(t.file, 1)))
    /\ t.has_schema <=> ~(n >= 2 /\ Numeric(WordAt(t.file, 2)))

CountInv ==
    pc = "count" =>
        /\ ~cut
        /\ lines <= Reads(file)
        /\ Flagged(table, lines)
        /\ obs = 0 /\ last_cs = 0 /\ classes = {}
        /\ table.col_size = 0 /\ table.rows = << >>

(* The outcome of the first pass.                                           *)
Counted(t) ==
    /\ Flagged(t, Reads(t.file))
    /\ t.row_size = (Reads(t.file) - Skipped(t) - 1) % Word

(* The rows of a well-formed file that have been loaded are the first obs.  *)
Loaded(head) ==
    LET r == Rows(table.file, head)
    IN  /\ Len(table.rows) = obs
        /\ \A i \in 1..obs :
              table.rows[i] = [at |-> i - 1, word |-> r[i]] /\ r[i].class \in classes
        /\ \A c \in classes : \E i \in 1..obs : c = r[i].class
        /\ last_cs = table.col_size
        /\ table.col_size = IF obs = 0 THEN 0 ELSE r[1].width

LoadInv ==
    pc = "load" =>
        /\ Counted(table)
        /\ InPlace(table)
        /\ obs <= table.row_size
        /\ lines = Skipped(table) + obs \/ (lines < Skipped(table) /\ obs = 0)
        /\ \A head \in 0..2 : WellFormed(table.file, head) /\ ~cut => Loaded(head)

TablesInv == \A k \in DOMAIN tables : InPlace(tables[k]) /\ Faithful(tables[k])

FaultInv ==
    /\ pc \in {"free", "done"} => dir.opened
    /\ pc = "fault" /\ dir.opened =>
          tables # << >> /\ ~Whole(Head(tables))

IInv == TypeInv /\ FileInv /\ CountInv /\ LoadInv /\ TablesInv /\ FaultInv


-----------------------------------------------------------------------------
(* Elementary facts, in the form the proofs need them.                      *)
LEMMA SmallRemainder ==
    ASSUME NEW W \in Nat, NEW k \in Nat, k < W PROVE k % W = k
OBVIOUS

LEMMA ElementIs ==
    ASSUME NEW S, NEW s \in Seq(S), NEW i \in 1..Len(s) PROVE s[i] \in S
OBVIOUS

(* What is read of a file, and which words of it parse.                     *)
LEMMA ReadsIs ==
    ASSUME NEW f \in Files
    PROVE  /\ Reads(f) \in Nat
           /\ Len(f.words) \in Nat
           /\ \A i \in Nat : WordAt(f, i + 1) \in Words \cup {Empty}
           /\ \A i \in Nat : Parses(WordAt(f, i + 1)) =>
                 i + 1 \in 1..Len(f.words) /\ WordAt(f, i + 1) = f.words[i + 1]
BY DEF Files, Reads, WordAt, Parses, Empty

LEMMA SkippedIs == ASSUME NEW t \in Table PROVE Skipped(t) \in 0..2
BY DEF Table, Skipped, Flag

(* A word in place in what is left of a file was in place in the whole.     *)
LEMMA SameWord ==
    ASSUME IInv, NEW i \in Nat, Parses(WordAt(file, i + 1))
    PROVE  /\ WordAt(file, i + 1) \in Words
           /\ WordAt(file, i + 1) = WordAt(table.file, i + 1)
           /\ i + 1 <= Len(table.file.words)
           /\ i + 1 <= Len(file.words)
<1>1. file \in Files /\ table.file \in Files
  BY DEF IInv, TypeInv, Table
<1>2. Len(file.words) \in Nat /\ Len(table.file.words) \in Nat
  BY <1>1 DEF Files
<1>3. i + 1 \in 1..Len(file.words) /\ WordAt(file, i + 1) = file.words[i + 1]
  BY <1>1, ReadsIs
<1>4. file.words[i + 1] = table.file.words[i + 1] /\ i + 1 <= Len(table.file.words)
  BY <1>2, <1>3 DEF IInv, FileInv
<1>5. file.words[i + 1] \in Words
  BY <1>1, <1>3 DEF Files
<1> QED
  BY <1>2, <1>3, <1>4, <1>5 DEF WordAt

(* The first pass over a well-formed file finds its header lines and its    *)
(* rows.                                                                    *)
LEMMA WellFormedCounted ==
    ASSUME NEW t \in Table, NEW head \in 0..2, WellFormed(t.file, head),
           Counted(t), Len(t.file.words) + 1 < Word
    PROVE  /\ Skipped(t) = head
           /\ t.row_size = Len(t.file.words) - head
           /\ t.row_size \in Nat \ {0}
           /\ Len(Rows(t.file, head)) = t.row_size
           /\ DOMAIN Rows(t.file, head) = 1..t.row_size
           /\ Reads(t.file) = Len(t.file.words) + 1
           /\ \A i \in 1..t.row_size :
                 /\ Rows(t.file, head)[i] = WordAt(t.file, head + i)
                 /\ Numeric(WordAt(t.file, head + i))
                 /\ WordAt(t.file, head + i).width = Rows(t.file, head)[1].width
<1> DEFINE s == t.file.words
           n == Len(s)
<1>1. s \in Seq(Words) /\ n \in Nat /\ t.file \in Files
  BY DEF Table, Files
<1>2. /\ ~t.file.missing /\ t.file.tail
      /\ n > head
      /\ head = 0 => n > 1
      /\ \A i \in 1..head : ~Parses(s[i])
      /\ \A i \in (head + 1)..n : Numeric(s[i]) /\ s[i].width = s[head + 1].width
  BY <1>1 DEF WellFormed
<1>3. Reads(t.file) = n + 1
  BY <1>1, <1>2 DEF Reads
<1>4. \A i \in 1..n : WordAt(t.file, i) = s[i]
  BY <1>1 DEF WordAt
<1>5. /\ t.has_header <=> ~Numeric(WordAt(t.file, 1))
      /\ t.has_schema <=> ~(n >= 1 /\ Numeric(WordAt(t.file, 2)))
  BY <1>1, <1>2, <1>3 DEF Counted, Flagged
<1>6. Skipped(t) = head
  <2>1. CASE head = 0
    <3>1. Numeric(s[1]) /\ Numeric(s[2])
      BY <1>1, <1>2, <2>1
    <3>2. ~t.has_header /\ ~t.has_schema
      BY <1>1, <1>2, <1>4, <1>5, <2>1, <3>1
    <3> QED
      BY <2>1, <3>2 DEF Skipped, Flag
  <2>2. CASE head = 1
    <3>1. ~Numeric(s[1])
      BY <1>1, <1>2, <2>2 DEF Numeric, Parses
    <3>2. Numeric(s[2])
      BY <1>1, <1>2, <2>2
    <3>3. t.has_header /\ ~t.has_schema
      BY <1>1, <1>2, <1>4, <1>5, <2>2, <3>1, <3>2
    <3> QED
      BY <2>2, <3>3 DEF Skipped, Flag
  <2>3. CASE head = 2
    <3>1. ~Numeric(s[1]) /\ ~Numeric(s[2])
      BY <1>1, <1>2, <2>3 DEF Numeric, Parses
    <3>2. t.has_header /\ t.has_schema
      BY <1>1, <1>2, <1>4, <1>5, <2>3, <3>1
    <3> QED
      BY <2>3, <3>2 DEF Skipped, Flag
  <2> QED
    BY <2>1, <2>2, <2>3
<1>7. t.row_size = n - head
  <2> DEFINE k == n - head
  <2> HIDE DEF n
  <2>1. k \in Nat /\ k < Word /\ n + 1 - head - 1 = k
    <3>1. n + 1 < Word
      BY DEF n
    <3> QED
      BY <1>1, <1>2, <3>1, WordAssumption
  <2>2. t.row_size = k % Word
    BY <1>1, <1>3, <1>6, <2>1 DEF Counted
  <2> HIDE DEF k
  <2>3. k % Word = k
    BY <2>1, WordAssumption, SmallRemainder
  <2> QED
    BY <2>2, <2>3 DEF k
<1>8. /\ Len(Rows(t.file, head)) = n - head
      /\ \A i \in 1..(n - head) : Rows(t.file, head)[i] = s[head + i]
  BY <1>1, <1>2 DEF Rows
<1>9. Rows(t.file, head) \in Seq(Words)
  BY <1>1, <1>2 DEF Rows
<1>10. ASSUME NEW i \in 1..t.row_size
       PROVE  /\ Rows(t.file, head)[i] = WordAt(t.file, head + i)
              /\ Numeric(WordAt(t.file, head + i))
              /\ WordAt(t.file, head + i).width = Rows(t.file, head)[1].width
  <2>1. head + i \in (head + 1)..n /\ head + i \in 1..n /\ 1 \in 1..(n - head)
    BY <1>1, <1>2, <1>7
  <2>2. WordAt(t.file, head + i) = s[head + i] /\ Rows(t.file, head)[1] = s[head + 1]
    BY <1>4, <1>8, <2>1
  <2>3. Rows(t.file, head)[i] = s[head + i]
    BY <1>7, <1>8
  <2> QED
    BY <1>2, <2>1, <2>2, <2>3
<1> QED
  BY <1>1, <1>2, <1>3, <1>6, <1>7, <1>8, <1>9, <1>10

-----------------------------------------------------------------------------
LEMMA NewTableIs ==
    ASSUME NEW f \in Files
    PROVE  NewTable(f) \in Table /\ NewTable(f).file = f
BY DEF NewTable, Table, Row

LEMMA InitInv == Init => IInv
<1> SUFFICES ASSUME Init PROVE IInv
  OBVIOUS
<1>1. NoFile \in Files /\ Len(NoFile.words) = 0
  BY DEF NoFile, Files
<1>2. dir.entries \in Seq([csv : BOOLEAN, file : Files])
  BY DirectoriesAssumption DEF Init
<1>3. TypeInv
  <2>1. tables \in Seq(Table)
    BY DEF Init
  <2>2. table \in Table
    BY <1>1, NewTableIs DEF Init
  <2>3. at \in 0..Len(dir.entries)
    BY <1>2 DEF Init
  <2>4. IsFiniteSet(classes)
    BY FS_EmptySet DEF Init
  <2> QED
    BY <1>1, <2>1, <2>2, <2>3, <2>4 DEF Init, TypeInv
<1>4. FileInv
  BY <1>1, NewTableIs DEF Init, FileInv
<1>5. CountInv /\ LoadInv /\ TablesInv /\ FaultInv
  BY DEF Init, CountInv, LoadInv, TablesInv, FaultInv
<1> QED
  BY <1>3, <1>4, <1>5 DEF IInv

-----------------------------------------------------------------------------
(* The entry readdir returns next is one of a directory assumed.            *)
LEMMA EntryIs ==
    ASSUME IInv, at < Len(dir.entries)
    PROVE  /\ at + 1 \in 1..Len(dir.entries)
           /\ dir.entries[at + 1].file \in Files
           /\ Len(dir.entries[at + 1].file.words) + 1 < Word
<1>1. /\ dir \in Directories
      /\ at \in 0..Len(dir.entries)
      /\ dir.entries \in Seq([csv : BOOLEAN, file : Files])
  BY DirectoriesAssumption DEF IInv, TypeInv
<1>2. at + 1 \in 1..Len(dir.entries) /\ at + 1 \in DOMAIN dir.entries
  BY <1>1
<1>3. dir.entries[at + 1] \in [csv : BOOLEAN, file : Files]
  BY <1>1, <1>2, ElementIs
<1> QED
  BY <1>1, <1>2, <1>3, FilesFit

LEMMA ReadNullInv == ASSUME IInv, ReadNull PROVE IInv'
BY DEF ReadNull, IInv, TypeInv, FileInv, CountInv, LoadInv, TablesInv, FaultInv

LEMMA PassEntryInv == ASSUME IInv, PassEntry PROVE IInv'
<1>1. TypeInv'
  BY EntryIs DEF PassEntry, IInv, TypeInv
<1>2. FileInv' /\ CountInv' /\ LoadInv' /\ TablesInv' /\ FaultInv'
  BY DEF PassEntry, IInv, FileInv, CountInv, LoadInv, TablesInv, FaultInv
<1> QED
  BY <1>1, <1>2 DEF IInv

LEMMA OpenTableInv == ASSUME IInv, OpenTable PROVE IInv'
<1> DEFINE f == dir.entries[at + 1].file
<1>1. f \in Files /\ Len(f.words) + 1 < Word /\ at + 1 \in 0..Len(dir.entries)
  BY EntryIs DEF OpenTable
<1>2. /\ file' = f /\ table' = NewTable(f) /\ table'.file = f
      /\ table' \in Table
  BY <1>1, NewTableIs DEF OpenTable
<1>3. TypeInv'
  BY <1>1, <1>2, FS_EmptySet DEF OpenTable, IInv, TypeInv
<1>4. FileInv'
  BY <1>1, <1>2 DEF OpenTable, FileInv, Files
<1>5. CountInv'
  <2>1. 0 <= Reads(f)
    BY <1>1, ReadsIs
  <2>2. Flagged(NewTable(f), 0)
    BY DEF Flagged, NewTable
  <2>3. NewTable(f).col_size = 0 /\ NewTable(f).rows = << >>
    BY DEF NewTable
  <2> QED
    BY <1>2, <2>1, <2>2, <2>3 DEF OpenTable, CountInv
<1>6. LoadInv' /\ TablesInv' /\ FaultInv'
  BY DEF OpenTable, IInv, LoadInv, TablesInv, FaultInv
<1> QED
  BY <1>3, <1>4, <1>5, <1>6 DEF IInv

-----------------------------------------------------------------------------
LEMMA CountWordInv == ASSUME IInv, CountWord PROVE IInv'
<1> DEFINE w == WordAt(file, lines + 1)
<1>1. pc = "count" /\ lines \in Nat /\ file = table.file /\ table \in Table /\ file \in Files
  BY DEF CountWord, IInv, TypeInv, CountInv, FileInv
<1>2. /\ table' = [table EXCEPT
               !.has_header = @ /\ ~(lines = 0 /\ Numeric(w)),
               !.has_schema = @ /\ ~(lines = 1 /\ Numeric(w))]
      /\ lines < Reads(file) /\ lines' = lines + 1
      /\ UNCHANGED <<dir, at, file, cut, obs, last_cs, classes, tables, pc>>
  BY DEF CountWord
<1>3. /\ table'.file = table.file
      /\ table'.has_header = (table.has_header /\ ~(lines = 0 /\ Numeric(w)))
      /\ table'.has_schema = (table.has_schema /\ ~(lines = 1 /\ Numeric(w)))
      /\ table'.col_size = table.col_size /\ table'.rows = table.rows
      /\ table' \in Table
  BY <1>1, <1>2 DEF Table
<1>4. TypeInv'
  BY <1>1, <1>2, <1>3 DEF IInv, TypeInv
<1>5. FileInv'
  BY <1>2, <1>3 DEF IInv, FileInv
<1>6. CountInv'
  <2>1. Reads(file) \in Nat
    BY <1>1, ReadsIs
  <2>2. /\ table.has_header <=> ~(lines >= 1 /\ Numeric(WordAt(file, 1)))
        /\ table.has_schema <=> ~(lines >= 2 /\ Numeric(WordAt(file, 2)))
    BY <1>1 DEF IInv, CountInv, Flagged
  <2>3. table'.has_header <=> ~(lines + 1 >= 1 /\ Numeric(WordAt(file, 1)))
    <3>1. CASE lines = 0
      <4>1. lines + 1 >= 1 /\ ~(lines >= 1) /\ lines + 1 = 1
        BY <3>1
      <4> QED
        BY <1>3, <2>2, <3>1, <4>1, Zenon
    <3>2. CASE lines # 0
      <4>1. lines + 1 >= 1 /\ lines >= 1
        BY <1>1, <3>2
      <4> QED
        BY <1>3, <2>2, <3>2, <4>1, Zenon
    <3> QED
      BY <3>1, <3>2
  <2>4. table'.has_schema <=> ~(lines + 1 >= 2 /\ Numeric(WordAt(file, 2)))
    <3>1. CASE lines = 1
      <4>1. lines + 1 >= 2 /\ ~(lines >= 2) /\ lines + 1 = 2
        BY <3>1
      <4> QED
        BY <1>3, <2>2, <3>1, <4>1, Zenon
    <3>2. CASE lines # 1
      <4>1. (lines + 1 >= 2) <=> (lines >= 2)
        BY <1>1, <3>2
      <4> QED
        BY <1>3, <2>2, <3>2, <4>1, Zenon
    <3> QED
      BY <3>1, <3>2
  <2>5. Flagged(table', lines')
    BY <1>1, <1>2, <1>3, <2>3, <2>4 DEF Flagged
  <2> QED
    BY <1>1, <1>2, <1>3, <2>1, <2>5 DEF IInv, CountInv
<1>7. LoadInv' /\ TablesInv' /\ FaultInv'
  BY <1>1, <1>2 DEF IInv, LoadInv, TablesInv, FaultInv
<1> QED
  BY <1>4, <1>5, <1>6, <1>7 DEF IInv

LEMMA EndCountInv == ASSUME IInv, EndCount PROVE IInv'
<1> DEFINE n == (lines - Skipped(table) - 1) % Word
<1>1. /\ pc = "count" /\ lines \in Nat /\ file = table.file
      /\ table \in Table /\ file \in Files /\ ~cut
  BY DEF EndCount, IInv, TypeInv, CountInv, FileInv
<1>2. /\ lines = Reads(file) /\ lines' = 0 /\ pc' = "load"
      /\ table' = [table EXCEPT !.row_size = n]
      /\ UNCHANGED <<dir, at, file, cut, obs, last_cs, classes, tables>>
  BY DEF EndCount
<1>3. n \in Nat
  BY <1>1, SkippedIs, WordAssumption
<1> HIDE DEF n
<1>4. /\ table' \in Table /\ table'.row_size = n /\ table'.file = table.file
      /\ table'.has_header = table.has_header /\ table'.has_schema = table.has_schema
      /\ table'.rows = table.rows /\ table'.col_size = table.col_size
  BY <1>1, <1>2, <1>3 DEF Table
<1>5. TypeInv'
  BY <1>1, <1>2, <1>4 DEF IInv, TypeInv
<1>6. FileInv'
  BY <1>1, <1>2, <1>4 DEF IInv, FileInv
<1>7. LoadInv'
  <2>1. Skipped(table') = Skipped(table)
    BY <1>4 DEF Skipped
  <2>2. Counted(table')
    BY <1>1, <1>2, <1>4, <2>1 DEF Counted, Flagged, IInv, CountInv, n
  <2>3. /\ obs' = 0 /\ table'.rows = << >> /\ classes' = {}
        /\ last_cs' = 0 /\ table'.col_size = 0
    BY <1>1, <1>2, <1>4 DEF IInv, CountInv
  <2>4. InPlace(table')
    BY <2>3 DEF InPlace
  <2>5. lines' = Skipped(table') + obs' \/ (lines' < Skipped(table') /\ obs' = 0)
    BY <1>2, <1>4, <2>3, SkippedIs
  <2>6. ASSUME NEW head \in 0..2 PROVE Loaded(head)'
    BY <2>3 DEF Loaded
  <2> QED
    BY <1>3, <1>4, <2>2, <2>3, <2>4, <2>5, <2>6 DEF LoadInv
<1>8. CountInv' /\ TablesInv' /\ FaultInv'
  BY <1>2 DEF IInv, CountInv, TablesInv, FaultInv
<1> QED
  BY <1>5, <1>6, <1>7, <1>8 DEF IInv

(* Cutting the file leaves the words before the last.                       *)
LEMMA CutFileInv == ASSUME IInv, CutFile PROVE IInv'
<1>1. /\ pc = "load" /\ ~cut /\ file = table.file /\ file \in Files /\ table \in Table
      /\ file.words # << >> /\ pc' = "load" /\ cut' = TRUE
      /\ file' = [file EXCEPT !.words = SubSeq(@, 1, Len(@) - 1)]
      /\ UNCHANGED <<dir, at, lines, obs, last_cs, classes, table, tables, pc>>
  BY DEF CutFile, IInv, FileInv, TypeInv
<1>2. file.words \in Seq(Words) /\ Len(file.words) \in Nat \ {0}
  BY <1>1 DEF Files
<1>3. /\ file'.words = SubSeq(file.words, 1, Len(file.words) - 1)
      /\ file'.missing = file.missing /\ file'.tail = file.tail
  BY <1>1 DEF Files
<1>4. /\ Len(file'.words) = Len(file.words) - 1
      /\ \A i \in 1..Len(file'.words) : file'.words[i] = file.words[i]
      /\ file'.words \in Seq(Words)
  BY <1>2, <1>3
<1>5. file' \in Files
  BY <1>1, <1>4 DEF Files
<1>6. TypeInv'
  BY <1>1, <1>5 DEF IInv, TypeInv
<1>7. FileInv'
  BY <1>1, <1>2, <1>3, <1>4 DEF IInv, FileInv
<1>8. CountInv' /\ LoadInv' /\ TablesInv' /\ FaultInv'
  BY <1>1 DEF IInv, CountInv, LoadInv, TablesInv, FaultInv
<1> QED
  BY <1>6, <1>7, <1>8 DEF IInv

-----------------------------------------------------------------------------
(* Where the second pass stands when it has to do with a row.               *)
LEMMA AtRow ==
    ASSUME IInv, pc = "load", lines >= Skipped(table), obs < table.row_size
    PROVE  /\ lines = Skipped(table) + obs
           /\ lines \in Nat /\ obs \in Nat /\ table \in Table
           /\ table.row_size \in Nat /\ Skipped(table) \in 0..2
           /\ obs + 1 <= table.row_size
<1>1. /\ lines \in Nat /\ obs \in Nat /\ table \in Table
      /\ table.row_size \in Nat /\ Skipped(table) \in 0..2
  BY SkippedIs DEF IInv, TypeInv, Table
<1> QED
  BY <1>1 DEF IInv, LoadInv

(* In a well-formed file that was not cut, it is a row of the file.         *)
LEMMA AtGoodRow ==
    ASSUME IInv, pc = "load", lines >= Skipped(table), obs < table.row_size,
           NEW head \in 0..2, WellFormed(table.file, head), ~cut
    PROVE  /\ Rows(table.file, head)[obs + 1] = WordAt(file, lines + 1)
           /\ Numeric(WordAt(file, lines + 1))
           /\ WordAt(file, lines + 1).width = Rows(table.file, head)[1].width
<1>1. /\ table \in Table /\ Counted(table) /\ Len(table.file.words) + 1 < Word
      /\ file = table.file
  BY DEF IInv, TypeInv, LoadInv, FileInv
<1>2. obs + 1 \in 1..table.row_size /\ lines + 1 = Skipped(table) + (obs + 1)
  BY AtRow
<1>3. Skipped(table) = head
  BY <1>1, WellFormedCounted
<1>4. /\ Rows(table.file, head)[obs + 1] = WordAt(table.file, head + (obs + 1))
      /\ Numeric(WordAt(table.file, head + (obs + 1)))
      /\ WordAt(table.file, head + (obs + 1)).width = Rows(table.file, head)[1].width
  BY <1>1, <1>2, WellFormedCounted
<1> QED
  BY <1>1, <1>2, <1>3, <1>4

LEMMA SkipWordInv == ASSUME IInv, SkipWord PROVE IInv'
<1>1. /\ pc = "load" /\ lines < Skipped(table) /\ lines' = lines + 1
      /\ UNCHANGED <<dir, at, file, cut, obs, last_cs, classes, table, tables, pc>>
  BY DEF SkipWord
<1>2. lines \in Nat /\ obs \in Nat /\ Skipped(table) \in 0..2
  BY SkippedIs DEF IInv, TypeInv
<1>3. TypeInv' /\ FileInv' /\ CountInv' /\ TablesInv' /\ FaultInv'
  BY <1>1, <1>2 DEF IInv, TypeInv, FileInv, CountInv, TablesInv, FaultInv
<1>4. LoadInv'
  <2>1. lines' = Skipped(table') + obs' \/ (lines' < Skipped(table') /\ obs' = 0)
    BY <1>1, <1>2 DEF IInv, LoadInv
  <2>2. ASSUME NEW head, Loaded(head) PROVE Loaded(head)'
    BY <1>1, <2>2 DEF Loaded
  <2> QED
    BY <1>1, <2>1, <2>2 DEF IInv, LoadInv
<1> QED
  BY <1>3, <1>4 DEF IInv

LEMMA UnparsedInv == ASSUME IInv, Unparsed PROVE IInv'
<1>1. /\ pc = "load" /\ lines >= Skipped(table) /\ obs < table.row_size
      /\ ~Parses(WordAt(file, lines + 1))
      /\ last_cs' = 0 /\ obs' = obs + 1 /\ lines' = lines + 1
      /\ UNCHANGED <<dir, at, file, cut, classes, table, tables, pc>>
  BY DEF Unparsed
<1>2. TypeInv' /\ FileInv' /\ CountInv' /\ TablesInv' /\ FaultInv'
  BY <1>1 DEF IInv, TypeInv, FileInv, CountInv, TablesInv, FaultInv
<1>3. LoadInv'
  <2>1. obs' <= table'.row_size /\ lines' = Skipped(table') + obs'
    BY <1>1, AtRow
  <2>2. \A head \in 0..2 : ~(WellFormed(table.file, head) /\ ~cut)
    BY <1>1, AtGoodRow DEF Numeric, Parses
  <2> QED
    BY <1>1, <2>1, <2>2 DEF IInv, LoadInv
<1> QED
  BY <1>2, <1>3 DEF IInv

-----------------------------------------------------------------------------
(* A row that is put into the array.                                        *)
LEMMA KeptRow ==
    ASSUME IInv, pc = "load", lines >= Skipped(table), obs < table.row_size,
           NEW w, w = WordAt(file, lines + 1), Parses(w),
           NEW cs \in Nat, NEW c \in Nat,
           cs = IF table.col_size = 0 THEN w.width ELSE table.col_size,
           w.width = cs => c = w.class,
           table' = [table EXCEPT !.col_size = cs,
                                  !.rows = Append(@, [at |-> obs, word |-> w])],
           classes' = classes \cup {c}, last_cs' = w.width,
           obs' = obs + 1, lines' = lines + 1,
           UNCHANGED <<dir, at, file, cut, tables, pc>>
    PROVE  IInv'
<1>1. /\ lines = Skipped(table) + obs
      /\ lines \in Nat /\ obs \in Nat /\ table \in Table
      /\ table.row_size \in Nat /\ Skipped(table) \in 0..2
      /\ obs + 1 <= table.row_size
  BY AtRow
<1>2. w \in Words /\ w = WordAt(table.file, lines + 1)
  BY <1>1, SameWord
<1>3. w.width \in Nat
  BY <1>2, WordsAssumption
<1> DEFINE e == [at |-> obs, word |-> w]
<1>4. table.rows \in Seq(Row) /\ e \in Row
  BY <1>1, <1>2 DEF Table, Row
<1>5. /\ table'.rows = Append(table.rows, e) /\ table'.col_size = cs
      /\ table'.file = table.file /\ table'.row_size = table.row_size
      /\ table'.has_header = table.has_header /\ table'.has_schema = table.has_schema
  BY <1>1 DEF Table
<1>6. table' \in Table
  <2>1. Append(table.rows, e) \in Seq(Row)
    BY <1>4
  <2> HIDE DEF e
  <2>2. table' = [table EXCEPT !.col_size = cs, !.rows = Append(table.rows, e)]
    BY DEF e
  <2> QED
    BY <1>1, <2>1, <2>2 DEF Table
<1>7. TypeInv'
  BY <1>1, <1>3, <1>6, FS_AddElement, SMTT(60) DEF IInv, TypeInv
<1>8. FileInv' /\ CountInv' /\ TablesInv' /\ FaultInv'
  BY <1>5 DEF IInv, FileInv, CountInv, TablesInv, FaultInv
<1>9. LoadInv'
  <2>1. Skipped(table') = Skipped(table)
    BY <1>5 DEF Skipped
  <2>2. Counted(table')
    BY <1>5, <2>1 DEF IInv, LoadInv, Counted, Flagged
  <2>3. obs' <= table'.row_size /\ lines' = Skipped(table') + obs'
    BY <1>1, <1>5, <2>1
  <2>4. InPlace(table')
    <3> DEFINE n == Len(table.rows)
    <3>1. /\ DOMAIN table'.rows = 1..(n + 1) /\ n \in Nat
          /\ \A i \in 1..n : table'.rows[i] = table.rows[i]
          /\ table'.rows[n + 1] = e
      BY <1>4, <1>5
    <3>2. ASSUME NEW i \in 1..n
          PROVE  /\ table.rows[i].at < table.row_size
                 /\ table.rows[i].word = WordAt(table.file, Skipped(table) + table.rows[i].at + 1)
      BY <1>4 DEF IInv, LoadInv, InPlace
    <3>3. e.at < table.row_size /\ e.word = WordAt(table.file, Skipped(table) + e.at + 1)
      BY <1>1, <1>2
    <3> HIDE DEF e, n
    <3>4. ASSUME NEW i \in 1..(n + 1)
          PROVE  /\ table'.rows[i].at < table'.row_size
                 /\ table'.rows[i].word
                       = WordAt(table'.file, Skipped(table') + table'.rows[i].at + 1)
      <4>1. CASE i = n + 1
        BY <1>5, <2>1, <3>1, <3>3, <4>1
      <4>2. CASE i # n + 1
        <5>1. i \in 1..n
          BY <3>1, <4>2
        <5> QED
          BY <1>5, <2>1, <3>1, <3>2, <5>1
      <4> QED
        BY <4>1, <4>2
    <3> QED
      BY <3>1, <3>4 DEF InPlace
  <2>5. ASSUME NEW head \in 0..2, WellFormed(table.file, head), ~cut
        PROVE  Loaded(head)'
    <3> DEFINE r == Rows(table.file, head)
    <3>1. r[obs + 1] = w /\ w.width = r[1].width
      BY <2>5, AtGoodRow
    <3>2. Loaded(head)
      BY <2>5 DEF IInv, LoadInv
    <3>3. cs = r[1].width /\ last_cs' = cs /\ c = r[obs + 1].class
      BY <1>1, <3>1, <3>2 DEF Loaded
    <3>4. /\ Len(table.rows) = obs
          /\ \A i \in 1..obs :
                table.rows[i] = [at |-> i - 1, word |-> r[i]] /\ r[i].class \in classes
          /\ \A d \in classes : \E i \in 1..obs : d = r[i].class
      BY <3>2 DEF Loaded
    <3> HIDE DEF r
    <3>5. ASSUME NEW d \in classes' PROVE \E i \in 1..(obs + 1) : d = r[i].class
      <4>1. CASE d = c
        BY <1>1, <3>3, <4>1
      <4>2. CASE d \in classes
        BY <1>1, <3>4, <4>2
      <4> QED
        BY <4>1, <4>2
    <3>6. /\ Len(table'.rows) = obs + 1
          /\ \A i \in 1..obs : table'.rows[i] = table.rows[i]
          /\ table'.rows[obs + 1] = e
      BY <1>1, <1>4, <1>5, <3>4
    <3>7. ASSUME NEW i \in 1..(obs + 1)
          PROVE  table'.rows[i] = [at |-> i - 1, word |-> r[i]] /\ r[i].class \in classes'
      <4>1. CASE i = obs + 1
        <5>1. e = [at |-> i - 1, word |-> r[i]]
          BY <1>1, <3>1, <4>1
        <5> QED
          BY <3>3, <3>6, <4>1, <5>1
      <4>2. CASE i # obs + 1
        <5>1. i \in 1..obs
          BY <1>1, <4>2
        <5> QED
          BY <3>4, <3>6, <5>1
      <4> QED
        BY <4>1, <4>2
    <3>8. last_cs' = table'.col_size
      BY <1>5, <3>3
    <3>9. table'.col_size = IF obs' = 0 THEN 0 ELSE r[1].width
      BY <1>1, <1>5, <3>3
    <3>10. r = Rows(table'.file, head)
      BY <1>5 DEF r
    <3>11. Len(table'.rows) = obs'
      BY <3>6
    <3>12. \A i \in 1..obs' :
              table'.rows[i] = [at |-> i - 1, word |-> r[i]] /\ r[i].class \in classes'
      BY <3>7
    <3>13. \A d \in classes' : \E i \in 1..obs' : d = r[i].class
      BY <3>5
    <3> QED
      BY <3>8, <3>9, <3>10, <3>11, <3>12, <3>13, ZenonT(60) DEF Loaded
  <2> QED
    BY <1>5, <2>2, <2>3, <2>4, <2>5 DEF LoadInv
<1> QED
  BY <1>7, <1>8, <1>9 DEF IInv

LEMMA LoadRowInv == ASSUME IInv, LoadRow PROVE IInv'
<1> DEFINE w    == WordAt(file, lines + 1)
           cs   == IF table.col_size = 0 THEN w.width ELSE table.col_size
           last == IF table.col_size = 0 THEN w.width ELSE last_cs
<1>1. /\ pc = "load" /\ lines >= Skipped(table) /\ obs < table.row_size
      /\ Parses(w)
      /\ last_cs' = w.width /\ obs' = obs + 1 /\ lines' = lines + 1
      /\ UNCHANGED <<dir, at, file, cut, tables, pc>>
      /\ \/ /\ cs = last
            /\ table' = [table EXCEPT !.col_size = cs,
                                  !.rows = Append(@, [at |-> obs, word |-> w])]
            /\ \E c \in Classes :
                  /\ w.width = cs => c = w.class
                  /\ classes' = classes \cup {c}
         \/ cs # last /\ UNCHANGED <<table, classes>>
  BY DEF LoadRow
<1>2. w \in Words /\ w.width \in Nat
  BY <1>1, AtRow, SameWord, WordsAssumption
<1>3. cs \in Nat
  BY <1>2 DEF IInv, TypeInv, Table
<1>4. CASE cs = last
  <2>1. PICK c \in Classes :
           /\ w.width = cs => c = w.class
           /\ classes' = classes \cup {c}
    BY <1>1, <1>4
  <2>2. c \in Nat
    BY WordsAssumption DEF Classes
  <2>3. table' = [table EXCEPT !.col_size = cs,
                               !.rows = Append(@, [at |-> obs, word |-> w])]
    BY <1>1, <1>4
  <2> QED
    BY <1>1, <1>3, <2>1, <2>2, <2>3, KeptRow
<1>5. CASE cs # last
  <2>1. UNCHANGED <<table, classes>>
    BY <1>1, <1>5
  <2>2. TypeInv' /\ FileInv' /\ CountInv' /\ TablesInv' /\ FaultInv'
    <3>1. TypeInv' /\ FileInv'
      BY <1>1, <1>2, <2>1 DEF IInv, TypeInv, FileInv
    <3>2. CountInv' /\ TablesInv' /\ FaultInv'
      BY <1>1, <1>2, <2>1 DEF IInv, CountInv, TablesInv, FaultInv
    <3> QED
      BY <3>1, <3>2
  <2>3. obs' <= table'.row_size /\ lines' = Skipped(table') + obs'
    BY <1>1, <2>1, AtRow
  <2>4. ASSUME NEW head \in 0..2, WellFormed(table.file, head), ~cut PROVE FALSE
    <3>1. Loaded(head)
      BY <1>1, <2>4 DEF IInv, LoadInv
    <3>2. last_cs = table.col_size
      BY <3>1 DEF Loaded
    <3> QED
      BY <1>5, <3>2
  <2>5. LoadInv'
    BY <1>1, <2>1, <2>3, <2>4 DEF IInv, LoadInv
  <2> QED
    BY <2>2, <2>5 DEF IInv
<1> QED
  BY <1>4, <1>5

-----------------------------------------------------------------------------
(* A table that has all its rows is as it was written.                      *)
LEMMA EndLoadInv == ASSUME IInv, EndLoad PROVE IInv'
<1> DEFINE t == [table EXCEPT !.classes_num = Cardinality(classes), !.cut = cut]
<1>1. /\ pc = "load" /\ pc' = "readdir"
      /\ lines = Reads(file) \/ obs >= table.row_size
      /\ tables' = Append(tables, t)
      /\ UNCHANGED <<dir, at, file, cut, lines, obs, last_cs, classes, table>>
  BY DEF EndLoad
<1>2. /\ table \in Table /\ Cardinality(classes) \in Nat /\ cut \in BOOLEAN
      /\ tables \in Seq(Table) /\ lines \in Nat /\ obs \in Nat
      /\ table.row_size \in Nat /\ obs <= table.row_size
  BY <1>1, FS_CardinalityType DEF IInv, TypeInv, Table, LoadInv
<1>3. /\ t \in Table /\ t.cut = cut /\ t.classes_num = Cardinality(classes)
      /\ t.file = table.file /\ t.rows = table.rows /\ t.row_size = table.row_size
      /\ t.has_header = table.has_header /\ t.has_schema = table.has_schema
  BY <1>2 DEF Table
<1>4. InPlace(t)
  BY <1>1, <1>3 DEF IInv, LoadInv, InPlace, Skipped
<1> HIDE DEF t
<1>5. ASSUME NEW head \in 0..2, WellFormed(table.file, head), ~cut
      PROVE  LET r == Rows(t.file, head)
             IN  /\ t.row_size = Len(r)
                 /\ t.rows = [i \in 1..Len(r) |-> [at |-> i - 1, word |-> r[i]]]
                 /\ t.classes_num = Cardinality({r[i].class : i \in DOMAIN r})
  <2>1. /\ Counted(table) /\ Loaded(head) /\ Len(table.file.words) + 1 < Word
        /\ file = table.file
        /\ lines = Skipped(table) + obs \/ (lines < Skipped(table) /\ obs = 0)
    BY <1>1, <1>5 DEF IInv, LoadInv, FileInv
  <2> DEFINE r == Rows(t.file, head)
  <2>2. /\ Skipped(table) = head
        /\ table.row_size = Len(table.file.words) - head
        /\ table.row_size \in Nat \ {0}
        /\ Len(r) = table.row_size /\ DOMAIN r = 1..table.row_size
        /\ Reads(table.file) = Len(table.file.words) + 1
    BY <1>2, <1>3, <1>5, <2>1, WellFormedCounted
  <2>3. Len(table.file.words) \in Nat
    BY <1>2 DEF Table, Files
  <2> HIDE DEF r
  <2>4. obs = table.row_size
    BY <1>1, <1>2, <2>1, <2>2, <2>3, SMTT(60)
  <2>5. /\ Len(table.rows) = obs
        /\ \A i \in 1..obs :
              table.rows[i] = [at |-> i - 1, word |-> r[i]] /\ r[i].class \in classes
        /\ \A c \in classes : \E i \in 1..obs : c = r[i].class
    BY <1>3, <2>1 DEF Loaded, r
  <2>6. t.rows = [i \in 1..Len(r) |-> [at |-> i - 1, word |-> r[i]]]
    <3>1. table.rows = [i \in 1..obs |-> table.rows[i]]
      BY <1>2, <2>5 DEF Table
    <3> QED
      BY <1>3, <2>2, <2>4, <2>5, <3>1
  <2>7. classes = {r[i].class : i \in DOMAIN r}
    BY <2>2, <2>4, <2>5, ZenonT(60)
  <2> QED
    BY <1>3, <2>2, <2>6, <2>7 DEF r
<1>6. Faithful(t)
  <2>1. ASSUME NEW head \in 0..2, WellFormed(t.file, head), ~t.cut
        PROVE  WellFormed(table.file, head) /\ ~cut
    BY <1>3, <2>1
  <2> QED
    BY <1>5, <2>1 DEF Faithful
<1>7. TablesInv'
  <2>1. /\ DOMAIN tables' = 1..(Len(tables) + 1)
        /\ DOMAIN tables = 1..Len(tables) /\ Len(tables) \in Nat
        /\ tables'[Len(tables) + 1] = t
        /\ \A k \in 1..Len(tables) : tables'[k] = tables[k]
    BY <1>1, <1>2, <1>3
  <2>2. ASSUME NEW k \in 1..(Len(tables) + 1)
        PROVE  InPlace(tables'[k]) /\ Faithful(tables'[k])
    <3>1. CASE k = Len(tables) + 1
      BY <1>4, <1>6, <2>1, <3>1
    <3>2. CASE k # Len(tables) + 1
      <4>1. k \in 1..Len(tables)
        BY <2>1, <3>2
      <4> QED
        BY <2>1, <4>1 DEF IInv, TablesInv
    <3> QED
      BY <3>1, <3>2
  <2> QED
    BY <2>1, <2>2 DEF TablesInv
<1>8. TypeInv'
  <2>1. tables' \in Seq(Table)
    BY <1>1, <1>2, <1>3
  <2> QED
    BY <1>1, <2>1 DEF IInv, TypeInv
<1>9. FileInv' /\ CountInv' /\ LoadInv' /\ FaultInv'
  BY <1>1 DEF IInv, FileInv, CountInv, LoadInv, FaultInv
<1> QED
  BY <1>7, <1>8, <1>9 DEF IInv

-----------------------------------------------------------------------------
LEMMA ReleaseInv == ASSUME IInv, Release PROVE IInv'
BY DEF Release, IInv, TypeInv, FileInv, CountInv, LoadInv, TablesInv, FaultInv

LEMMA NothingToFreeInv == ASSUME IInv, NothingToFree PROVE IInv'
BY DEF NothingToFree, IInv, TypeInv, FileInv, CountInv, LoadInv, TablesInv, FaultInv

LEMMA FreeTableInv == ASSUME IInv, FreeTable PROVE IInv'
<1>1. /\ pc = "free" /\ tables # << >> /\ tables \in Seq(Table) /\ dir.opened
      /\ UNCHANGED <<dir, at, file, cut, lines, obs, last_cs, classes, table>>
  BY DEF FreeTable, IInv, TypeInv, FaultInv
<1>2. CASE Whole(Head(tables))
  <2>1. tables' = Tail(tables) /\ pc' \in {"done", "free"}
    BY <1>2 DEF FreeTable
  <2>2. /\ tables' \in Seq(Table)
        /\ \A k \in DOMAIN tables' : k + 1 \in DOMAIN tables /\ tables'[k] = tables[k + 1]
    BY <1>1, <2>1
  <2>3. TypeInv' /\ FileInv' /\ CountInv' /\ LoadInv' /\ FaultInv'
    BY <1>1, <2>1, <2>2 DEF IInv, TypeInv, FileInv, CountInv, LoadInv, FaultInv
  <2>4. TablesInv'
    BY <2>2 DEF IInv, TablesInv
  <2> QED
    BY <2>3, <2>4 DEF IInv
<1>3. CASE ~Whole(Head(tables))
  <2>1. tables' = tables /\ pc' = "fault"
    BY <1>3 DEF FreeTable
  <2>2. TypeInv' /\ FileInv' /\ CountInv' /\ LoadInv' /\ TablesInv'
    BY <1>1, <2>1 DEF IInv, TypeInv, FileInv, CountInv, LoadInv, TablesInv
  <2>3. FaultInv'
    BY <1>1, <1>3, <2>1 DEF FaultInv
  <2> QED
    BY <2>2, <2>3 DEF IInv
<1> QED
  BY <1>2, <1>3

LEMMA NextInv == IInv /\ [Next]_vars => IInv'
<1> SUFFICES ASSUME IInv, [Next]_vars PROVE IInv'
  OBVIOUS
<1>1. CASE UNCHANGED vars
  <2>1. TypeInv' /\ FileInv' /\ CountInv' /\ TablesInv' /\ FaultInv'
    BY <1>1 DEF vars, IInv, TypeInv, FileInv, CountInv, TablesInv, FaultInv
  <2>2. ASSUME NEW head, Loaded(head) PROVE Loaded(head)'
    BY <1>1, <2>2 DEF vars, Loaded
  <2>3. LoadInv'
    BY <1>1, <2>2 DEF vars, IInv, LoadInv
  <2> QED
    BY <2>1, <2>3 DEF IInv
<1>2. CASE Next
  BY <1>2, ReadNullInv, PassEntryInv, OpenTableInv, CountWordInv, EndCountInv,
     SkipWordInv, UnparsedInv, LoadRowInv, EndLoadInv, ReleaseInv, FreeTableInv,
     NothingToFreeInv, CutFileInv
     DEF Next
<1> QED
  BY <1>1, <1>2

(* Every state of the loader, whatever the directory and also when a file   *)
(* loses its last word, satisfies the inductive invariant.                  *)
THEOREM Invariance == Spec => []IInv
BY InitInv, NextInv, PTL DEF Spec

-----------------------------------------------------------------------------
(* Whatever is in the files, also when one loses its last word in between,  *)
(* the entry i of a table's array, if it is set, has the i-th word after    *)
(* the header lines the first pass found.                                   *)
THEOREM RowsStayInPlace == Spec => []RowsInPlace
<1>1. IInv => RowsInPlace
  BY DEF IInv, TablesInv, RowsInPlace
<1> QED
  BY <1>1, Invariance, PTL

(* A table that was loaded as its well-formed file is written has every     *)
(* entry set.                                                               *)
LEMMA FaithfulIsWhole ==
    ASSUME NEW t \in Table, Faithful(t), NEW head \in 0..2,
           WellFormed(t.file, head), ~t.cut
    PROVE  Whole(t)
<1> DEFINE r == Rows(t.file, head)
<1>1. /\ t.row_size = Len(r)
      /\ t.rows = [i \in 1..Len(r) |-> [at |-> i - 1, word |-> r[i]]]
  BY DEF Faithful
<1>2. Len(r) \in Nat
  BY <1>1 DEF Table
<1> HIDE DEF r
<1>3. DOMAIN t.rows = 1..Len(r) /\ \A i \in 1..Len(r) : t.rows[i].at = i - 1
  BY <1>1
<1>4. ASSUME NEW j \in 0..(Len(r) - 1) PROVE \E i \in DOMAIN t.rows : t.rows[i].at = j
  <2>1. j + 1 \in 1..Len(r) /\ t.rows[j + 1].at = j
    BY <1>2, <1>3
  <2> QED
    BY <1>3, <2>1
<1>5. \A i \in DOMAIN t.rows : t.rows[i].at \in 0..(Len(r) - 1)
  BY <1>2, <1>3
<1>6. {t.rows[i].at : i \in DOMAIN t.rows} = 0..(Len(r) - 1)
  BY <1>4, <1>5
<1>7. t.row_size = Len(r)
  BY <1>1
<1> QED
  BY <1>6, <1>7 DEF Whole

(* Well-formed files are loaded row for row with their class values         *)
(* counted, and a directory of them is freed without touching an entry that *)
(* was never set.                                                           *)
THEOREM LoadsAsWritten == Spec => []LoadedAsWritten
<1>1. ASSUME IInv PROVE LoadedAsWritten
  <2>1. \A k \in DOMAIN tables : Faithful(tables[k])
    BY <1>1 DEF IInv, TablesInv
  <2>2. ASSUME pc = "fault", dir.opened, ~Head(tables).cut,
               NEW head \in 0..2, WellFormed(Head(tables).file, head)
        PROVE  FALSE
    <3>1. tables # << >> /\ ~Whole(Head(tables)) /\ tables \in Seq(Table)
      BY <1>1, <2>2 DEF IInv, FaultInv, TypeInv
    <3>2. Head(tables) = tables[1] /\ 1 \in DOMAIN tables /\ tables[1] \in Table
      BY <3>1
    <3> QED
      BY <2>1, <2>2, <3>1, <3>2, FaithfulIsWhole
  <2> QED
    BY <2>1, <2>2 DEF LoadedAsWritten
<1> QED
  BY <1>1, Invariance, PTL

-----------------------------------------------------------------------------
(* PostPartition                                                            *)
Outside == {"create", "parse", "group", "done", "fault", "thrown"}

(* A wrapper holds a pointer exactly while the C object behind it lives, of *)
(* which there are some at each stage, the environment if any.              *)
HandleInv ==
    /\ ~misused
    /\ pointer \subseteq {"env", "txn", "cursor"}
    /\ "env" \in pointer <=> env = "live"
    /\ "txn" \in pointer <=> txn = "live"
    /\ "cursor" \in pointer <=> cursor = "live"
    /\ pointer # {} => "env" \in pointer
    /\ \/ stage \in Outside /\ pointer = {}
       \/ stage \in {"mapsize", "open", "begin"} /\ pointer = {"env"}
       \/ stage \in {"dbi", "cursor", "abort"} /\ pointer = {"env", "txn"}
       \/ stage \in {"get", "close"} /\ pointer = {"env", "txn", "cursor"}
       \/ stage \in {"leave cursor", "leave txn", "leave env"} /\ pointer = {"env"}
       \/ stage = "unwind cursor"
       \/ stage = "unwind txn" /\ "cursor" \notin pointer
       \/ stage = "unwind env" /\ pointer \subseteq {"env"}

LEMMA HandlesInit == FrontInit => HandleInv
BY DEF FrontInit, LmdbInit, HandleInv, Outside

LEMMA HandlesRaise ==
    ASSUME HandleInv, Raise, stage' = "unwind cursor"
    PROVE  HandleInv'
BY DEF HandleInv, Raise, lmdbVars

LEMMA HandlesPrologue == ASSUME HandleInv, Prologue PROVE HandleInv'
<1>1. CASE Raise /\ stage' = "unwind cursor"
  BY <1>1, HandlesRaise
<1>2. CASE stage = "create" /\ EnvCreate /\ stage' = "mapsize"
  BY <1>2 DEF HandleInv, Outside, EnvCreate
<1>3. CASE /\ EnvUse
           /\ \/ stage = "mapsize" /\ stage' = "open"
              \/ stage = "open" /\ stage' = "begin"
  BY <1>3 DEF HandleInv, Outside, EnvUse, Using
<1>4. CASE stage = "begin" /\ TxnBegin /\ stage' = "dbi"
  BY <1>4 DEF HandleInv, Outside, TxnBegin, Using
<1>5. CASE stage = "dbi" /\ DbiOpen /\ stage' = "cursor"
  BY <1>5 DEF HandleInv, Outside, DbiOpen, Using
<1>6. CASE stage = "cursor" /\ CursorOpen /\ stage' = "get"
  BY <1>6 DEF HandleInv, Outside, CursorOpen, Using
<1> QED
  BY <1>1, <1>2, <1>3, <1>4, <1>5, <1>6 DEF Prologue, Call

LEMMA HandlesGet == ASSUME HandleInv, Get \/ GetFails PROVE HandleInv'
<1>1. CASE GetFails
  BY <1>1, HandlesRaise DEF GetFails
<1>2. CASE Get
  <2>1. stage = "get" /\ CursorGet /\ stage' \in {"get", "close"}
    BY <1>2 DEF Get
  <2> QED
    BY <2>1 DEF HandleInv, Outside, CursorGet, Using
<1> QED
  BY <1>1, <1>2

LEMMA HandlesReleasing ==
    ASSUME HandleInv, Epilogue \/ Unwind
    PROVE  HandleInv'
<1>1. CASE /\ CursorClose
           /\ \/ stage = "close" /\ stage' = "abort"
              \/ stage = "leave cursor" /\ stage' = "leave txn"
              \/ stage = "unwind cursor" /\ stage' = "unwind txn"
  BY <1>1 DEF HandleInv, Outside, CursorClose, Using
<1>2. CASE stage = "abort" /\ TxnAbort /\ stage' = "leave cursor"
  BY <1>2 DEF HandleInv, Outside, TxnAbort, Using
<1>3. CASE /\ TxnDestroy
           /\ \/ stage = "leave txn" /\ stage' = "leave env"
              \/ stage = "unwind txn" /\ stage' = "unwind env"
  BY <1>3 DEF HandleInv, Outside, TxnDestroy, TxnAbort, Using,
              lmdbVars
<1>4. CASE /\ EnvDestroy
           /\ \/ stage = "leave env" /\ stage' = "parse"
              \/ stage = "unwind env" /\ stage' = "thrown"
  BY <1>4 DEF HandleInv, Outside, EnvDestroy
<1> QED
  BY <1>1, <1>2, <1>3, <1>4 DEF Epilogue, Unwind, Closing

LEMMA HandlesKept ==
    ASSUME HandleInv, Parse \/ Group \/ UNCHANGED frontVars
    PROVE  HandleInv'
<1>1. CASE Parse
  <2>1. stage = "parse" /\ UNCHANGED lmdbVars /\ stage' \in {"create", "group", "fault"}
    BY <1>1 DEF Parse
  <2> QED
    BY <2>1 DEF HandleInv, Outside, lmdbVars
<1>2. CASE Group
  <2>1. stage = "group" /\ UNCHANGED lmdbVars /\ stage' \in {"done", "fault"}
    BY <1>2 DEF Group
  <2> QED
    BY <2>1 DEF HandleInv, Outside, lmdbVars
<1>3. CASE UNCHANGED frontVars
  BY <1>3 DEF HandleInv, frontVars
<1> QED
  BY <1>1, <1>2, <1>3

(* However the extraction of any directories goes, and whichever call of    *)
(* lmdb++.h throws, no rule of the C library is broken, and no C object is  *)
(* left behind by the function nor held by a wrapper.                       *)
THEOREM HandlesAlwaysReleased == FrontSpec => []HandlesReleased
<1>1. HandleInv /\ [FrontNext]_(frontVars) => HandleInv'
  BY HandlesPrologue, HandlesGet, HandlesReleasing, HandlesKept DEF FrontNext
<1>2. HandleInv => HandlesReleased
  BY DEF HandleInv, Outside, HandlesReleased
<1> QED
  BY <1>1, <1>2, HandlesInit, PTL DEF FrontSpec

-----------------------------------------------------------------------------
(* PostPartition: the partitions and the groups                             *)

(* A set of natural numbers has a least member (the library has this only   *)
(* for all members of a well-founded relation).                             *)
LEMMA LeastElement ==
    ASSUME NEW T \in SUBSET Nat, T # {}
    PROVE  \E m \in T : \A n \in T : m <= n
<1> DEFINE I == {0..n : n \in T}
           R == StrictSubsetOrdering(Nat)
           F == FiniteSubsetsOf(Nat)
<1>1. I \subseteq F /\ I # {}
  <2>1. ASSUME NEW n \in T PROVE 0..n \in F
    <3>1. n \in Int /\ 0 \in Int /\ 0..n \subseteq Nat
      OBVIOUS
    <3>2. IsFiniteSet(0..n)
      BY <3>1, FS_Interval
    <3> QED
      BY <3>1, <3>2 DEF FiniteSubsetsOf
  <2> QED
    BY <2>1
<1>2. IsWellFoundedOn(R, F)
  BY FS_StrictSubsetOrderingWellFounded
<1>3. \E s \in I : \A t \in I : ~(<<t, s>> \in R)
  <2> HIDE DEF I, R, F
  <2> QED
    BY <1>1, <1>2, WFMin
<1>4. PICK m \in T : \A t \in I : ~(<<t, 0..m>> \in R)
  BY <1>3
<1>5. ASSUME NEW n \in T, n < m PROVE FALSE
  <2>1. 0..n \subseteq 0..m /\ 0..n # 0..m
    <3>1. m \in 0..m /\ m \notin 0..n
      BY <1>5
    <3> QED
      BY <1>5, <3>1
  <2>2. <<0..n, 0..m>> \in R
    BY <2>1 DEF StrictSubsetOrdering
  <2> QED
    BY <1>4, <2>2
<1> QED
  BY <1>5

(* The ids of a directory.  FlattenSeq joins its lists by a function of how *)
(* many have been joined, which is shown to exist first.                    *)
IsFlat(f, s) ==
    f = [i \in 1..Len(s) |-> IF i = 1 THEN s[i] ELSE f[i - 1] \o s[i]]

Lists == Seq(Int) \ {<< >>}

LEMMA FlatExists ==
    ASSUME NEW s \in Seq(Lists)
    PROVE  \E f : IsFlat(f, s)
<1> DEFINE Upto(n, f) == f = [i \in 1..n |-> IF i = 1 THEN s[i] ELSE f[i - 1] \o s[i]]
           Bad == {n \in Nat : ~\E f : Upto(n, f)}
<1>1. Upto(0, [i \in 1..0 |-> s])
  OBVIOUS
<1>2. ASSUME NEW m \in Nat, m # 0, NEW g, Upto(m - 1, g)
      PROVE  \E f : Upto(m, f)
  <2> DEFINE f == [i \in 1..m |-> IF i = 1 THEN s[i] ELSE g[i - 1] \o s[i]]
  <2>1. ASSUME NEW i \in 1..(m - 1) PROVE f[i] = g[i]
    <3>1. g[i] = IF i = 1 THEN s[i] ELSE g[i - 1] \o s[i]
      BY <1>2
    <3> QED
      BY <3>1
  <2>2. f = [i \in 1..m |-> IF i = 1 THEN s[i] ELSE f[i - 1] \o s[i]]
    <3>1. ASSUME NEW i \in 1..m, i # 1 PROVE g[i - 1] = f[i - 1]
      <4>1. i - 1 \in 1..(m - 1)
        BY <3>1
      <4> HIDE DEF f
      <4> QED
        BY <2>1, <4>1
    <3> QED
      BY <3>1
  <2> QED
    BY <2>2
<1> HIDE DEF Upto
<1>3. Bad = {}
  <2> SUFFICES ASSUME Bad # {} PROVE FALSE
    OBVIOUS
  <2>1. PICK m \in Bad : \A n \in Bad : m <= n
    BY LeastElement
  <2>2. m \in Nat /\ m # 0
    BY <1>1, <2>1
  <2>3. m - 1 \in Nat /\ m - 1 \notin Bad
    BY <2>1, <2>2
  <2> QED
    BY <1>2, <2>1, <2>2, <2>3
<1>4. Len(s) \in Nat
  OBVIOUS
<1>5. PICK f : Upto(Len(s), f)
  <2>1. Len(s) \notin Bad
    BY <1>3
  <2> QED
    BY <1>4, <2>1
<1>6. IsFlat(f, s)
  BY <1>5 DEF Upto, IsFlat
<1> QED
  BY <1>6

(* What the ids t of the first n lists of s have to do with the lists.      *)
Disjoint(s, n) ==
    \A k, l \in 1..n : \A x \in Int : x \in Range(s[k]) /\ x \in Range(s[l]) => k = l

OneElement(t, s, n) == \A i \in 1..n : Len(s[i]) = 1 /\ t[i] = s[i][1]

(* No id is lost or made up; listed once, an id is in one list; and lists   *)
(* no longer than they are many have one id each.                           *)
Gathers(t, s, n) ==
    /\ t \in Seq(Int)
    /\ \A x \in Int : x \in Range(t) <=> \E k \in 1..n : x \in Range(s[k])
    /\ IsInjective(t) => Disjoint(s, n)
    /\ Len(t) >= n
    /\ Len(t) = n => OneElement(t, s, n)
    /\ (\A i \in 1..n : Len(s[i]) = 1) => Len(t) = n

LEMMA GathersNext ==
    ASSUME NEW s \in Seq(Lists), NEW n \in Nat, n + 1 \in 1..Len(s),
           NEW t, Gathers(t, s, n)
    PROVE  Gathers(t \o s[n + 1], s, n + 1)
<1> DEFINE u == s[n + 1]
           r == t \o u
<1>1. /\ t \in Seq(Int) /\ u \in Seq(Int) /\ u # << >>
      /\ Len(t) \in Nat /\ Len(t) >= n
  BY DEF Gathers, Lists
<1> HIDE DEF u
<1>2. PICK p \in Nat, q \in Nat :
         /\ p = Len(t) /\ q = Len(u) /\ p >= n /\ q >= 1
         /\ DOMAIN t = 1..p /\ DOMAIN u = 1..q
  BY <1>1
<1> HIDE DEF r
<1>a. /\ r \in Seq(Int) /\ Len(r) = p + q /\ DOMAIN r = 1..(p + q)
      /\ \A i \in 1..p : i \in DOMAIN r /\ r[i] = t[i]
  BY <1>1, <1>2 DEF r
<1>b. ASSUME NEW j \in 1..q PROVE p + j \in DOMAIN r /\ r[p + j] = u[j]
  BY <1>1, <1>2 DEF r
<1>c. ASSUME NEW i \in DOMAIN r, i \notin 1..p PROVE \E j \in 1..q : i = p + j
  <2>1. i - p \in 1..q /\ i = p + (i - p)
    BY <1>2, <1>a, <1>c
  <2> QED
    BY <2>1
<1>3. \A x : x \in Range(r) <=> x \in Range(t) \/ x \in Range(u)
  <2>1. ASSUME NEW i \in DOMAIN r PROVE r[i] \in Range(t) \/ r[i] \in Range(u)
    <3>1. CASE i \in 1..p
      BY <1>2, <1>a, <3>1 DEF Range
    <3>2. CASE i \notin 1..p
      BY <1>2, <1>b, <1>c, <3>2 DEF Range
    <3> QED
      BY <3>1, <3>2
  <2>2. ASSUME NEW i \in 1..p PROVE t[i] \in Range(r)
    BY <1>a DEF Range
  <2>3. ASSUME NEW j \in 1..q PROVE u[j] \in Range(r)
    BY <1>b DEF Range
  <2> QED
    BY <1>2, <2>1, <2>2, <2>3 DEF Range
<1>4. ASSUME NEW k \in 1..(n + 1) PROVE k \in 1..n \/ s[k] = u
  BY DEF u
<1>5. \A x \in Int : x \in Range(r) <=> \E k \in 1..(n + 1) : x \in Range(s[k])
  <2>1. \A x \in Int : x \in Range(t) <=> \E k \in 1..n : x \in Range(s[k])
    BY DEF Gathers
  <2>2. n + 1 \in 1..(n + 1) /\ \A k \in 1..n : k \in 1..(n + 1)
    OBVIOUS
  <2> HIDE DEF u
  <2>3. s[n + 1] = u
    BY DEF u
  <2> QED
    BY <1>3, <1>4, <2>1, <2>2, <2>3
<1>6. ASSUME IsInjective(r) PROVE Disjoint(s, n + 1)
  <2>1. IsInjective(t)
    <3>1. ASSUME NEW i \in 1..p, NEW j \in 1..p, t[i] = t[j] PROVE i = j
      BY <1>6, <1>a, <3>1 DEF IsInjective
    <3> QED
      BY <1>2, <3>1 DEF IsInjective
  <2>2. ASSUME NEW x, x \in Range(t), x \in Range(u) PROVE FALSE
    <3>1. PICK i \in 1..p, j \in 1..q : t[i] = x /\ u[j] = x
      BY <1>2, <2>2 DEF Range
    <3>2. PICK k \in DOMAIN r : k = p + j /\ r[k] = x
      BY <1>b, <3>1
    <3>3. i \in DOMAIN r /\ r[i] = x /\ i # k
      BY <1>2, <1>a, <3>1, <3>2
    <3> QED
      BY <1>6, <3>2, <3>3 DEF IsInjective
  <2>3. Disjoint(s, n)
    BY <2>1 DEF Gathers
  <2>4. ASSUME NEW x \in Int, NEW k \in 1..n, x \in Range(s[k]) PROVE x \in Range(t)
    BY <2>4 DEF Gathers
  <2>5. ASSUME NEW k \in 1..(n + 1), NEW l \in 1..(n + 1), NEW x \in Int,
               x \in Range(s[k]), x \in Range(s[l])
        PROVE  k = l
    <3>1. CASE k \in 1..n /\ l \in 1..n
      BY <2>3, <2>5, <3>1 DEF Disjoint
    <3>2. CASE k \in 1..n /\ l = n + 1
      BY <2>2, <2>4, <2>5, <3>2 DEF u
    <3>3. CASE k = n + 1 /\ l \in 1..n
      BY <2>2, <2>4, <2>5, <3>3 DEF u
    <3> QED
      BY <3>1, <3>2, <3>3
  <2> QED
    BY <2>5 DEF Disjoint
<1>7. ASSUME Len(r) = n + 1 PROVE OneElement(r, s, n + 1)
  <2>1. p = n /\ q = 1
    BY <1>2, <1>a, <1>7
  <2>2. OneElement(t, s, n)
    BY <1>2, <2>1 DEF Gathers
  <2>3. ASSUME NEW i \in 1..(n + 1) PROVE Len(s[i]) = 1 /\ r[i] = s[i][1]
    <3>1. CASE i \in 1..n
      BY <1>a, <2>1, <2>2, <3>1 DEF OneElement
    <3>2. CASE i = n + 1
      <4>1. r[p + 1] = u[1]
        BY <1>b, <2>1
      <4>2. s[i] = u
        BY <3>2 DEF u
      <4> QED
        BY <1>2, <2>1, <3>2, <4>1, <4>2
    <3> QED
      BY <3>1, <3>2
  <2> QED
    BY <2>3 DEF OneElement
<1>8. Len(r) >= n + 1
  BY <1>2, <1>a
<1>d. ASSUME \A i \in 1..(n + 1) : Len(s[i]) = 1 PROVE Len(r) = n + 1
  <2>1. Len(u) = 1
    BY <1>d DEF u
  <2>2. \A i \in 1..n : Len(s[i]) = 1
    BY <1>d
  <2>3. Len(t) = n
    BY <2>2 DEF Gathers
  <2> QED
    BY <1>2, <1>a, <2>1, <2>3
<1>9. Gathers(r, s, n + 1)
  BY <1>a, <1>d, <1>5, <1>6, <1>7, <1>8 DEF Gathers
<1> QED
  BY <1>9 DEF r, u

(* The step for all of them.                                                *)
LEMMA FlatGathers ==
    ASSUME NEW s \in Seq(Lists), NEW f, IsFlat(f, s)
    PROVE  \A n \in 1..Len(s) : Gathers(f[n], s, n)
<1> DEFINE Bad == {n \in 1..Len(s) : ~Gathers(f[n], s, n)}
<1>1. ASSUME NEW m \in 1..Len(s), m # 1 PROVE f[m] = f[m - 1] \o s[m]
  BY <1>1 DEF IsFlat
<1>2. ASSUME 1 \in 1..Len(s) PROVE Gathers(f[1], s, 1)
  <2>1. f[1] = s[1] /\ s[1] \in Seq(Int) /\ s[1] # << >>
    BY <1>2 DEF IsFlat, Lists
  <2>2. Disjoint(s, 1)
    BY DEF Disjoint
  <2>3. \A x \in Int : x \in Range(s[1]) <=> \E k \in 1..1 : x \in Range(s[k])
    OBVIOUS
  <2>4. Len(s[1]) >= 1
    BY <2>1
  <2>5. Len(s[1]) = 1 => OneElement(s[1], s, 1)
    BY DEF OneElement
  <2> QED
    BY <2>1, <2>2, <2>3, <2>4, <2>5 DEF Gathers
<1> SUFFICES ASSUME Bad # {} PROVE FALSE
  OBVIOUS
<1>3. Bad \subseteq Nat
  OBVIOUS
<1>4. PICK m \in Bad : \A n \in Bad : m <= n
  BY <1>3, LeastElement
<1>5. m \in 1..Len(s) /\ m # 1
  BY <1>2, <1>4
<1>6. PICK k \in 1..Len(s) : k = m - 1 /\ k \in Nat /\ m = k + 1
  BY <1>5
<1>7. k \notin Bad
  BY <1>4, <1>6
<1>8. Gathers(f[k], s, k)
  BY <1>7
<1>9. Gathers(f[k] \o s[k + 1], s, k + 1)
  BY <1>5, <1>6, <1>8, GathersNext
<1> QED
  BY <1>1, <1>4, <1>5, <1>6, <1>9

LEMMA FlattenGathers ==
    ASSUME NEW s \in Seq(Lists)
    PROVE  Gathers(FlattenSeq(s), s, Len(s))
<1>1. CASE Len(s) = 0
  <2>1. FlattenSeq(s) = s /\ s = << >>
    BY <1>1 DEF FlattenSeq
  <2> QED
    BY <1>1, <2>1 DEF Gathers, Disjoint, OneElement, Range
<1>2. CASE Len(s) # 0
  <2> DEFINE g == CHOOSE f : IsFlat(f, s)
  <2>1. IsFlat(g, s)
    BY FlatExists
  <2>2. FlattenSeq(s) = g[Len(s)]
    BY <1>2 DEF FlattenSeq, IsFlat
  <2> HIDE DEF g
  <2> QED
    BY <1>2, <2>1, <2>2, FlatGathers
<1> QED
  BY <1>1, <1>2

-----------------------------------------------------------------------------

(* The number of objects: ids that are listed twice count once.             *)
LEMMA SizeIs ==
    ASSUME ids \in Seq(Lists)
    PROVE  /\ originalID \in Seq(Int)
           /\ IsFiniteSet(Known)
           /\ size \in Nat /\ size <= Len(originalID)
           /\ size = Len(originalID) <=> IsInjective(originalID)
<1> DEFINE t == originalID
<1>1. t \in Seq(Int)
  BY FlattenGathers DEF Gathers, originalID
<1> HIDE DEF t
<1>2. t \in Surjection(1..Len(t), Range(t))
  BY <1>1 DEF Surjection, Range
<1>3. IsFiniteSet(1..Len(t)) /\ Cardinality(1..Len(t)) = Len(t) /\ Len(t) \in Nat
  <2>1. PICK p \in Nat : p = Len(t)
    BY <1>1
  <2>2. IsFiniteSet(1..p) /\ Cardinality(1..p) = p
    BY FS_Interval
  <2> QED
    BY <2>1, <2>2
<1>4. /\ IsFiniteSet(Range(t)) /\ Cardinality(Range(t)) <= Len(t)
      /\ Cardinality(Range(t)) = Len(t) <=> t \in Injection(1..Len(t), Range(t))
  BY <1>2, <1>3, FS_Surjection
<1>5. t \in Injection(1..Len(t), Range(t)) <=> IsInjective(t)
  BY <1>1, <1>2 DEF Injection, Surjection, IsInjective
<1>6. Cardinality(Range(t)) \in Nat
  BY <1>4, FS_CardinalityType
<1> QED
  BY <1>1, <1>4, <1>5, <1>6 DEF t, Known, size

(* What array2partition makes on zeroed memory: an object is named by the   *)
(* first that has its label.                                                *)
NamedByLabel(t, n) ==
    /\ t \in [0..(n - 1) -> Nat]
    /\ \A j \in 0..(n - 1) :
          /\ t[j] \in 0..j
          /\ Label(t[j]) = Label(j)
          /\ \A l \in 0..j : Label(l) = Label(j) => t[j] <= l

LEMMA NamesType ==
    ASSUME ids \in Seq(Lists), NEW T, NEW P \in Nat
    PROVE  Names(T, P) \in [0..(size - 1) -> Nat]
<1> DEFINE leaders(j) == {i \in 0..j : Label(i) = Label(j) /\ i \notin T}
           least(j) == CHOOSE i \in leaders(j) : \A l \in leaders(j) : i <= l
           t == Names(T, P)
<1>1. t = [j \in 0..(size - 1) |-> IF leaders(j) = {} THEN P ELSE least(j)]
  BY DEF Names
<1>2. size \in Nat
  BY SizeIs
<1>3. ASSUME NEW j \in 0..(size - 1), leaders(j) # {} PROVE least(j) \in Nat
  <2>1. leaders(j) \in SUBSET Nat
    BY <1>2
  <2>2. \E i \in leaders(j) : \A l \in leaders(j) : i <= l
    BY <1>3, <2>1, LeastElement
  <2> QED
    BY <2>1, <2>2
<1> HIDE DEF leaders, least, t
<1> QED
  BY <1>1, <1>3 DEF t

LEMMA NamesClean ==
    ASSUME ids \in Seq(Lists), NEW P \in Nat
    PROVE  NamedByLabel(Names({}, P), size)
<1> DEFINE leaders(j) == {i \in 0..j : Label(i) = Label(j) /\ i \notin {}}
           least(j) == CHOOSE i \in leaders(j) : \A l \in leaders(j) : i <= l
           t == Names({}, P)
<1>1. t = [j \in 0..(size - 1) |-> IF leaders(j) = {} THEN P ELSE least(j)]
  BY DEF Names
<1>2. size \in Nat
  BY SizeIs
<1>3. ASSUME NEW j \in 0..(size - 1)
      PROVE  leaders(j) # {} /\ least(j) \in leaders(j) /\ \A l \in leaders(j) : least(j) <= l
  <2>1. leaders(j) \in SUBSET Nat /\ j \in leaders(j)
    BY <1>2
  <2>2. \E i \in leaders(j) : \A l \in leaders(j) : i <= l
    BY <2>1, LeastElement
  <2> QED
    BY <2>1, <2>2
<1>4. ASSUME NEW j \in 0..(size - 1)
      PROVE  /\ t[j] \in 0..j
             /\ Label(t[j]) = Label(j)
             /\ \A l \in 0..j : Label(l) = Label(j) => t[j] <= l
  <2>1. t[j] = least(j)
    BY <1>1, <1>3
  <2> HIDE DEF least, t
  <2> QED
    BY <1>3, <2>1
<1>5. t \in [0..(size - 1) -> Nat]
  BY NamesType
<1> HIDE DEF t
<1>6. NamedByLabel(t, size)
  BY <1>4, <1>5 DEF NamedByLabel
<1> QED
  BY <1>6 DEF t

(* So they name classes, each by its least member.                          *)
LEMMA NamesAreClasses ==
    ASSUME NEW n \in Nat, NEW t, NamedByLabel(t, n)
    PROVE  /\ \A i, j \in 0..(n - 1) : t[i] = t[j] <=> Label(i) = Label(j)
           /\ \A j \in 0..(n - 1) : t[j] \in 0..(n - 1) /\ t[t[j]] = t[j]
           /\ Constructible(t)
<1>1. DOMAIN t = 0..(n - 1)
  BY DEF NamedByLabel
<1>2. ASSUME NEW j \in 0..(n - 1)
      PROVE  /\ t[j] \in 0..(n - 1) /\ t[j] <= j /\ Label(t[j]) = Label(j)
             /\ \A l \in 0..j : Label(l) = Label(j) => t[j] <= l
  BY DEF NamedByLabel
<1>3. ASSUME NEW i \in 0..(n - 1), NEW j \in 0..(n - 1), Label(i) = Label(j)
      PROVE  t[i] <= t[j]
  <2>1. t[j] \in 0..(n - 1) /\ Label(t[j]) = Label(i)
    BY <1>2, <1>3
  <2>2. CASE t[j] <= i
    BY <1>2, <2>1, <2>2
  <2>3. CASE i < t[j]
    BY <1>2, <2>1, <2>3
  <2> QED
    BY <2>1, <2>2, <2>3
<1>4. ASSUME NEW i \in 0..(n - 1), NEW j \in 0..(n - 1), Label(i) = Label(j)
      PROVE  t[i] = t[j]
  <2>1. t[i] <= t[j] /\ t[j] <= t[i] /\ t[i] \in Int /\ t[j] \in Int
    BY <1>2, <1>3, <1>4
  <2> QED
    BY <2>1
<1>5. \A i, j \in 0..(n - 1) : t[i] = t[j] <=> Label(i) = Label(j)
  BY <1>2, <1>4
<1>6. \A j \in 0..(n - 1) : t[j] \in 0..(n - 1) /\ t[t[j]] = t[j]
  BY <1>2, <1>4
<1>7. Constructible(t)
  BY <1>1, <1>2, <1>6 DEF Constructible
<1> QED
  BY <1>5, <1>6, <1>7

(* Objects whose ids one attribute value lists have one label, and no other *)
(* objects, when every id is listed once.                                   *)
LEMMA LabelByValue ==
    ASSUME ids \in Seq(Lists), ListsAll(ids)
    PROVE  /\ size = Len(originalID)
           /\ \A i \in 0..(size - 1) : Label(i) \in DOMAIN ids /\ i \in Range(ids[Label(i)])
           /\ \A i \in 0..(size - 1), v \in DOMAIN ids : i \in Range(ids[v]) => v = Label(i)
<1> DEFINE t == originalID
<1>1. /\ Gathers(t, ids, Len(ids)) /\ IsInjective(t) /\ Range(t) = 0..(Len(t) - 1)
      /\ Known = Range(t) /\ size \in Nat /\ size = Len(t)
  BY FlattenGathers, SizeIs DEF ListsAll, originalID, Known
<1>2. Disjoint(ids, Len(ids)) /\ DOMAIN ids = 1..Len(ids)
  BY <1>1 DEF Gathers
<1> DEFINE First(i, k) == i \in Range(ids[k]) /\ \A l \in 1..(k - 1) : i \notin Range(ids[l])
<1>3. ASSUME NEW i \in 0..(size - 1)
      PROVE  \E k \in DOMAIN ids : First(i, k)
  <2>1. PICK k \in 1..Len(ids) : i \in Range(ids[k])
    BY <1>1 DEF Gathers
  <2>2. ASSUME NEW l \in 1..(k - 1), i \in Range(ids[l]) PROVE FALSE
    <3>1. l \in 1..Len(ids) /\ l # k
      OBVIOUS
    <3> QED
      BY <1>1, <1>2, <2>1, <2>2, <3>1 DEF Disjoint
  <2> QED
    BY <1>2, <2>1, <2>2
<1>4. ASSUME NEW i \in 0..(size - 1)
      PROVE  Label(i) \in DOMAIN ids /\ First(i, Label(i))
  <2>1. i \in Known
    BY <1>1
  <2>2. Label(i) = CHOOSE k \in DOMAIN ids : First(i, k)
    BY <2>1 DEF Label
  <2> HIDE DEF First
  <2> QED
    BY <1>3, <2>2
<1>5. ASSUME NEW i \in 0..(size - 1), NEW v \in DOMAIN ids, i \in Range(ids[v])
      PROVE  v = Label(i)
  <2>1. Label(i) \in DOMAIN ids /\ i \in Range(ids[Label(i)])
    BY <1>4
  <2>2. i \in Int
    BY <1>1
  <2> QED
    BY <1>2, <1>5, <2>1, <2>2 DEF Disjoint
<1> QED
  BY <1>1, <1>4, <1>5

-----------------------------------------------------------------------------

(* One id per attribute value, 0, 1, ... in any order: as many values as    *)
(* ids, so no id is listed twice, and no two objects fall together.         *)
LEMMA OneEachListsAll ==
    ASSUME NEW d \in Seq(Lists), OneEach(d)
    PROVE  /\ ListsAll(d)
           /\ \A v \in DOMAIN d : \A i, j \in Range(d[v]) : i = j
           /\ Len(FlattenSeq(d)) = Len(d)
<1> DEFINE t == FlattenSeq(d)
<1>1. Gathers(t, d, Len(d)) /\ t \in Seq(Int)
  BY FlattenGathers DEF Gathers
<1> HIDE DEF t
<1>2. PICK n \in Nat : n = Len(d) /\ DOMAIN d = 1..n
  OBVIOUS
<1>3. \A i \in 1..n : Len(d[i]) = 1 /\ d[i] \in Seq(Int)
  <2>1. ASSUME NEW i \in 1..n PROVE d[i] \in Lists
    BY <1>2
  <2> QED
    BY <1>2, <2>1 DEF OneEach, Lists
<1>4. Len(t) = n /\ \A i \in 1..n : t[i] = d[i][1]
  BY <1>1, <1>2, <1>3 DEF Gathers, OneElement
<1>5. DOMAIN t = 1..n
  BY <1>1, <1>2, <1>4
<1>6. Range(t) = 0..(n - 1)
  BY <1>2, <1>4, <1>5 DEF Range, OneEach
<1>7. IsInjective(t)
  <2>1. t \in Surjection(1..n, 0..(n - 1))
    <3>1. t \in [1..n -> Int]
      BY <1>1, <1>5
    <3>2. \A i \in 1..n : t[i] \in 0..(n - 1)
      BY <1>5, <1>6 DEF Range
    <3>3. t \in [1..n -> 0..(n - 1)]
      BY <3>1, <3>2
    <3>4. \A x \in 0..(n - 1) : \E i \in 1..n : t[i] = x
      BY <1>5, <1>6 DEF Range
    <3> QED
      BY <3>3, <3>4 DEF Surjection
  <2>2. IsFiniteSet(1..n) /\ Cardinality(1..n) = n
    BY FS_Interval
  <2>3. Cardinality(0..(n - 1)) = n
    <3>1. PICK m \in Int : m = n - 1
      OBVIOUS
    <3>2. Cardinality(0..m) = IF 0 > m THEN 0 ELSE m - 0 + 1
      BY FS_Interval
    <3> QED
      BY <3>1, <3>2
  <2>4. t \in Injection(1..n, 0..(n - 1))
    BY <2>1, <2>2, <2>3, FS_SurjSameCardinalityImpliesInj
  <2> QED
    BY <1>5, <2>4 DEF Injection, IsInjective
<1>8. ListsAll(d)
  BY <1>4, <1>6, <1>7 DEF ListsAll, t
<1>9. ASSUME NEW v \in DOMAIN d, NEW i \in Range(d[v]), NEW j \in Range(d[v]) PROVE i = j
  <2>1. DOMAIN d[v] = 1..1
    BY <1>2, <1>3
  <2> QED
    BY <1>9, <2>1 DEF Range
<1> QED
  BY <1>2, <1>4, <1>8, <1>9 DEF t

-----------------------------------------------------------------------------
(* The invariant of the front end.                                          *)
Run ==
    [class : UNION {[0..(n - 1) -> Nat] : n \in Nat}, class_nb : Nat, size : Nat,
     correlate : UNION {[0..(n - 1) -> Int] : n \in Nat}]

FrontTypeInv ==
    /\ dirs \in Requests
    /\ done \in Seq(Run)
    /\ Len(done) <= Len(dirs)
    /\ ids \in Seq(Lists)

(* How far the runs have come.                                              *)
Extracting == {"create", "mapsize", "open", "begin", "dbi", "cursor"}
Extracted == {"close", "abort", "leave cursor", "leave txn", "leave env", "parse"}

ProgressInv ==
    /\ stage \in Extracting \cup {"get"} \cup Extracted => Len(done) < Len(dirs)
    /\ stage \in {"group", "done"} => Len(done) = Len(dirs)
    /\ stage \in Extracting => ids = << >>
    /\ stage = "get" =>
          /\ Len(ids) <= Len(Dir)
          /\ \A k \in 1..Len(ids) : ids[k] = Dir[k]
    /\ stage \in Extracted => ids = Dir

(* What a run on zeroed memory makes of a directory.                        *)
ByValue(class, d) ==
    \A i, j \in DOMAIN class :
        class[i] = class[j] <=> \E v \in DOMAIN d : {i, j} \subseteq Range(d[v])

OwnClasses(class, n) == \A j \in 0..(n - 1) : class[j] = j

Shape(r, d) ==
    /\ r.class_nb = Len(d)
    /\ r.size <= Len(FlattenSeq(d))
    /\ r.size = Len(FlattenSeq(d)) <=> IsInjective(FlattenSeq(d))
    /\ r.correlate = [i \in 0..(r.size - 1) |-> FlattenSeq(d)[i + 1]]
    /\ r.class \in [0..(r.size - 1) -> Nat]
    /\ \A j \in 0..(r.size - 1) :
          r.class[j] \in 0..(r.size - 1) /\ r.class[r.class[j]] = r.class[j]
    /\ \A j, l \in 0..(r.size - 1) : r.class[l] = r.class[j] => r.class[j] <= l

Made(r, d) ==
    /\ Shape(r, d)
    /\ ListsAll(d) => ByValue(r.class, d)
    /\ OneEach(d) => OwnClasses(r.class, r.size)

MadeInv ==
    clean =>
        /\ \A k \in 1..Len(done) : Made(done[k], dirs[k])
        /\ stage = "fault" => Len(done) = Len(dirs)

FrontInv == FrontTypeInv /\ ProgressInv /\ MadeInv /\ SingleGroups

LEMMA RequestIs ==
    ASSUME NEW r \in Requests
    PROVE  r \in Seq(Seq(Lists)) /\ Len(r) \in 1..3
BY RequestsAssumption DEF Lists

LEMMA FrontInitInv == FrontInit => FrontInv
<1> SUFFICES ASSUME FrontInit PROVE FrontInv
  OBVIOUS
<1>1. /\ dirs \in Requests /\ done = << >> /\ ids = << >> /\ stage = "create"
  BY DEF FrontInit
<1>2. Len(dirs) \in 1..3
  BY <1>1, RequestIs
<1>3. FrontTypeInv
  BY <1>1, <1>2 DEF FrontTypeInv
<1>4. ProgressInv
  BY <1>1, <1>2 DEF ProgressInv, Extracting, Extracted
<1>5. MadeInv /\ SingleGroups
  BY <1>1 DEF MadeInv, SingleGroups
<1> QED
  BY <1>3, <1>4, <1>5 DEF FrontInv

(* A step that only moves on within the extraction of a directory.          *)
MovesOn ==
    \/ stage \in Extracting /\ stage' \in Extracting \cup {"get"}
    \/ stage \in Extracted /\ stage' \in Extracted
    \/ stage' \in {"unwind cursor", "unwind txn", "unwind env", "thrown"}

LEMMA MovesOnInv ==
    ASSUME FrontInv, MovesOn, UNCHANGED <<dirs, done, ids, clean, groups>>
    PROVE  FrontInv'
<1>1. FrontTypeInv'
  BY DEF FrontInv, FrontTypeInv
<1>2. stage' \notin {"fault", "done", "group"}
  BY DEF MovesOn, Extracting, Extracted
<1>3. ProgressInv'
  <2>1. CASE stage \in Extracting /\ stage' \in Extracting \cup {"get"}
    <3>1. ids = << >> /\ Len(done) < Len(dirs) /\ dirs \in Seq(Seq(Lists)) /\ done \in Seq(Run)
      BY <2>1, RequestIs DEF FrontInv, FrontTypeInv, ProgressInv
    <3>2. Len(Dir) \in Nat
      <4>1. Len(done) + 1 \in 1..Len(dirs)
        BY <3>1
      <4>2. Dir \in Seq(Lists)
        BY <3>1, <4>1 DEF Dir
      <4> QED
        BY <4>2
    <3>3. /\ Len(done') < Len(dirs') /\ ids' = << >> /\ Dir' = Dir
          /\ stage' \notin Extracted /\ stage' \notin {"group", "done"}
      BY <2>1, <3>1 DEF Extracting, Extracted, Dir
    <3>4. Len(ids') = 0
      BY <3>3
    <3> HIDE DEF Dir
    <3> QED
      BY <3>2, <3>3, <3>4 DEF ProgressInv
  <2>2. CASE stage \in Extracted /\ stage' \in Extracted
    BY <2>2 DEF FrontInv, ProgressInv, Extracting, Extracted, Dir
  <2>3. CASE stage' \in {"unwind cursor", "unwind txn", "unwind env", "thrown"}
    BY <2>3 DEF ProgressInv, Extracting, Extracted
  <2> QED
    BY <2>1, <2>2, <2>3 DEF MovesOn
<1>4. MadeInv'
  <2>1. \A r, d : Made(r, d)' <=> Made(r, d)'
    OBVIOUS
  <2> QED
    BY <1>2 DEF FrontInv, MadeInv
<1>5. SingleGroups'
  <2>1. CASE ~(Len(dirs) = 1 /\ clean)
    BY <2>1 DEF SingleGroups
  <2> QED
    BY <1>2 DEF SingleGroups
<1> QED
  BY <1>1, <1>3, <1>4, <1>5 DEF FrontInv

LEMMA PrologueInv == ASSUME FrontInv, Prologue PROVE FrontInv'
<1>1. MovesOn
  BY DEF MovesOn, Prologue, Call, Extracting
<1>2. UNCHANGED <<dirs, done, ids, clean, groups>>
  BY DEF Prologue, Call
<1> QED
  BY <1>1, <1>2, MovesOnInv

LEMMA ClosingInv == ASSUME FrontInv, Epilogue \/ Unwind PROVE FrontInv'
<1>1. MovesOn
  BY DEF MovesOn, Epilogue, Unwind, Closing, Extracted
<1>2. UNCHANGED <<dirs, done, ids, clean, groups>>
  BY DEF Epilogue, Unwind, Closing
<1> QED
  BY <1>1, <1>2, MovesOnInv

LEMMA GetFailsInv == ASSUME FrontInv, GetFails PROVE FrontInv'
<1>1. MovesOn
  BY DEF MovesOn, GetFails
<1>2. UNCHANGED <<dirs, done, ids, clean, groups>>
  BY DEF GetFails
<1> QED
  BY <1>1, <1>2, MovesOnInv

LEMMA GetInv == ASSUME FrontInv, Get PROVE FrontInv'
<1>1. /\ stage = "get" /\ UNCHANGED <<dirs, done, clean, groups>>
      /\ dirs \in Seq(Seq(Lists)) /\ done \in Seq(Run) /\ Len(done) < Len(dirs)
      /\ ids \in Seq(Lists) /\ Len(ids) <= Len(Dir)
      /\ \A k \in 1..Len(ids) : ids[k] = Dir[k]
  BY RequestIs DEF Get, FrontInv, FrontTypeInv, ProgressInv
<1>2. Dir \in Seq(Lists)
  <2>1. Len(done) + 1 \in 1..Len(dirs)
    BY <1>1
  <2> QED
    BY <1>1, <2>1 DEF Dir
<1>3. Dir' = Dir
  BY <1>1 DEF Dir
<1>4. stage' \in {"get", "close"}
  BY <1>1 DEF Get
<1>5. MadeInv' /\ SingleGroups'
  <2>1. CASE clean
    BY <1>1, <1>4, <2>1 DEF FrontInv, MadeInv, SingleGroups
  <2>2. CASE ~clean
    BY <1>1, <2>2 DEF MadeInv, SingleGroups
  <2> QED
    BY <2>1, <2>2
<1>6. CASE Len(ids) < Len(Dir)
  <2>1. stage' = "get" /\ ids' = Append(ids, Dir[Len(ids) + 1])
    BY <1>1, <1>6 DEF Get
  <2>2. Dir[Len(ids) + 1] \in Lists
    <3>1. Len(ids) + 1 \in 1..Len(Dir)
      BY <1>1, <1>2, <1>6
    <3> QED
      BY <1>2, <3>1
  <2>3. /\ ids' \in Seq(Lists) /\ Len(ids') = Len(ids) + 1
        /\ \A k \in 1..(Len(ids) + 1) : ids'[k] = Dir[k]
    BY <1>1, <2>1, <2>2
  <2>4. FrontTypeInv'
    BY <1>1, <2>3 DEF FrontInv, FrontTypeInv
  <2>5. Len(ids') <= Len(Dir)
    BY <1>1, <1>2, <1>6, <2>3
  <2>6. ProgressInv'
    BY <1>1, <1>3, <2>1, <2>3, <2>5 DEF ProgressInv, Extracting, Extracted
  <2> QED
    BY <1>5, <2>4, <2>6 DEF FrontInv
<1>7. CASE ~(Len(ids) < Len(Dir))
  <2>1. stage' = "close" /\ ids' = ids
    BY <1>1, <1>7 DEF Get
  <2>2. Len(ids) = Len(Dir)
    BY <1>1, <1>2, <1>7
  <2>3. ids = Dir
    BY <1>1, <1>2, <2>2
  <2>4. FrontTypeInv'
    BY <1>1, <2>1 DEF FrontInv, FrontTypeInv
  <2>5. ProgressInv'
    BY <1>1, <1>3, <2>1, <2>3 DEF ProgressInv, Extracting, Extracted
  <2> QED
    BY <1>5, <2>4, <2>5 DEF FrontInv
<1> QED
  BY <1>6, <1>7

(* A run on zeroed memory, with the ids of its directory all extracted.     *)
LEMMA CleanRun ==
    ASSUME ids \in Seq(Lists), NEW P \in Nat, NEW r,
           r = [class |-> Names({}, P), class_nb |-> Len(ids), size |-> size,
                correlate |-> [i \in 0..(size - 1) |-> originalID[i + 1]]]
    PROVE  Made(r, ids) /\ Constructible(Names({}, P))
<1> DEFINE t == Names({}, P)
<1>1. /\ r.class = t /\ r.class_nb = Len(ids) /\ r.size = size
      /\ r.correlate = [i \in 0..(size - 1) |-> originalID[i + 1]]
  OBVIOUS
<1>2. NamedByLabel(t, size)
  BY NamesClean
<1> HIDE DEF t
<1>3. /\ size \in Nat /\ size <= Len(originalID)
      /\ size = Len(originalID) <=> IsInjective(originalID)
  BY SizeIs
<1>4. PICK n \in Nat : n = size
  BY <1>3
<1>5. /\ t \in [0..(n - 1) -> Nat]
      /\ \A j \in 0..(n - 1) : \A l \in 0..j : Label(l) = Label(j) => t[j] <= l
      /\ \A j \in 0..(n - 1) : t[j] <= j
  BY <1>2, <1>4 DEF NamedByLabel
<1>6. /\ \A i, j \in 0..(n - 1) : t[i] = t[j] <=> Label(i) = Label(j)
      /\ \A j \in 0..(n - 1) : t[j] \in 0..(n - 1) /\ t[t[j]] = t[j]
      /\ Constructible(t)
  BY <1>2, <1>4, NamesAreClasses
<1>7. ASSUME NEW j \in 0..(n - 1), NEW l \in 0..(n - 1), t[l] = t[j] PROVE t[j] <= l
  BY <1>5, <1>7
<1>8. Shape(r, ids)
  BY <1>1, <1>3, <1>4, <1>5, <1>6, <1>7 DEF Shape, originalID
<1>9. ASSUME ListsAll(ids) PROVE ByValue(t, ids)
  <2>1. /\ \A i \in 0..(n - 1) : Label(i) \in DOMAIN ids /\ i \in Range(ids[Label(i)])
        /\ \A i \in 0..(n - 1), v \in DOMAIN ids : i \in Range(ids[v]) => v = Label(i)
    BY <1>4, <1>9, LabelByValue
  <2>2. ASSUME NEW i \in 0..(n - 1), NEW j \in 0..(n - 1)
        PROVE  t[i] = t[j] <=> \E v \in DOMAIN ids : {i, j} \subseteq Range(ids[v])
    <3>1. Label(i) = Label(j) => \E v \in DOMAIN ids : {i, j} \subseteq Range(ids[v])
      BY <2>1
    <3>2. (\E v \in DOMAIN ids : {i, j} \subseteq Range(ids[v])) => Label(i) = Label(j)
      BY <2>1
    <3> QED
      BY <1>6, <3>1, <3>2
  <2> QED
    BY <1>5, <2>2 DEF ByValue
<1>10. ASSUME OneEach(ids) PROVE OwnClasses(t, n)
  <2>1. ByValue(t, ids) /\ \A v \in DOMAIN ids : \A i, j \in Range(ids[v]) : i = j
    BY <1>9, <1>10, OneEachListsAll
  <2>2. ASSUME NEW j \in 0..(n - 1) PROVE t[j] = j
    <3>1. t[j] \in DOMAIN t /\ j \in DOMAIN t /\ t[t[j]] = t[j]
      BY <1>5, <1>6
    <3> QED
      BY <2>1, <3>1 DEF ByValue
  <2> QED
    BY <2>2 DEF OwnClasses
<1> QED
  BY <1>1, <1>4, <1>6, <1>8, <1>9, <1>10 DEF Made, t

LEMMA ParseInv == ASSUME FrontInv, Parse PROVE FrontInv'
<1>1. /\ stage = "parse" /\ ids' = << >> /\ UNCHANGED <<dirs, groups>>
      /\ dirs \in Seq(Seq(Lists)) /\ Len(dirs) \in 1..3 /\ done \in Seq(Run)
      /\ Len(done) < Len(dirs) /\ ids \in Seq(Lists) /\ ids = Dir
  BY RequestIs DEF Parse, FrontInv, FrontTypeInv, ProgressInv, Extracted
<1>2. PICK T \in SUBSET ((0..(size - 1)) \ Cleared), P \in 0..size :
          /\ clean' = (clean /\ T = {})
          /\ IF Constructible(Names(T, P))
             THEN /\ done' = Append(done,
                        [class |-> Names(T, P), class_nb |-> Len(ids), size |-> size,
                         correlate |-> [i \in 0..(size - 1) |-> originalID[i + 1]]])
                  /\ stage' = IF Len(done') < Len(dirs) THEN "create" ELSE "group"
             ELSE stage' = "fault" /\ UNCHANGED done
  BY DEF Parse
<1> DEFINE r == [class |-> Names(T, P), class_nb |-> Len(ids), size |-> size,
                 correlate |-> [i \in 0..(size - 1) |-> originalID[i + 1]]]
<1>3. size \in Nat /\ originalID \in Seq(Int) /\ size <= Len(originalID) /\ P \in Nat
  BY <1>1, SizeIs
<1>4. r \in Run
  <2>1. Names(T, P) \in [0..(size - 1) -> Nat]
    BY <1>1, <1>3, NamesType
  <2>2. [i \in 0..(size - 1) |-> originalID[i + 1]] \in [0..(size - 1) -> Int]
    <3>1. ASSUME NEW i \in 0..(size - 1) PROVE originalID[i + 1] \in Int
      BY <1>3
    <3> QED
      BY <3>1
  <2>3. Len(ids) \in Nat
    BY <1>1
  <2> QED
    BY <1>3, <2>1, <2>2, <2>3 DEF Run
<1>5. clean' => Made(r, ids) /\ Constructible(Names(T, P))
  BY <1>1, <1>2, <1>3, CleanRun
<1>6. clean' => clean
  BY <1>2
<1> HIDE DEF r
<1>7. CASE Constructible(Names(T, P))
  <2>1. done' = Append(done, r) /\ stage' = IF Len(done') < Len(dirs) THEN "create" ELSE "group"
    BY <1>2, <1>7 DEF r
  <2>2. /\ done' \in Seq(Run) /\ Len(done') = Len(done) + 1
        /\ done'[Len(done) + 1] = r
        /\ \A k \in 1..Len(done) : done'[k] = done[k]
    BY <1>1, <1>4, <2>1
  <2>3. FrontTypeInv'
    BY <1>1, <2>2 DEF FrontInv, FrontTypeInv
  <2>4. ProgressInv'
    <3>1. CASE stage' = "create"
      BY <1>1, <2>1, <2>2, <3>1 DEF ProgressInv, Extracting, Extracted
    <3>2. CASE stage' = "group"
      BY <1>1, <2>1, <2>2, <3>2 DEF ProgressInv, Extracting, Extracted
    <3> QED
      BY <2>1, <3>1, <3>2
  <2>5. MadeInv'
    <3> SUFFICES ASSUME clean' PROVE \A k \in 1..Len(done') : Made(done'[k], dirs[k])
      BY <1>1, <2>1 DEF MadeInv
    <3>1. \A k \in 1..Len(done) : Made(done'[k], dirs[k])
      BY <1>6, <2>2 DEF FrontInv, MadeInv
    <3>2. Made(done'[Len(done) + 1], dirs[Len(done) + 1])
      BY <1>1, <1>5, <2>2 DEF Dir
    <3>3. ASSUME NEW k \in 1..Len(done')
          PROVE  k \in 1..Len(done) \/ k = Len(done) + 1
      BY <1>1, <2>2
    <3> QED
      BY <3>1, <3>2, <3>3
  <2>6. SingleGroups'
    BY <1>1, <2>1 DEF SingleGroups
  <2> QED
    BY <2>3, <2>4, <2>5, <2>6 DEF FrontInv
<1>8. CASE ~Constructible(Names(T, P))
  <2>1. done' = done /\ stage' = "fault" /\ ~clean'
    BY <1>2, <1>5, <1>8
  <2>2. FrontTypeInv'
    BY <1>1, <2>1 DEF FrontInv, FrontTypeInv
  <2>3. ProgressInv'
    BY <2>1 DEF ProgressInv, Extracting, Extracted
  <2> QED
    BY <2>1, <2>2, <2>3 DEF FrontInv, MadeInv, SingleGroups
<1> QED
  BY <1>7, <1>8

-----------------------------------------------------------------------------
(* With one directory, and a class for each object, the walk over the ids   *)
(* of the classes meets them as 0, 1, ...                                   *)
LEMMA InOrderOfAll ==
    ASSUME NEW n \in Nat
    PROVE  InOrder(0..(n - 1)) = [k \in 1..n |-> k - 1]
<1> DEFINE S == 0..(n - 1)
<1>1. Cardinality(S) = n
  <2>1. PICK m \in Int : m = n - 1
    OBVIOUS
  <2>2. Cardinality(0..m) = IF 0 > m THEN 0 ELSE m - 0 + 1
    BY FS_Interval
  <2> QED
    BY <2>1, <2>2
<1>2. ASSUME NEW c \in S PROVE Cardinality({d \in S : d < c}) = c
  <2>1. PICK m \in Int : m = c - 1
    OBVIOUS
  <2>2. {d \in S : d < c} = 0..m
    BY <2>1
  <2>3. Cardinality(0..m) = IF 0 > m THEN 0 ELSE m - 0 + 1
    BY FS_Interval
  <2>4. Cardinality(0..m) = c
    BY <2>1, <2>3
  <2> QED
    BY <2>2, <2>4
<1>3. ASSUME NEW k \in 1..n
      PROVE  (CHOOSE c \in S : Cardinality({d \in S : d < c}) = k - 1) = k - 1
  <2> DEFINE Ranked(c) == Cardinality({d \in S : d < c}) = k - 1
  <2>1. \A c \in S : Ranked(c) <=> c = k - 1
    BY <1>2
  <2>2. k - 1 \in S
    OBVIOUS
  <2> HIDE DEF Ranked, S
  <2>3. (CHOOSE c \in S : Ranked(c)) = k - 1
    BY <2>1, <2>2
  <2> QED
    BY <2>3 DEF Ranked
<1>4. InOrder(S) = [k \in 1..n |-> CHOOSE c \in S : Cardinality({d \in S : d < c}) = k - 1]
  BY <1>1 DEF InOrder
<1> HIDE DEF S
<1>5. InOrder(S) = [k \in 1..n |-> k - 1]
  BY <1>3, <1>4
<1> QED
  BY <1>5 DEF S

(* The meet of one partition is the partition.                              *)
LEMMA ClassOfOne ==
    ASSUME Len(done) = 1, done \in Seq(Run), NEW d, Shape(done[1], d)
    PROVE  Class = done[1].class
<1> DEFINE c == done[1].class
           n == done[1].size
           Least(j, i) == c[i] = c[j] /\ \A l \in 0..(n - 1) : c[l] = c[j] => i <= l
<1>1. DOMAIN done = 1..1
  OBVIOUS
<1>2. /\ c \in [0..(n - 1) -> Nat]
      /\ \A j \in 0..(n - 1) : c[j] \in 0..(n - 1) /\ c[c[j]] = c[j]
      /\ \A j, l \in 0..(n - 1) : c[l] = c[j] => c[j] <= l
  BY DEF Shape
<1>3. n \in Nat
  <2>1. done[1] \in Run
    OBVIOUS
  <2> QED
    BY <2>1 DEF Run
<1> DEFINE common == {j \in DOMAIN done[1].class :
                         \A k \in DOMAIN done : j \in DOMAIN done[k].class}
           Same(i, j) == \A k \in DOMAIN done : done[k].class[i] = done[k].class[j]
<1>4. common = 0..(n - 1)
  <2>1. DOMAIN c = 0..(n - 1)
    BY <1>2
  <2>2. \A k \in DOMAIN done : k = 1
    BY <1>1
  <2> QED
    BY <2>1, <2>2, Zenon
<1>a. \A i, j : Same(i, j) <=> c[i] = c[j]
  BY <1>1
<1>b. Class = [j \in common |-> CHOOSE i \in common :
                  Same(i, j) /\ \A l \in common : Same(l, j) => i <= l]
  BY DEF Class
<1> HIDE DEF c, n, common, Same
<1>5. Class = [j \in 0..(n - 1) |-> CHOOSE i \in 0..(n - 1) : Least(j, i)]
  BY <1>4, <1>a, <1>b
<1>6. ASSUME NEW j \in 0..(n - 1)
      PROVE  (CHOOSE i \in 0..(n - 1) : Least(j, i)) = c[j]
  <2>1. Least(j, c[j]) /\ c[j] \in 0..(n - 1)
    BY <1>2
  <2>2. ASSUME NEW i \in 0..(n - 1), Least(j, i) PROVE i = c[j]
    <3>1. i <= c[j] /\ c[j] <= i
      BY <1>2, <2>1, <2>2
    <3> QED
      BY <1>3, <2>1, <3>1
  <2> HIDE DEF Least
  <2> QED
    BY <2>1, <2>2
<1> HIDE DEF Least
<1> QED
  BY <1>2, <1>5, <1>6 DEF c

(* The ids, of those that t lists, of the n objects in class x.             *)
IdsIn(t, c, n, x) == {t[j + 1] : j \in {l \in 0..(n - 1) : c[l] = x}}

(* The groups of one directory when its constructor gets through.           *)
LEMMA GroupOfOne ==
    ASSUME NEW n \in Nat, NEW d \in Seq(Lists), NEW c, NEW t,
           t = FlattenSeq(d), Len(t) = n, n <= Len(d),
           OwnClasses(c, n), DOMAIN c = 0..(n - 1),
           NEW k \in 1..n
    PROVE  IdsIn(t, c, n, k - 1) = Range(d[k])
<1>1. Gathers(t, d, Len(d))
  BY FlattenGathers
<1>2. Len(t) = Len(d) /\ OneElement(t, d, Len(d))
  BY <1>1 DEF Gathers
<1>3. k \in 1..Len(d) /\ d[k] \in Lists
  BY <1>2
<1>4. Len(d[k]) = 1 /\ t[k] = d[k][1] /\ d[k] \in Seq(Int)
  BY <1>2, <1>3 DEF OneElement, Lists
<1>5. Range(d[k]) = {t[k]}
  <2>1. DOMAIN d[k] = 1..1
    BY <1>4
  <2> QED
    BY <1>4, <2>1 DEF Range
<1>6. {l \in 0..(n - 1) : c[l] = k - 1} = {k - 1}
  BY DEF OwnClasses
<1>7. (k - 1) + 1 = k
  OBVIOUS
<1> QED
  BY <1>5, <1>6, <1>7 DEF IdsIn

(* A class for each of n objects: each is its own.                          *)
LEMMA AllClasses ==
    ASSUME NEW n \in Nat, NEW c \in [0..(n - 1) -> Nat],
           \A j \in 0..(n - 1) : c[j] \in 0..(n - 1) /\ c[c[j]] = c[j]
    PROVE  /\ IsFiniteSet(Range(c)) /\ Cardinality(Range(c)) \in Nat
           /\ n <= Cardinality(Range(c)) <=> OwnClasses(c, n)
           /\ OwnClasses(c, n) => Range(c) = 0..(n - 1)
<1> DEFINE S == 0..(n - 1)
<1>1. IsFiniteSet(S) /\ Cardinality(S) = n
  <2>1. PICK m \in Int : m = n - 1
    OBVIOUS
  <2>2. IsFiniteSet(0..m) /\ Cardinality(0..m) = IF 0 > m THEN 0 ELSE m - 0 + 1
    BY FS_Interval
  <2> QED
    BY <2>1, <2>2
<1>2. Range(c) \in SUBSET S
  BY DEF Range
<1>3. /\ IsFiniteSet(Range(c)) /\ Cardinality(Range(c)) <= n
      /\ Cardinality(Range(c)) = n => Range(c) = S
  <2> HIDE DEF S
  <2> QED
    BY <1>1, <1>2, FS_Subset
<1>4. Cardinality(Range(c)) \in Nat
  BY <1>3, FS_CardinalityType
<1>5. ASSUME OwnClasses(c, n) PROVE Range(c) = S
  BY <1>5 DEF OwnClasses, Range
<1>6. ASSUME Range(c) = S PROVE OwnClasses(c, n)
  <2>1. ASSUME NEW j \in S PROVE c[j] = j
    <3>1. PICK i \in S : c[i] = j
      BY <1>6 DEF Range
    <3> QED
      BY <3>1
  <2> QED
    BY <2>1 DEF OwnClasses
<1>7. n <= Cardinality(Range(c)) <=> OwnClasses(c, n)
  <2>1. n <= Cardinality(Range(c)) <=> Cardinality(Range(c)) = n
    BY <1>3, <1>4
  <2>2. Cardinality(Range(c)) = n <=> Range(c) = S
    BY <1>1, <1>3
  <2> QED
    BY <1>5, <1>6, <2>1, <2>2
<1> QED
  BY <1>3, <1>4, <1>5, <1>7

LEMMA LengthOf ==
    ASSUME NEW n \in Nat, NEW f, f = [k \in 1..n |-> f[k]]
    PROVE  Len(f) = n
<1> DEFINE X == {f[k] : k \in 1..n}
<1>1. f \in [1..n -> X]
  <2>1. \A k \in 1..n : f[k] \in X
    OBVIOUS
  <2> HIDE DEF X
  <2> QED
    BY <2>1
<1> HIDE DEF X
<1>2. f \in Seq(X)
  BY <1>1
<1> QED
  BY <1>1, <1>2

(* The step of Group for one directory.  To get through, the constructor    *)
(* needs a class and an attribute value for each object; when no id is      *)
(* listed twice, every list has one id then.                                *)
LEMMA GroupSingle ==
    ASSUME FrontInv, Group, clean, Len(dirs) = 1
    PROVE  /\ stage' = "done" /\ IsInjective(FlattenSeq(dirs[1])) =>
                 \A nm \in DOMAIN groups' : groups'[nm] = Range(dirs[1][nm[1]])
           /\ OneEach(dirs[1]) => stage' # "fault"
<1> DEFINE r == done[1]
           d == dirs[1]
           n == r.size
           c == r.class
           t == FlattenSeq(d)
<1>1. /\ stage = "group" /\ Len(done) = 1 /\ done \in Seq(Run)
      /\ dirs \in Seq(Seq(Lists)) /\ Made(r, d)
  <2>1. stage = "group"
    BY DEF Group
  <2>2. Len(done) = 1 /\ done \in Seq(Run) /\ dirs \in Requests
    BY <2>1 DEF FrontInv, FrontTypeInv, ProgressInv
  <2>3. \A k \in 1..Len(done) : Made(done[k], dirs[k])
    BY DEF FrontInv, MadeInv
  <2> QED
    BY <2>1, <2>2, <2>3, RequestIs
<1>2. d \in Seq(Lists) /\ r \in Run /\ DOMAIN done = 1..1 /\ DOMAIN dirs = 1..1
  BY <1>1
<1>3. n \in Nat
  BY <1>2 DEF Run
<1>4. Size = n
  BY <1>1 DEF Size
<1>5. Class = c
  BY <1>1, ClassOfOne DEF Made
<1> HIDE DEF c, n, d, t
<1>6. /\ r.class_nb = Len(d) /\ n <= Len(t)
      /\ n = Len(t) <=> IsInjective(t)
      /\ r.correlate = [i \in 0..(n - 1) |-> t[i + 1]]
      /\ c \in [0..(n - 1) -> Nat]
      /\ \A j \in 0..(n - 1) : c[j] \in 0..(n - 1) /\ c[c[j]] = c[j]
      /\ OneEach(d) => OwnClasses(c, n)
  BY <1>1 DEF Made, Shape, c, n, d, t
<1>7. PICK M \in [0..(Size - 1) -> 0..Size] :
          /\ \A j \in (0..(Size - 1)) \cap DOMAIN Class : M[j] = Class[j]
          /\ IF NamesReadable /\ Size <= Len(GroupsOf(M))
             THEN /\ groups' = [nm \in Range(JoinNames) |-> GroupsOf(M)[nm[1]]]
                  /\ stage' = "done"
             ELSE stage' = "fault" /\ UNCHANGED groups
  BY DEF Group
<1>8. \A j \in 0..(n - 1) : M[j] = c[j]
  BY <1>4, <1>5, <1>6, <1>7
<1> DEFINE Ids(x) == IdsIn(t, c, n, x)
           order == InOrder(Range(c))
           card == Cardinality(Range(c))
<1>9. /\ card \in Nat
      /\ n <= card <=> OwnClasses(c, n)
      /\ OwnClasses(c, n) => Range(c) = 0..(n - 1)
  BY <1>3, <1>6, AllClasses
<1>10. GroupsOf(M) = [k \in 1..card |-> Ids(order[k])]
  <2> DEFINE Ids2(x) == {IF j \in DOMAIN r.correlate THEN r.correlate[j] ELSE 0 :
                            j \in {l \in 0..(Size - 1) : M[l] = x}}
  <2>1. DOMAIN order = 1..card
    BY DEF InOrder
  <2>2. GroupsOf(M) = [k \in 1..card |-> Ids2(order[k])]
    <3> HIDE DEF order
    <3> QED
      BY <1>5, <2>1 DEF GroupsOf, order
  <2>3. ASSUME NEW x PROVE Ids2(x) = Ids(x)
    <3>1. {l \in 0..(Size - 1) : M[l] = x} = {l \in 0..(n - 1) : c[l] = x}
      BY <1>4, <1>8
    <3>2. \A j \in 0..(n - 1) :
             (IF j \in DOMAIN r.correlate THEN r.correlate[j] ELSE 0) = t[j + 1]
      BY <1>6
    <3> QED
      BY <3>1, <3>2 DEF IdsIn
  <2> HIDE DEF Ids2, Ids, order, card
  <2> QED
    BY <2>2, <2>3
<1>11. Len(GroupsOf(M)) = card
  <2> HIDE DEF Ids, order, card
  <2>1. GroupsOf(M) = [k \in 1..card |-> GroupsOf(M)[k]]
    BY <1>10
  <2> QED
    BY <1>9, <2>1, LengthOf
<1>12. NamesReadable <=> n <= Len(d)
  <2>1. NamesReadable <=> \A k \in 1..1 : n <= done[k].class_nb
    BY <1>2, <1>4 DEF NamesReadable
  <2>2. NamesReadable <=> n <= done[1].class_nb
    BY <2>1
  <2> QED
    BY <1>6, <2>2
<1> HIDE DEF Ids, order, card
<1>13. ASSUME OneEach(d) PROVE stage' # "fault"
  <2>1. Len(t) = Len(d) /\ IsInjective(t)
    BY <1>2, <1>13, OneEachListsAll DEF t, ListsAll
  <2>2. n = Len(d) /\ Len(d) \in Nat
    BY <1>2, <1>6, <2>1
  <2>3. n <= card
    BY <1>6, <1>9, <1>13
  <2>4. NamesReadable /\ Size <= Len(GroupsOf(M))
    BY <1>3, <1>4, <1>11, <1>12, <2>2, <2>3
  <2> QED
    BY <1>7, <2>4
<1>14. ASSUME stage' = "done", IsInjective(t), NEW nm \in DOMAIN groups'
       PROVE  groups'[nm] = Range(d[nm[1]])
  <2>1. NamesReadable /\ Size <= Len(GroupsOf(M))
    BY <1>7, <1>14
  <2>2. /\ groups' = [x \in Range(JoinNames) |-> GroupsOf(M)[x[1]]]
        /\ n <= Len(d) /\ Len(t) = n /\ OwnClasses(c, n)
    BY <1>4, <1>6, <1>7, <1>9, <1>11, <1>12, <1>14, <2>1
  <2>3. PICK i \in 1..n : nm = [k \in DOMAIN dirs |-> i]
    BY <1>4, <2>2 DEF Range, JoinNames
  <2>4. nm[1] = i
    BY <1>2, <2>3
  <2>5. groups'[nm] = GroupsOf(M)[i]
    BY <1>14, <2>2, <2>4
  <2>6. order = [k \in 1..n |-> k - 1]
    BY <1>3, <1>9, <2>2, InOrderOfAll DEF order
  <2>7. i \in 1..card
    BY <1>3, <1>9, <2>2
  <2>8. groups'[nm] = Ids(i - 1)
    BY <1>10, <2>5, <2>6, <2>7
  <2>9. Ids(i - 1) = Range(d[i])
    <3>1. t = FlattenSeq(d) /\ DOMAIN c = 0..(n - 1)
      BY <1>6 DEF t
    <3>2. IdsIn(t, c, n, i - 1) = Range(d[i])
      BY <1>2, <1>3, <2>2, <3>1, GroupOfOne
    <3> QED
      BY <3>2 DEF Ids
  <2> QED
    BY <2>4, <2>8, <2>9
<1> QED
  BY <1>13, <1>14 DEF d, t

LEMMA GroupInv == ASSUME FrontInv, Group PROVE FrontInv'
<1>1. /\ stage = "group" /\ stage' \in {"done", "fault"}
      /\ UNCHANGED <<dirs, done, ids, clean>>
  BY DEF Group
<1>2. FrontTypeInv' /\ ProgressInv' /\ MadeInv'
  BY <1>1 DEF FrontInv, FrontTypeInv, ProgressInv, MadeInv, Extracting, Extracted
<1>3. SingleGroups'
  BY <1>1, GroupSingle DEF SingleGroups, Listed
<1> QED
  BY <1>2, <1>3 DEF FrontInv

LEMMA FrontNextInv == FrontInv /\ [FrontNext]_frontVars => FrontInv'
<1> SUFFICES ASSUME FrontInv, [FrontNext]_frontVars PROVE FrontInv'
  OBVIOUS
<1>1. CASE UNCHANGED frontVars
  BY <1>1 DEF frontVars, FrontInv, FrontTypeInv, ProgressInv, MadeInv, SingleGroups, Dir
<1>2. CASE FrontNext
  BY <1>2, PrologueInv, GetInv, GetFailsInv, ClosingInv, ParseInv, GroupInv DEF FrontNext
<1> QED
  BY <1>1, <1>2

(* Every state of the front end, whatever its requests, whichever call      *)
(* throws and whatever the heap held, satisfies the inductive invariant.    *)
THEOREM FrontInvariance == FrontSpec => []FrontInv
BY FrontInitInv, FrontNextInv, PTL DEF FrontSpec

(* On zeroed memory, the partition made from a file that lists the objects  *)
(* 0..n-1 once each, in any order and in any lists, has two objects in one  *)
(* class exactly when an attribute value lists both; no lookup in it fails. *)
THEOREM GroupedByValue == FrontSpec => []PartitionByValue
<1>1. ASSUME FrontInv PROVE PartitionByValue
  <2> SUFFICES ASSUME clean PROVE PartitionByValue
    BY DEF PartitionByValue
  <2>1. ASSUME NEW k \in DOMAIN done, ListsAll(dirs[k])
        PROVE  ByValue(done[k].class, dirs[k])
    BY <1>1, <2>1 DEF FrontInv, FrontTypeInv, MadeInv, Made
  <2>2. stage = "fault" => ~(Len(done) < Len(dirs))
    BY <1>1, RequestIs DEF FrontInv, FrontTypeInv, MadeInv
  <2> QED
    BY <2>1, <2>2 DEF PartitionByValue, ByValue
<1> QED
  BY <1>1, FrontInvariance, PTL

(* On zeroed memory, the groups of one directory that lists no id twice are *)
(* its lists if its constructor gets through, as it does when each value    *)
(* has one id of a file that numbers its objects from 0.                    *)
THEOREM SinglesGrouped == FrontSpec => []SingleGroups
<1>1. FrontInv => SingleGroups
  BY DEF FrontInv
<1> QED
  BY <1>1, FrontInvariance, PTL

=============================================================================
