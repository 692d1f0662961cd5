------------------------------ MODULE MCLoader ------------------------------
(***************************************************************************)
(* Model-checking instance of Loader: directories of one csv file of up to  *)
(* four words, and of two entries whose files have at most one.             *)
(***************************************************************************)
EXTENDS Loader, SequencesExt

W(k, w, c) == [kind |-> k, width |-> w, class |-> c]

SomeWords ==
    {W("numeric", 1, 0), W("numeric", 2, 0), W("numeric", 2, 1),
     W("mixed", 1, 1), W("text", 0, 0)}

SomeFiles(n) ==
    {[words |-> s, tail |-> t, missing |-> FALSE] :
        s \in SeqOf(SomeWords, n), t \in BOOLEAN} \cup {NoFile}

Entry(f) == [csv |-> TRUE, file |-> f]
OtherEntry == [csv |-> FALSE, file |-> NoFile]

Opened(e) == [opened |-> TRUE, entries |-> e]

SomeDirectories ==
    {[opened |-> FALSE, entries |-> << >>], Opened(<< >>)}
    \cup {Opened(<<Entry(f)>>) : f \in SomeFiles(4)}
    \cup {Opened(<<e, Entry(f)>>) :
             e \in {OtherEntry} \cup {Entry(g) : g \in SomeFiles(1)}, f \in SomeFiles(1)}

=============================================================================
