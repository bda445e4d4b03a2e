-------------------------- MODULE MapReduceOutput --------------------------
(***************************************************************************)
(* What the files of a MapReduce job hold when it is done, for all texts   *)
(* that the inputs may be and every hash function.                         *)
(***************************************************************************)
EXTENDS MapReduce, WordCount

CONSTANTS
    NWord,    \* bound: different words in the texts
    MaxWords  \* bound: words in a text

ASSUME TextAssumption == NWord \in Nat /\ MaxWords \in Nat

Word == 1 .. NWord
Text == UNION {[1 .. n -> Word] : n \in 0 .. MaxWords}

\* The files mr-X-Y in mr-out.Y, and the inputs whose words they hold.
Read(y) == [t \in out[y] |-> tasks[t].file]

OutputIsRight ==
    /\ \A y \in Part : out[y] # Torn
    /\ \A texts \in [Input -> Text] :
          LET right == Sorted(mrsequential(texts))
          IN  \A hash \in [Word -> Part] :
                 Sorted(Output([y \in Part |-> Read(y)], texts, hash)) = right

\* When the job is done and no result was given up, the sorted output is that
\* of mrsequential: test-mr.sh compares the two after a job whose workers crash
\* and are slow.
OutputIsSequential == done /\ lost = {} => OutputIsRight

\* The output of such a job is right if no task was handed out while it was
\* worked on or after it was done: crashes of doMap and doReduce at any point,
\* files left empty in place, abandoned calls and retries on other workers do
\* no harm by themselves.
CleanOutputIsSequential == clean => OutputIsSequential
============================================================================
