----------------------------- MODULE WordCount -----------------------------
(***************************************************************************)
(* What a job computes: the word count application (wc.go), the way doMap  *)
(* and doReduce (worker.go) split it over files, and mrsequential.go, the  *)
(* program whose output the tests take for the right one.  A text is the   *)
(* sequence of its words, a word is a number, and hash stands for any      *)
(* ihash(key) % NReduce.                                                   *)
(*                                                                         *)
(* A list, of KeyValues or of lines, is a function on the finite set of    *)
(* its positions.  Only a sorted list has them numbered from 1 on: nothing *)
(* before the sort looks at the order, and where an element came from is   *)
(* as good a position as any.                                              *)
(***************************************************************************)
EXTENDS Naturals, FiniteSets, Functions

Map(text) == [k \in DOMAIN text |-> [key |-> text[k], value |-> 1]]
Reduce(key, values) == Cardinality(DOMAIN values)

\* append(..., list...) for all the lists.
Appended(lists) ==
    [p \in UNION {{t} \X DOMAIN lists[t] : t \in DOMAIN lists} |-> lists[p[1]][p[2]]]

\* How often each element occurs in a list.
Occurrences(list) ==
    [e \in Range(list) |-> Cardinality({p \in DOMAIN list : list[p] = e})]

\* sort.Sort(ByKey(kvs)) rearranges the list so that the keys are in order.
InOrder(kvs) == \A i, j \in DOMAIN kvs : i < j => kvs[i].key <= kvs[j].key
ByKey(kvs) ==
    CHOOSE list \in [1 .. Cardinality(DOMAIN kvs) -> Range(kvs)] :
        InOrder(list) /\ Occurrences(list) = Occurrences(kvs)

\* The loops over runs of equal keys: where i stands when a line is printed,
\* the positions from i to j - 1, and the line.
RunStarts(kvs) == {i \in DOMAIN kvs : i = 1 \/ kvs[i - 1].key # kvs[i].key}
Run(kvs, i) ==
    {k \in DOMAIN kvs : k >= i /\ \A m \in i .. k : kvs[m].key = kvs[i].key}
Lines(kvs) ==
    [i \in RunStarts(kvs) |->
        [key   |-> kvs[i].key,
         value |-> Reduce(kvs[i].key, [k \in Run(kvs, i) |-> kvs[k].value])]]

\* The contents of mr-X-Y that doMap writes for a text.
doMap(text, hash, y) ==
    LET kvs == ByKey(Map(text))
    IN  Restrict(kvs, {k \in DOMAIN kvs : hash[kvs[k].key] = y})

\* What doReduce prints for the files it has read.
doReduce(files) == Lines(ByKey(Appended(files)))

mrsequential(texts) ==
    Lines(ByKey(Appended([f \in DOMAIN texts |-> Map(texts[f])])))

\* The files mr-out* together, when the reducer of part y has read mr-t-y for
\* t in the domain of reads[y], which hold the words of input reads[y][t].
Output(reads, texts, hash) ==
    Appended([y \in DOMAIN reads |->
        doReduce([t \in DOMAIN reads[y] |-> doMap(texts[reads[y][t]], hash, y)])])

\* What sort makes of a file tells how often each line occurs, and no more.
Sorted(lines) == Occurrences(lines)
============================================================================
