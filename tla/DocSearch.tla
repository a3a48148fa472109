------------------------------ MODULE DocSearch ------------------------------
(***************************************************************************)
(* docs/api_reference/search.js: the search of the API documentation, an   *)
(* elasticlunr index (line 2) over one document per documented name.  The  *)
(* tokenizer (line 7) is left out: a text is the sequence of its words,    *)
(* and a word a sequence of letters.  So is the order of the results: of   *)
(* the boosts (36-42) only that none is 0 matters, so that every field     *)
(* counts.                                                                 *)
(***************************************************************************)
EXTENDS Integers, SequencesExt, Inputs

CONSTANTS WordCharacters,   \* what \w stands for: letters, digits, the underscore
          StopWords,    \* what the stop word filter drops
          Stem(_)       \* what the stemmer makes of a word

FieldNames == {"qualname", "fullname", "annotation", "default_value", "signature",
               "bases", "doc"}                                          \* 19-25, 36-42

Standard == {"trimmer", "stopWordFilter", "stemmer"}    \* of a new index: line 2

(* Faulty variant: without line 18.                                        *)
KeptStopWords == Standard \ {"stemmer"}

BuiltPipeline == Standard \ {"stemmer", "stopWordFilter"}       \* 17-18

(* The trimmer strips what is not a word character at both ends, which may *)
(* leave nothing.                                                          *)
Letters(w) == {i \in DOMAIN w : w[i] \in WordCharacters}

Trim(w) ==                                                              \* 2
    IF Letters(w) = {} THEN <<>> ELSE SubSeq(w, Min(Letters(w)), Max(Letters(w)))

(* Pipeline.run(): every word through every function; the filter also      *)
(* drops the empty word.                                                   *)
Run(pipeline, words) ==                                                 \* 2
    LET trimmed == {IF "trimmer" \in pipeline THEN Trim(w) ELSE w : w \in Range(words)}
        kept    == {w \in trimmed : "stopWordFilter" \in pipeline => w \notin StopWords \cup {<<>>}}
    IN {IF "stemmer" \in pipeline THEN Stem(w) ELSE w : w \in kept}

(* addDoc() for every document: which of them have a word in a field.      *)
BuiltIndex(docs) ==                                                     \* 16-30
    [pipeline |-> BuiltPipeline,
     postings |-> UNION {{<<f, w, d.ref>> : w \in Run(BuiltPipeline, d.text[f])} :
                            d \in docs, f \in FieldNames}]

(* The file this script is in brings an index along, which the same steps  *)
(* made ("mirrored", 5 and 15) and which is loaded as it is; else one is   *)
(* built.                                                                  *)
SearchIndex(docs, isPrebuilt) ==                                        \* 9-32
    IF isPrebuilt THEN [pipeline |-> BuiltPipeline, postings |-> BuiltIndex(docs).postings]
    ELSE BuiltIndex(docs)

(* search() with expand: a word of the term stands for all words that      *)
(* start with it, the empty word for none, and one match in one field is   *)
(* enough.                                                                 *)
Search(index, term) ==                                                  \* 34-45
    {p[3] : p \in {q \in index.postings :
                     \E w \in Run(index.pipeline, term) \ {<<>>} : IsPrefix(w, q[2])}}
-----------------------------------------------------------------------------
(* A name is found while one of its words is being typed: any beginning of *)
(* a word of any field finds it, whatever brackets are around or behind    *)
(* the part typed and however common the word is, in the index of the file *)
(* as in one the page builds; and a term of punctuation finds nothing      *)
(* (lines 10-45).                                                          *)
FoundWhileTyping ==
    Calling("search") =>
        LET found == Search(SearchIndex(input.docs, input.isPrebuilt), input.term)
            typed == {j \in DOMAIN input.term : Letters(input.term[j]) # {}}
        IN /\ \A d \in input.docs, f \in FieldNames :
                 (\E i \in DOMAIN d.text[f], j \in typed : IsPrefix(input.term[j], d.text[f][i]))
                     => d.ref \in found
           /\ typed = {} => found = {}
=============================================================================
