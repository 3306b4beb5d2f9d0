------------------------------- MODULE MCParts -------------------------------
(***************************************************************************)
(* The containers and the request parser for TLC, one at a time: only the  *)
(* part that was chosen moves.                                             *)
(*                                                                         *)
(* The parser gets two kinds of input: every text over an alphabet in      *)
(* which it stays in a state at most MaxStays times in all and starts at   *)
(* most MaxLines header lines; and whole requests with up to MaxHeaders    *)
(* header lines.                                                           *)
(***************************************************************************)
EXTENDS PackedVector, QueryHeap, DynamicGraph, RequestParser, SequencesExt, TLC

CONSTANTS Alphabet,    \* the characters of the texts
          MaxStays,    \* bound: characters that leave the state as it is
          MaxLines,    \* bound: header lines of a text
          MaxHeaders   \* bound: header lines of a whole request

ASSUME AlphabetAssumption == Alphabet \subseteq Chars

VARIABLES whole,          \* whether a whole request is fed
          rest,           \* what is left of it
          stays, lines

bounds == <<stays, lines>>
textVars == <<parserVars, whole, rest, bounds>>

Uris == {<<>>, <<"/", "word", ":">>}
Names == {"Connection", "Accept-Encoding", "Referer", "User-Agent", "word"}
FieldValues == {<<>>, <<"SP", "close">>, <<"gzip">>, <<"deflate">>,
                <<"SP", "gzip", "special", "SP", "deflate">>, <<"word", "SP", "foreign">>}
HeaderLines == {<<name, ":">> \o value \o <<CR, LF>> : name \in Names, value \in FieldValues}

Messages ==
    {<<"word", Blank>> \o uri \o <<Blank, "H", "T", "T", "P", "/", "digit", ".", "digit", CR, LF>>
         \o FlattenSeq(fields) \o <<CR, LF>>
     : uri \in Uris, fields \in BoundedSeq(HeaderLines, MaxHeaders)}

TextInit == /\ ParserInit
            /\ stays = 0
            /\ lines = 0
            /\ \/ whole = FALSE /\ rest = <<>>
               \/ whole = TRUE /\ rest \in Messages

FeedAny == /\ ~whole
           /\ \E c \in Alphabet : consume(c)
           /\ stays' = stays + (IF state' = state /\ status' = "indeterminate" THEN 1 ELSE 0)
           /\ lines' = lines + (IF state = "header_line_start" /\ state' = "header_name" THEN 1 ELSE 0)
           /\ stays' <= MaxStays
           /\ lines' <= MaxLines
           /\ UNCHANGED <<whole, rest>>

FeedWhole == /\ whole
             /\ rest # <<>>
             /\ consume(Head(rest))
             /\ rest' = Tail(rest)
             /\ UNCHANGED <<whole, bounds>>
-----------------------------------------------------------------------------
VARIABLE part

(* Two values that differ in every bit *)
SomeValues == {[b \in 0 .. Bits - 1 |-> b % 2 = 0], [b \in 0 .. Bits - 1 |-> b % 2 = 1]}

(* Two nodes that begin their search at the same cell, a third before them *)
SomeHash == (0 :> 1) @@ (1 :> 1) @@ (2 :> 0)

Init == /\ part \in {"vector", "heap", "graph", "parser"}
        /\ VectorInit
        /\ HeapInit /\ (part # "heap" => kind = "array")
        /\ GraphInit /\ (part # "graph" => size = 0)
        /\ TextInit /\ (part # "parser" => ~whole)

Vector == part = "vector" /\ VectorNext /\ UNCHANGED <<part, heapVars, graphVars, textVars>>
Heap == part = "heap" /\ HeapNext /\ UNCHANGED <<part, vectorVars, graphVars, textVars>>
DGraph == part = "graph" /\ GraphNext /\ UNCHANGED <<part, vectorVars, heapVars, textVars>>
Parser == /\ part = "parser" /\ (FeedAny \/ FeedWhole)
          /\ UNCHANGED <<part, vectorVars, heapVars, graphVars>>

Spec == Init /\ [][Vector \/ Heap \/ DGraph \/ Parser]_<<part, vectorVars, heapVars, graphVars, textVars>>

Symmetry == Permutations(Workers)
=============================================================================
