------------------------------- MODULE Lists --------------------------------
(***************************************************************************)
(* Two loops over a list: the sum of its numbers, and those of its         *)
(* elements that are of a set, in their order.  They are functions of the  *)
(* position reached, so that theorems can be proved of them by induction   *)
(* on it.                                                                  *)
(***************************************************************************)
EXTENDS Naturals, Sequences

(* sum(...), of a list of numbers.                                         *)
Total(w) ==
    LET upTo[i \in 0 .. Len(w)] == IF i = 0 THEN 0 ELSE upTo[i - 1] + w[i]
    IN  upTo[Len(w)]

(* [x for x in s if x in S].                                               *)
Those(s, S) ==
    LET upTo[i \in 0 .. Len(s)] ==
            IF i = 0 THEN <<>>
            ELSE IF s[i] \in S THEN Append(upTo[i - 1], s[i]) ELSE upTo[i - 1]
    IN  upTo[Len(s)]
=============================================================================
