------------------------------ MODULE Selections ------------------------------
(***************************************************************************)
(* Array.prototype.filter, which the stores use for every list they cut    *)
(* down.  SelectSeq takes the condition as an operator, of which the proof *)
(* system knows nothing; this takes the positions that meet the condition, *)
(* so that what it returns can be proved (Operators_proofs).              *)
(***************************************************************************)
EXTENDS Integers, Sequences

(* The elements of seq at the given positions, in their order. *)
SelectAt(seq, positions) ==
    LET upTo[i \in 0..Len(seq)] ==
            IF i = 0 THEN << >>
            ELSE IF i \in positions THEN Append(upTo[i - 1], seq[i])
            ELSE upTo[i - 1]
    IN upTo[Len(seq)]
=============================================================================
